--------------------------- MODULE OrderTerminal ---------------------------
(***************************************************************************)
(* Terminals of scripts/c3perp-order-terminal.ts: the draft of an order,   *)
(* the local order book that LocalOrderBookManager keeps in the file       *)
(* .local-orderbook.json, and the runs of scripts/trade-adausd-network.ts  *)
(* (command "full"; trade-pipeline-orchestrator.ts builds the same env).   *)
(*                                                                         *)
(* A draft is a model value that stands for its fields and their           *)
(* commitment hash; drafts of one pair only.  The oracle, the dashboard    *)
(* and the prompts are left out, and so is whether the draft's numbers     *)
(* parse.                                                                  *)
(***************************************************************************)
EXTENDS SequencesExt, FiniteSets, Naturals

CONSTANTS Sessions,  \* terminals
          Drafts,    \* orders they compose
          Bids,      \* what C3PERP_BID_ORDER_JSON may be set to, "unset" too
          MaxPosts,  \* posts, clears and runs that are begun, in all
          MaxKills   \* writes that fail or are cut off

\* A draft is no torn file.
ASSUME DraftsAssumption == "torn" \notin Drafts

Modes == {"full-pipeline", "order-only"}  \* MIDNIGHT_RUN_MODE

VARIABLES file,     \* .local-orderbook.json: a sequence of drafts, or torn
          open,     \* terminals that run
          records,  \* what the session has in its book and would write
          seen,     \* seenHashes
          draft,
          trade,    \* what a session's trade-adausd-network process is at
          env,      \* its C3PERP_ORDER_COMMITMENT_HEX
          sealedAs,   \* the commitment Midnight has for this run
          anchoredAs, \* the commitment anchored on Cardano
          bid, mode, \* BID_ORDER_JSON and MIDNIGHT_RUN_MODE of .env
          posts, kills,
          behind    \* history: open terminals whose last write was lost, or over whose file another has written since

terminalVars == <<file, open, records, seen, draft, trade, env, sealedAs, anchoredAs,
                  bid, mode, posts, kills, behind>>
bookVars == <<file, open, records, seen, kills, behind>>
tradeVars == <<trade, env, sealedAs, anchoredAs>>

Nothing == "nothing"
Torn == <<"torn">>

TerminalInit ==
  /\ file = <<>> /\ open = {}
  /\ records = [s \in Sessions |-> <<>>] /\ seen = [s \in Sessions |-> {}]
  /\ draft = [s \in Sessions |-> Nothing]
  /\ trade = [s \in Sessions |-> "idle"]
  /\ env = [s \in Sessions |-> Nothing] /\ sealedAs = env /\ anchoredAs = env
  /\ bid \in Bids /\ mode \in Modes
  /\ posts = 0 /\ kills = 0 /\ behind = {}

-----------------------------------------------------------------------------
(* LocalOrderBookManager.                                                  *)

Valid(f) == IF f = Torn THEN <<>> ELSE f

\* The constructor's load: rows whose hash is seen are skipped, and a file
\* that does not parse counts as empty.
OpenTerminal(s) ==
  /\ s \notin open /\ open' = open \cup {s}
  /\ records' = [records EXCEPT ![s] = Valid(file)]
  /\ seen' = [seen EXCEPT ![s] = ToSet(Valid(file))]
  /\ \E d \in Drafts : draft' = [draft EXCEPT ![s] = d]
  /\ UNCHANGED <<file, tradeVars, bid, mode, posts, kills, behind>>

\* persist: the whole file from the records of session s; errors are ignored.
Persist(s, rs) ==
  \/ file' = rs /\ behind' = open \ {s} /\ UNCHANGED kills
  \/ kills < MaxKills /\ kills' = kills + 1 /\ behind' = behind \cup {s} /\ UNCHANGED file

Prompt(s) == s \in open /\ trade[s] = "idle"

\* Defective: the file is written before the order is among the records.
PostAfterPersist(s) ==
  /\ Prompt(s) /\ posts < MaxPosts /\ posts' = posts + 1
  /\ draft[s] \notin seen[s]
  /\ seen' = [seen EXCEPT ![s] = @ \cup {draft[s]}]
  /\ Persist(s, records[s])
  /\ records' = [records EXCEPT ![s] = Append(@, draft[s])]
  /\ UNCHANGED <<open, draft, tradeVars, bid, mode>>

\* post: refused if this session has seen the commitment.
Post(s) ==
  /\ Prompt(s) /\ posts < MaxPosts /\ posts' = posts + 1
  /\ draft[s] \notin seen[s]
  /\ seen' = [seen EXCEPT ![s] = @ \cup {draft[s]}]
  /\ records' = [records EXCEPT ![s] = Append(@, draft[s])]
  /\ Persist(s, records'[s])
  /\ UNCHANGED <<open, draft, tradeVars, bid, mode>>

\* clearbook.
ClearBook(s) ==
  /\ Prompt(s) /\ posts < MaxPosts /\ posts' = posts + 1
  /\ seen' = [seen EXCEPT ![s] = {}] /\ records' = [records EXCEPT ![s] = <<>>]
  /\ Persist(s, <<>>)
  /\ UNCHANGED <<open, draft, tradeVars, bid, mode>>

\* l, s, set, random, reset, wizard: another draft.
Edit(s) ==
  /\ Prompt(s)
  /\ \E d \in Drafts \ {draft[s]} : draft' = [draft EXCEPT ![s] = d]
  /\ UNCHANGED <<bookVars, tradeVars, bid, mode, posts>>

\* quit, or the terminal is killed at its prompt.
Quit(s) ==
  /\ Prompt(s) /\ open' = open \ {s} /\ behind' = behind \ {s}
  /\ UNCHANGED <<file, records, seen, draft, tradeVars, bid, mode, posts, kills>>

\* The process is killed inside writeFileSync.
KilledWriting(s) ==
  /\ Prompt(s) /\ kills < MaxKills /\ kills' = kills + 1
  /\ file' = Torn /\ open' = open \ {s} /\ behind' = open'
  /\ UNCHANGED <<records, seen, draft, tradeVars, bid, mode, posts>>

-----------------------------------------------------------------------------
(* trade-adausd-network.ts, command "all" with the draft's commitment.     *)

At(s, from, to) == trade[s] = from /\ trade' = [trade EXCEPT ![s] = to]

\* full: the terminal waits for the process; stepOracle comes first.
Full(s) ==
  /\ Prompt(s) /\ posts < MaxPosts /\ posts' = posts + 1
  /\ At(s, "idle", "midnight")
  /\ env' = [env EXCEPT ![s] = draft[s]]
  /\ sealedAs' = [sealedAs EXCEPT ![s] = Nothing]
  /\ anchoredAs' = [anchoredAs EXCEPT ![s] = Nothing]
  /\ UNCHANGED <<bookVars, draft, bid, mode>>

\* Defective: the process keeps the commitment it was started with.
StepMidnightOwnEnv(s) ==
  /\ At(s, "midnight", "cardano")
  /\ mode = "full-pipeline" => bid # "unset"
  /\ sealedAs' = [sealedAs EXCEPT ![s] = IF mode = "full-pipeline" THEN bid ELSE env[s]]
  /\ UNCHANGED <<bookVars, draft, env, anchoredAs, bid, mode, posts>>

\* stepMidnight: the pipeline seals the bid of BID_ORDER_JSON, which becomes
\* the process's commitment; order-only proves the commitment it was given.
StepMidnight(s) ==
  /\ At(s, "midnight", "cardano")
  /\ mode = "full-pipeline" => bid # "unset"
  /\ env' = [env EXCEPT ![s] = IF mode = "full-pipeline" THEN bid ELSE @]
  /\ sealedAs' = [sealedAs EXCEPT ![s] = env'[s]]
  /\ UNCHANGED <<bookVars, draft, anchoredAs, bid, mode, posts>>

\* stepCardano and resolveOrderCommitmentHexForAnchor: C3PERP_ORDER_COMMITMENT_HEX.
StepCardano(s) ==
  /\ At(s, "cardano", "idle")
  /\ anchoredAs' = [anchoredAs EXCEPT ![s] = env[s]]
  /\ UNCHANGED <<bookVars, draft, env, sealedAs, bid, mode, posts>>

\* A step throws (no oracle, no orders in the env, a chain fails): exit code 1.
StepFails(s) ==
  /\ trade[s] # "idle" /\ trade' = [trade EXCEPT ![s] = "idle"]
  /\ UNCHANGED <<bookVars, draft, env, sealedAs, anchoredAs, bid, mode, posts>>

-----------------------------------------------------------------------------
TerminalNext ==
  \E s \in Sessions :
    \/ OpenTerminal(s) \/ Post(s) \/ ClearBook(s) \/ Edit(s) \/ Quit(s) \/ KilledWriting(s)
    \/ Full(s) \/ StepMidnight(s) \/ StepCardano(s) \/ StepFails(s)

TerminalSpec == TerminalInit /\ [][TerminalNext]_terminalVars

-----------------------------------------------------------------------------
(* Properties.                                                             *)

\* local_orderbook.ts: across posts, clears and restarts a commitment is in a
\* session's book at most once.
PostedOnce == \A s \in Sessions : IsInjective(records[s])

\* local_orderbook.ts: a restart shows what the terminal has in its book, clears included, unless its last write was lost
\* or another has written over the file.  What one write has lost the next that goes through brings back; a terminal that
\* quits before loses it (:129), and a torn file loses the whole book (:118).
FileTellsTheBook == \A s \in open \ behind : Valid(file) = records[s]

\* What a terminal shows survives it, but for the writes that the code lets fail in silence, and twice is never shown.
BookSurvives == PostedOnce /\ FileTellsTheBook

\* trade-adausd-network.ts: what a run anchors on Cardano is the commitment
\* that Midnight has sealed in that run, whatever the run was started with.
AnchoredIsSealed == \A s \in Sessions : anchoredAs[s] \in {Nothing, sealedAs[s]}
=============================================================================
