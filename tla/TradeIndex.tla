----------------------------- MODULE TradeIndex -----------------------------
(***************************************************************************)
(* .perps-order-index.json (perps-web/server/orderIndex.ts) and those who  *)
(* write it: the trade pipelines (runFullPipelineForBidAsk in index.ts,    *)
(* patchTradeIndex in tradeOrchestrator.ts) and user-l1-complete.          *)
(*                                                                         *)
(* appendPending and updateEntry read the whole file, change one entry and *)
(* write the whole file back, with awaits in between and without a lock.   *)
(* What a pipeline does between its updates is in module TradePipeline;    *)
(* here it gets transaction hashes, one after the other, or fails.         *)
(***************************************************************************)
EXTENDS Integers, SequencesExt

CONSTANTS
  Trades,       \* the pipelines
  Completions,  \* the calls of /api/trade/user-l1-complete
  IndexKinds         \* the kinds of pipelines in use: a subset of AllIndexKinds

AllIndexKinds == {"sequential", "overlapped", "batch", "userpays"}

ASSUME IndexKindsAssumption == IndexKinds \subseteq AllIndexKinds
ASSUME WritersAssumption == Trades \cap Completions = {}

VARIABLES
  index,   \* what a read of the file returns, newest entry first
  file,    \* the bytes behind it: whole, truncated by open, or garbled
  flow,    \* each pipeline's kind
  at,      \* the update each writer is at, or how it ended
  io,      \* where that update awaits
  buf,     \* the store it is about to write
  got,     \* the hashes a pipeline or its completions obtained
  verdict, \* the status each writer decided on and replies
  about    \* the entry each completion read before it waited

indexVars == <<index, file, flow, at, io, buf, got, verdict, about>>

Writers  == Trades \cup Completions
Hashes   == {"bind", "pull", "anchor"}
Statuses == {"pending", "pending_user_l1", "confirmed"}
Entry    == [id : Trades, status : Statuses, has : SUBSET Hashes, error : BOOLEAN]

NewEntry(t) == [id |-> t, status |-> "pending", has |-> {}, error |-> FALSE]

\* The updates of a pipeline in the order of the code.
Updates(k) ==
  CASE k = "sequential" -> <<"append", "log", "bind", "pull", "anchor", "final">>
    [] k = "userpays"   -> <<"append", "log", "bind", "final">>
    [] OTHER            -> <<"append", "log", "bind", "anchor", "final">>

IndexStages == {"new", "append", "log", "bind", "pull", "anchor", "final", "error",
           "visible", "complete", "ok", "failed", "refused"}
Done   == {"new", "ok", "failed", "refused"}

IndexTypeOK ==
  /\ index \in Seq(Entry)
  /\ file \in {"whole", "truncated", "garbled"}
  /\ flow \in [Trades -> AllIndexKinds \cup {"none"}]
  /\ at \in [Writers -> IndexStages]
  /\ io \in [Writers -> {"none", "read", "open", "land"}]
  /\ buf \in [Writers -> Seq(Entry)]
  /\ got \in [Trades -> SUBSET Hashes]
  /\ verdict \in [Writers -> Statuses \cup {"none"}]
  /\ about \in [Completions -> Seq(Entry)]

IndexInit ==
  /\ index = <<>> /\ file = "whole"
  /\ flow = [t \in Trades |-> "none"]
  /\ at = [w \in Writers |-> "new"]
  /\ io = [w \in Writers |-> "none"]
  /\ buf = [w \in Writers |-> <<>>]
  /\ got = [t \in Trades |-> {}]
  /\ verdict = [w \in Writers |-> "none"]
  /\ about = [c \in Completions |-> <<>>]

-----------------------------------------------------------------------------
(* The file.                                                               *)

PlaceOf(store, t) == SelectInSeq(store, LAMBDA e : e.id = t)

\* Defective: the newest entry is taken for the one with the id.
PatchedNewest(store, e) == [store EXCEPT ![1] = e]

\* s.entries[i] = { ...s.entries[i], ...patch }: e is the entry patched.
Patched(store, e) == [store EXCEPT ![PlaceOf(store, e.id)] = e]

\* An update of t's entry to e reads the store; updateEntry does nothing for a
\* missing id.
Update(w, t, e) ==
  /\ io[w] = "read"
  /\ IF PlaceOf(index, t) = 0
     THEN io' = [io EXCEPT ![w] = "none"] /\ UNCHANGED buf
     ELSE /\ io' = [io EXCEPT ![w] = "open"]
          /\ buf' = [buf EXCEPT ![w] = Patched(index, e)]
  /\ UNCHANGED <<index, file, flow, at, got, verdict, about>>

\* fs.writeFile truncates: readers find no JSON, that is, no entries.
OpenFile(w) ==
  /\ io[w] = "open"
  /\ io' = [io EXCEPT ![w] = "land"]
  /\ index' = <<>> /\ file' = "truncated"
  /\ UNCHANGED <<flow, at, buf, got, verdict, about>>

\* The bytes land; over those of an overlapping write a tail may remain.
FileWritten(w) ==
  /\ io[w] = "land"
  /\ io' = [io EXCEPT ![w] = "none"]
  /\ \/ index' = buf[w] /\ file' = "whole"
     \/ /\ file = "garbled" \/ (file = "whole" /\ index # buf[w])
        /\ index' = <<>> /\ file' = "garbled"
  /\ UNCHANGED <<flow, at, buf, got, verdict, about>>

-----------------------------------------------------------------------------
(* Pipelines.                                                              *)

StartUpdate(w, stage) ==
  /\ at' = [at EXCEPT ![w] = stage]
  /\ io' = [io EXCEPT ![w] = "read"]

\* One pipeline at a time, or a chunk of a batch (module TradeApi).
Admit(C, k) ==
  /\ \A t \in Trades : at[t] \in Done
  /\ \A t \in C : at[t] = "new"
  /\ flow' = [t \in Trades |-> IF t \in C THEN k ELSE flow[t]]
  /\ at' = [w \in Writers |-> IF w \in C THEN "append" ELSE at[w]]
  /\ io' = [w \in Writers |-> IF w \in C THEN "read" ELSE io[w]]
  /\ UNCHANGED <<index, file, buf, got, verdict, about>>

\* appendPending: unshift
AppendPending(t) ==
  /\ at[t] = "append" /\ io[t] = "read"
  /\ io' = [io EXCEPT ![t] = "open"]
  /\ buf' = [buf EXCEPT ![t] = <<NewEntry(t)>> \o index]
  /\ UNCHANGED <<index, file, flow, at, got, verdict, about>>

Current(t) == index[PlaceOf(index, t)]

\* What each update of pipeline t makes of its entry e.
Patch(t, e) ==
  CASE at[t] = "log"   -> e
    [] at[t] = "error" -> [e EXCEPT !.error = TRUE]
    [] at[t] = "final" -> [e EXCEPT !.has = @ \cup got[t], !.status = verdict[t]]
    [] OTHER           -> [e EXCEPT !.has = @ \cup got[t]]

UpdateEntry(t) ==
  /\ at[t] \in {"log", "bind", "pull", "anchor", "final", "error"}
  /\ Update(t, t, Patch(t, Current(t)))

\* The update after the one that is done.
GoesOn(t) ==
  LET u == Updates(flow[t])
  IN  u[1 + CHOOSE i \in 1..Len(u) - 1 : u[i] = at[t]]

\* What the pipeline has got before it starts the next update: a bind hash
\* need not be found in the CLI's output; a batch comes with its pull, and an
\* overlapped pull ends before the update.
Obtained(t) ==
  CASE GoesOn(t) = "bind" ->
         {h \cup (IF flow[t] \in {"batch", "overlapped"} THEN {"pull"} ELSE {}) :
            h \in {{}, {"bind"}}}
    [] GoesOn(t) = "pull"   -> {{"pull"}}
    [] GoesOn(t) = "anchor" -> {{"anchor"}}
    [] OTHER               -> {{}}

\* The status the last update sets: confirmed if all hashes are there (and,
\* if required, visible in time), or left to the user.
Verdicts(t, has) ==
  IF flow[t] = "userpays" THEN {"pending_user_l1"}
  ELSE {"pending"} \cup (IF has = Hashes THEN {"confirmed"} ELSE {})

Continue(t) ==
  /\ at[t] \in {"append", "log", "bind", "pull", "anchor"} /\ io[t] = "none"
  /\ StartUpdate(t, GoesOn(t))
  /\ \E h \in Obtained(t) : got' = [got EXCEPT ![t] = @ \cup h]
  /\ IF GoesOn(t) = "final"
     THEN \E s \in Verdicts(t, got[t]) : verdict' = [verdict EXCEPT ![t] = s]
     ELSE UNCHANGED verdict
  /\ UNCHANGED <<index, file, flow, buf, about>>

\* What follows an update may throw, up to the anchor's submit: the catch
\* block notes the error.
Catch(t) ==
  /\ at[t] \in {"append", "log", "bind", "pull"} /\ io[t] = "none"
  /\ ~ (at[t] = "bind" /\ flow[t] = "userpays")
  /\ StartUpdate(t, "error")
  /\ UNCHANGED <<index, file, flow, buf, got, verdict, about>>

Answer(t) ==
  /\ at[t] \in {"final", "error"} /\ io[t] = "none"
  /\ at' = [at EXCEPT ![t] = IF at[t] = "final" THEN "ok" ELSE "failed"]
  /\ UNCHANGED <<index, file, flow, io, buf, got, verdict, about>>

-----------------------------------------------------------------------------
(* POST /api/trade/user-l1-complete                                        *)

Check(c) ==
  /\ at[c] = "new"
  /\ \E t \in Trades :
       LET i == PlaceOf(index, t)
       IN  IF i # 0 /\ index[i].status = "pending_user_l1"
           THEN /\ at' = [at EXCEPT ![c] = "visible"]
                /\ about' = [about EXCEPT ![c] = <<index[i]>>]
           ELSE /\ at' = [at EXCEPT ![c] = "refused"]
                /\ UNCHANGED about
  /\ UNCHANGED <<index, file, flow, io, buf, got, verdict>>

\* The browser's hashes, seen on the ledger or not, and the bind hash of the
\* entry read before the wait.
ConfirmEntry(c) ==
  LET e == about[c][1]
  IN  /\ at[c] = "visible"
      /\ StartUpdate(c, "complete")
      /\ got' = [got EXCEPT ![e.id] = @ \cup {"pull", "anchor"}]
      /\ \E s \in {"pending"} \cup (IF "bind" \in e.has THEN {"confirmed"} ELSE {}) :
           verdict' = [verdict EXCEPT ![c] = s]
      /\ UNCHANGED <<index, file, flow, buf, about>>

Complete(c) ==
  LET t == about[c][1].id
  IN  /\ at[c] = "complete"
      /\ Update(c, t, [Current(t) EXCEPT !.has = @ \cup {"pull", "anchor"},
                                           !.status = verdict[c]])

AnswerCompletion(c) ==
  /\ at[c] = "complete" /\ io[c] = "none"
  /\ at' = [at EXCEPT ![c] = "ok"]
  /\ UNCHANGED <<index, file, flow, io, buf, got, verdict, about>>

-----------------------------------------------------------------------------

Admission ==
  \E k \in IndexKinds, C \in (SUBSET Trades) \ {{}} :
    (k # "batch" => \E t \in Trades : C = {t}) /\ Admit(C, k)

Pipeline(t) ==
  AppendPending(t) \/ UpdateEntry(t) \/ Continue(t) \/ Catch(t) \/ Answer(t)

Completion(c) ==
  Check(c) \/ ConfirmEntry(c) \/ Complete(c) \/ AnswerCompletion(c)

IndexNext ==
  \/ Admission
  \/ \E t \in Trades : Pipeline(t)
  \/ \E c \in Completions : Completion(c)
  \/ \E w \in Writers : OpenFile(w) \/ FileWritten(w)

IndexSpec == IndexInit /\ [][IndexNext]_indexVars

-----------------------------------------------------------------------------
(* Properties.                                                             *)

\* The index may forget but never lies: whatever stale store a writer puts
\* back, an entry only shows hashes its trade has got, an error only if the
\* pipeline has failed, "confirmed" only with its Cardano hashes, if the trade
\* has got all hashes and somebody so decided, and no trade is listed twice.
NeverLies ==
  \A i \in DOMAIN index :
    LET e == index[i]
    IN  /\ e.has \subseteq got[e.id]
        /\ e.error => at[e.id] \in {"error", "failed"}
        /\ e.status = "confirmed" =>
             /\ got[e.id] = Hashes /\ {"pull", "anchor"} \subseteq e.has
             /\ \/ verdict[e.id] = "confirmed"
                \/ \E c \in Completions :
                     verdict[c] = "confirmed" /\ about[c][1].id = e.id
        /\ \A j \in DOMAIN index : index[j].id = e.id => i = j

Quiet == \A w \in Writers : at[w] \in Done

Listed(t, status, error) ==
  \E i \in DOMAIN index :
    /\ index[i].id = t /\ index[i].status = status
    /\ index[i].has = got[t] /\ index[i].error = error

\* Where no chunk was run and no completion accepted, so that updates came one
\* at a time, the index tells what they replied: status, every hash and every failure.
IndexTellsAll ==
  /\ Quiet /\ \A t \in Trades : flow[t] # "batch"
  /\ \A c \in Completions : at[c] \in {"new", "refused"}
  => \A t \in Trades :
    /\ at[t] = "ok" => Listed(t, verdict[t], FALSE)
    /\ at[t] = "failed" => Listed(t, "pending", TRUE)

\* What the index shows is true, and without a race it is the whole truth.
IndexIsTrue == IndexTypeOK /\ NeverLies /\ IndexTellsAll
=============================================================================
