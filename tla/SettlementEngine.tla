---- MODULE SettlementEngine ----
(***************************************************************************)
(* clearing/settlement_engine.ts over clearing/cardano_connector.ts:       *)
(* batches of matches that are settled one after the other across a sleep  *)
(* and three awaits of the connector, while the engine is started and shut *)
(* down.  A connector is configured or not.                                *)
(***************************************************************************)
EXTENDS Integers, Sequences, FiniteSets

CONSTANTS
  Batches, BatchLen,   \* calls of batchSettle, and the number of matches of each
  MaxStarts, MaxShutdowns  \* bounds: calls of initialize and of shutdown

ASSUME BatchesAssumption == BatchLen \in Nat \ {0} /\ MaxStarts \in Nat /\ MaxShutdowns \in Nat

VARIABLES
  connector,    \* whether config.cardanoConnector is set
  initialized,  \* isInitialized
  lucid,        \* whether the connector has a client
  connecting,   \* number of initialize calls that await createAppLucid
  resuming,     \* initialize and shutdown calls about to resume, first come first served
  at,           \* per batch the place in settleTrade of its current match
  outcomes,     \* per batch how its matches ended, in order: "confirmed", "failed" (refused) or "thrown"
  accepted,     \* history: per batch the matches whose transaction the node has accepted
  mempool, anchored, \* those in its mempool, and those that are on the ledger
  starts, shutdowns,
  late          \* history: per batch the matches confirmed since the engine was last shut down

nodeVars == <<accepted, mempool, anchored>>
settlementVars ==
  <<connector, initialized, lucid, connecting, resuming, at, outcomes, nodeVars, starts, shutdowns, late>>
engineVars == <<initialized, lucid, connecting, resuming, starts, shutdowns>>

Places == {"idle", "call", "sleep", "build", "sign", "submit", "done"}

SettlementInit ==
  /\ connector \in BOOLEAN
  /\ initialized = FALSE /\ lucid = FALSE /\ connecting = 0 /\ resuming = <<>>
  /\ at = [b \in Batches |-> "idle"] /\ outcomes = [b \in Batches |-> <<>>]
  /\ accepted = [b \in Batches |-> {}] /\ mempool = accepted /\ anchored = accepted
  /\ late = [b \in Batches |-> 0]
  /\ starts = 0 /\ shutdowns = 0

-----------------------------------------------------------------------------
\* initialize and shutdown

EngineInitialize ==
  /\ starts < MaxStarts /\ starts' = starts + 1
  /\ \/ /\ connector
        /\ connecting' = connecting + 1
        /\ UNCHANGED initialized
     \/ /\ ~connector
        /\ initialized' = TRUE
        /\ UNCHANGED connecting
  /\ UNCHANGED <<connector, lucid, resuming, at, outcomes, nodeVars, shutdowns, late>>

\* createAppLucid returns: connect() ends, and initialize is next in line.
Connected ==
  /\ connecting > 0 /\ connecting' = connecting - 1
  /\ lucid' = TRUE
  /\ resuming' = Append(resuming, "start")
  /\ UNCHANGED <<connector, initialized, at, outcomes, nodeVars, starts, shutdowns, late>>

ConnectFails ==
  /\ connecting > 0 /\ connecting' = connecting - 1
  /\ UNCHANGED <<connector, initialized, lucid, resuming, at, outcomes, nodeVars, starts, shutdowns, late>>

\* Defective: the flag is cleared before the connector is let go, and not again.
ShutdownFlagFirst ==
  /\ shutdowns < MaxShutdowns /\ shutdowns' = shutdowns + 1
  /\ lucid' = FALSE /\ initialized' = FALSE
  /\ UNCHANGED <<late, connector, connecting, resuming, at, outcomes, nodeVars, starts>>

\* disconnect() runs at once; isInitialized changes when shutdown resumes.
EngineShutdown ==
  /\ shutdowns < MaxShutdowns /\ shutdowns' = shutdowns + 1
  /\ lucid' = FALSE
  /\ resuming' = Append(resuming, "stop")
  /\ UNCHANGED <<late, connector, initialized, connecting, at, outcomes, nodeVars, starts>>

EngineResume ==
  /\ resuming # <<>> /\ resuming' = Tail(resuming)
  /\ initialized' = (Head(resuming) = "start")
  /\ late' = [b \in Batches |-> 0]
  /\ UNCHANGED <<connector, lucid, connecting, at, outcomes, nodeVars, starts, shutdowns>>

-----------------------------------------------------------------------------
\* batchSettle: one settleTrade at a time, each inside a try.

\* The current match of b has ended with outcome o; the loop goes on to the next, if there is one.
Ends(b, o) ==
  /\ outcomes' = [outcomes EXCEPT ![b] = Append(@, o)]
  /\ at' = [at EXCEPT ![b] = IF Len(outcomes[b]) + 1 = BatchLen THEN "done" ELSE "call"]
  /\ late' = [late EXCEPT ![b] = @ + (IF o = "confirmed" /\ ~initialized THEN 1 ELSE 0)]
  /\ UNCHANGED connector

GoesTo(b, place) ==
  /\ at' = [at EXCEPT ![b] = place]
  /\ UNCHANGED <<connector, outcomes, late>>

BatchSettle(b) ==
  /\ at[b] = "idle" /\ GoesTo(b, "call")
  /\ UNCHANGED <<engineVars, nodeVars>>

SettleTrade(b) ==
  /\ at[b] = "call"
  /\ \/ initialized /\ GoesTo(b, "sleep")
     \/ ~initialized /\ Ends(b, "thrown")
  /\ UNCHANGED <<engineVars, nodeVars>>

\* The sleep is over.  Without a connector the match is confirmed; with one the transaction is built.
Awake(b) ==
  /\ at[b] = "sleep"
  /\ \/ ~connector /\ Ends(b, "confirmed")
     \/ connector /\ lucid /\ GoesTo(b, "build")
     \/ connector /\ ~lucid /\ Ends(b, "thrown")
  /\ UNCHANGED <<engineVars, nodeVars>>

\* buildSettlementTx returns or throws; signTransaction is called next, and submitTransaction after it.
Built(b) ==
  /\ at[b] = "build"
  /\ \/ lucid /\ GoesTo(b, "sign")
     \/ Ends(b, "thrown")
  /\ UNCHANGED <<engineVars, nodeVars>>

Signed(b) ==
  /\ at[b] = "sign"
  /\ \/ lucid /\ GoesTo(b, "submit")
     \/ Ends(b, "thrown")
  /\ UNCHANGED <<engineVars, nodeVars>>

\* The transaction of the current match of b gets into the mempool.
Accepted(b) ==
  /\ accepted' = [accepted EXCEPT ![b] = @ \cup {Len(outcomes[b]) + 1}]
  /\ mempool' = [mempool EXCEPT ![b] = @ \cup {Len(outcomes[b]) + 1}]
  /\ UNCHANGED anchored

\* Defective: what the node answered is not looked at.
SubmittedAlways(b) ==
  /\ at[b] = "submit" /\ Ends(b, "confirmed")
  /\ Accepted(b) \/ UNCHANGED nodeVars
  /\ UNCHANGED engineVars

\* The node accepts, and no confirmation is waited for; or the client throws, and the node may have accepted.
Submitted(b) ==
  /\ at[b] = "submit"
  /\ \/ Ends(b, "confirmed") /\ Accepted(b)
     \/ Ends(b, "failed") /\ (Accepted(b) \/ UNCHANGED nodeVars)
  /\ UNCHANGED engineVars

\* The mempool lets a transaction go: into a block, or for good.
Leaves(b, k) ==
  /\ k \in mempool[b] /\ mempool' = [mempool EXCEPT ![b] = @ \ {k}]
  /\ UNCHANGED <<connector, engineVars, at, outcomes, accepted, late>>
Included(b, k) == Leaves(b, k) /\ anchored' = [anchored EXCEPT ![b] = @ \cup {k}]
Dropped(b, k) == Leaves(b, k) /\ UNCHANGED anchored

SettlementNext ==
  \/ EngineInitialize \/ Connected \/ ConnectFails \/ EngineShutdown \/ EngineResume
  \/ \E b \in Batches : BatchSettle(b) \/ SettleTrade(b) \/ Awake(b) \/ Built(b) \/ Signed(b) \/ Submitted(b)
  \/ \E b \in Batches : \E k \in mempool[b] : Included(b, k) \/ Dropped(b, k)

SettlementSpec == SettlementInit /\ [][SettlementNext]_settlementVars
\* Timers fire, and what is awaited returns or throws; nobody has to start or stop the engine.
SettlementFairness ==
  \A b \in Batches : WF_settlementVars(SettleTrade(b) \/ Awake(b) \/ Built(b) \/ Signed(b) \/ Submitted(b))
FairSettlementSpec == SettlementSpec /\ SettlementFairness

-----------------------------------------------------------------------------
\* Places, and as many outcomes as matches that have ended.
SettlementTypeOK ==
  /\ connector \in BOOLEAN /\ initialized \in BOOLEAN /\ lucid \in BOOLEAN
  /\ connecting \in 0..MaxStarts /\ starts \in 0..MaxStarts /\ shutdowns \in 0..MaxShutdowns
  /\ resuming \in Seq({"start", "stop"})
  /\ at \in [Batches -> Places]
  /\ outcomes \in [Batches -> Seq({"confirmed", "failed", "thrown"})]
  /\ accepted \in [Batches -> SUBSET (1..BatchLen)] /\ late \in [Batches -> Nat]
  /\ mempool \in [Batches -> SUBSET (1..BatchLen)] /\ anchored \in [Batches -> SUBSET (1..BatchLen)]

\* How match k of batch b has ended.
Answer(b, k) == IF k \in DOMAIN outcomes[b] THEN outcomes[b][k] ELSE "none"

\* With a connector, "confirmed" says that the node accepted the transaction, and no more: no confirmation is waited for,
\* whatever core/types.ts:59 says of it.  Of a match that is open, or that threw before its submit, the node has nothing,
\* now or later, so that settling it again pays once; of one whose submit failed it may (settlement_engine.ts:83-95).
AnswersAreTrue ==
  \A b \in Batches : \A k \in 1..BatchLen :
    /\ connector /\ Answer(b, k) = "confirmed" => k \in accepted[b]
    /\ k \in accepted[b] \cup mempool[b] \cup anchored[b] => connector /\ Answer(b, k) \in {"confirmed", "failed"}

\* Whoever is initialised and not about to be shut down has a client: a shutdown that meets an initialize does not
\* leave an engine that is on without its connector (settlement_engine.ts:50-55, 181-184).
OnlineIsConnected ==
  connector /\ initialized /\ "stop" \notin {resuming[k] : k \in DOMAIN resuming} => lucid

\* While the engine is off a batch confirms at most the one match it was about: a shutdown does not
\* interrupt what is under way, and nothing new is started (settlement_engine.ts:58, 86-117).
OneLateConfirmation ==
  \A b \in Batches : late[b] <= 1

\* Every batch that was begun ends, whatever the engine and the node do.
BatchesEnd == \A b \in Batches : at[b] = "call" ~> at[b] = "done"

\* A shutdown is clean, whatever it overlaps with.
StopIsClean == [](OnlineIsConnected /\ OneLateConfirmation) /\ BatchesEnd

=============================================================================
