---------------------------- MODULE TradePipeline ----------------------------
(***************************************************************************)
(* The trade pipelines of perps-web/server/tradeOrchestrator.ts            *)
(* (runFullPipelineTrade) and what they leave on the two ledgers: the      *)
(* Midnight CLI with its retries and its time limit, the Charli3 oracle    *)
(* pull, and the settlement anchor behind settlementAnchorGate.            *)
(*                                                                         *)
(* A handler of the API admits one pipeline at a time, or a chunk of a     *)
(* parallel sweep at once (module TradeApi); the trade index the pipelines *)
(* write is in module TradeIndex.  Midnight and Cardano are external: a    *)
(* CLI run may bind its order before it fails, and a submit may reach the  *)
(* ledger although the node answers with an error.                         *)
(***************************************************************************)
EXTENDS AnchorGate, FiniteSets, Functions

CONSTANTS
  Modes,          \* the kinds of pipelines in use: a subset of AllModes
  SplitScript,    \* run-pipeline-split (the default) or run-pipeline
  PoolSize,       \* PERPS_MIDNIGHT_WORKER_POOL_SIZE
  Offset,         \* PERPS_MIDNIGHT_WORKER_OFFSET, PERPS_MIDNIGHT_SPLIT_BASE
  Attempts,       \* C3PERP_MIDNIGHT_RETRIES
  Submits,        \* ANCHOR_SUBMIT_RETRIES
  TimeLimit       \* PERPS_MIDNIGHT_CLI_MAX_MS is not 0

\* sequential: Midnight, then the pull; overlapped: both at once
\* (C3PERP_PARALLEL_MIDNIGHT_CHARLI3_PULL); batch: a chunk of a parallel
\* sweep, pulled for already; reused: a pull of before is named by
\* C3PERP_CHARLI3_PULL_TX_HASH; userpays: the browser does the Cardano part.
AllModes == {"sequential", "overlapped", "batch", "reused", "userpays"}

\* reusePullOk: nothing is pulled by the pipeline itself.
PullReused == {"batch", "reused"}

ASSUME ModesAssumption == Modes \subseteq AllModes
ASSUME SwitchesAssumption == SplitScript \in BOOLEAN /\ TimeLimit \in BOOLEAN
ASSUME SizesAssumption ==
  /\ PoolSize \in Nat \ {0} /\ Offset \in Nat
  /\ Attempts \in Nat \ {0} /\ Submits \in Nat \ {0}

VARIABLES
  mode,        \* each pipeline's kind, chosen when it is admitted
  step,        \* where runFullPipelineTrade is
  cli,         \* the Midnight run of a pipeline: its promise and its process
  pull,        \* the Charli3 pull transaction of a pipeline
  worker,      \* the derive indices the Midnight run uses
  roundRobin,  \* midnightWorkerRoundRobin
  submits,     \* anchor submits tried
  bound,       \* bindCardanoAnchor transactions on Midnight
  anchored     \* settlement anchors on Cardano

vars == <<chain, gate, mode, step, cli, pull, worker, roundRobin, submits,
          bound, anchored>>

Steps    == {"new", "oracle", "midnight", "pull", "gate", "ok", "failed"}
CliState == {"none", "running", "backoff", "exited0", "failed", "orphan", "gone"}
Cli      == [state : CliState, tries : 0..Attempts, bound : BOOLEAN]
Ended    == {"new", "ok", "failed"}
Fresh(n) == [state |-> "running", tries |-> n, bound |-> FALSE]

TypeOK ==
  /\ GateTypeOK
  /\ mode \in [Trades -> AllModes \cup {"none"}]
  /\ step \in [Trades -> Steps]
  /\ cli \in [Trades -> Cli]
  /\ pull \in [Trades -> {"none", "running", "ok", "failed"}]
  /\ worker \in [Trades -> SUBSET Nat]
  /\ roundRobin \in Nat
  /\ submits \in [Trades -> 0..Submits]
  /\ bound \in [Trades -> Nat] /\ anchored \in [Trades -> Nat]

Init ==
  /\ GateInit
  /\ mode = [t \in Trades |-> "none"]
  /\ step = [t \in Trades |-> "new"]
  /\ cli = [t \in Trades |-> [state |-> "none", tries |-> 0, bound |-> FALSE]]
  /\ pull = [t \in Trades |-> "none"]
  /\ worker = [t \in Trades |-> {}]
  /\ roundRobin = 0
  /\ submits = [t \in Trades |-> 0]
  /\ bound = [t \in Trades |-> 0] /\ anchored = [t \in Trades |-> 0]

CliUnchanged     == UNCHANGED <<cli, worker, roundRobin, bound>>
GateUnchanged    == UNCHANGED <<gateVars, submits, anchored>>

-----------------------------------------------------------------------------
(* Admission and the oracle.                                               *)

\* Defective: the pipelines of a chunk are given the same index.
WorkerOfFirst(m, j) ==
  IF SplitScript THEN Offset..Offset + 4
  ELSE IF m = "batch" THEN {Offset} ELSE {Offset + (roundRobin % PoolSize)}

\* The derive indices of the j-th pipeline of a chunk: five wallets from one
\* base for the split script, else an index of its own or the next in turn.
WorkerOf(m, j) ==
  IF SplitScript THEN Offset..Offset + 4
  ELSE IF m = "batch" THEN {Offset + j} ELSE {Offset + (roundRobin % PoolSize)}

\* A handler that owns the API's pipeline starts one, or a chunk of a batch,
\* whose j-th pipeline is the trade t with place[t] = j.
Admit(C, place, m) ==
  /\ \A t \in Trades : step[t] \in Ended
  /\ \A t \in C : step[t] = "new"
  /\ m # "batch" => Cardinality(C) = 1
  /\ mode' = [t \in Trades |-> IF t \in C THEN m ELSE mode[t]]
  /\ step' = [t \in Trades |-> IF t \in C THEN "oracle" ELSE step[t]]
  /\ worker' = [t \in Trades |-> IF t \in C THEN WorkerOf(m, place[t]) ELSE worker[t]]
  /\ roundRobin' = IF m = "batch" THEN roundRobin ELSE roundRobin + 1
  /\ UNCHANGED <<cli, pull, bound>> /\ GateUnchanged

\* getVerifiedIndexPrice throws; a batch has the oracle already.
OracleFails(t) ==
  /\ step[t] = "oracle" /\ mode[t] # "batch"
  /\ step' = [step EXCEPT ![t] = "failed"]
  /\ UNCHANGED <<mode, pull>> /\ CliUnchanged /\ GateUnchanged

\* The oracle is read and the CLI spawned; an overlapped pull starts, too.
StartMidnight(t) ==
  /\ step[t] = "oracle"
  /\ step' = [step EXCEPT ![t] = "midnight"]
  /\ cli' = [cli EXCEPT ![t] = Fresh(1)]
  /\ pull' = [pull EXCEPT ![t] = IF mode[t] = "overlapped" THEN "running" ELSE @]
  /\ UNCHANGED <<mode, worker, roundRobin, bound>> /\ GateUnchanged

-----------------------------------------------------------------------------
(* runMidnightWithRetries: it goes on whatever becomes of its pipeline.    *)

\* The CLI, or what is left of it after a time-out, binds the order.
Bind(t) ==
  /\ cli[t].state \in {"running", "orphan"} /\ ~ cli[t].bound
  /\ cli' = [cli EXCEPT ![t].bound = TRUE]
  /\ bound' = [bound EXCEPT ![t] = @ + 1]
  /\ UNCHANGED <<mode, step, pull, worker, roundRobin>> /\ GateUnchanged

\* Exit code 0: the run has bound the order.
CliSucceeds(t) ==
  /\ cli[t].state = "running" /\ cli[t].bound
  /\ cli' = [cli EXCEPT ![t].state = "exited0"]
  /\ UNCHANGED <<mode, step, pull, worker, roundRobin, bound>> /\ GateUnchanged

\* Another exit code, before or after binding: a pause, or the last attempt.
CliFails(t) ==
  /\ cli[t].state = "running"
  /\ cli' = [cli EXCEPT ![t].state =
               IF cli[t].tries < Attempts THEN "backoff" ELSE "failed"]
  /\ UNCHANGED <<mode, step, pull, worker, roundRobin, bound>> /\ GateUnchanged

CliRetry(t) ==
  /\ cli[t].state = "backoff"
  /\ cli' = [cli EXCEPT ![t] = Fresh(cli[t].tries + 1)]
  /\ UNCHANGED <<mode, step, pull, worker, roundRobin, bound>> /\ GateUnchanged

\* The wall-clock limit: the promise rejects at once, without a retry, while
\* the children of the killed npm process may live on.
CliTimesOut(t) ==
  /\ TimeLimit /\ cli[t].state = "running"
  /\ cli' = [cli EXCEPT ![t].state = "orphan"]
  /\ UNCHANGED <<mode, step, pull, worker, roundRobin, bound>> /\ GateUnchanged

OrphanEnds(t) ==
  /\ cli[t].state = "orphan"
  /\ cli' = [cli EXCEPT ![t].state = "gone"]
  /\ UNCHANGED <<mode, step, pull, worker, roundRobin, bound>> /\ GateUnchanged

-----------------------------------------------------------------------------
(* The rest of runFullPipelineTrade.                                       *)

\* submitCharli3OracleReferenceTx returns a hash or throws.
PullEnds(t) ==
  /\ pull[t] = "running"
  /\ \E s \in {"ok", "failed"} : pull' = [pull EXCEPT ![t] = s]
  /\ UNCHANGED <<mode, step>> /\ CliUnchanged /\ GateUnchanged

\* Midnight first, then a Cardano wallet context and the pull.
StartPull(t) ==
  /\ step[t] = "midnight" /\ mode[t] = "sequential" /\ cli[t].state = "exited0"
  /\ step' = [step EXCEPT ![t] = "pull"]
  /\ pull' = [pull EXCEPT ![t] = "running"]
  /\ UNCHANGED mode /\ CliUnchanged /\ GateUnchanged

\* The browser does the rest: the trade is left pending_user_l1.
LeaveToUser(t) ==
  /\ step[t] = "midnight" /\ mode[t] = "userpays" /\ cli[t].state = "exited0"
  /\ step' = [step EXCEPT ![t] = "ok"]
  /\ UNCHANGED <<mode, pull>> /\ CliUnchanged /\ GateUnchanged

\* Defective: Promise.race, the first of Midnight and the pull is enough.
ReadyOnFirst(t) ==
  \/ step[t] = "midnight" /\ mode[t] \in PullReused /\ cli[t].state = "exited0"
  \/ step[t] = "midnight" /\ mode[t] = "overlapped"
       /\ (cli[t].state = "exited0" \/ pull[t] = "ok")
  \/ step[t] = "pull" /\ pull[t] = "ok"

\* Everything the anchor needs is there; a reused pull skips the pull only.
Ready(t) ==
  \/ step[t] = "midnight" /\ mode[t] \in PullReused /\ cli[t].state = "exited0"
  \/ step[t] = "midnight" /\ mode[t] = "overlapped"
       /\ cli[t].state = "exited0" /\ pull[t] = "ok"
  \/ step[t] = "pull" /\ pull[t] = "ok"

EnterGate(t) ==
  /\ Ready(t)
  /\ Enter(t)
  /\ step' = [step EXCEPT ![t] = "gate"]
  /\ UNCHANGED <<mode, pull, submits, anchored>> /\ CliUnchanged

StartSubmit(k) ==
  /\ Start(k)
  /\ submits' = [submits EXCEPT ![chain[k].by] = 1]
  /\ UNCHANGED <<mode, step, pull, anchored>> /\ CliUnchanged

\* The node takes the transaction, or Blockfrost shows it after all.
SubmitAccepted(k) ==
  /\ Finish(k, "fulfilled")
  /\ anchored' = [anchored EXCEPT ![chain[k].by] = @ + 1]
  /\ UNCHANGED <<mode, step, pull, submits>> /\ CliUnchanged

\* The node's error is final, or the last try is used up; the transaction is
\* not to be seen in time, yet it may be on the ledger.
SubmitFails(k) ==
  /\ Finish(k, "rejected")
  /\ \E n \in {0, 1} : anchored' = [anchored EXCEPT ![chain[k].by] = @ + n]
  /\ UNCHANGED <<mode, step, pull, submits>> /\ CliUnchanged

\* "All inputs are spent": another transaction with an id of its own.
SubmitRetry(k) ==
  LET t == chain[k].by
  IN  /\ chain[k].state = "running" /\ submits[t] < Submits
      /\ submits' = [submits EXCEPT ![t] = @ + 1]
      /\ \E n \in {0, 1} : anchored' = [anchored EXCEPT ![t] = @ + n]
      /\ UNCHANGED <<gateVars, mode, step, pull>> /\ CliUnchanged

\* Defective: the gate's promise is awaited, which swallows a rejection.
AnchorEnded(t, outcome) ==
  \E k \in DOMAIN chain : chain[k].by = t /\ chain[k].state \in Outcomes

AnchorIs(t, outcome) ==
  \E k \in DOMAIN chain : chain[k].by = t /\ chain[k].state = outcome

Succeed(t) ==
  /\ step[t] = "gate" /\ AnchorIs(t, "fulfilled")
  /\ step' = [step EXCEPT ![t] = "ok"]
  /\ UNCHANGED <<mode, pull>> /\ CliUnchanged /\ GateUnchanged

\* Midnight, the pull, the wallet context or the anchor has failed: the
\* pipeline is answered, and whatever still runs for it runs on.
Fail(t) ==
  /\ \/ step[t] = "midnight" /\ cli[t].state \in {"failed", "orphan", "gone"}
     \/ step[t] = "midnight" /\ mode[t] \in PullReused /\ cli[t].state = "exited0"
     \/ step[t] \in {"midnight", "pull"} /\ pull[t] = "failed"
     \/ step[t] = "gate" /\ AnchorIs(t, "rejected")
  /\ step' = [step EXCEPT ![t] = "failed"]
  /\ UNCHANGED <<mode, pull>> /\ CliUnchanged /\ GateUnchanged

-----------------------------------------------------------------------------

\* What the server decides or waits for with a limit of its own.
Advance(t) ==
  \/ OracleFails(t) \/ StartMidnight(t) \/ CliRetry(t) \/ CliTimesOut(t)
  \/ PullEnds(t) \/ StartPull(t) \/ LeaveToUser(t) \/ EnterGate(t)
  \/ Succeed(t) \/ Fail(t)

Submit(k) ==
  StartSubmit(k) \/ SubmitAccepted(k) \/ SubmitFails(k) \/ SubmitRetry(k)

Admission ==
  \E m \in Modes, C \in (SUBSET Trades) \ {{}} :
    \E place \in Bijection(C, 0..Cardinality(C) - 1) :
      Cardinality(C) <= PoolSize /\ Admit(C, place, m)

Next ==
  \/ Admission
  \/ \E t \in Trades :
       \/ Advance(t)
       \/ Bind(t) \/ CliSucceeds(t) \/ CliFails(t) \/ OrphanEnds(t)
  \/ \E k \in DOMAIN chain : Submit(k)

Spec == Init /\ [][Next]_vars

\* Network calls end; the CLI need not, but for the time limit.
Fairness ==
  /\ \A t \in Trades : WF_vars(Advance(t))
  /\ WF_vars(\E k \in DOMAIN chain : Submit(k))

FairSpec == Spec /\ Fairness

-----------------------------------------------------------------------------
(* Properties; OneSubmit and FirstComeFirstServed are those of AnchorGate. *)

\* Nothing is submitted to Cardano before the Midnight run of its trade has
\* ended well and, unless a pull of before is reused, its own oracle pull has
\* been accepted; a pipeline that reuses one never pulls.
AnchoredLast ==
  \A t \in Trades :
    /\ submits[t] > 0 =>
         /\ cli[t].state = "exited0" /\ bound[t] > 0
         /\ mode[t] \notin PullReused => pull[t] = "ok"
    /\ mode[t] \in PullReused => pull[t] = "none"

\* A pipeline that reports success has bound its order on Midnight and has
\* anchored it on Cardano, unless the user is to do that.
SettledOnBothLedgers ==
  \A t \in Trades : step[t] = "ok" =>
    bound[t] > 0 /\ (mode[t] # "userpays" => anchored[t] > 0)

Live(t) == cli[t].state \in {"running", "backoff", "orphan"}

\* Something runs on for a pipeline that has been answered.
LeftOver(t) == step[t] \in Ended /\ (Live(t) \/ pull[t] = "running")

\* What runs on after the reply: the children of a run that hit the time limit,
\* or the one of an overlapped pair whose other one has failed.
LeftOversAreKnown ==
  \A t \in Trades : LeftOver(t) =>
    \/ cli[t].state = "orphan"
    \/ mode[t] = "overlapped" /\ Live(t) /\ pull[t] = "failed"
    \/ mode[t] = "overlapped" /\ pull[t] = "running"
         /\ cli[t].state \in {"failed", "gone"}

\* "distinct midnightDeriveKeyIndex + isolated private state" (index.ts:695):
\* two Midnight runs that are alive share no wallet and no private-state store,
\* unless one is left over, or a chunk uses the split script, whose five wallets
\* override the index of each pipeline.
WorkersApart ==
  \A t, u \in Trades :
    t # u /\ Live(t) /\ Live(u) /\ worker[t] \cap worker[u] # {} =>
      \/ LeftOver(t) \/ LeftOver(u)
      \/ SplitScript /\ mode[t] = "batch" /\ mode[u] = "batch"

\* No two transactions of the server's Cardano wallet are built and submitted
\* at once, but for pulls left over: neither two anchors nor an anchor and a
\* pull race for its UTxOs.
WalletExclusive ==
  Cardinality({t \in Trades : pull[t] = "running" /\ ~ LeftOver(t)})
    + Cardinality(Running) <= 1

\* "One pipeline at a time" (index.ts:59), in every configuration: what runs at
\* once shares no wallet of either ledger, but for the named left-overs and for
\* the chunks of the split script.
WalletsApart == WorkersApart /\ WalletExclusive /\ LeftOversAreKnown

\* Every admitted pipeline ends, though the CLI may hang for ever: the time
\* limit ends its run, and no failed anchor blocks the gate for the others.
PipelinesEnd == \A t \in Trades : step[t] \notin Ended ~> step[t] \in {"ok", "failed"}
=============================================================================
