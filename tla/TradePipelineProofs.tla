------------------------ MODULE TradePipelineProofs ------------------------
(***************************************************************************)
(* Theorems about TradePipeline and the AnchorGate it goes through, for    *)
(* any number of trades, any mixture of modes, and any numbers of          *)
(* attempts, submits and workers.                                          *)
(***************************************************************************)
EXTENDS TradePipeline, SequenceTheorems, FiniteSetTheorems, TLAPS

-----------------------------------------------------------------------------
(***************************************************************************)
(* AnchorGate: the promise chain serves one submit at a time, first come   *)
(* first served.                                                           *)
(***************************************************************************)

\* Each call waits for the call before it, and the gate for the last one; if
\* a call has started, all calls before it have ended.
ChainInv ==
  /\ GateTypeOK
  /\ gate = Len(chain)
  /\ \A k \in DOMAIN chain : chain[k].after = k - 1
  /\ \A j, k \in DOMAIN chain :
       j < k /\ chain[k].state # "waiting" => chain[j].state \in Outcomes

\* At the start nobody has called.
LEMMA GateInitInv == GateInit => ChainInv
  BY DEF GateInit, ChainInv, GateTypeOK

\* What a call appends, position by position.
LEMMA EnterAppends ==
  ASSUME ChainInv, NEW t \in Trades, Enter(t)
  PROVE  /\ chain' \in Seq(Call)
         /\ Len(chain') = Len(chain) + 1 /\ DOMAIN chain' = 1..Len(chain) + 1
         /\ DOMAIN chain = 1..Len(chain) /\ Len(chain) \in Nat
         /\ \A k \in 1..Len(chain) : chain'[k] = chain[k]
         /\ chain'[Len(chain) + 1] =
              [by |-> t, after |-> Len(chain), state |-> "waiting"]
<1> DEFINE new == [by |-> t, after |-> gate, state |-> "waiting"]
<1>1. chain \in Seq(Call) /\ gate = Len(chain) /\ gate \in Nat
  BY DEF ChainInv, GateTypeOK
<1>2. new \in Call
  BY <1>1 DEF Call
<1>3. chain' = Append(chain, new)
  BY DEF Enter
<1> HIDE DEF new
<1>4. /\ chain' \in Seq(Call) /\ Len(chain') = Len(chain) + 1
      /\ \A k \in 1..Len(chain) : chain'[k] = chain[k]
      /\ chain'[Len(chain) + 1] = new
  BY <1>1, <1>2, <1>3, AppendProperties
<1> QED BY <1>1, <1>4, LenProperties DEF new

\* A step that only changes one call's state keeps the shape of the chain.
LEMMA StateChanges ==
  ASSUME ChainInv, NEW k \in DOMAIN chain,
         NEW s \in {"waiting", "running"} \cup Outcomes,
         chain' = [chain EXCEPT ![k].state = s]
  PROVE  /\ chain' \in Seq(Call)
         /\ Len(chain') = Len(chain) /\ DOMAIN chain' = DOMAIN chain
         /\ DOMAIN chain = 1..Len(chain) /\ Len(chain) \in Nat
         /\ \A j \in DOMAIN chain :
              /\ chain'[j].by = chain[j].by /\ chain'[j].after = chain[j].after
              /\ chain'[j].state = IF j = k THEN s ELSE chain[j].state
<1>1. chain \in Seq(Call) /\ k \in 1..Len(chain) /\ Len(chain) \in Nat
      /\ DOMAIN chain = 1..Len(chain)
  BY LenProperties DEF ChainInv, GateTypeOK
<1>2. \A j \in 1..Len(chain) : chain[j] \in Call
  BY <1>1, ElementOfSeq
<1>3. [chain[k] EXCEPT !.state = s] \in Call
  BY <1>1, <1>2 DEF Call
<1>4. chain' = [chain EXCEPT ![k] = [chain[k] EXCEPT !.state = s]]
  OBVIOUS
<1>5. chain' \in Seq(Call) /\ Len(chain') = Len(chain)
  BY <1>1, <1>3, <1>4, ExceptSeq
<1> QED BY <1>1, <1>2, <1>4, <1>5 DEF Call

\* Entering, starting and finishing keep the chain in order.
LEMMA GateNextInv == ChainInv /\ [GateNext]_gateVars => ChainInv'
<1> SUFFICES ASSUME ChainInv, [GateNext]_gateVars PROVE ChainInv'
  OBVIOUS
<1>1. CASE UNCHANGED gateVars
  BY <1>1 DEF gateVars, ChainInv, GateTypeOK
<1>2. ASSUME NEW t \in Trades, Enter(t) PROVE ChainInv'
  <2> DEFINE n == Len(chain)
  <2>1. /\ chain' \in Seq(Call)
        /\ Len(chain') = n + 1 /\ DOMAIN chain' = 1..n + 1
        /\ DOMAIN chain = 1..n /\ n \in Nat
        /\ \A k \in 1..n : chain'[k] = chain[k]
        /\ chain'[n + 1] = [by |-> t, after |-> n, state |-> "waiting"]
    BY <1>2, EnterAppends
  <2>2. gate' = n + 1
    BY <1>2 DEF Enter
  <2>3. \A k \in 1..n + 1 : chain'[k].after = k - 1
    <3>1. \A k \in 1..n : chain'[k].after = k - 1
      BY <2>1 DEF ChainInv
    <3>2. chain'[n + 1].after = n
      BY <2>1
    <3> QED BY <2>1, <3>1, <3>2
  <2>4. \A j, k \in 1..n + 1 :
          j < k /\ chain'[k].state # "waiting" => chain'[j].state \in Outcomes
    <3> SUFFICES ASSUME NEW j \in 1..n + 1, NEW k \in 1..n + 1,
                        j < k, chain'[k].state # "waiting"
                 PROVE  chain'[j].state \in Outcomes
      OBVIOUS
    <3>1. chain'[n + 1].state = "waiting"
      BY <2>1
    <3>2. k \in 1..n /\ j \in 1..n
      BY <2>1, <3>1
    <3>3. chain[k].state # "waiting"
      BY <2>1, <3>2
    <3> QED BY <2>1, <3>2, <3>3 DEF ChainInv
  <2> HIDE DEF n
  <2> QED BY <2>1, <2>2, <2>3, <2>4 DEF ChainInv, GateTypeOK
<1>3. ASSUME NEW k \in DOMAIN chain, Start(k) PROVE ChainInv'
  <2>1. gate' = gate /\ chain[k].state = "waiting" /\ Settled(chain[k].after)
        /\ chain' = [chain EXCEPT ![k].state = "running"]
    BY <1>3 DEF Start
  <2>2. \A j \in DOMAIN chain : j < k => chain[j].state \in Outcomes
    <3> SUFFICES ASSUME NEW j \in DOMAIN chain, j < k
                 PROVE  chain[j].state \in Outcomes
      OBVIOUS
    <3>1. DOMAIN chain = 1..Len(chain) /\ Len(chain) \in Nat
      BY LenProperties DEF ChainInv, GateTypeOK
    <3>2. k - 1 \in DOMAIN chain /\ chain[k-1].state \in Outcomes
      BY <2>1, <3>1 DEF ChainInv, Settled
    <3>3. chain[k-1].state # "waiting"
      BY <3>2 DEF Outcomes
    <3> QED BY <3>1, <3>2, <3>3 DEF ChainInv
  <2>3. /\ chain' \in Seq(Call) /\ Len(chain') = Len(chain)
        /\ DOMAIN chain' = DOMAIN chain /\ DOMAIN chain = 1..Len(chain)
        /\ Len(chain) \in Nat
        /\ \A j \in DOMAIN chain :
             /\ chain'[j].after = chain[j].after
             /\ chain'[j].state = IF j = k THEN "running" ELSE chain[j].state
    BY <2>1, StateChanges
  <2>4. \A i, j \in DOMAIN chain :
          i < j /\ chain'[j].state # "waiting" => chain'[i].state \in Outcomes
    <3> SUFFICES ASSUME NEW i \in DOMAIN chain, NEW j \in DOMAIN chain,
                        i < j, chain'[j].state # "waiting"
                 PROVE  chain'[i].state \in Outcomes
      OBVIOUS
    <3>1. chain[i].state \in Outcomes
      BY <2>2, <2>3 DEF ChainInv
    <3>2. i # k
      BY <2>1, <3>1 DEF Outcomes
    <3> QED BY <2>3, <3>1, <3>2
  <2> QED BY <2>1, <2>3, <2>4 DEF ChainInv, GateTypeOK
<1>4. ASSUME NEW k \in DOMAIN chain, NEW o \in Outcomes, Finish(k, o)
      PROVE  ChainInv'
  <2>1. gate' = gate /\ chain[k].state = "running"
        /\ chain' = [chain EXCEPT ![k].state = o]
    BY <1>4 DEF Finish
  <2>2. /\ chain' \in Seq(Call) /\ Len(chain') = Len(chain)
        /\ DOMAIN chain' = DOMAIN chain /\ DOMAIN chain = 1..Len(chain)
        /\ Len(chain) \in Nat
        /\ \A j \in DOMAIN chain :
             /\ chain'[j].after = chain[j].after
             /\ chain'[j].state = IF j = k THEN o ELSE chain[j].state
    BY <2>1, StateChanges
  <2> QED BY <2>1, <2>2 DEF ChainInv, GateTypeOK
<1> QED BY <1>1, <1>2, <1>3, <1>4 DEF GateNext

\* The chain is in order on every behaviour of the gate.
THEOREM GateInductive == GateSpec => []ChainInv
  BY GateInitInv, GateNextInv, PTL DEF GateSpec

\* Two calls in order that both run contradict each other.
LEMMA ChainInvOneSubmit == ChainInv => OneSubmit
<1> SUFFICES ASSUME ChainInv, NEW j \in Running, NEW k \in Running, j # k
             PROVE  FALSE
  BY DEF OneSubmit
<1>1. j \in DOMAIN chain /\ k \in DOMAIN chain
      /\ chain[j].state = "running" /\ chain[k].state = "running"
  BY DEF Running
<1>2. DOMAIN chain = 1..Len(chain) /\ Len(chain) \in Nat
  BY LenProperties DEF ChainInv, GateTypeOK
<1>3. j < k \/ k < j
  BY <1>1, <1>2
<1> QED BY <1>1, <1>3 DEF ChainInv, Outcomes

\* "Serialize settlement-anchor submits": whatever the order of calls and the
\* fate of earlier submits, two anchor submits never run at once.
THEOREM SubmitsExclude == GateSpec => []OneSubmit
  BY GateInductive, ChainInvOneSubmit, PTL

-----------------------------------------------------------------------------
(* The gate implements FifoService.                                        *)

\* An empty chain is a service nobody has called.
LEMMA ServiceInit == GateInit => Service!Init
  BY DEF GateInit, Service!Init, Running

\* Every step of the gate is a step of the service or a stutter.
LEMMA ServiceStep ==
  ChainInv /\ [GateNext]_gateVars => [Service!Next]_Service!vars
<1> SUFFICES ASSUME ChainInv, [GateNext]_gateVars
             PROVE  [Service!Next]_Service!vars
  OBVIOUS
<1> DEFINE calls  == [k \in DOMAIN chain |-> chain[k].by]
           served == {k \in DOMAIN chain : chain[k].state \in Outcomes}
<1>1. CASE UNCHANGED gateVars
  BY <1>1 DEF gateVars, Service!vars, Running
<1>2. ASSUME NEW t \in Trades, Enter(t) PROVE Service!Request(t)
  <2> DEFINE n == Len(chain)
  <2>1. /\ DOMAIN chain' = 1..n + 1 /\ DOMAIN chain = 1..n /\ n \in Nat
        /\ \A k \in 1..n : chain'[k] = chain[k]
        /\ chain'[n + 1] = [by |-> t, after |-> n, state |-> "waiting"]
    BY <1>2, EnterAppends
  <2>2. chain'[n + 1].by = t /\ chain'[n + 1].state = "waiting"
    BY <2>1
  <2>3. calls' = Append(calls, t)
    <3>1. calls' = [k \in 1..n + 1 |-> chain'[k].by]
      BY <2>1
    <3>2. calls \in Seq(Trades) /\ Len(calls) = n
      <4>1. \A k \in 1..n : chain[k].by \in Trades
        <5>1. chain \in Seq(Call)
          BY DEF ChainInv, GateTypeOK
        <5>2. \A k \in 1..n : chain[k] \in Call
          BY <5>1, ElementOfSeq
        <5> QED BY <5>2 DEF Call
      <4> QED BY <2>1, <4>1
    <3>3. /\ Append(calls, t) \in Seq(Trades) /\ Len(Append(calls, t)) = n + 1
          /\ \A k \in 1..n : Append(calls, t)[k] = calls[k]
          /\ Append(calls, t)[n + 1] = t
      <4> HIDE DEF calls, n
      <4> QED BY <3>2, AppendProperties
    <3>4. Append(calls, t) = [k \in 1..n + 1 |-> Append(calls, t)[k]]
      <4> HIDE DEF calls, n
      <4> QED BY <3>3, LenProperties
    <3>5. \A k \in 1..n + 1 : chain'[k].by = Append(calls, t)[k]
      <4>1. \A k \in 1..n : chain'[k].by = Append(calls, t)[k]
        BY <2>1, <3>3
      <4> QED BY <2>1, <2>2, <3>3, <4>1
    <3> QED BY <3>1, <3>4, <3>5
  <2>4. Running' = Running
    BY <2>1, <2>2 DEF Running
  <2>5. served' = served
    BY <2>1, <2>2 DEF Outcomes
  <2> QED BY <2>3, <2>4, <2>5 DEF Service!Request
<1>3. ASSUME NEW k \in DOMAIN chain, Start(k) PROVE Service!Begin(k)
  <2>1. chain[k].state = "waiting" /\ Settled(chain[k].after)
        /\ chain' = [chain EXCEPT ![k].state = "running"]
    BY <1>3 DEF Start
  <2>2. /\ DOMAIN chain' = DOMAIN chain /\ DOMAIN chain = 1..Len(chain)
        /\ Len(chain) \in Nat
        /\ \A j \in DOMAIN chain :
             /\ chain'[j].by = chain[j].by
             /\ chain'[j].state = IF j = k THEN "running" ELSE chain[j].state
    BY <2>1, StateChanges
  <2>3. ChainInv'
    BY GateNextInv
  <2>4. \A j \in DOMAIN chain : j < k => chain[j].state \in Outcomes
    BY <2>1, <2>2, <2>3 DEF ChainInv
  <2>5. \A j \in DOMAIN chain : j > k => chain[j].state = "waiting"
    BY <2>1, <2>2 DEF ChainInv, Outcomes
  <2>6. Running = {} /\ Running' = {k}
    BY <2>1, <2>2, <2>4, <2>5 DEF Running, Outcomes
  <2>7. calls' = calls /\ served' = served
    BY <2>1, <2>2 DEF Outcomes
  <2>8. k \in DOMAIN calls \ served /\ \A j \in 1..k-1 : j \in served
    BY <2>1, <2>2, <2>4 DEF Outcomes
  <2> QED BY <2>6, <2>7, <2>8 DEF Service!Begin
<1>4. ASSUME NEW k \in DOMAIN chain, NEW o \in Outcomes, Finish(k, o)
      PROVE  Service!End(k)
  <2>1. chain[k].state = "running" /\ chain' = [chain EXCEPT ![k].state = o]
    BY <1>4 DEF Finish
  <2>2. /\ DOMAIN chain' = DOMAIN chain
        /\ \A j \in DOMAIN chain :
             /\ chain'[j].by = chain[j].by
             /\ chain'[j].state = IF j = k THEN o ELSE chain[j].state
    BY <2>1, StateChanges
  <2>3. Running = {k}
    BY <2>1, ChainInvOneSubmit DEF OneSubmit, Running
  <2>4. Running' = {}
    BY <2>1, <2>2, <2>3 DEF Running, Outcomes
  <2>5. calls' = calls /\ served' = served \cup {k}
    BY <2>1, <2>2 DEF Outcomes
  <2> QED BY <2>3, <2>4, <2>5 DEF Service!End
<1> QED BY <1>1, <1>2, <1>3, <1>4 DEF GateNext, Service!Next

\* Calls are served one at a time in the order they came, for ever: a failed
\* submit neither blocks the gate nor lets a later call overtake.
THEOREM GateIsFifo == GateSpec => FirstComeFirstServed
  BY GateInductive, ServiceInit, ServiceStep, PTL
     DEF GateSpec, FirstComeFirstServed, Service!Spec

-----------------------------------------------------------------------------
(***************************************************************************)
(* TradePipeline.                                                          *)
(***************************************************************************)

-----------------------------------------------------------------------------
(* The pipelines only use the gate.                                        *)

\* A step of the pipelines enters the gate, starts or ends a submit, or
\* leaves the gate alone.
LEMMA StepsOfGate == [Next]_vars => [GateNext]_gateVars
<1> SUFFICES ASSUME [Next]_vars PROVE [GateNext]_gateVars
  OBVIOUS
<1>1. CASE UNCHANGED vars
  BY <1>1 DEF vars, gateVars
<1>2. CASE Admission
  BY <1>2 DEF Admission, Admit, GateUnchanged
<1>3. ASSUME NEW t \in Trades,
             Advance(t) \/ Bind(t) \/ CliSucceeds(t) \/ CliFails(t) \/ OrphanEnds(t)
      PROVE  Enter(t) \/ UNCHANGED gateVars
  BY <1>3 DEF Advance, OracleFails, StartMidnight, CliRetry, CliTimesOut,
       PullEnds, StartPull, LeaveToUser, EnterGate, Succeed, Fail, Bind,
       CliSucceeds, CliFails, OrphanEnds, GateUnchanged
<1>4. ASSUME NEW k \in DOMAIN chain, Submit(k)
      PROVE  Start(k) \/ (\E o \in Outcomes : Finish(k, o)) \/ UNCHANGED gateVars
  BY <1>4 DEF Submit, StartSubmit, SubmitAccepted, SubmitFails, SubmitRetry, Outcomes
<1> QED BY <1>1, <1>2, <1>3, <1>4 DEF Next, GateNext

\* So the gate of the pipelines behaves as the gate by itself.
LEMMA PipelinesUseGate == Spec => GateSpec
<1>1. Init => GateInit
  BY DEF Init
<1> QED BY <1>1, StepsOfGate, PTL DEF Spec, GateSpec

\* "Serialize settlement-anchor submits so parallel Midnight pipelines do not
\* race": no two pipelines, of one chunk or left over, submit at once.
THEOREM AnchorsExclude == Spec => []OneSubmit
  BY PipelinesUseGate, SubmitsExclude, PTL

\* Pipelines are anchored in the order in which they got to the anchor.
THEOREM AnchorsInOrder == Spec => FirstComeFirstServed
  BY PipelinesUseGate, GateIsFifo, PTL

-----------------------------------------------------------------------------
(* What a pipeline has done when it is where it is.                        *)

\* In the gate and beyond, Midnight and the pull are done and stay done; an
\* anchor that succeeded is on the ledger.
Anchoring(t, k) ==
  /\ step[t] \in {"gate", "ok", "failed"}
  /\ cli[t].state = "exited0"
  /\ mode[t] \notin PullReused => pull[t] = "ok"
  /\ chain[k].state = "fulfilled" => anchored[t] > 0

Fits(t) ==
  /\ cli[t].state = "backoff" => cli[t].tries < Attempts
  /\ cli[t].state = "exited0" => cli[t].bound
  /\ cli[t].bound => bound[t] > 0
  /\ step[t] = "pull" => mode[t] = "sequential" /\ cli[t].state = "exited0"
  /\ step[t] = "new" \/ mode[t] \in PullReused => pull[t] = "none"
  /\ step[t] = "ok" => bound[t] > 0 /\ (mode[t] # "userpays" => anchored[t] > 0)
  /\ submits[t] > 0 => \E k \in DOMAIN chain : chain[k].by = t
  /\ \A k \in DOMAIN chain : chain[k].by = t => Anchoring(t, k)

PInv == TypeOK /\ \A t \in Trades : Fits(t)

\* Pipelines that have not been admitted fit.
LEMMA InitPInv == Init => PInv
<1> SUFFICES ASSUME Init PROVE PInv
  OBVIOUS
<1>1. TypeOK
  BY SizesAssumption DEF Init, GateInit, TypeOK, GateTypeOK, Cli, CliState, Steps
<1>2. ASSUME NEW t \in Trades PROVE Fits(t)
  BY DEF Init, GateInit, Fits
<1> QED BY <1>1, <1>2 DEF PInv

\* Admission only touches pipelines that have done nothing yet.
LEMMA AdmissionPInv == PInv /\ Admission => PInv'
<1> SUFFICES ASSUME PInv, NEW m \in Modes, NEW C \in SUBSET Trades, NEW place,
                    Admit(C, place, m),
                    place \in [C -> Nat]
             PROVE  PInv'
  BY DEF Admission, Bijection, Injection, Surjection
<1>1. TypeOK'
  <2>1. \A t \in C : WorkerOf(m, place[t]) \in SUBSET Nat
    <3> SUFFICES ASSUME NEW t \in C PROVE WorkerOf(m, place[t]) \in SUBSET Nat
      OBVIOUS
    <3>1. Offset \in Nat /\ PoolSize \in Nat \ {0} /\ roundRobin \in Nat
      BY SizesAssumption DEF PInv, TypeOK
    <3>2. place[t] \in Nat
      OBVIOUS
    <3>3. roundRobin % PoolSize \in Nat
      BY <3>1
    <3>4. Offset..Offset + 4 \in SUBSET Nat
      BY <3>1
    <3>5. {Offset + place[t]} \in SUBSET Nat
      BY <3>1, <3>2
    <3>6. {Offset + (roundRobin % PoolSize)} \in SUBSET Nat
      BY <3>1, <3>3
    <3> QED BY <3>4, <3>5, <3>6 DEF WorkerOf
  <2> QED BY <2>1, ModesAssumption
        DEF Admit, GateUnchanged, gateVars, PInv, TypeOK, GateTypeOK, Steps
<1>2. ASSUME NEW t \in Trades PROVE Fits(t)'
  BY DEF Admit, GateUnchanged, gateVars, PInv, Fits, Anchoring, TypeOK
<1> QED BY <1>1, <1>2 DEF PInv

\* The Midnight runs of a pipeline, during it and after.
CliStep(t) ==
  Bind(t) \/ CliSucceeds(t) \/ CliFails(t) \/ CliRetry(t) \/ CliTimesOut(t)
  \/ OrphanEnds(t)

\* They keep what fits: a run that has ended well is not run again.
LEMMA CliPInv ==
  ASSUME PInv, NEW t \in Trades, CliStep(t)
  PROVE  PInv'
<1>1. TypeOK'
  <2>1. cli[t] \in Cli /\ bound[t] \in Nat /\ Attempts \in Nat
    BY SizesAssumption DEF PInv, TypeOK
  <2>2. cli[t].state = "backoff" => cli[t].tries + 1 \in 0..Attempts
    BY <2>1 DEF PInv, Fits, Cli
  <2>3. \E c \in Cli : cli' = [cli EXCEPT ![t] = c]
    <3>1. CASE Bind(t)
      <4>1. cli' = [cli EXCEPT ![t] = [cli[t] EXCEPT !.bound = TRUE]]
        BY <3>1 DEF Bind
      <4>2. [cli[t] EXCEPT !.bound = TRUE] \in Cli
        BY <2>1 DEF Cli
      <4> QED BY <4>1, <4>2
    <3>2. CASE CliRetry(t)
      <4>1. Fresh(cli[t].tries + 1) \in Cli
        BY <2>1, <2>2, <3>2 DEF CliRetry, Fresh, Cli, CliState
      <4> QED BY <3>2, <4>1 DEF CliRetry
    <3>3. CASE CliSucceeds(t) \/ CliFails(t) \/ CliTimesOut(t) \/ OrphanEnds(t)
      <4>1. PICK st \in CliState : cli' = [cli EXCEPT ![t].state = st]
        BY <3>3 DEF CliSucceeds, CliFails, CliTimesOut, OrphanEnds, CliState
      <4>2. cli' = [cli EXCEPT ![t] = [cli[t] EXCEPT !.state = st]]
        BY <4>1
      <4>3. [cli[t] EXCEPT !.state = st] \in Cli
        BY <2>1 DEF Cli
      <4> QED BY <4>2, <4>3
    <3> QED BY <3>1, <3>2, <3>3 DEF CliStep
  <2>4. bound' \in [Trades -> Nat]
    BY <2>1 DEF CliStep, Bind, CliSucceeds, CliFails, CliRetry, CliTimesOut,
         OrphanEnds, PInv, TypeOK
  <2>5. cli' \in [Trades -> Cli]
    BY <2>3 DEF PInv, TypeOK
  <2> QED BY <2>4, <2>5 DEF CliStep, Bind, CliSucceeds, CliFails, CliRetry,
        CliTimesOut, OrphanEnds, PInv, TypeOK, GateTypeOK, GateUnchanged, gateVars
<1>2. ASSUME NEW u \in Trades PROVE Fits(u)'
  <2>1. /\ UNCHANGED <<chain, mode, step, pull, submits, anchored>>
        /\ u # t => cli'[u] = cli[u] /\ bound'[u] = bound[u]
    BY DEF CliStep, Bind, CliSucceeds, CliFails, CliRetry, CliTimesOut,
         OrphanEnds, GateUnchanged, gateVars, PInv, TypeOK
  <2>2. CASE u # t
    BY <2>1, <2>2 DEF PInv, Fits, Anchoring
  <2>3. CASE u = t
    <3>1. cli[t] \in Cli /\ bound[t] \in Nat /\ Fits(t)
      BY DEF PInv, TypeOK
    <3>2. cli[t].state # "exited0"
      BY DEF CliStep, Bind, CliSucceeds, CliFails, CliRetry, CliTimesOut, OrphanEnds
    <3>3. bound'[t] \in Nat /\ bound'[t] >= bound[t]
          /\ (cli'[t].bound => bound'[t] > 0)
          /\ (cli'[t].state = "exited0" => cli'[t].bound)
          /\ (cli'[t].state = "backoff" => cli'[t].tries < Attempts)
      BY <3>1, SizesAssumption
         DEF CliStep, Bind, CliSucceeds, CliFails, CliRetry, CliTimesOut,
             OrphanEnds, PInv, TypeOK, Fits, Fresh, Cli
    <3> QED BY <2>1, <2>3, <3>1, <3>2, <3>3 DEF Fits, Anchoring
  <2> QED BY <2>2, <2>3
<1> QED BY <1>1, <1>2 DEF PInv

\* Steps between the CLI and the gate, and the ends of a pipeline.
FlowStep(t) ==
  OracleFails(t) \/ StartMidnight(t) \/ PullEnds(t) \/ StartPull(t)
  \/ LeaveToUser(t) \/ EnterGate(t) \/ Succeed(t) \/ Fail(t)

\* They keep the types.
LEMMA FlowType ==
  ASSUME PInv, NEW t \in Trades, FlowStep(t)
  PROVE  TypeOK'
<1>1. cli' \in [Trades -> Cli]
  <2>1. Fresh(1) \in Cli
    BY SizesAssumption DEF Fresh, Cli, CliState
  <2>2. cli' = cli \/ cli' = [cli EXCEPT ![t] = Fresh(1)]
    BY DEF FlowStep, OracleFails, StartMidnight, PullEnds, StartPull,
         LeaveToUser, EnterGate, Succeed, Fail, CliUnchanged
  <2> QED BY <2>1, <2>2 DEF PInv, TypeOK
<1>2. step' \in [Trades -> Steps] /\ pull' \in [Trades -> {"none", "running", "ok", "failed"}]
  BY DEF FlowStep, OracleFails, StartMidnight, PullEnds, StartPull, LeaveToUser,
         EnterGate, Succeed, Fail, PInv, TypeOK, Steps
<1>3. GateTypeOK'
  <2>1. CASE EnterGate(t)
    <3>1. [by |-> t, after |-> gate, state |-> "waiting"] \in Call
      BY DEF Call, PInv, TypeOK, GateTypeOK
    <3>2. Len(chain) \in Nat
      BY LenProperties DEF PInv, TypeOK, GateTypeOK
    <3> QED BY <2>1, <3>1, <3>2, AppendProperties
          DEF EnterGate, Enter, PInv, TypeOK, GateTypeOK
  <2>2. CASE ~ EnterGate(t)
    BY <2>2 DEF FlowStep, OracleFails, StartMidnight, PullEnds, StartPull,
       LeaveToUser, Succeed, Fail, GateUnchanged, gateVars, PInv, TypeOK, GateTypeOK
  <2> QED BY <2>1, <2>2
<1>4. UNCHANGED <<mode, worker, roundRobin, submits, bound, anchored>>
  BY DEF FlowStep, OracleFails, StartMidnight, PullEnds, StartPull, LeaveToUser,
         EnterGate, Succeed, Fail, CliUnchanged, GateUnchanged
<1> QED BY <1>1, <1>2, <1>3, <1>4 DEF PInv, TypeOK

\* The pipeline that enters the gate is ready, the others stay as they were.
LEMMA EnterFits ==
  ASSUME PInv, NEW t \in Trades, EnterGate(t), NEW u \in Trades
  PROVE  Fits(u)'
<1> DEFINE n   == Len(chain)
           new == [by |-> t, after |-> gate, state |-> "waiting"]
<1>1. /\ DOMAIN chain = 1..n /\ n \in Nat /\ DOMAIN chain' = 1..n + 1
      /\ \A k \in 1..n : chain'[k] = chain[k]
      /\ chain'[n + 1] = new
  <2>1. chain \in Seq(Call) /\ new \in Call /\ chain' = Append(chain, new)
    BY DEF Call, PInv, TypeOK, GateTypeOK, EnterGate, Enter
  <2> HIDE DEF new
  <2> QED BY <2>1, AppendProperties, LenProperties
<1>2. new.by = t /\ new.state = "waiting"
  OBVIOUS
<1>3. /\ UNCHANGED <<mode, pull, cli, bound, submits, anchored>>
      /\ step' = [step EXCEPT ![t] = "gate"] /\ Ready(t)
  BY DEF EnterGate, CliUnchanged
<1>4. step'[u] = IF u = t THEN "gate" ELSE step[u]
  BY <1>3 DEF PInv, TypeOK
<1>5. Fits(u) /\ Fits(t)
  BY DEF PInv
<1>6. cli[t].state = "exited0" /\ (mode[t] \notin PullReused => pull[t] = "ok")
  BY <1>3, <1>5 DEF Ready, Fits
<1> HIDE DEF new, n
<1>7. ASSUME NEW k \in 1..n + 1, chain'[k].by = u PROVE Anchoring(u, k)'
  <2>1. CASE k = n + 1
    BY <1>1, <1>2, <1>3, <1>4, <1>6, <1>7, <2>1 DEF Anchoring
  <2>2. CASE k \in 1..n
    BY <1>1, <1>3, <1>4, <1>5, <1>7, <2>2 DEF Anchoring, Fits
  <2> QED BY <1>1, <2>1, <2>2
<1>8. submits[u] > 0 => \E k \in 1..n + 1 : chain'[k].by = u
  <2> SUFFICES ASSUME submits[u] > 0 PROVE \E k \in 1..n + 1 : chain'[k].by = u
    OBVIOUS
  <2>1. PICK k \in 1..n : chain[k].by = u
    BY <1>1, <1>5 DEF Fits
  <2> QED BY <1>1, <2>1
<1> QED BY <1>1, <1>3, <1>4, <1>5, <1>7, <1>8 DEF Fits

\* The other steps leave the chain alone.
LEMMA FlowFits ==
  ASSUME PInv, NEW t \in Trades, FlowStep(t), ~ EnterGate(t), NEW u \in Trades
  PROVE  Fits(u)'
<1>1. UNCHANGED <<chain, mode, bound, submits, anchored>>
  BY DEF FlowStep, OracleFails, StartMidnight, PullEnds, StartPull, LeaveToUser,
         Succeed, Fail, CliUnchanged, GateUnchanged, gateVars
<1>2. CASE u # t
  <2>1. step'[u] = step[u] /\ cli'[u] = cli[u] /\ pull'[u] = pull[u]
    BY <1>2 DEF FlowStep, OracleFails, StartMidnight, PullEnds, StartPull,
         LeaveToUser, Succeed, Fail, CliUnchanged, PInv, TypeOK
  <2> QED BY <1>1, <2>1 DEF PInv, Fits, Anchoring
<1>3. Fits(t)'
  <2>1. Fits(t) /\ step \in [Trades -> Steps] /\ cli \in [Trades -> Cli]
        /\ pull \in [Trades -> {"none", "running", "ok", "failed"}]
    BY DEF PInv, TypeOK
  <2>2. CASE StartMidnight(t)
    BY <1>1, <2>1, <2>2 DEF StartMidnight, Fits, Anchoring, Fresh, PullReused
  <2>3. CASE OracleFails(t) \/ StartPull(t) \/ LeaveToUser(t)
    BY <1>1, <2>1, <2>3 DEF OracleFails, StartPull, LeaveToUser, CliUnchanged,
       Fits, Anchoring, PullReused
  <2>4. CASE PullEnds(t)
    BY <1>1, <2>1, <2>4 DEF PullEnds, CliUnchanged, Fits, Anchoring
  <2>5. CASE Succeed(t)
    BY <1>1, <2>1, <2>5 DEF Succeed, AnchorIs, CliUnchanged, Fits, Anchoring
  <2>6. CASE Fail(t)
    BY <1>1, <2>1, <2>6 DEF Fail, CliUnchanged, Fits, Anchoring
  <2> QED BY <2>2, <2>3, <2>4, <2>5, <2>6 DEF FlowStep
<1> QED BY <1>2, <1>3

\* A submit only starts, ends or is repeated for a call in the chain.
LEMMA SubmitPInv ==
  ASSUME PInv, NEW k \in DOMAIN chain, Submit(k)
  PROVE  PInv'
<1> DEFINE t == chain[k].by
<1>1. /\ chain \in Seq(Call) /\ DOMAIN chain = 1..Len(chain)
      /\ chain[k] \in Call /\ t \in Trades
  <2>1. chain \in Seq(Call)
    BY DEF PInv, TypeOK, GateTypeOK
  <2>2. DOMAIN chain = 1..Len(chain)
    BY <2>1, LenProperties
  <2>3. chain[k] \in Call
    BY <2>1, <2>2, ElementOfSeq
  <2> QED BY <2>1, <2>2, <2>3 DEF Call
<1>2. \E s \in {"waiting", "running"} \cup Outcomes :
        /\ chain' = [chain EXCEPT ![k].state = s]
        /\ s = "fulfilled" => anchored'[t] > 0
  <2>1. CASE StartSubmit(k)
    <3>1. chain' = [chain EXCEPT ![k].state = "running"]
      BY <2>1 DEF StartSubmit, Start
    <3>2. "running" # "fulfilled"
      OBVIOUS
    <3> WITNESS "running" \in {"waiting", "running"} \cup Outcomes
    <3> QED BY <3>1, <3>2
  <2>2. CASE SubmitAccepted(k)
    <3>1. anchored' = [anchored EXCEPT ![t] = anchored[t] + 1]
          /\ anchored \in [Trades -> Nat]
      BY <2>2 DEF SubmitAccepted, PInv, TypeOK
    <3>2. anchored'[t] > 0
      <4> HIDE DEF t
      <4> QED BY <1>1, <3>1
    <3> QED BY <2>2, <3>2 DEF SubmitAccepted, Finish, Outcomes
  <2>3. CASE SubmitFails(k)
    <3>1. chain' = [chain EXCEPT ![k].state = "rejected"]
      BY <2>3 DEF SubmitFails, Finish
    <3>2. "rejected" # "fulfilled" /\ "rejected" \in Outcomes
      BY DEF Outcomes
    <3> QED BY <3>1, <3>2
  <2>4. CASE SubmitRetry(k)
    <3>1. chain' = chain /\ chain[k].state = "running"
      BY <2>4 DEF SubmitRetry, gateVars
    <3>2. chain = [chain EXCEPT ![k].state = "running"]
      BY <1>1, <3>1 DEF Call
    <3> QED BY <3>1, <3>2
  <2> QED BY <2>1, <2>2, <2>3, <2>4 DEF Submit
<1>3. PICK s \in {"waiting", "running"} \cup Outcomes :
        /\ chain' = [chain EXCEPT ![k].state = s]
        /\ s = "fulfilled" => anchored'[t] > 0
  BY <1>2
<1>4. /\ chain' \in Seq(Call) /\ DOMAIN chain' = DOMAIN chain
      /\ \A j \in DOMAIN chain :
           /\ chain'[j].by = chain[j].by
           /\ chain'[j].state = IF j = k THEN s ELSE chain[j].state
  <2>1. [chain[k] EXCEPT !.state = s] \in Call
    BY <1>1 DEF Call
  <2>2. chain' = [chain EXCEPT ![k] = [chain[k] EXCEPT !.state = s]]
    BY <1>3
  <2>3. chain' \in Seq(Call) /\ Len(chain') = Len(chain)
    BY <1>1, <2>1, <2>2, ExceptSeq
  <2> QED BY <1>1, <2>1, <2>2, <2>3 DEF Call
<1>5. /\ UNCHANGED <<mode, step, pull, cli, worker, roundRobin, bound>>
      /\ gate' = gate
  BY DEF Submit, StartSubmit, Start, SubmitAccepted, SubmitFails, Finish,
         SubmitRetry, CliUnchanged, gateVars
<1>6. /\ anchored' \in [Trades -> Nat]
      /\ \A u \in Trades : anchored'[u] >= anchored[u]
  <2>1. \E n \in {0, 1} :
          anchored' = anchored \/ anchored' = [anchored EXCEPT ![t] = anchored[t] + n]
    BY DEF Submit, StartSubmit, SubmitAccepted, SubmitFails, SubmitRetry
  <2>2. anchored \in [Trades -> Nat]
    BY DEF PInv, TypeOK
  <2> HIDE DEF t
  <2> QED BY <1>1, <2>1, <2>2
<1>7. /\ submits' \in [Trades -> 0..Submits]
      /\ \A u \in Trades : u # t => submits'[u] = submits[u]
  <2>1. submits \in [Trades -> 0..Submits] /\ Submits \in Nat \ {0}
    BY SizesAssumption DEF PInv, TypeOK
  <2>2. \/ submits' = submits \/ submits' = [submits EXCEPT ![t] = 1]
        \/ submits[t] < Submits /\ submits' = [submits EXCEPT ![t] = submits[t] + 1]
    BY DEF Submit, StartSubmit, SubmitAccepted, SubmitFails, SubmitRetry
  <2> HIDE DEF t
  <2> QED BY <1>1, <2>1, <2>2
<1> HIDE DEF t
<1>8. TypeOK'
  BY <1>4, <1>5, <1>6, <1>7 DEF PInv, TypeOK, GateTypeOK
<1>9. ASSUME NEW u \in Trades PROVE Fits(u)'
  <2>1. Fits(u) /\ anchored[u] \in Nat /\ anchored'[u] \in Nat
        /\ anchored'[u] >= anchored[u]
    BY <1>6 DEF PInv, TypeOK
  <2>2. ASSUME NEW j \in DOMAIN chain, chain'[j].by = u PROVE Anchoring(u, j)'
    BY <1>3, <1>4, <1>5, <2>1, <2>2 DEF Fits, Anchoring, t
  <2>3. submits'[u] > 0 => \E j \in DOMAIN chain : chain'[j].by = u
    BY <1>4, <1>7, <2>1 DEF Fits, t
  <2> QED BY <1>4, <1>5, <2>1, <2>2, <2>3 DEF Fits
<1> QED BY <1>8, <1>9 DEF PInv

\* Every step keeps the invariant.
LEMMA NextPInv == PInv /\ [Next]_vars => PInv'
<1> SUFFICES ASSUME PInv, [Next]_vars PROVE PInv'
  OBVIOUS
<1>1. CASE UNCHANGED vars
  BY <1>1 DEF vars, PInv, TypeOK, GateTypeOK, Fits, Anchoring
<1>2. CASE Admission
  BY <1>2, AdmissionPInv
<1>3. ASSUME NEW t \in Trades, CliStep(t) PROVE PInv'
  BY <1>3, CliPInv
<1>4. ASSUME NEW t \in Trades, FlowStep(t) PROVE PInv'
  BY <1>4, FlowType, EnterFits, FlowFits DEF PInv
<1>5. ASSUME NEW k \in DOMAIN chain, Submit(k) PROVE PInv'
  BY <1>5, SubmitPInv
<1> QED BY <1>1, <1>2, <1>3, <1>4, <1>5 DEF Next, Advance, CliStep, FlowStep

\* Type correctness, with what each pipeline has done where it is.
THEOREM PipelineInductive == Spec => []PInv
  BY InitPInv, NextPInv, PTL DEF Spec

\* All variables keep their types; attempts and submits keep their limits.
THEOREM PipelineTypeCorrect == Spec => []TypeOK
<1>1. PInv => TypeOK
  BY DEF PInv
<1> QED BY <1>1, PipelineInductive, PTL

\* Nothing is submitted to Cardano for a trade before its Midnight run has
\* ended well and its pull is accepted, however the two interleave, unless a pull
\* of before is reused.
THEOREM CardanoComesLast == Spec => []AnchoredLast
<1>1. PInv => AnchoredLast
  BY DEF PInv, TypeOK, Fits, Anchoring, AnchoredLast
<1> QED BY <1>1, PipelineInductive, PTL

\* A pipeline that replies success has settled on both ledgers, through any
\* retries, time-outs and failures of its own or of others.
THEOREM SuccessIsSettled == Spec => []SettledOnBothLedgers
<1>1. PInv => SettledOnBothLedgers
  BY DEF PInv, Fits, SettledOnBothLedgers
<1> QED BY <1>1, PipelineInductive, PTL

-----------------------------------------------------------------------------
(* Wallets.  What runs for a pipeline, it waits for, but for what is left    *)
(* over by the time limit or by the failure of one of an overlapped pair.   *)

Busy(t) == step[t] \notin Ended

\* The pull of a pipeline, and its run of the CLI, belong to a step that waits
\* for them, or have outlived an overlapped pipeline.
Placed(t) ==
  /\ step[t] \in {"new", "oracle"} => cli[t].state = "none"
  /\ step[t] \in {"new", "oracle"} => pull[t] = "none"
  /\ step[t] = "midnight" /\ mode[t] # "overlapped" => pull[t] = "none"
  /\ pull[t] = "running" =>
       \/ step[t] = "pull"
       \/ mode[t] = "overlapped" /\ step[t] = "midnight"
       \/ /\ mode[t] = "overlapped" /\ step[t] = "failed"
          /\ cli[t].state \in {"failed", "orphan", "gone"}
  /\ cli[t].state \in {"running", "backoff"} =>
       \/ step[t] = "midnight"
       \/ mode[t] = "overlapped" /\ step[t] = "failed" /\ pull[t] = "failed"
  /\ \A k \in DOMAIN chain :
       chain[k].by = t /\ chain[k].state \notin Outcomes => step[t] = "gate"

\* Pipelines run beside each other in a chunk only, which has workers enough.
Chunked(t, u) ==
  Busy(t) /\ Busy(u) =>
    /\ mode[t] = "batch" /\ mode[u] = "batch"
    /\ ~ SplitScript => worker[t] \cap worker[u] = {}

\* A pipeline gets to the anchor once.
CalledOnce == \A j, k \in DOMAIN chain : chain[j].by = chain[k].by => j = k

ApartInv ==
  /\ PInv /\ CalledOnce
  /\ \A t \in Trades : Placed(t)
  /\ \A t, u \in Trades : t # u => Chunked(t, u)

\* Pipelines that have not been admitted are apart.
LEMMA InitApart == Init => ApartInv
<1> SUFFICES ASSUME Init PROVE ApartInv
  OBVIOUS
<1>1. PInv
  BY InitPInv
<1> QED BY <1>1 DEF Init, GateInit, ApartInv, CalledOnce, Placed, Chunked, Busy, Ended

\* One pipeline is admitted, or a chunk whose workers differ.
LEMMA AdmissionApart ==
  ASSUME ApartInv, Admission
  PROVE  ApartInv'
<1>1. PICK m \in Modes, C \in (SUBSET Trades) \ {{}} :
        \E place \in Bijection(C, 0..Cardinality(C) - 1) : Admit(C, place, m)
  BY DEF Admission
<1>2. PICK place \in Bijection(C, 0..Cardinality(C) - 1) : Admit(C, place, m)
  BY <1>1
<1>3. /\ place \in [C -> 0..Cardinality(C) - 1]
      /\ \A t, u \in C : place[t] = place[u] => t = u
  BY <1>2 DEF Bijection, Injection, Surjection, IsInjective
<1>4. PInv'
  BY AdmissionPInv DEF ApartInv
<1>5. UNCHANGED <<chain, cli, pull>>
  BY <1>2 DEF Admit, GateUnchanged, gateVars
<1>6. ASSUME NEW t \in Trades
      PROVE  /\ step[t] \in Ended /\ (t \in C => step[t] = "new")
             /\ step'[t] = IF t \in C THEN "oracle" ELSE step[t]
             /\ mode'[t] = IF t \in C THEN m ELSE mode[t]
             /\ worker'[t] = IF t \in C THEN WorkerOf(m, place[t]) ELSE worker[t]
  BY <1>2 DEF Admit
<1>7. ASSUME NEW t \in Trades PROVE Placed(t)'
  BY <1>5, <1>6 DEF ApartInv, Placed
<1>8. ASSUME NEW t \in Trades, NEW u \in Trades, t # u PROVE Chunked(t, u)'
  <2> SUFFICES ASSUME Busy(t)', Busy(u)'
               PROVE  /\ mode'[t] = "batch" /\ mode'[u] = "batch"
                      /\ ~ SplitScript => worker'[t] \cap worker'[u] = {}
    BY DEF Chunked
  <2>1. t \in C /\ u \in C
    BY <1>6 DEF Busy
  <2>2. m = "batch"
    <3> SUFFICES ASSUME m # "batch" PROVE FALSE
      OBVIOUS
    <3>1. Cardinality(C) = 1
      BY <1>2 DEF Admit
    <3>2. place[t] = 0 /\ place[u] = 0
      BY <1>3, <2>1, <3>1
    <3> QED BY <1>3, <1>8, <2>1, <3>2
  <2>3. ASSUME ~ SplitScript PROVE worker'[t] \cap worker'[u] = {}
    <3> DEFINE i == place[t]
               j == place[u]
    <3>1. worker'[t] = {Offset + i} /\ worker'[u] = {Offset + j}
      BY <1>6, <2>1, <2>2, <2>3 DEF WorkerOf
    <3>2. i \in 0..Cardinality(C) - 1 /\ j \in 0..Cardinality(C) - 1 /\ i # j
      BY <1>3, <1>8, <2>1
    <3>3. Offset \in Nat /\ i \in Int /\ j \in Int
      BY <3>2, SizesAssumption
    <3> HIDE DEF i, j
    <3>4. Offset + i # Offset + j
      BY <3>2, <3>3
    <3> QED BY <3>1, <3>4
  <2> QED BY <1>6, <2>1, <2>2, <2>3
<1>9. CalledOnce'
  BY <1>5 DEF ApartInv, CalledOnce
<1> QED BY <1>4, <1>7, <1>8, <1>9 DEF ApartInv

\* Runs of the CLI go on where their pipeline waits for them.
LEMMA CliApart ==
  ASSUME ApartInv, NEW t \in Trades, CliStep(t)
  PROVE  ApartInv'
<1>1. PInv'
  BY CliPInv DEF ApartInv
<1>2. UNCHANGED <<chain, mode, step, pull, worker>>
  BY DEF CliStep, Bind, CliSucceeds, CliFails, CliRetry, CliTimesOut, OrphanEnds,
         GateUnchanged, gateVars
<1>3. ASSUME NEW u \in Trades PROVE Placed(u)'
  <2>1. cli \in [Trades -> Cli] /\ Placed(u)
    BY DEF ApartInv, PInv, TypeOK
  <2>2. \/ cli'[u].state = cli[u].state
        \/ cli[u].state \in {"running", "backoff", "orphan"}
           /\ cli'[u].state \in {"running", "backoff", "exited0", "failed", "orphan", "gone"}
           /\ (cli'[u].state \in {"running", "backoff"} => cli[u].state \in {"running", "backoff"})
           /\ (cli[u].state = "orphan" => cli'[u].state \in {"orphan", "gone"})
    BY <2>1 DEF CliStep, Bind, CliSucceeds, CliFails, CliRetry, CliTimesOut,
         OrphanEnds, Fresh, Cli
  <2> QED BY <1>2, <2>1, <2>2 DEF Placed
<1> QED BY <1>1, <1>2, <1>3 DEF ApartInv, CalledOnce, Chunked, Busy

\* The other steps of a pipeline: it begins to wait before what it waits for
\* begins, and ends when that has ended.
LEMMA FlowApart ==
  ASSUME ApartInv, NEW t \in Trades, FlowStep(t), ~ EnterGate(t)
  PROVE  ApartInv'
<1>1. PInv'
  BY FlowType, FlowFits DEF ApartInv, PInv
<1>2. UNCHANGED <<chain, mode, worker>>
  BY DEF FlowStep, OracleFails, StartMidnight, PullEnds, StartPull, LeaveToUser,
         Succeed, Fail, CliUnchanged, GateUnchanged, gateVars
<1>3. step \in [Trades -> Steps] /\ cli \in [Trades -> Cli]
      /\ pull \in [Trades -> {"none", "running", "ok", "failed"}]
  BY DEF ApartInv, PInv, TypeOK
<1>4. /\ \A u \in Trades \ {t} : step'[u] = step[u] /\ cli'[u] = cli[u] /\ pull'[u] = pull[u]
      /\ step[t] \in Ended => step'[t] = step[t]
  BY <1>3 DEF FlowStep, OracleFails, StartMidnight, PullEnds, StartPull, LeaveToUser,
         Succeed, Fail, CliUnchanged, Ended, ApartInv, Placed
<1>5. Placed(t)'
  <2>1. Placed(t) /\ Fits(t)
    BY DEF ApartInv, PInv
  <2>2. CASE OracleFails(t)
    BY <1>2, <1>3, <2>1, <2>2 DEF OracleFails, CliUnchanged, Placed
  <2>3. CASE StartMidnight(t)
    BY <1>2, <1>3, <2>1, <2>3 DEF StartMidnight, Fresh, Placed
  <2>4. CASE PullEnds(t)
    BY <1>2, <1>3, <2>1, <2>4 DEF PullEnds, CliUnchanged, Placed
  <2>5. CASE StartPull(t) \/ LeaveToUser(t)
    BY <1>2, <1>3, <2>1, <2>5 DEF StartPull, LeaveToUser, CliUnchanged, Placed
  <2>6. CASE Succeed(t) \/ Fail(t)
    <3>1. UNCHANGED <<cli, pull>> /\ step' = [step EXCEPT ![t] = step'[t]]
          /\ step'[t] \in {"ok", "failed"}
      BY <1>3, <2>6 DEF Succeed, Fail, CliUnchanged
    <3>2. \A k \in DOMAIN chain : chain[k].by = t => chain[k].state \in Outcomes
      <4>1. ASSUME NEW k \in DOMAIN chain, chain[k].by = t, chain[k].state \notin Outcomes
            PROVE  FALSE
        <5>1. step[t] = "gate"
          BY <2>1, <4>1 DEF Placed
        <5>2. \E j \in DOMAIN chain : chain[j].by = t /\ chain[j].state \in Outcomes
          BY <2>6, <5>1 DEF Succeed, Fail, AnchorIs, Outcomes
        <5> QED BY <4>1, <5>2 DEF ApartInv, CalledOnce
      <4> QED BY <4>1
    <3>3. pull[t] = "running" =>
            /\ mode[t] = "overlapped" /\ step'[t] = "failed"
            /\ cli[t].state \in {"failed", "orphan", "gone"}
      BY <1>3, <2>1, <2>6 DEF Succeed, Fail, AnchorIs, Placed, PullReused, Fits, Anchoring
    <3>4. cli[t].state \in {"running", "backoff"} =>
            mode[t] = "overlapped" /\ step'[t] = "failed" /\ pull[t] = "failed"
      BY <1>3, <2>1, <2>6 DEF Succeed, Fail, AnchorIs, Placed, PullReused, Fits, Anchoring
    <3> QED BY <1>2, <2>1, <3>1, <3>2, <3>3, <3>4 DEF Placed
  <2> QED BY <2>2, <2>3, <2>4, <2>5, <2>6 DEF FlowStep
<1>6. ASSUME NEW u \in Trades PROVE Placed(u)'
  <2>1. CASE u = t
    BY <1>5, <2>1
  <2>2. CASE u # t
    BY <1>2, <1>4, <2>2 DEF ApartInv, Placed
  <2> QED BY <2>1, <2>2
<1>7. ASSUME NEW u \in Trades, NEW v \in Trades, u # v PROVE Chunked(u, v)'
  <2>1. Chunked(u, v) /\ (Busy(u)' => Busy(u)) /\ (Busy(v)' => Busy(v))
    BY <1>4, <1>7 DEF ApartInv, Busy
  <2> QED BY <1>2, <2>1 DEF Chunked
<1> QED BY <1>1, <1>2, <1>6, <1>7 DEF ApartInv, CalledOnce

\* A pipeline that enters the gate has not called it before.
LEMMA EnterApart ==
  ASSUME ApartInv, NEW t \in Trades, EnterGate(t)
  PROVE  ApartInv'
<1>1. PInv'
  BY FlowType, EnterFits DEF ApartInv, PInv, FlowStep
<1> DEFINE n   == Len(chain)
           new == [by |-> t, after |-> gate, state |-> "waiting"]
<1>2. /\ DOMAIN chain = 1..n /\ n \in Nat /\ DOMAIN chain' = 1..n + 1
      /\ \A k \in 1..n : chain'[k] = chain[k]
      /\ chain'[n + 1] = new
  <2>1. chain \in Seq(Call) /\ new \in Call /\ chain' = Append(chain, new)
    BY DEF Call, ApartInv, PInv, TypeOK, GateTypeOK, EnterGate, Enter
  <2> HIDE DEF new
  <2> QED BY <2>1, AppendProperties, LenProperties
<1>3. new.by = t /\ new.state = "waiting"
  OBVIOUS
<1>4. /\ UNCHANGED <<mode, pull, cli, worker>> /\ Ready(t)
      /\ step' = [step EXCEPT ![t] = "gate"] /\ step \in [Trades -> Steps]
  BY DEF EnterGate, CliUnchanged, ApartInv, PInv, TypeOK
<1>5. step[t] \in {"midnight", "pull"} /\ cli[t].state = "exited0" /\ pull[t] # "running"
  BY <1>4 DEF Ready, ApartInv, PInv, Fits, Placed
<1> HIDE DEF n, new
<1>6. \A k \in 1..n : chain[k].by # t
  BY <1>2, <1>5 DEF ApartInv, PInv, Fits, Anchoring
<1>7. CalledOnce'
  BY <1>2, <1>3, <1>6 DEF ApartInv, CalledOnce
<1>8. ASSUME NEW u \in Trades PROVE Placed(u)'
  <2>1. CASE u = t
    BY <1>2, <1>4, <1>5, <2>1 DEF ApartInv, Placed
  <2>2. CASE u # t
    BY <1>2, <1>3, <1>4, <2>2 DEF ApartInv, Placed
  <2> QED BY <2>1, <2>2
<1>9. ASSUME NEW u \in Trades, NEW v \in Trades, u # v PROVE Chunked(u, v)'
  <2>1. Chunked(u, v) /\ (Busy(u)' => Busy(u)) /\ (Busy(v)' => Busy(v))
    BY <1>4, <1>5, <1>9 DEF ApartInv, Busy, Ended
  <2> QED BY <1>4, <2>1 DEF Chunked
<1> QED BY <1>1, <1>7, <1>8, <1>9 DEF ApartInv

\* A submit moves its own call only.
LEMMA SubmitApart ==
  ASSUME ApartInv, NEW k \in DOMAIN chain, Submit(k)
  PROVE  ApartInv'
<1>1. PInv'
  BY SubmitPInv DEF ApartInv
<1>2. chain \in Seq(Call)
  BY DEF ApartInv, PInv, TypeOK, GateTypeOK
<1>3. UNCHANGED <<mode, step, pull, cli, worker>>
  BY DEF Submit, StartSubmit, SubmitAccepted, SubmitFails, SubmitRetry, CliUnchanged
<1>4. /\ chain[k].state \notin Outcomes
      /\ chain' = chain \/ \E s \in {"running"} \cup Outcomes : chain' = [chain EXCEPT ![k].state = s]
  BY DEF Submit, StartSubmit, Start, SubmitAccepted, SubmitFails, Finish, SubmitRetry,
         Outcomes, gateVars
<1>5. /\ DOMAIN chain' = DOMAIN chain
      /\ \A j \in DOMAIN chain : /\ chain'[j].by = chain[j].by
                                 /\ chain'[j].state \notin Outcomes => chain[j].state \notin Outcomes
  <2>1. CASE chain' = chain
    BY <2>1
  <2>2. CASE \E s \in {"running"} \cup Outcomes : chain' = [chain EXCEPT ![k].state = s]
    <3>1. PICK s \in {"running"} \cup Outcomes : chain' = [chain EXCEPT ![k].state = s]
      BY <2>2
    <3>2. \A j \in DOMAIN chain : chain[j] \in Call
      BY <1>2, ElementOfSeq, LenProperties
    <3> QED BY <1>4, <3>1, <3>2 DEF Call
  <2> QED BY <1>4, <2>1, <2>2
<1> QED BY <1>1, <1>3, <1>5 DEF ApartInv, CalledOnce, Placed, Chunked, Busy

\* Every step keeps pipelines apart.
LEMMA NextApart ==
  ASSUME ApartInv, [Next]_vars
  PROVE  ApartInv'
<1>1. CASE UNCHANGED vars
  <2>1. PInv'
    BY <1>1, NextPInv DEF ApartInv
  <2> QED BY <1>1, <2>1 DEF vars, ApartInv, CalledOnce, Placed, Chunked, Busy
<1>2. CASE Admission
  BY <1>2, AdmissionApart
<1>3. ASSUME NEW t \in Trades, CliStep(t) PROVE ApartInv'
  BY <1>3, CliApart
<1>4. ASSUME NEW t \in Trades, FlowStep(t) PROVE ApartInv'
  BY <1>4, FlowApart, EnterApart
<1>5. ASSUME NEW k \in DOMAIN chain, Submit(k) PROVE ApartInv'
  BY <1>5, SubmitApart
<1> QED BY <1>1, <1>2, <1>3, <1>4, <1>5 DEF Next, Advance, CliStep, FlowStep

\* Everything that runs for a pipeline is waited for by it or left over, and
\* pipelines that run at once are of a chunk.
THEOREM ApartInductive == Spec => []ApartInv
  BY InitApart, NextApart, PTL DEF Spec

\* A set whose members are all the same has at most one.
LEMMA AtMostOne ==
  ASSUME NEW S, \A x, y \in S : x = y
  PROVE  S = {} \/ \E x : S = {x}
OBVIOUS

\* The server's Cardano wallet: no two of its transactions are built and
\* submitted at once, whatever fails, but for the pulls an overlapped pipeline
\* leaves over.
THEOREM CardanoWalletExclusive == Spec => []WalletExclusive
<1>1. ApartInv /\ OneSubmit => WalletExclusive
  <2> SUFFICES ASSUME ApartInv, OneSubmit PROVE WalletExclusive
    OBVIOUS
  <2> DEFINE P == {t \in Trades : pull[t] = "running" /\ ~ LeftOver(t)}
  <2>1. \A t \in P : step[t] \in {"midnight", "pull"} /\ Busy(t) /\ mode[t] # "batch"
    <3> SUFFICES ASSUME NEW t \in P
                 PROVE  step[t] \in {"midnight", "pull"} /\ Busy(t) /\ mode[t] # "batch"
      OBVIOUS
    <3>1. pull[t] = "running" /\ Busy(t) /\ Placed(t) /\ Fits(t)
      BY DEF LeftOver, Busy, ApartInv, PInv
    <3> QED BY <3>1 DEF Placed, Fits, Busy, Ended
  <2>2. \A t, u \in P : t = u
    BY <2>1 DEF ApartInv, Chunked
  <2>3. P = {} \/ Running = {}
    <3> SUFFICES ASSUME NEW t \in P, NEW k \in Running PROVE FALSE
      OBVIOUS
    <3>1. k \in DOMAIN chain /\ chain[k].state = "running" /\ chain[k].by \in Trades
      <4>1. chain \in Seq(Call)
        BY DEF ApartInv, PInv, TypeOK, GateTypeOK
      <4>2. k \in 1..Len(chain) /\ chain[k].state = "running"
        BY <4>1, LenProperties DEF Running
      <4>3. chain[k] \in Call
        BY <4>1, <4>2, ElementOfSeq
      <4> QED BY <4>2, <4>3 DEF Running, Call
    <3>2. step[chain[k].by] = "gate"
      BY <3>1 DEF ApartInv, Placed, Outcomes
    <3> QED BY <2>1, <3>1, <3>2 DEF ApartInv, Chunked, Busy, Ended
  <2> HIDE DEF P
  <2>4. P = {} \/ \E t : P = {t}
    BY <2>2, AtMostOne
  <2>5. Running = {} \/ \E k : Running = {k}
    BY AtMostOne DEF OneSubmit
  <2>6. Cardinality(P) + Cardinality(Running) <= 1
    <3>1. Cardinality({}) = 0
      BY FS_EmptySet
    <3>2. Cardinality(P) \in {0, 1} /\ Cardinality(Running) \in {0, 1}
      <4>1. \A x : Cardinality({x}) = 1
        BY FS_Singleton
      <4> QED BY <2>4, <2>5, <3>1, <4>1
    <3> QED BY <2>3, <3>1, <3>2
  <2> QED BY <2>6 DEF P, WalletExclusive
<1> QED BY <1>1, ApartInductive, AnchorsExclude, PTL

\* index.ts:59 and :695, in every configuration: no wallet of either ledger is
\* shared by what runs at once, but for the left-overs of the time limit and of
\* overlapped pipelines, and the chunks of the split script.
THEOREM WalletsStayApart == Spec => []WalletsApart
<1>1. ApartInv => WorkersApart
  <2> SUFFICES ASSUME ApartInv, NEW t \in Trades, NEW u \in Trades, t # u,
                      Live(t), Live(u), ~ LeftOver(t), ~ LeftOver(u),
                      worker[t] \cap worker[u] # {}
               PROVE  SplitScript /\ mode[t] = "batch" /\ mode[u] = "batch"
    BY DEF WorkersApart
  <2>1. Busy(t) /\ Busy(u)
    BY DEF LeftOver, Busy
  <2> QED BY <2>1 DEF ApartInv, Chunked
<1>2. ApartInv => LeftOversAreKnown
  <2> SUFFICES ASSUME ApartInv, NEW t \in Trades, LeftOver(t), cli[t].state # "orphan"
               PROVE  \/ mode[t] = "overlapped" /\ Live(t) /\ pull[t] = "failed"
                      \/ mode[t] = "overlapped" /\ pull[t] = "running"
                           /\ cli[t].state \in {"failed", "gone"}
    BY DEF LeftOversAreKnown
  <2>1. Placed(t)
    BY DEF ApartInv
  <2> QED BY <2>1 DEF Placed, LeftOver, Live, Ended
<1> QED BY <1>1, <1>2, ApartInductive, CardanoWalletExclusive, PTL DEF WalletsApart

=============================================================================
