----------------------------- MODULE AnchorGate -----------------------------
(***************************************************************************)
(* settlementAnchorGate of perps-web/server/tradeOrchestrator.ts: a chain  *)
(* of promises that serializes the settlement-anchor submits of pipelines  *)
(* running in parallel.                                                    *)
(*                                                                         *)
(* Promise k is the gate the k-th call left behind; promise 0 is the       *)
(* Promise.resolved() of the module's start.  A promise reaction runs some *)
(* time after its promise settles, so starting fn is a step of its own.    *)
(***************************************************************************)
EXTENDS Integers, Sequences

CONSTANT Trades     \* the pipelines that call runExclusiveSettlementAnchor

VARIABLES
  chain,  \* the calls so far: who called, after which promise, how far it is
  gate    \* settlementAnchorGate: the promise the next call waits for

gateVars == <<chain, gate>>

Outcomes == {"fulfilled", "rejected"}
Call     == [by : Trades, after : Nat, state : {"waiting", "running"} \cup Outcomes]

GateTypeOK == chain \in Seq(Call) /\ gate \in Nat

GateInit == chain = <<>> /\ gate = 0

\* gate.then(fn, fn): fn runs however the promise before has settled.
Settled(k) == k # 0 => chain[k].state \in Outcomes

\* run = gate.then(fn, fn); gate = run.then(ignore, ignore), in one go.
Enter(t) ==
  /\ chain' = Append(chain, [by |-> t, after |-> gate, state |-> "waiting"])
  /\ gate' = Len(chain) + 1

\* Defective: gate.then(fn), which skips fn after a rejected submit.
StartAfterSuccess(k) ==
  /\ chain[k].state = "waiting"
  /\ chain[k].after # 0 => chain[chain[k].after].state = "fulfilled"
  /\ chain' = [chain EXCEPT ![k].state = "running"]
  /\ UNCHANGED gate

\* Defective: any waiting submit begins when none is running.
StartWhenFree(k) ==
  /\ chain[k].state = "waiting"
  /\ \A j \in DOMAIN chain : chain[j].state # "running"
  /\ chain' = [chain EXCEPT ![k].state = "running"]
  /\ UNCHANGED gate

\* fn, the submit, begins.
Start(k) ==
  /\ chain[k].state = "waiting"
  /\ Settled(chain[k].after)
  /\ chain' = [chain EXCEPT ![k].state = "running"]
  /\ UNCHANGED gate

\* The submit ends, well or badly.
Finish(k, outcome) ==
  /\ chain[k].state = "running"
  /\ chain' = [chain EXCEPT ![k].state = outcome]
  /\ UNCHANGED gate

GateNext ==
  \/ \E t \in Trades : Enter(t)
  \/ \E k \in DOMAIN chain : Start(k) \/ \E o \in Outcomes : Finish(k, o)

GateSpec == GateInit /\ [][GateNext]_gateVars

Running == {k \in DOMAIN chain : chain[k].state = "running"}

-----------------------------------------------------------------------------

\* "Serialize settlement-anchor submits" (tradeOrchestrator.ts): two anchor
\* submits never run at once, whatever became of the ones before.
OneSubmit == \A j, k \in Running : j = k

\* The chain implements a first-come, first-served service of one at a time.
Service ==
  INSTANCE FifoService WITH
    Clients <- Trades,
    calls   <- [k \in DOMAIN chain |-> chain[k].by],
    serving <- Running,
    served  <- {k \in DOMAIN chain : chain[k].state \in Outcomes}

\* Submits run one at a time in the order of the calls; a failed submit does
\* not keep the next one from running, nor let two run.
FirstComeFirstServed == Service!Spec
=============================================================================
