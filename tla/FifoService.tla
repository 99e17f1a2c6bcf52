----------------------------- MODULE FifoService -----------------------------
(***************************************************************************)
(* What runExclusiveSettlementAnchor (tradeOrchestrator.ts) promises its   *)
(* callers: calls are served one at a time and in the order they came, and *)
(* how one call ends is no concern of the next.                            *)
(***************************************************************************)
EXTENDS Integers, Sequences

CONSTANT Clients

VARIABLES
  calls,    \* the clients in the order of their calls
  serving,  \* the position being served, as a set of at most one
  served    \* the positions that have been served

vars == <<calls, serving, served>>

Init == calls = <<>> /\ serving = {} /\ served = {}

Request(c) ==
  /\ calls' = Append(calls, c)
  /\ UNCHANGED <<serving, served>>

\* Service begins when nobody is served and all earlier calls have been.
Begin(k) ==
  /\ serving = {}
  /\ k \in DOMAIN calls \ served
  /\ \A j \in 1..k-1 : j \in served
  /\ serving' = {k}
  /\ UNCHANGED <<calls, served>>

End(k) ==
  /\ serving = {k}
  /\ serving' = {}
  /\ served' = served \cup {k}
  /\ UNCHANGED calls

Next == (\E c \in Clients : Request(c)) \/ \E k \in DOMAIN calls : Begin(k) \/ End(k)

Spec == Init /\ [][Next]_vars
=============================================================================
