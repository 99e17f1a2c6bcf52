---- MODULE MidnightContracts ----
(***************************************************************************)
(* The five Midnight contracts as compiled to contract/src/managed: what a *)
(* deployment puts on the ledger, and what each circuit makes of it.  A    *)
(* circuit is evaluated on the ledger state s and on a private state; it   *)
(* yields the set of states that it proves, which is empty when one of its *)
(* assertions fails.                                                       *)
(*                                                                         *)
(* A run takes all its private inputs from one environment, so that e      *)
(* stands for its trader secret, preimages, payload, margin and child      *)
(* digests alike.  Hashes are injective: a digest tells what was hashed,   *)
(* and of whose inputs.                                                    *)
(***************************************************************************)

Digest(made, e, f) == [made |-> made, of |-> <<e, f>>]
Blank == Digest("blank", "", "")

Deployed(key, tag) == [key |-> key, tag |-> tag]

OrderDeployed(e) == Deployed(Digest("traderPk", e, e), Blank)
ProveIntentAuthority(s, w) == {x \in {s} : s.key = Digest("traderPk", w, w)}
BindCardanoAnchor(s, w, e) == {[x EXCEPT !.tag = Digest("l1Anchor", e, e)] : x \in ProveIntentAuthority(s, w)}

MatchingDeployed(e) == Deployed(Digest("legs", e, e), Blank)
SealMatchRecord(s, w, e) == {[x EXCEPT !.tag = Digest("match", e, e)] : x \in {y \in {s} : y.key = Digest("legs", w, w)}}

SettlementDeployed(e) == Deployed(Blank, Digest("initial", e, e))
\* combineDigest of a state that has not been stepped
Combined(state, w) == Digest("next", state.of[1], w)
\* The run passes the digest that follows from its own inputs.
StepSettlementDigest(s, w, e) ==
  {[x EXCEPT !.tag = Combined(Digest("initial", e, e), e)] :
     x \in {y \in {s} : y.tag.made = "initial" /\ Combined(y.tag, w) = Combined(Digest("initial", e, e), e)}}

LiquidationDeployed(e) == Deployed(Digest("margin", e, e), Blank)
AttestLiquidation(s, w, e) == {[x EXCEPT !.tag = Digest("breach", w, e)] : x \in {y \in {s} : y.key = Digest("margin", w, w)}}

AggregateDeployed(e) == Deployed(Blank, Digest("initial", e, e))
\* The child digests are not compared with anything.
MergeProofBatch(s, w, e) == {[s EXCEPT !.tag = Digest("root", w, w)]}

Contracts == {"order", "matching", "settlement", "liquidation", "aggregate"}

\* Which transactions a run makes of a contract, in order.
Circuits(c) ==
  CASE c = "order" -> <<"deploy", "proveIntentAuthority", "bindCardanoAnchor">>
    [] c = "matching" -> <<"deploy", "sealMatchRecord">>
    [] c = "settlement" -> <<"deploy", "stepSettlementDigest">>
    [] c = "liquidation" -> <<"deploy", "attestLiquidation">>
    [] c = "aggregate" -> <<"deploy", "mergeProofBatch">>

\* The state that a deployment from environment e writes to the ledger.
Constructed(c, e) ==
  CASE c = "order" -> OrderDeployed(e) [] c = "matching" -> MatchingDeployed(e)
    [] c = "settlement" -> SettlementDeployed(e) [] c = "liquidation" -> LiquidationDeployed(e)
    [] c = "aggregate" -> AggregateDeployed(e)

\* What the circuit makes of s with private state w, called from environment e.
Proved(circuit, s, w, e) ==
  CASE circuit = "proveIntentAuthority" -> ProveIntentAuthority(s, w)
    [] circuit = "bindCardanoAnchor" -> BindCardanoAnchor(s, w, e)
    [] circuit = "sealMatchRecord" -> SealMatchRecord(s, w, e)
    [] circuit = "stepSettlementDigest" -> StepSettlementDigest(s, w, e)
    [] circuit = "attestLiquidation" -> AttestLiquidation(s, w, e)
    [] circuit = "mergeProofBatch" -> MergeProofBatch(s, w, e)

=============================================================================
