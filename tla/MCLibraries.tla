---- MODULE MCLibraries ----
(* The libraries, which do not call one another: each behaviour is one of a single library. *)
EXTENDS OrderMatcher, MatchingEvents, MarginManager, LiquidationEngine, SettlementEngine, SealedVault
VARIABLE area
vars == <<matcherVars, emitterVars, marginVars, liquidationVars, settlementVars, vaultVars, area>>

Order(h, side, price, size, time) ==
  [hash |-> h, pair |-> "P", side |-> side, price |-> price, size |-> size, at |-> time]
FourCommitments ==
  {Order("h1", "LONG", 3, 2, 0), Order("h2", "SHORT", 2, 1, 0), Order("h3", "SHORT", 2, 2, 1), Order("h4", "LONG", 1, 1, 1)}

Contract(id, side, size, margin) == [id |-> id, side |-> side, entry |-> 10, size |-> size, margin |-> margin]
LongAndShort == {Contract(1, "LONG", 1, 3), Contract(2, "SHORT", 2, 3)}
LossAndProfit == {-2, 1}

Init ==
  /\ MatcherInit /\ EmitterInit /\ MarginInit /\ LiquidationInit /\ SettlementInit /\ VaultInit
  /\ area \in {"matcher", "emitter", "margin", "liquidation", "settlement", "vault"}

Others(a) ==
  /\ UNCHANGED area
  /\ area = a
  /\ a # "matcher" => UNCHANGED matcherVars
  /\ a # "emitter" => UNCHANGED emitterVars
  /\ a # "margin" => UNCHANGED marginVars
  /\ a # "liquidation" => UNCHANGED liquidationVars
  /\ a # "settlement" => UNCHANGED settlementVars
  /\ a # "vault" => UNCHANGED vaultVars

Next ==
  \/ Others("matcher") /\ MatcherNext
  \/ Others("emitter") /\ EmitterNext
  \/ Others("margin") /\ MarginNext
  \/ Others("liquidation") /\ LiquidationNext
  \/ Others("settlement") /\ SettlementNext
  \/ Others("vault") /\ VaultNext

Spec == Init /\ [][Next]_vars /\ SettlementFairness
====
