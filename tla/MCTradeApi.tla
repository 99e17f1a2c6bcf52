----------------------------- MODULE MCTradeApi -----------------------------
(* Instances of TradeApi for TLC: payload sets and symmetry. *)
EXTENDS TradeApi

Payload(pair, side, price, size) ==
  [pair |-> pair, side |-> side, price |-> price, size |-> size]

\* Two prices: better, equal and worse makers, partial and whole fills.
Mixed == {Payload("ADA", "short", 1, 1), Payload("ADA", "short", 2, 1),
          Payload("ADA", "short", 1, 2), Payload("ADA", "long", 1, 1),
          Payload("ADA", "long", 2, 3)}

\* One price: partial fills, remainders that cross, several crosses at once.
Narrow == {Payload("ADA", "short", 1, 1), Payload("ADA", "short", 1, 2),
           Payload("ADA", "long", 1, 1), Payload("ADA", "long", 1, 3)}

\* Orders whose limits decide who may trade with whom; for Grain = 10 a long
\* is a whole number of the 8th decimal and a bit, which sizeStr rounds off.
Limits == {Payload("ADA", "short", p, 10) : p \in {1, 2}}
            \cup {Payload("ADA", "long", p, 11) : p \in {1, 2}}

\* One long that sweeps several shorts.
Sweeper == {Payload("ADA", "short", 1, 1), Payload("ADA", "long", 1, 3)}

ReqSymmetry == Permutations(Req)
=============================================================================
