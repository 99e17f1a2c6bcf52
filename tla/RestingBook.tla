---------------------------- MODULE RestingBook ----------------------------
(***************************************************************************)
(* The matching rules of perps-web/server/restingBook.ts as operators on   *)
(* one version of the resting book: a sequence of resting orders in the    *)
(* order of the JSON array.                                                *)
(*                                                                         *)
(* Prices are integers (ticks).  Sizes are integers, too, Grain of them to *)
(* the 1e-8 that sizeStr keeps: the size of a request may be finer than    *)
(* what the book can write.  The 1e-12 tolerances are below any of these.  *)
(* Margin, leverage and nonce do not take part in matching and are left    *)
(* out.  An order is identified by the request it rests for: a request     *)
(* adds at most one order (addRestingFromPayload), so that id stands for   *)
(* the random UUID.  "at" stands for createdAt.                            *)
(***************************************************************************)
EXTENDS Integers, SequencesExt

CONSTANT Grain  \* size units to one unit of the 8th decimal

ASSUME GrainAssumption == Grain \in Nat \ {0}

Sides == {"long", "short"}

Opposite(side) == IF side = "long" THEN "short" ELSE "long"

\* Price p is strictly better than q for whoever trades against "side".
Better(side, p, q) == IF side = "short" THEN p < q ELSE p > q

-----------------------------------------------------------------------------
(* matchAndConsume: a taker [pair, side, price, size] against the book.    *)

\* Defective: the price limit is not compared.
EligibleAtAnyPrice(b, t) ==
  {i \in DOMAIN b : b[i].pair = t.pair /\ b[i].side = Opposite(t.side)}

\* pickMakerForTaker, the two "continue" filters: positions a taker may hit.
Eligible(b, t) ==
  {i \in DOMAIN b : /\ b[i].pair = t.pair
                    /\ b[i].side = Opposite(t.side)
                    /\ ~ Better(b[i].side, t.price, b[i].price)}

\* pickMakerForTaker: best price, and on a tie the first in the array.
Makers(b, t) ==
  {i \in Eligible(b, t) :
     \A j \in Eligible(b, t) \ {i} :
        \/ Better(b[i].side, b[i].price, b[j].price)
        \/ b[i].price = b[j].price /\ i < j}

\* Defective: the larger of the two sizes is filled.
LargerOf(m, n) == IF m < n THEN n ELSE m

Smaller(m, n) == IF m < n THEN m ELSE n

\* sizeStr: toFixed(8), the nearest multiple of Grain, which may be 0.
SizeStr(q) == Grain * ((2 * q + Grain) \div (2 * Grain))

\* matchAndConsume, fillQty > 0: the maker, unless it rests with size "0".
Matches(b, t) == {i \in Makers(b, t) : b[i].size > 0}

\* Defective: a partial fill leaves the maker's size as it was.
ConsumeWholeOnly(b, i, q) == IF q = b[i].size THEN RemoveAt(b, i) ELSE b

\* The order at i after q of it has been filled in place, or without it.
Consume(b, i, q) ==
  IF q = b[i].size THEN RemoveAt(b, i)
                   ELSE [b EXCEPT ![i].size = SizeStr(@ - q)]

\* The execution of request r as taker of maker order m: maker's price.
TakerFill(r, t, m) ==
  [long  |-> IF t.side = "long" THEN r ELSE m.id,
   short |-> IF t.side = "long" THEN m.id ELSE r,
   price |-> m.price,
   qty   |-> SizeStr(Smaller(t.size, m.size))]

-----------------------------------------------------------------------------
(* matchRestingCrossOnce: the best bid against the best ask of the book.   *)

\* pickBestLongAndShort: best price, then oldest, then first in the array.
Bests(b, pair, side) ==
  LET S == {i \in DOMAIN b : b[i].pair = pair /\ b[i].side = side}
  IN  {i \in S : \A j \in S \ {i} :
         \/ Better(side, b[i].price, b[j].price)
         \/ /\ b[i].price = b[j].price
            /\ \/ b[i].at < b[j].at
               \/ b[i].at = b[j].at /\ i < j}

\* The pair of positions that crosses, if the book is crossed and neither of
\* the two rests with size "0".
Crosses(b, pair) ==
  {x \in Bests(b, pair, "long") \X Bests(b, pair, "short") :
     /\ b[x[1]].price >= b[x[2]].price
     /\ b[x[1]].size > 0 /\ b[x[2]].size > 0}

\* The execution of a resting cross: the ask's price.
CrossFill(long, short) ==
  [long |-> long.id, short |-> short.id,
   price |-> short.price, qty |-> SizeStr(Smaller(long.size, short.size))]

\* What is left of an order after q, as zero or one order to push.
Rest(o, q) ==
  IF o.size > q THEN <<[o EXCEPT !.size = SizeStr(@ - q)]>> ELSE <<>>

\* Defective: only the long side's remainder is pushed.
CrossDropsShort(b, l, s) ==
  LET q      == Smaller(b[l].size, b[s].size)
      others == IF l < s THEN RemoveAt(RemoveAt(b, s), l)
                         ELSE RemoveAt(RemoveAt(b, l), s)
  IN  others \o Rest(b[l], q)

\* Both orders leave their places; what is left of them is pushed at the end.
Cross(b, l, s) ==
  LET q      == Smaller(b[l].size, b[s].size)
      others == IF l < s THEN RemoveAt(RemoveAt(b, s), l)
                         ELSE RemoveAt(RemoveAt(b, l), s)
  IN  others \o Rest(b[l], q) \o Rest(b[s], q)

\* getRestingBookSummary.crossed: best bid at or above best ask.
Crossed(b, pair) ==
  \E i, j \in DOMAIN b :
     /\ b[i].pair = pair /\ b[i].side = "long"
     /\ b[j].pair = pair /\ b[j].side = "short"
     /\ b[i].price >= b[j].price
=============================================================================
