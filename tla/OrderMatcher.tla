---- MODULE OrderMatcher ----
(***************************************************************************)
(* book/order_matcher.ts and the PrivateOrderBook it keeps                 *)
(* (book/order_book.ts).  Every method runs to its end at once, except     *)
(* submitOrder: it awaits the validation of the proofs, and the promises   *)
(* of several submits resume in the order of the calls.                    *)
(***************************************************************************)
EXTENDS Integers, Sequences, SequencesExt, FiniteSetsExt

CONSTANTS
  Requests,      \* what is submitted: commitment hash, pair, side, price, size, commitment time
  MinOrderSize,  \* config.minOrderSize
  MaxRounds,     \* config.maxOrdersPerRound
  Ttl,           \* DEFAULT_ORDER_TTL_MS
  MaxCalls,      \* bound: calls of submitOrder
  MaxTime,       \* bound: the clock
  MaxStops       \* bound: shutdowns

ASSUME RequestsAssumption ==
  \A r \in Requests : r.side \in {"LONG", "SHORT"} /\ r.price \in Nat /\ r.size \in Nat /\ r.at \in Nat
ASSUME MinSizeAssumption == MinOrderSize \in Nat \ {0}
ASSUME MatcherBoundsAssumption == MaxRounds \in Nat /\ Ttl \in Nat /\ MaxCalls \in Nat /\ MaxTime \in Nat /\ MaxStops \in Nat

VARIABLES
  running,       \* isRunning
  orders,        \* one record per call of submitOrder: its entry, and what became of it
  pending,       \* calls that await validateOrderSubmission
  book,          \* per pair the ids of bids and of asks, the best first
  active,        \* activeCommitments
  counts,        \* the counters of getStats
  trades,        \* history: the matches returned
  clock,         \* Date.now()
  stops          \* history: number of shutdowns

matcherVars == <<running, orders, pending, book, active, counts, trades, clock, stops>>

Pairs == {r.pair : r \in Requests}
Hashes == {r.hash : r \in Requests}
Fates == {"pending", "rejected", "open", "filled", "cancelled", "expired", "dropped"}
EmptyBook == [bids |-> <<>>, asks |-> <<>>]
SideOf(i) == IF orders[i].side = "SHORT" THEN "asks" ELSE "bids"

MatcherInit ==
  /\ running = FALSE /\ orders = <<>> /\ pending = <<>> /\ active = {}
  /\ book = [p \in Pairs |-> EmptyBook]
  /\ counts = [orders |-> 0, matches |-> 0, cancelled |-> 0, expired |-> 0]
  /\ trades = {} /\ clock = 0 /\ stops = 0

Initialize ==
  /\ ~running
  /\ running' = TRUE
  /\ UNCHANGED <<orders, pending, book, active, counts, trades, clock, stops>>

Tick ==
  /\ clock < MaxTime
  /\ clock' = clock + 1
  /\ UNCHANGED <<running, orders, pending, book, active, counts, trades, stops>>

-----------------------------------------------------------------------------
\* The insertion of order_book.ts: behind every order that is better, or as good and committed earlier.

Ahead(i, j) ==
  \/ orders[i].side = "SHORT" /\ orders[i].price < orders[j].price
  \/ orders[i].side # "SHORT" /\ orders[i].price > orders[j].price
  \/ orders[i].price = orders[j].price /\ orders[i].at < orders[j].at

\* Defective: an order is put behind all of its price, those committed later too.
InsertedByPrice(list, i) ==
  LET n == CHOOSE n \in 0..Len(list) :
             /\ \A k \in 1..n : Ahead(list[k], i) \/ orders[list[k]].price = orders[i].price
             /\ n < Len(list) => ~Ahead(list[n + 1], i) /\ orders[list[n + 1]].price # orders[i].price
  IN InsertAt(list, n + 1, i)

Inserted(list, i) ==
  LET n == CHOOSE n \in 0..Len(list) :
             /\ \A k \in 1..n : Ahead(list[k], i)
             /\ n < Len(list) => ~Ahead(list[n + 1], i)
  IN InsertAt(list, n + 1, i)

\* removeOrder: the first entry of that id.
Without(b, i) == [bids |-> RemoveFirst(b.bids, i), asks |-> RemoveFirst(b.asks, i)]

-----------------------------------------------------------------------------
\* validateOrderSubmission awaits nothing itself: it judges the proofs, and the commitments as they are when it is called.
IsValid(r, proofsValid) == proofsValid /\ r.hash \notin active

\* submitOrder up to its await.
SubmitOrder(r, proofsValid) ==
  /\ running /\ Len(orders) < MaxCalls /\ r.at <= clock
  /\ LET size == Max({MinOrderSize, r.size}) IN
       orders' = Append(orders, [hash |-> r.hash, pair |-> r.pair, side |-> r.side, price |-> r.price, at |-> r.at,
                                 size |-> size, remaining |-> size, fate |-> "pending", seen |-> 0, era |-> 0])
  /\ pending' = Append(pending, [id |-> Len(orders) + 1, valid |-> IsValid(r, proofsValid)])
  /\ UNCHANGED <<running, book, active, counts, trades, clock, stops>>

\* The rest of submitOrder.  It does not look at isRunning or activeCommitments again.
Resume ==
  LET i == Head(pending).id IN
  /\ pending # <<>>
  /\ pending' = Tail(pending)
  /\ \/ /\ ~Head(pending).valid
        /\ orders' = [orders EXCEPT ![i].fate = "rejected"]
        /\ UNCHANGED <<book, active, counts>>
     \/ /\ Head(pending).valid
        /\ orders' = [orders EXCEPT ![i].fate = "open", ![i].seen = Len(orders), ![i].era = stops]
        /\ book' = [book EXCEPT ![orders[i].pair][SideOf(i)] = Inserted(@, i)]
        /\ active' = active \cup {orders[i].hash}
        /\ counts' = [counts EXCEPT !.orders = @ + 1]
  /\ UNCHANGED <<running, trades, clock, stops>>

-----------------------------------------------------------------------------
\* matchOrders: the expired go, then the best bid and the best ask meet, at most MaxRounds times.

Expired(i) == orders[i].at + Ttl < clock

\* Array.filter
Filtered(list, keep) ==
  LET kept[n \in 0..Len(list)] ==
        IF n = 0 THEN <<>> ELSE IF list[n] \in keep THEN Append(kept[n - 1], list[n]) ELSE kept[n - 1]
  IN kept[Len(list)]

Unexpired(b) ==
  LET keep == {i \in DOMAIN orders : ~Expired(i)}
  IN [bids |-> Filtered(b.bids, keep), asks |-> Filtered(b.asks, keep)]

\* Defective: prices are not compared.
MeetsAtAnyPrice(os, b) == b.bids # <<>> /\ b.asks # <<>>

Meets(os, b) ==
  b.bids # <<>> /\ b.asks # <<>> /\ os[Head(b.bids)].price >= os[Head(b.asks)].price

\* updateOrderFill of one order
Filled(o, size) ==
  [o EXCEPT !.remaining = @ - size, !.fate = IF o.remaining <= size THEN "filled" ELSE @]

\* One round on s = [orders, book, trades]: price is the sum of the two limits, twice the midpoint.
Round(s) ==
  IF ~Meets(s.orders, s.book) THEN s
  ELSE LET bid == Head(s.book.bids)
           ask == Head(s.book.asks)
           size == Min({s.orders[bid].remaining, s.orders[ask].remaining})
           os == [s.orders EXCEPT ![bid] = Filled(@, size), ![ask] = Filled(@, size)]
       IN [orders |-> os,
           book |-> [bids |-> IF os[bid].fate = "filled" THEN Tail(s.book.bids) ELSE s.book.bids,
                     asks |-> IF os[ask].fate = "filled" THEN Tail(s.book.asks) ELSE s.book.asks],
           trades |-> Append(s.trades, [bid |-> bid, ask |-> ask, size |-> size, time |-> clock,
                                        price |-> s.orders[bid].price + s.orders[ask].price])]

MatchOrders(p) ==
  LET gone == {i \in ToSet(book[p].bids \o book[p].asks) : Expired(i)}
      start == [orders |-> [i \in DOMAIN orders |-> IF i \in gone THEN [orders[i] EXCEPT !.fate = "expired"] ELSE orders[i]],
                book |-> Unexpired(book[p]), trades |-> <<>>]
      after[k \in 0..MaxRounds] == IF k = 0 THEN start ELSE Round(after[k - 1])
      end == after[MaxRounds]
  IN /\ running
     /\ orders' = end.orders
     /\ book' = [book EXCEPT ![p] = end.book]
     /\ trades' = trades \cup ToSet(end.trades)
     /\ counts' = [counts EXCEPT !.expired = @ + Cardinality(gone), !.matches = @ + Len(end.trades)]
     /\ UNCHANGED <<running, pending, active, clock, stops>>

-----------------------------------------------------------------------------
\* Defective: the order stays in the book.
CancelInPlace(i) ==
  /\ orders[i].fate = "open"
  /\ orders' = [orders EXCEPT ![i].fate = "cancelled"]
  /\ active' = active \ {orders[i].hash}
  /\ counts' = [counts EXCEPT !.cancelled = @ + 1]
  /\ UNCHANGED <<running, book, pending, trades, clock, stops>>

\* cancelOrder with a verified proof.  An order that has left the book is not found and nothing changes.
CancelOrder(i) ==
  /\ orders[i].fate = "open"
  /\ orders' = [orders EXCEPT ![i].fate = "cancelled"]
  /\ book' = [book EXCEPT ![orders[i].pair] = Without(@, i)]
  /\ active' = active \ {orders[i].hash}
  /\ counts' = [counts EXCEPT !.cancelled = @ + 1]
  /\ UNCHANGED <<running, pending, trades, clock, stops>>

Shutdown ==
  /\ running /\ stops < MaxStops
  /\ running' = FALSE
  /\ orders' = [i \in DOMAIN orders |-> IF orders[i].fate = "open" THEN [orders[i] EXCEPT !.fate = "dropped"] ELSE orders[i]]
  /\ book' = [p \in Pairs |-> EmptyBook]
  /\ active' = {}
  /\ stops' = stops + 1
  /\ UNCHANGED <<pending, counts, trades, clock>>

MatcherNext ==
  \/ Initialize \/ Tick \/ Resume \/ Shutdown
  \/ \E r \in Requests, ok \in BOOLEAN : SubmitOrder(r, ok)
  \/ \E p \in Pairs : MatchOrders(p)
  \/ \E i \in DOMAIN orders : CancelOrder(i)

MatcherSpec == MatcherInit /\ [][MatcherNext]_matcherVars

-----------------------------------------------------------------------------
\* Where the calls, the book and the counters stay.
MatcherTypeOK ==
  /\ running \in BOOLEAN /\ clock \in 0..MaxTime /\ stops \in 0..MaxStops
  /\ Len(orders) <= MaxCalls
  /\ \A i \in DOMAIN orders :
       orders[i] \in [hash : Hashes, pair : Pairs, side : {"LONG", "SHORT"}, price : Nat, at : 0..MaxTime, size : Nat,
                      remaining : Nat, fate : Fates, seen : 0..MaxCalls, era : 0..MaxStops]
  /\ \A k \in DOMAIN pending : pending[k] \in [id : DOMAIN orders, valid : BOOLEAN]
  /\ \A p \in Pairs, s \in {"bids", "asks"} : ToSet(book[p][s]) \subseteq DOMAIN orders
  /\ active \subseteq Hashes
  /\ DOMAIN counts = {"orders", "matches", "cancelled", "expired"} /\ \A c \in DOMAIN counts : counts[c] \in Nat

\* Price-time priority: whatever was added, matched, cancelled or expired in between, no order stands behind
\* a worse one, or behind one of its price that was committed later (order_book.ts:37-61).
PriceTimePriority ==
  \A p \in Pairs, s \in {"bids", "asks"} :
    \A k \in 1..(Len(book[p][s]) - 1) : ~Ahead(book[p][s][k + 1], book[p][s][k])

TradedSize(i) == SumFunction([t \in {x \in trades : i \in {x.bid, x.ask}} |-> t.size])

\* Size is neither lost nor made: what an order has left and what it has traded make its size; it is in the book,
\* once and on its side, exactly while something is left of it and nobody has taken it out.
FillsAddUp ==
  \A i \in DOMAIN orders :
    /\ orders[i].remaining + TradedSize(i) = orders[i].size
    /\ orders[i].fate = "filled" <=> orders[i].remaining = 0
    /\ Cardinality({x \in Pairs \X {"bids", "asks"} \X (1..MaxCalls) :
                      x[3] \in DOMAIN book[x[1]][x[2]] /\ book[x[1]][x[2]][x[3]] = i}) = (IF orders[i].fate = "open" THEN 1 ELSE 0)

\* A match is within both limits, and neither of its orders had expired (order_matcher.ts:123-153).
MatchesWithinLimits ==
  \A t \in trades :
    /\ 2 * orders[t.ask].price <= t.price /\ t.price <= 2 * orders[t.bid].price
    /\ orders[t.bid].pair = orders[t.ask].pair
    /\ orders[t.bid].at + Ttl >= t.time /\ orders[t.ask].at + Ttl >= t.time

\* The counters of getStats tell where every accepted order went, across shutdowns.
CountsAddUp ==
  LET fated(f) == Cardinality({i \in DOMAIN orders : orders[i].fate = f}) IN
  /\ counts.expired = fated("expired") /\ counts.cancelled = fated("cancelled")
  /\ counts.orders = fated("open") + fated("filled") + fated("cancelled") + fated("expired") + fated("dropped")
  /\ counts.matches = Cardinality(trades)

\* Matches are sound: within the limits, and neither size nor orders get lost.
MatchesAreSound == MatcherTypeOK /\ FillsAddUp /\ MatchesWithinLimits /\ CountsAddUp

Booked(i) == orders[i].fate \notin {"pending", "rejected"}
\* i and j were submitted before either was booked.
Overlap(i, j) == orders[i].seen >= j /\ orders[j].seen >= i

\* The duplicate test is made before the await (order_matcher.ts:89): two orders of one commitment are in the book at
\* once only if their submits overlapped.
DoubleBookingTakesARace ==
  \A i, j \in DOMAIN orders :
    i # j /\ orders[i].fate = "open" /\ orders[j].fate = "open" /\ orders[i].hash = orders[j].hash
      => Overlap(i, j) \/ \E k \in DOMAIN orders \ {i, j} : orders[k].hash = orders[i].hash /\ orders[k].fate = "cancelled"

\* A commitment that rests or has traded cannot be submitted again until shutdown, except after such a race, when
\* cancelling one of its orders frees it for all of them.
TradedIsBlocked ==
  \A i \in DOMAIN orders :
    orders[i].fate \in {"open", "filled"} /\ orders[i].era = stops /\ orders[i].hash \notin active
      => \E j \in DOMAIN orders \ {i} : orders[j].hash = orders[i].hash /\ orders[j].fate = "cancelled"

\* After shutdown the books hold only orders whose submit was waiting when it came (order_matcher.ts:214-219).
StoppedBooksAreEmpty ==
  ~running => \A i \in DOMAIN orders : orders[i].fate = "open" => orders[i].era = stops

\* An order that has left the book does not come back, and only orders in the book trade.
LeftForGood ==
  [][ /\ \A i \in DOMAIN orders :
           orders[i].fate \in Fates \ {"pending", "open"} => orders'[i] = orders[i]
      /\ \A t \in trades' \ trades : orders[t.bid].fate = "open" /\ orders[t.ask].fate = "open" ]_matcherVars

\* A commitment is worth one order: activeCommitments is in step with the books, across duplicates, cancels and shutdowns.
CommitmentsAreKept ==
  [](DoubleBookingTakesARace /\ TradedIsBlocked /\ StoppedBooksAreEmpty) /\ LeftForGood

=============================================================================
