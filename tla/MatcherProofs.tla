--------------------------- MODULE MatcherProofs ---------------------------
(***************************************************************************)
(* Theorems about OrderMatcher, for any requests, limits and numbers of    *)
(* calls: the books, the matches and activeCommitments stay in step.       *)
(***************************************************************************)
EXTENDS OrderMatcher, ListsAndSums

-----------------------------------------------------------------------------
(***************************************************************************)
(* What the operators on lists return.                                     *)
(***************************************************************************)

\* l is what is left of list when some of its entries are taken out.
Thinned(l, list) ==
  \E at \in [1..Len(l) -> 1..Len(list)] :
    /\ \A j, k \in 1..Len(l) : j < k => at[j] < at[k]
    /\ \A k \in 1..Len(l) : l[k] = list[at[k]]

\* l holds what is kept of list, in its order.
KeptOnly(l, list, keep) ==
  /\ Thinned(l, list) /\ \A k \in 1..Len(l) : l[k] \in keep
  /\ \A k \in 1..Len(list) : list[k] \in keep => \E j \in 1..Len(l) : l[j] = list[k]

\* Array.filter takes out the entries that are not kept, and no others.
LEMMA FilteredIs ==
  ASSUME NEW S, NEW list \in Seq(S), NEW keep
  PROVE  Filtered(list, keep) \in Seq(S) /\ KeptOnly(Filtered(list, keep), list, keep)
<1>1. PICK N \in Nat : N = Len(list)
  BY LenProperties
<1> DEFINE Next(n, l) == IF list[n] \in keep THEN Append(l, list[n]) ELSE l
           Of(f) == [n \in 0..N |-> IF n = 0 THEN <<>> ELSE Next(n, f[n - 1])]
           kept == CHOOSE f : f = Of(f)
<1>2. Filtered(list, keep) = kept[N]
  BY <1>1 DEF Filtered
<1>3. kept = Of(kept)
  <2> DEFINE step == [x \in (1..N) \X Seq(S) |-> Next(x[1], x[2])]
  <2>1. step \in [(1..N) \X Seq(S) -> Seq(S)]
    <3>1. ASSUME NEW n \in 1..N, NEW l \in Seq(S) PROVE Next(n, l) \in Seq(S)
      <4>1. list[n] \in S
        BY <1>1, ElementOfSeq
      <4> QED BY <4>1, AppendIs
    <3> HIDE DEF Next
    <3> QED BY <3>1
  <2>2. <<>> \in Seq(S)
    OBVIOUS
  <2> HIDE DEF Next
  <2>3. PICK f \in [0..N -> Seq(S)] : f[0] = <<>> /\ \A n \in 1..N : f[n] = step[<<n, f[n - 1]>>]
    <3> HIDE DEF step
    <3>1. PICK T : T = Seq(S)
      OBVIOUS
    <3>2. PICK st : st = step
      OBVIOUS
    <3>3. PICK first : first = <<>>
      OBVIOUS
    <3>4. st \in [(1..N) \X T -> T] /\ first \in T
      BY <2>1, <2>2, <3>1, <3>2, <3>3
    <3>5. PICK f : Recurs(f, N, T, first, st)
      BY <1>1, <3>4, Recursion
    <3>6. f \in [0..N -> T] /\ f[0] = first /\ \A n \in 1..N : f[n] = st[<<n, f[n - 1]>>]
      BY <3>5 DEF Recurs
    <3>7. f \in [0..N -> Seq(S)]
      BY <3>1, <3>6
    <3>8. f[0] = <<>>
      BY <3>3, <3>6
    <3>9. \A n \in 1..N : f[n] = step[<<n, f[n - 1]>>]
      BY <3>2, <3>6
    <3> QED BY <3>7, <3>8, <3>9
  <2>4. ASSUME NEW n \in 1..N PROVE f[n] = Next(n, f[n - 1])
    <3>1. <<n, f[n - 1]>> \in (1..N) \X Seq(S)
      OBVIOUS
    <3> QED BY <2>3, <3>1
  <2>5. f = Of(f)
    <3>1. \A n \in 0..N : n # 0 => n \in 1..N
      OBVIOUS
    <3> QED BY <2>3, <2>4, <3>1
  <2> HIDE DEF Of
  <2> QED BY <2>5
<1>4. kept[0] = <<>> /\ \A n \in 1..N : kept[n] = Next(n, kept[n - 1])
  <2> HIDE DEF kept, Next
  <2>1. \A n \in 0..N : kept[n] = IF n = 0 THEN <<>> ELSE Next(n, kept[n - 1])
    BY <1>3
  <2>2. \A n \in 1..N : n \in 0..N /\ n # 0
    OBVIOUS
  <2>3. 0 \in 0..N
    OBVIOUS
  <2> QED BY <2>1, <2>2, <2>3
<1> HIDE DEF kept
<1> DEFINE Right(n, l) ==
             /\ l \in Seq(S)
             /\ \E at \in [1..Len(l) -> 1..n] : /\ \A j, k \in 1..Len(l) : j < k => at[j] < at[k]
                                                /\ \A k \in 1..Len(l) : l[k] = list[at[k]]
             /\ \A k \in 1..Len(l) : l[k] \in keep
             /\ \A k \in 1..n : list[k] \in keep => \E j \in 1..Len(l) : l[j] = list[k]
           Good == {n \in 0..N : Right(n, kept[n])}
<1>5. 0 \in Good
  <2>1. <<>> \in Seq(S) /\ Len(<<>>) = 0 /\ 1..0 = {}
    OBVIOUS
  <2>2. [k \in 1..0 |-> 0] \in [1..0 -> 1..0]
    OBVIOUS
  <2>3. Right(0, <<>>)
    BY <2>1, <2>2
  <2> HIDE DEF Right
  <2> QED BY <1>4, <2>3
<1>6. ASSUME NEW n \in 1..N, n - 1 \in Good PROVE n \in Good
  <2>1. PICK l : l = kept[n - 1]
    OBVIOUS
  <2>2. Right(n - 1, l) /\ n \in 0..N /\ kept[n] = Next(n, l)
    <3> HIDE DEF Right, Next
    <3> QED BY <1>4, <1>6, <2>1
  <2>3. l \in Seq(S) /\ list[n] \in S /\ Len(l) \in Nat
    BY <1>1, <2>2, ElementOfSeq, LenProperties
  <2>4. PICK at \in [1..Len(l) -> 1..n - 1] : /\ \A j, k \in 1..Len(l) : j < k => at[j] < at[k]
                                              /\ \A k \in 1..Len(l) : l[k] = list[at[k]]
    BY <2>2
  <2>5. \A k \in 1..n : k = n \/ k \in 1..n - 1
    OBVIOUS
  <2>6. CASE list[n] \in keep
    <3>1. PICK m : m = Append(l, list[n])
      OBVIOUS
    <3>2. /\ m \in Seq(S) /\ Len(m) = Len(l) + 1
          /\ (\A k \in 1..Len(l) : m[k] = l[k]) /\ m[Len(l) + 1] = list[n]
      BY <2>3, <3>1, AppendIs
    <3>3. \A k \in 1..Len(m) : k \in 1..Len(l) \/ k = Len(l) + 1
      BY <2>3, <3>2
    <3>4. PICK to : to = [k \in 1..Len(m) |-> IF k = Len(l) + 1 THEN n ELSE at[k]]
      OBVIOUS
    <3>5. \A k \in 1..Len(m) : to[k] \in 1..n /\ (k \in 1..Len(l) => to[k] = at[k] /\ at[k] < n) /\ (k = Len(l) + 1 => to[k] = n)
      <4>1. \A k \in 1..Len(l) : at[k] \in 1..n - 1 /\ k # Len(l) + 1
        BY <2>3, <2>4
      <4> QED BY <3>3, <3>4, <4>1
    <3>6. to \in [1..Len(m) -> 1..n]
      BY <3>4, <3>5
    <3>7. ASSUME NEW j \in 1..Len(m), NEW k \in 1..Len(m), j < k PROVE to[j] < to[k]
      <4>1. j \in 1..Len(l)
        BY <2>3, <3>2, <3>7
      <4>2. CASE k \in 1..Len(l)
        BY <2>4, <3>5, <3>7, <4>1, <4>2
      <4>3. CASE k = Len(l) + 1
        BY <3>5, <4>1, <4>3
      <4> QED BY <3>3, <4>2, <4>3
    <3>8. \A k \in 1..Len(m) : m[k] = list[to[k]]
      BY <2>4, <3>2, <3>3, <3>5
    <3>9. \A k \in 1..Len(m) : m[k] \in keep
      BY <2>2, <2>6, <3>2, <3>3
    <3>10. ASSUME NEW k \in 1..n, list[k] \in keep PROVE \E j \in 1..Len(m) : m[j] = list[k]
      <4>1. Len(l) + 1 \in 1..Len(m) /\ \A j \in 1..Len(l) : j \in 1..Len(m)
        BY <2>3, <3>2
      <4>2. CASE k = n
        BY <3>2, <4>1, <4>2
      <4>3. CASE k \in 1..n - 1
        <5>1. PICK j \in 1..Len(l) : l[j] = list[k]
          BY <2>2, <3>10, <4>3
        <5> QED BY <3>2, <4>1, <5>1
      <4> QED BY <2>5, <4>2, <4>3
    <3>11. Right(n, m)
      BY <3>2, <3>6, <3>7, <3>8, <3>9, <3>10
    <3> HIDE DEF Right
    <3> QED BY <2>2, <2>6, <3>1, <3>11
  <2>7. CASE list[n] \notin keep
    <3>1. at \in [1..Len(l) -> 1..n]
      BY <2>4
    <3>2. Right(n, l)
      BY <2>2, <2>4, <2>5, <2>7, <3>1
    <3> HIDE DEF Right
    <3> QED BY <2>2, <2>7, <3>2
  <2> QED BY <2>6, <2>7
<1>7. N \in Good
  <2>1. Good \in SUBSET Nat
    <3> HIDE DEF Right
    <3> QED OBVIOUS
  <2>2. \A n \in 1..N : n - 1 \in Good => n \in Good
    <3> HIDE DEF Good
    <3> QED BY <1>6
  <2>3. 0..N \subseteq Good
    <3> HIDE DEF Good
    <3> QED BY <1>5, <2>1, <2>2, UpTo
  <2>4. N \in 0..N
    OBVIOUS
  <2> HIDE DEF Good
  <2> QED BY <2>3, <2>4
<1>8. Right(N, kept[N])
  <2> HIDE DEF Right
  <2> QED BY <1>7
<1> QED BY <1>1, <1>2, <1>8 DEF Thinned, KeptOnly

-----------------------------------------------------------------------------
(* Lists that have lost some of their entries.                             *)

\* A book from which nothing goes.
LEMMA ThinnedSame ==
  ASSUME NEW S, NEW l \in Seq(S)
  PROVE  Thinned(l, l) /\ Thinned(<<>>, l)
<1>1. Len(l) \in Nat
  BY LenProperties
<1>2. Thinned(l, l)
  <2>1. PICK at : at = [k \in 1..Len(l) |-> k]
    OBVIOUS
  <2>2. at \in [1..Len(l) -> 1..Len(l)] /\ \A k \in 1..Len(l) : at[k] = k
    BY <2>1
  <2> QED BY <2>2 DEF Thinned
<1>3. Thinned(<<>>, l)
  <2>1. PICK at : at = [k \in 1..0 |-> k]
    OBVIOUS
  <2>2. Len(<<>>) = 0 /\ 1..0 = {}
    OBVIOUS
  <2>3. at \in [1..0 -> 1..Len(l)]
    BY <2>1, <2>2
  <2> QED BY <2>2, <2>3 DEF Thinned
<1> QED BY <1>2, <1>3

\* Taking out one entry.
LEMMA ThinnedByOne ==
  ASSUME NEW S, NEW l \in Seq(S), NEW p \in 1..Len(l)
  PROVE  /\ Thinned(RemoveAt(l, p), l) /\ RemoveAt(l, p) \in Seq(S)
         /\ \A k \in 1..Len(l) : k # p => \E j \in 1..Len(RemoveAt(l, p)) : RemoveAt(l, p)[j] = l[k]
<1>1. PICK r : r = RemoveAt(l, p)
  OBVIOUS
<1>2. /\ Len(l) \in Nat /\ r \in Seq(S) /\ Len(r) = Len(l) - 1
      /\ \A k \in 1..Len(l) - 1 : r[k] = IF k < p THEN l[k] ELSE l[k + 1]
  BY <1>1, LenProperties, RemoveAtIs
<1>3. PICK at : at = [k \in 1..Len(r) |-> IF k < p THEN k ELSE k + 1]
  OBVIOUS
<1>4. \A k \in 1..Len(r) : at[k] \in 1..Len(l) /\ at[k] = (IF k < p THEN k ELSE k + 1) /\ r[k] = l[at[k]]
  BY <1>2, <1>3
<1>5. at \in [1..Len(r) -> 1..Len(l)]
  BY <1>3, <1>4
<1>6. ASSUME NEW j \in 1..Len(r), NEW k \in 1..Len(r), j < k PROVE at[j] < at[k]
  BY <1>2, <1>4, <1>6
<1>7. Thinned(r, l)
  BY <1>4, <1>5, <1>6 DEF Thinned
<1>8. ASSUME NEW k \in 1..Len(l), k # p PROVE \E j \in 1..Len(r) : r[j] = l[k]
  <2>1. CASE k < p
    <3>1. k \in 1..Len(r) /\ r[k] = l[k]
      BY <1>2, <2>1
    <3> QED BY <3>1
  <2>2. CASE k > p
    <3>1. k - 1 \in 1..Len(r) /\ r[k - 1] = l[k - 1 + 1] /\ k - 1 + 1 = k
      BY <1>2, <2>2
    <3> QED BY <3>1
  <2> QED BY <1>8, <2>1, <2>2
<1> QED BY <1>1, <1>2, <1>7, <1>8

\* The rest of a list.
LEMMA ThinnedTail ==
  ASSUME NEW S, NEW l \in Seq(S), l # <<>>
  PROVE  /\ Thinned(Tail(l), l) /\ Tail(l) \in Seq(S)
         /\ \A k \in 1..Len(l) : k # 1 => \E j \in 1..Len(Tail(l)) : Tail(l)[j] = l[k]
         /\ \A j \in 1..Len(Tail(l)) : \E k \in 1..Len(l) : k # 1 /\ Tail(l)[j] = l[k]
<1>1. PICK r : r = Tail(l)
  OBVIOUS
<1>2. /\ r \in Seq(S) /\ Len(r) = Len(l) - 1 /\ Len(l) \in Nat \ {0}
      /\ \A k \in 1..Len(l) - 1 : r[k] = l[k + 1]
  BY <1>1, TailIs
<1>3. PICK at : at = [k \in 1..Len(r) |-> k + 1]
  OBVIOUS
<1>4. \A k \in 1..Len(r) : at[k] = k + 1 /\ k + 1 \in 1..Len(l) /\ k + 1 # 1 /\ r[k] = l[k + 1]
  BY <1>2, <1>3
<1>5. at \in [1..Len(r) -> 1..Len(l)]
  BY <1>3, <1>4
<1>6. \A j, k \in 1..Len(r) : j < k => at[j] < at[k]
  BY <1>2, <1>4
<1>7. Thinned(r, l)
  BY <1>4, <1>5, <1>6 DEF Thinned
<1>8. ASSUME NEW k \in 1..Len(l), k # 1 PROVE \E j \in 1..Len(r) : r[j] = l[k]
  <2>1. k - 1 \in 1..Len(r) /\ k - 1 + 1 = k
    BY <1>2, <1>8
  <2> QED BY <1>4, <2>1
<1> QED BY <1>1, <1>2, <1>4, <1>7, <1>8

-----------------------------------------------------------------------------
(* The books.  What the matcher keeps is written for any orders os, books  *)
(* bk and matches tr, to speak of a state, of the next one and of those    *)
(* between two rounds of matchOrders.                                      *)

OrderRecords == [hash : Hashes, pair : Pairs, side : {"LONG", "SHORT"}, price : Nat, at : 0..MaxTime, size : Nat,
                 remaining : Nat, fate : Fates, seen : 0..MaxCalls, era : 0..MaxStops]
BookRecords == [bids : Seq(Nat), asks : Seq(Nat)]
Lists == {"bids", "asks"}
ListFor(o) == IF o.side = "SHORT" THEN "asks" ELSE "bids"

Before(a, b) ==
  \/ a.side = "SHORT" /\ a.price < b.price
  \/ a.side # "SHORT" /\ a.price > b.price
  \/ a.price = b.price /\ a.at < b.at

\* The fields of an order that nothing writes once it is submitted.
SameTerms(a, b) ==
  /\ a.hash = b.hash /\ a.pair = b.pair /\ a.side = b.side
  /\ a.price = b.price /\ a.at = b.at /\ a.size = b.size

\* Priority among the orders of one list.
LEMMA BeforeIsAnOrder ==
  ASSUME NEW a \in OrderRecords, NEW b \in OrderRecords, NEW c \in OrderRecords, a.side = b.side, b.side = c.side
  PROVE  /\ Before(a, b) => ~Before(b, a)
         /\ Before(a, c) => Before(a, b) \/ Before(b, c)
<1>1. a.price \in Nat /\ b.price \in Nat /\ c.price \in Nat /\ a.at \in Nat /\ b.at \in Nat /\ c.at \in Nat
  BY DEF OrderRecords
<1>2. PICK pa \in Nat, pb \in Nat, pc \in Nat, ta \in Nat, tb \in Nat, tc \in Nat :
        pa = a.price /\ pb = b.price /\ pc = c.price /\ ta = a.at /\ tb = b.at /\ tc = c.at
  BY <1>1
<1>3. CASE a.side = "SHORT"
  BY <1>2, <1>3 DEF Before
<1>4. CASE a.side # "SHORT"
  BY <1>2, <1>4 DEF Before
<1> QED BY <1>3, <1>4

\* One list of one pair: open orders of that pair and side, each once, none behind a worse one.
ListOK(os, l, p, s) ==
  /\ l \in Seq(Nat)
  /\ \A k \in 1..Len(l) : /\ l[k] \in 1..Len(os) /\ os[l[k]].fate = "open"
                          /\ os[l[k]].pair = p /\ ListFor(os[l[k]]) = s
  /\ \A j, k \in 1..Len(l) : j < k => l[j] # l[k] /\ ~Before(os[l[k]], os[l[j]])

\* A list that only loses entries stays in order.
LEMMA ListStays ==
  ASSUME NEW os \in Seq(OrderRecords), NEW os2 \in Seq(OrderRecords), Len(os) <= Len(os2),
         \A i \in 1..Len(os) : SameTerms(os[i], os2[i]),
         NEW p, NEW s, NEW l, ListOK(os, l, p, s),
         NEW l2 \in Seq(Nat), Thinned(l2, l), \A k \in 1..Len(l2) : os2[l2[k]].fate = "open"
  PROVE  ListOK(os2, l2, p, s)
<1>0. Len(os) \in Nat /\ Len(os2) \in Nat /\ Len(l2) \in Nat /\ l \in Seq(Nat) /\ Len(l) \in Nat
  BY LenProperties DEF ListOK
<1>1. PICK at \in [1..Len(l2) -> 1..Len(l)] :
        /\ \A j, k \in 1..Len(l2) : j < k => at[j] < at[k]
        /\ \A k \in 1..Len(l2) : l2[k] = l[at[k]]
  BY DEF Thinned
<1>2. ASSUME NEW k \in 1..Len(l2)
      PROVE  /\ l2[k] \in 1..Len(os) /\ l2[k] \in 1..Len(os2) /\ SameTerms(os[l2[k]], os2[l2[k]])
             /\ os[l2[k]].pair = p /\ ListFor(os[l2[k]]) = s
  <2>1. at[k] \in 1..Len(l) /\ l2[k] = l[at[k]]
    BY <1>1
  <2>2. l2[k] \in 1..Len(os) /\ os[l2[k]].pair = p /\ ListFor(os[l2[k]]) = s
    BY <2>1 DEF ListOK
  <2>3. l2[k] \in 1..Len(os2)
    BY <1>0, <2>2
  <2> QED BY <2>2, <2>3
<1>3. ASSUME NEW j \in 1..Len(l2), NEW k \in 1..Len(l2), j < k
      PROVE  l2[j] # l2[k] /\ ~Before(os2[l2[k]], os2[l2[j]])
  <2>1. at[j] \in 1..Len(l) /\ at[k] \in 1..Len(l) /\ at[j] < at[k] /\ l2[j] = l[at[j]] /\ l2[k] = l[at[k]]
    BY <1>1, <1>3
  <2>2. l2[j] # l2[k] /\ ~Before(os[l2[k]], os[l2[j]])
    BY <2>1 DEF ListOK
  <2> QED BY <1>2, <2>2 DEF Before, SameTerms
<1>4. \A k \in 1..Len(l2) : os2[l2[k]].pair = p /\ ListFor(os2[l2[k]]) = s
  <2> SUFFICES ASSUME NEW k \in 1..Len(l2) PROVE os2[l2[k]].pair = p /\ ListFor(os2[l2[k]]) = s
    OBVIOUS
  <2>1. SameTerms(os[l2[k]], os2[l2[k]]) /\ os[l2[k]].pair = p /\ ListFor(os[l2[k]]) = s
    BY <1>2
  <2> QED BY <2>1 DEF SameTerms, ListFor
<1> QED BY <1>2, <1>3, <1>4 DEF ListOK

\* The place where an order belongs exists.
LEMMA InsertedIs ==
  ASSUME NEW l \in Seq(Nat), NEW i
  PROVE  \E n \in 0..Len(l) : /\ Inserted(l, i) = InsertAt(l, n + 1, i)
                              /\ \A k \in 1..n : Before(orders[l[k]], orders[i])
                              /\ n < Len(l) => ~Before(orders[l[n + 1]], orders[i])
<1>0. Len(l) \in Nat
  BY LenProperties
<1> DEFINE I == {k \in 1..Len(l) + 1 : k = Len(l) + 1 \/ ~Before(orders[l[k]], orders[i])}
           Place(n) == /\ \A k \in 1..n : Ahead(l[k], i)
                       /\ n < Len(l) => ~Ahead(l[n + 1], i)
           place == CHOOSE n \in 0..Len(l) : Place(n)
<1>1. I \in SUBSET Nat /\ Len(l) + 1 \in I
  BY <1>0
<1>2. PICK m \in I : \A k \in I : m <= k
  <2> HIDE DEF I
  <2> QED BY <1>1, LeastOf
<1>3. m \in 1..Len(l) + 1 /\ m - 1 \in 0..Len(l) /\ m - 1 + 1 = m
  BY <1>0, <1>2
<1>4. ASSUME NEW k \in 1..m - 1 PROVE Before(orders[l[k]], orders[i])
  <2>1. k \in Nat /\ k < m /\ k \in 1..Len(l) + 1 /\ k # Len(l) + 1
    BY <1>0, <1>3
  <2>2. k \notin I
    BY <1>2, <2>1
  <2> QED BY <2>1, <2>2
<1>5. m - 1 < Len(l) => ~Before(orders[l[m]], orders[i])
  BY <1>2, <1>3
<1>6. Place(m - 1)
  <2>1. \A k \in 1..m - 1 : Ahead(l[k], i)
    BY <1>4 DEF Ahead, Before
  <2>2. m - 1 < Len(l) => ~Ahead(l[m - 1 + 1], i)
    BY <1>3, <1>5 DEF Ahead, Before
  <2> QED BY <2>1, <2>2
<1>7. place \in 0..Len(l) /\ Place(place)
  <2> HIDE DEF Place
  <2> QED BY <1>3, <1>6
<1>8. Inserted(l, i) = InsertAt(l, place + 1, i)
  BY DEF Inserted
<1>9. /\ \A k \in 1..place : Before(orders[l[k]], orders[i])
      /\ place < Len(l) => ~Before(orders[l[place + 1]], orders[i])
  <2> HIDE DEF place
  <2> QED BY <1>7 DEF Ahead, Before
<1> HIDE DEF place
<1> QED BY <1>7, <1>8, <1>9

\* new is the list l with the order i in it, and as good.
PutIn(os, new, l, i, p, s) ==
  /\ ListOK(os, new, p, s)
  /\ \E k \in 1..Len(new) : new[k] = i
  /\ \A k \in 1..Len(l) : \E j \in 1..Len(new) : new[j] = l[k]

\* An order that is put into its list stands behind the better and before the worse.
LEMMA ListInserted ==
  ASSUME orders \in Seq(OrderRecords), NEW os2 \in Seq(OrderRecords), Len(os2) = Len(orders),
         \A i \in 1..Len(orders) : SameTerms(orders[i], os2[i]),
         NEW p, NEW s, NEW l, ListOK(orders, l, p, s), \A k \in 1..Len(l) : os2[l[k]].fate = "open",
         NEW i \in 1..Len(orders), \A k \in 1..Len(l) : l[k] # i,
         os2[i].fate = "open", orders[i].pair = p, ListFor(orders[i]) = s
  PROVE  PutIn(os2, Inserted(l, i), l, i, p, s)
<1>0. l \in Seq(Nat) /\ Len(l) \in Nat /\ Len(orders) \in Nat /\ i \in Nat
  BY LenProperties DEF ListOK
<1>1. PICK n \in 0..Len(l) : /\ Inserted(l, i) = InsertAt(l, n + 1, i)
                             /\ \A k \in 1..n : Before(orders[l[k]], orders[i])
                             /\ n < Len(l) => ~Before(orders[l[n + 1]], orders[i])
  BY <1>0, InsertedIs
<1>2. PICK r : r = Inserted(l, i)
  OBVIOUS
<1>3. /\ r \in Seq(Nat) /\ Len(r) = Len(l) + 1 /\ r[n + 1] = i
      /\ \A k \in 1..n : r[k] = l[k]
      /\ \A k \in n + 1..Len(l) : r[k + 1] = l[k]
  <2>1. PICK q \in 1..Len(l) + 1 : q = n + 1
    BY <1>0
  <2>2. InsertAt(l, q, i) \in Seq(Nat) /\ Widened(InsertAt(l, q, i), l, q, i)
    BY <1>0, <2>1, InsertAtIs
  <2>3. r = InsertAt(l, q, i) /\ q - 1 = n
    BY <1>1, <1>2, <2>1
  <2>4. r \in Seq(Nat) /\ Widened(r, l, q, i)
    BY <2>2, <2>3
  <2> QED BY <2>1, <2>3, <2>4 DEF Widened
<1>4. /\ \A k \in 1..n : k \in 1..Len(r) /\ k \in 1..Len(l) /\ r[k] = l[k]
      /\ n + 1 \in 1..Len(r) /\ r[n + 1] = i
      /\ \A k \in n + 1..Len(l) : k + 1 \in 1..Len(r) /\ k \in 1..Len(l) /\ r[k + 1] = l[k]
  <2>1. \A k \in 1..n : k \in 1..Len(l) + 1 /\ k \in 1..Len(l)
    BY <1>0
  <2>2. n + 1 \in 1..Len(l) + 1
    BY <1>0
  <2>3. \A k \in n + 1..Len(l) : k + 1 \in 1..Len(l) + 1 /\ k \in 1..Len(l)
    BY <1>0
  <2> QED BY <1>3, <2>1, <2>2, <2>3
<1>5. \A k \in 1..Len(r) : k \in 1..n \/ k = n + 1 \/ \E m \in n + 1..Len(l) : k = m + 1
  <2> SUFFICES ASSUME NEW k \in 1..Len(r), k > n + 1 PROVE \E m \in n + 1..Len(l) : k = m + 1
    BY <1>0, <1>3
  <2>0. k \in 1..Len(l) + 1 /\ n \in Nat
    BY <1>0, <1>3
  <2>1. k - 1 \in n + 1..Len(l) /\ k = k - 1 + 1
    BY <1>0, <2>0
  <2> QED BY <2>1
<1>6. ASSUME NEW k \in 1..Len(l)
      PROVE  /\ l[k] \in 1..Len(orders) /\ orders[l[k]] \in OrderRecords /\ os2[l[k]].fate = "open" /\ l[k] # i
             /\ orders[l[k]].pair = p /\ ListFor(orders[l[k]]) = s /\ orders[l[k]].side = orders[i].side
  <2>1. l[k] \in 1..Len(orders) /\ orders[l[k]].pair = p /\ ListFor(orders[l[k]]) = s
    BY DEF ListOK
  <2>2. orders[l[k]] \in OrderRecords /\ orders[i] \in OrderRecords
    BY <2>1, ElementOfSeq
  <2>3. orders[l[k]].side \in {"LONG", "SHORT"} /\ orders[i].side \in {"LONG", "SHORT"}
    BY <2>2 DEF OrderRecords
  <2>4. orders[l[k]].side = orders[i].side
    BY <2>1, <2>3 DEF ListFor
  <2> QED BY <2>1, <2>2, <2>4
<1>7. orders[i] \in OrderRecords
  BY ElementOfSeq
<1>8. ASSUME NEW k \in 1..Len(r)
      PROVE  /\ r[k] \in 1..Len(os2) /\ os2[r[k]].fate = "open"
             /\ os2[r[k]].pair = p /\ ListFor(os2[r[k]]) = s /\ SameTerms(orders[r[k]], os2[r[k]])
  <2>1. r[k] = i \/ \E m \in 1..Len(l) : r[k] = l[m]
    <3>1. CASE k \in 1..n
      <4>1. k \in 1..Len(l) /\ r[k] = l[k]
        BY <1>4, <3>1
      <4> QED BY <4>1
    <3>2. CASE k = n + 1
      BY <1>4, <3>2
    <3>3. ASSUME NEW m \in n + 1..Len(l), k = m + 1 PROVE r[k] = i \/ \E q \in 1..Len(l) : r[k] = l[q]
      <4>1. m \in 1..Len(l) /\ r[k] = l[m]
        BY <1>4, <3>3
      <4> QED BY <4>1
    <3> QED BY <1>5, <3>1, <3>2, <3>3
  <2>2. r[k] \in 1..Len(orders) /\ os2[r[k]].fate = "open" /\ orders[r[k]].pair = p /\ ListFor(orders[r[k]]) = s
    BY <1>6, <2>1
  <2> QED BY <2>2 DEF SameTerms, ListFor
<1>9. ASSUME NEW j \in 1..Len(r), NEW k \in 1..Len(r), j < k
      PROVE  r[j] # r[k] /\ ~Before(orders[r[k]], orders[r[j]])
  <2>1. CASE j \in 1..n /\ k \in 1..n
    <3>1. j \in 1..Len(l) /\ r[j] = l[j] /\ k \in 1..Len(l) /\ r[k] = l[k]
      BY <1>4, <2>1
    <3> QED BY <1>9, <3>1 DEF ListOK
  <2>2. CASE j \in 1..n /\ k = n + 1
    <3>1. j \in 1..Len(l) /\ r[j] = l[j] /\ r[k] = i
      BY <1>4, <2>2
    <3>2. Before(orders[l[j]], orders[i])
      BY <1>1, <2>2
    <3> QED BY <1>6, <1>7, <3>1, <3>2, BeforeIsAnOrder
  <2>3. ASSUME j \in 1..n, NEW m \in n + 1..Len(l), k = m + 1 PROVE r[j] # r[k] /\ ~Before(orders[r[k]], orders[r[j]])
    <3>1. j \in 1..Len(l) /\ r[j] = l[j] /\ m \in 1..Len(l) /\ r[k] = l[m] /\ j < m
      BY <1>4, <2>3
    <3> QED BY <3>1 DEF ListOK
  <2>4. ASSUME j = n + 1, NEW m \in n + 1..Len(l), k = m + 1 PROVE r[j] # r[k] /\ ~Before(orders[r[k]], orders[r[j]])
    <3>1. r[j] = i /\ m \in 1..Len(l) /\ r[k] = l[m] /\ n + 1 \in 1..Len(l) /\ n < Len(l)
      <4>1. m \in 1..Len(l) /\ n + 1 \in 1..Len(l) /\ n < Len(l)
        BY <1>0, <2>4
      <4>2. r[n + 1] = i /\ \A q \in n + 1..Len(l) : r[q + 1] = l[q]
        BY <1>4
      <4> QED BY <2>4, <4>1, <4>2
    <3>2. ~Before(orders[l[n + 1]], orders[i])
      BY <1>1, <3>1
    <3>3. ~Before(orders[l[m]], orders[i])
      <4>1. CASE m = n + 1
        BY <3>2, <4>1
      <4>2. CASE m # n + 1
        <5>1. n + 1 < m
          BY <2>4, <4>2
        <5>2. ~Before(orders[l[m]], orders[l[n + 1]])
          BY <3>1, <5>1 DEF ListOK
        <5>3. PICK a, b, c : a = orders[l[m]] /\ b = orders[l[n + 1]] /\ c = orders[i]
          OBVIOUS
        <5>4. a \in OrderRecords /\ b \in OrderRecords /\ c \in OrderRecords /\ a.side = b.side /\ b.side = c.side
          BY <1>6, <1>7, <3>1, <5>3
        <5>5. Before(a, c) => Before(a, b) \/ Before(b, c)
          BY <5>4, BeforeIsAnOrder
        <5> QED BY <3>2, <5>2, <5>3, <5>5
      <4> QED BY <4>1, <4>2
    <3> QED BY <1>6, <3>1, <3>3
  <2>5. ASSUME NEW m \in n + 1..Len(l), j = m + 1, NEW q \in n + 1..Len(l), k = q + 1
        PROVE  r[j] # r[k] /\ ~Before(orders[r[k]], orders[r[j]])
    <3>1. m \in 1..Len(l) /\ q \in 1..Len(l) /\ r[j] = l[m] /\ r[k] = l[q] /\ m < q
      BY <1>4, <1>9, <2>5
    <3> QED BY <3>1 DEF ListOK
  <2>6. /\ k \in 1..n => j \in 1..n
        /\ k = n + 1 => j \in 1..n
    BY <1>9
  <2> QED BY <1>5, <2>1, <2>2, <2>3, <2>4, <2>5, <2>6
<1>10. ASSUME NEW j \in 1..Len(r), NEW k \in 1..Len(r), j < k
       PROVE  r[j] # r[k] /\ ~Before(os2[r[k]], os2[r[j]])
  <2>1. r[j] # r[k] /\ ~Before(orders[r[k]], orders[r[j]])
    BY <1>9, <1>10
  <2>2. SameTerms(orders[r[j]], os2[r[j]]) /\ SameTerms(orders[r[k]], os2[r[k]])
    BY <1>8
  <2>3. PICK a, b, c, d : a = orders[r[k]] /\ b = orders[r[j]] /\ c = os2[r[k]] /\ d = os2[r[j]]
    OBVIOUS
  <2>4. ~Before(a, b) /\ SameTerms(b, d) /\ SameTerms(a, c)
    BY <2>1, <2>2, <2>3
  <2>5. ~Before(c, d)
    BY <2>4 DEF Before, SameTerms
  <2> QED BY <2>1, <2>3, <2>5
<1>11. \A k \in 1..Len(l) : \E j \in 1..Len(r) : r[j] = l[k]
  <2>1. \A k \in 1..Len(l) : k \in 1..n \/ k \in n + 1..Len(l)
    BY <1>0
  <2> QED BY <1>4, <2>1
<1>12. ListOK(os2, r, p, s)
  BY <1>3, <1>8, <1>10 DEF ListOK
<1>13. PutIn(os2, r, l, i, p, s)
  BY <1>2, <1>4, <1>11, <1>12 DEF PutIn
<1> QED BY <1>2, <1>13

\* The orders and, filed under their pairs and sides, the open ones among them.
OrdersOK(os) ==
  /\ os \in Seq(OrderRecords) /\ Len(os) <= MaxCalls
  /\ \A i \in 1..Len(os) : os[i].size > 0 /\ (os[i].fate = "filled" <=> os[i].remaining = 0)

BooksOK(os, bk) ==
  /\ bk \in [Pairs -> BookRecords]
  /\ \A p \in Pairs, s \in Lists : ListOK(os, bk[p][s], p, s)
  /\ \A i \in 1..Len(os) : os[i].fate = "open" =>
       \E k \in 1..Len(bk[os[i].pair][ListFor(os[i])]) : bk[os[i].pair][ListFor(os[i])][k] = i

\* i is in the book bk after as before.
StillIn(i, os, bk, bk2) ==
  \A p \in Pairs, s \in Lists :
    \A k \in 1..Len(bk[p][s]) : bk[p][s][k] = i => \E j \in 1..Len(bk2[p][s]) : bk2[p][s][j] = i

\* Books that lose the entries that are no longer open, and no others.
LEMMA BooksThin ==
  ASSUME NEW os \in Seq(OrderRecords), NEW bk, BooksOK(os, bk),
         NEW os2 \in Seq(OrderRecords), Len(os) <= Len(os2), \A i \in 1..Len(os) : SameTerms(os[i], os2[i]),
         NEW bk2 \in [Pairs -> BookRecords],
         \A p \in Pairs, s \in Lists : Thinned(bk2[p][s], bk[p][s]),
         \A p \in Pairs, s \in Lists : \A k \in 1..Len(bk2[p][s]) : os2[bk2[p][s][k]].fate = "open",
         \A i \in 1..Len(os2) : os2[i].fate = "open" => i \in 1..Len(os) /\ os[i].fate = "open" /\ StillIn(i, os, bk, bk2)
  PROVE  BooksOK(os2, bk2)
<1>1. ASSUME NEW p \in Pairs, NEW s \in Lists PROVE bk2[p][s] \in Seq(Nat)
  <2>1. bk2[p] \in BookRecords
    OBVIOUS
  <2> QED BY <2>1 DEF BookRecords, Lists
<1>2. ASSUME NEW p \in Pairs, NEW s \in Lists PROVE ListOK(os2, bk2[p][s], p, s)
  <2>1. ListOK(os, bk[p][s], p, s)
    BY DEF BooksOK
  <2> QED BY <1>1, <2>1, ListStays
<1>3. ASSUME NEW i \in 1..Len(os2), os2[i].fate = "open"
      PROVE  \E k \in 1..Len(bk2[os2[i].pair][ListFor(os2[i])]) : bk2[os2[i].pair][ListFor(os2[i])][k] = i
  <2>1. i \in 1..Len(os) /\ os[i].fate = "open" /\ StillIn(i, os, bk, bk2) /\ SameTerms(os[i], os2[i])
    BY <1>3
  <2>2. os2[i].pair = os[i].pair /\ ListFor(os2[i]) = ListFor(os[i])
    BY <2>1 DEF SameTerms, ListFor
  <2>3. os[i].pair \in Pairs /\ ListFor(os[i]) \in Lists
    <3>1. os[i] \in OrderRecords
      BY <2>1, ElementOfSeq
    <3> QED BY <3>1 DEF OrderRecords, ListFor, Lists
  <2>4. \E k \in 1..Len(bk[os[i].pair][ListFor(os[i])]) : bk[os[i].pair][ListFor(os[i])][k] = i
    BY <2>1 DEF BooksOK
  <2>5. PICK p \in Pairs, s \in Lists : p = os[i].pair /\ s = ListFor(os[i])
    BY <2>3
  <2>7. StillIn(i, os, bk, bk2)
    BY <2>1
  <2>8. PICK k \in 1..Len(bk[p][s]) : bk[p][s][k] = i
    BY <2>4, <2>5
  <2>9. \E j \in 1..Len(bk2[p][s]) : bk2[p][s][j] = i
    <3>1. \A m \in 1..Len(bk[p][s]) : bk[p][s][m] = i => \E j \in 1..Len(bk2[p][s]) : bk2[p][s][j] = i
      BY <2>5, <2>7 DEF StillIn
    <3> QED BY <2>8, <3>1
  <2> QED BY <2>2, <2>5, <2>9
<1> QED BY <1>2, <1>3 DEF BooksOK

\* The books do not change, and the orders in them stay open.
LEMMA BooksStay ==
  ASSUME NEW os \in Seq(OrderRecords), NEW bk, BooksOK(os, bk),
         NEW os2 \in Seq(OrderRecords), Len(os) <= Len(os2), \A i \in 1..Len(os) : SameTerms(os[i], os2[i]),
         \A i \in 1..Len(os) : os[i].fate = "open" => os2[i].fate = "open",
         \A i \in 1..Len(os2) : os2[i].fate = "open" => i \in 1..Len(os) /\ os[i].fate = "open"
  PROVE  BooksOK(os2, bk)
<1>1. bk \in [Pairs -> BookRecords]
  BY DEF BooksOK
<1>2. ASSUME NEW p \in Pairs, NEW s \in Lists
      PROVE  Thinned(bk[p][s], bk[p][s]) /\ \A k \in 1..Len(bk[p][s]) : os2[bk[p][s][k]].fate = "open"
  <2>1. ListOK(os, bk[p][s], p, s)
    BY DEF BooksOK
  <2>2. bk[p][s] \in Seq(Nat) /\ \A k \in 1..Len(bk[p][s]) : bk[p][s][k] \in 1..Len(os) /\ os[bk[p][s][k]].fate = "open"
    BY <2>1 DEF ListOK
  <2>3. Thinned(bk[p][s], bk[p][s])
    BY <2>2, ThinnedSame
  <2> QED BY <2>2, <2>3
<1>3. \A i \in 1..Len(os) : StillIn(i, os, bk, bk)
  BY DEF StillIn
<1>4. \A p \in Pairs, s \in Lists : Thinned(bk[p][s], bk[p][s])
  BY <1>2
<1>5. \A p \in Pairs, s \in Lists : \A k \in 1..Len(bk[p][s]) : os2[bk[p][s][k]].fate = "open"
  BY <1>2
<1>6. \A i \in 1..Len(os2) : os2[i].fate = "open" => i \in 1..Len(os) /\ os[i].fate = "open" /\ StillIn(i, os, bk, bk)
  BY <1>3
<1> QED BY <1>1, <1>4, <1>5, <1>6, BooksThin

-----------------------------------------------------------------------------
(* The matches, and what they leave of the orders.                         *)

Closed == {"filled", "cancelled", "expired", "dropped"}
TradedIn(tr, i) == SumFunction([t \in {x \in tr : i \in {x.bid, x.ask}} |-> t.size])

TradeOK(os, t) ==
  /\ t.bid \in 1..Len(os) /\ t.ask \in 1..Len(os) /\ t.size \in Nat /\ t.time \in Nat /\ t.price \in Nat
  /\ 2 * os[t.ask].price <= t.price /\ t.price <= 2 * os[t.bid].price
  /\ os[t.bid].pair = os[t.ask].pair
  /\ os[t.bid].at + Ttl >= t.time /\ os[t.ask].at + Ttl >= t.time
  /\ os[t.bid].fate \in Closed \cup {"open"} /\ os[t.ask].fate \in Closed \cup {"open"}
  /\ os[t.bid].fate \in Closed \/ os[t.ask].fate \in Closed

TradesOK(os, tr) ==
  /\ IsFiniteSet(tr) /\ \A t \in tr : TradeOK(os, t)
  /\ \A i \in 1..Len(os) : os[i].remaining + TradedIn(tr, i) = os[i].size

\* What an order has traded is a number, and no less than any of its matches.
LEMMA TradedIs ==
  ASSUME NEW tr, IsFiniteSet(tr), \A t \in tr : t.size \in Nat, NEW i
  PROVE  /\ TradedIn(tr, i) \in Nat
         /\ (\A t \in tr : i # t.bid /\ i # t.ask) => TradedIn(tr, i) = 0
         /\ \A t \in tr : i \in {t.bid, t.ask} => t.size <= TradedIn(tr, i)
<1>1. PICK S : S = {x \in tr : i \in {x.bid, x.ask}}
  OBVIOUS
<1>2. IsFiniteSet(S)
  BY <1>1, FS_Subset
<1>3. PICK f : f = [t \in S |-> t.size]
  OBVIOUS
<1>4. f \in [S -> Nat] /\ f \in [S -> Int] /\ \A t \in S : f[t] = t.size
  BY <1>1, <1>3
<1>5. SumFunction(f) \in Nat /\ \A x \in S : f[x] <= SumFunction(f)
  BY <1>2, <1>4, SumOfNats
<1>6. S = {} => SumFunction(f) = 0
  BY <1>2, <1>4, SumWithout
<1>7. TradedIn(tr, i) = SumFunction(f)
  BY <1>1, <1>3 DEF TradedIn
<1>8. (\A t \in tr : i # t.bid /\ i # t.ask) => S = {}
  BY <1>1
<1> QED BY <1>1, <1>4, <1>5, <1>6, <1>7, <1>8

\* What a match trades of an order.
ShareOf(t, i) == IF i \in {t.bid, t.ask} THEN t.size ELSE 0

\* One match more.
LEMMA TradedMore ==
  ASSUME NEW tr, IsFiniteSet(tr), NEW new, new \notin tr, \A t \in tr \cup {new} : t.size \in Nat, NEW i
  PROVE  TradedIn(tr \cup {new}, i) = TradedIn(tr, i) + ShareOf(new, i)
<1>1. PICK U : U = tr \cup {new}
  OBVIOUS
<1>2. PICK f : f = [t \in U |-> t.size]
  OBVIOUS
<1>3. f \in [U -> Int] /\ \A t \in U : f[t] = t.size /\ t.size \in Nat
  BY <1>1, <1>2
<1>4. PICK S \in SUBSET U : S = {x \in tr : i \in {x.bid, x.ask}}
  BY <1>1
<1>5. IsFiniteSet(S) /\ new \in U \ S
  BY <1>1, <1>4, FS_Subset
<1>6. /\ SumFunction([y \in S |-> f[y]]) \in Int
      /\ SumFunction([y \in S \cup {new} |-> f[y]]) = f[new] + SumFunction([y \in S |-> f[y]])
  <2>1. f \in [U -> Int]
    BY <1>3
  <2>2. ASSUME NEW V \in SUBSET U, IsFiniteSet(V)
        PROVE  /\ SumFunction([y \in V |-> f[y]]) \in Int
               /\ \A x \in U \ V : SumFunction([y \in V \cup {x} |-> f[y]]) = f[x] + SumFunction([y \in V |-> f[y]])
    BY <2>1, <2>2, SumMore
  <2> QED BY <1>4, <1>5, <2>2
<1>7. [y \in S |-> f[y]] = [t \in S |-> t.size] /\ [y \in S \cup {new} |-> f[y]] = [t \in S \cup {new} |-> t.size]
  BY <1>3, <1>5
<1>8. TradedIn(tr, i) = SumFunction([y \in S |-> f[y]])
  BY <1>4, <1>7 DEF TradedIn
<1>9. CASE i \in {new.bid, new.ask}
  <2>1. {x \in tr \cup {new} : i \in {x.bid, x.ask}} = S \cup {new}
    BY <1>4, <1>9
  <2>2. TradedIn(tr \cup {new}, i) = SumFunction([y \in S \cup {new} |-> f[y]])
    BY <1>7, <2>1 DEF TradedIn
  <2>3. ShareOf(new, i) = f[new]
    BY <1>3, <1>5, <1>9 DEF ShareOf
  <2> QED BY <1>3, <1>5, <1>6, <1>8, <2>2, <2>3
<1>10. CASE i \notin {new.bid, new.ask}
  <2>1. {x \in tr \cup {new} : i \in {x.bid, x.ask}} = S
    BY <1>4, <1>10
  <2>2. TradedIn(tr \cup {new}, i) = SumFunction([y \in S |-> f[y]])
    BY <1>7, <2>1 DEF TradedIn
  <2> QED BY <1>6, <1>8, <1>10, <2>2 DEF ShareOf
<1> QED BY <1>9, <1>10

\* A match stays true when its orders close.
LEMMA TradeStays ==
  ASSUME NEW os \in Seq(OrderRecords), NEW t, TradeOK(os, t), NEW os2 \in Seq(OrderRecords), Len(os) <= Len(os2),
         \A i \in 1..Len(os) : /\ SameTerms(os[i], os2[i])
                               /\ os[i].fate \in Closed => os2[i].fate \in Closed
                               /\ os[i].fate = "open" => os2[i].fate \in Closed \cup {"open"}
  PROVE  TradeOK(os2, t)
<1>1. Len(os) \in Nat /\ Len(os2) \in Nat /\ \A i \in 1..Len(os) : i \in 1..Len(os2)
  BY LenProperties
<1>2. PICK b \in 1..Len(os), a \in 1..Len(os) : b = t.bid /\ a = t.ask
  BY DEF TradeOK
<1>3. SameTerms(os[b], os2[b]) /\ SameTerms(os[a], os2[a])
  OBVIOUS
<1>4. /\ os2[b].fate \in Closed \cup {"open"} /\ os2[a].fate \in Closed \cup {"open"}
      /\ os2[b].fate \in Closed \/ os2[a].fate \in Closed
  BY <1>2 DEF TradeOK
<1> QED BY <1>1, <1>2, <1>3, <1>4 DEF TradeOK, SameTerms

\* The matches stay true when orders come and close.
LEMMA TradesStay ==
  ASSUME NEW os \in Seq(OrderRecords), NEW tr, TradesOK(os, tr),
         NEW os2 \in Seq(OrderRecords), Len(os) <= Len(os2),
         \A i \in 1..Len(os) : /\ SameTerms(os[i], os2[i]) /\ os2[i].remaining = os[i].remaining
                               /\ os[i].fate \in Closed => os2[i].fate \in Closed
                               /\ os[i].fate = "open" => os2[i].fate \in Closed \cup {"open"},
         \A i \in 1..Len(os2) : i \notin 1..Len(os) => os2[i].remaining = os2[i].size
  PROVE  TradesOK(os2, tr)
<1>0. Len(os) \in Nat /\ Len(os2) \in Nat /\ \A i \in 1..Len(os) : i \in 1..Len(os2)
  BY LenProperties
<1>1. ASSUME NEW t \in tr PROVE TradeOK(os2, t)
  <2>1. TradeOK(os, t)
    BY DEF TradesOK
  <2> QED BY <2>1, TradeStays
<1>2. IsFiniteSet(tr) /\ \A t \in tr : t.size \in Nat
  BY DEF TradesOK, TradeOK
<1>3. ASSUME NEW i \in 1..Len(os2) PROVE os2[i].remaining + TradedIn(tr, i) = os2[i].size
  <2>1. CASE i \in 1..Len(os)
    BY <2>1 DEF TradesOK, SameTerms
  <2>2. CASE i \notin 1..Len(os)
    <3>1. \A t \in tr : i # t.bid /\ i # t.ask
      BY <2>2 DEF TradesOK, TradeOK
    <3>2. TradedIn(tr, i) = 0
      BY <1>2, <3>1, TradedIs
    <3>3. os2[i] \in OrderRecords
      BY ElementOfSeq
    <3>4. os2[i].size \in Nat
      BY <3>3 DEF OrderRecords
    <3> QED BY <2>2, <3>2, <3>4
  <2> QED BY <2>1, <2>2
<1> QED BY <1>1, <1>2, <1>3 DEF TradesOK

-----------------------------------------------------------------------------
(* One round of matchOrders.                                               *)

\* updateOrderFill: what is left of the order.
LEMMA FilledIs ==
  ASSUME NEW o \in OrderRecords, NEW size \in Nat, size <= o.remaining
  PROVE  /\ Filled(o, size) \in OrderRecords /\ SameTerms(o, Filled(o, size))
         /\ Filled(o, size).seen = o.seen /\ Filled(o, size).era = o.era
         /\ Filled(o, size).remaining = o.remaining - size
         /\ Filled(o, size).fate = IF o.remaining = size THEN "filled" ELSE o.fate
<1>1. PICK now : now = Filled(o, size)
  OBVIOUS
<1>2. /\ o.hash \in Hashes /\ o.pair \in Pairs /\ o.side \in {"LONG", "SHORT"} /\ o.price \in Nat /\ o.at \in 0..MaxTime
      /\ o.size \in Nat /\ o.remaining \in Nat /\ o.fate \in Fates /\ o.seen \in 0..MaxCalls /\ o.era \in 0..MaxStops
  BY DEF OrderRecords
<1>3. DOMAIN o = {"hash", "pair", "side", "price", "at", "size", "remaining", "fate", "seen", "era"}
  BY DEF OrderRecords
<1>4. /\ now.hash = o.hash /\ now.pair = o.pair /\ now.side = o.side /\ now.price = o.price /\ now.at = o.at
      /\ now.size = o.size /\ now.seen = o.seen /\ now.era = o.era
  BY <1>1, <1>3 DEF Filled
<1>5. now.remaining = o.remaining - size /\ now.fate = (IF o.remaining <= size THEN "filled" ELSE o.fate)
  BY <1>1, <1>3 DEF Filled
<1>6. now.remaining \in Nat /\ now.fate \in Fates /\ (o.remaining <= size <=> o.remaining = size)
  BY <1>2, <1>5 DEF Fates
<1>7. now \in OrderRecords
  <2>1. now = [hash |-> now.hash, pair |-> now.pair, side |-> now.side, price |-> now.price, at |-> now.at, size |-> now.size,
               remaining |-> now.remaining, fate |-> now.fate, seen |-> now.seen, era |-> now.era]
    BY <1>1 DEF Filled, OrderRecords
  <2> HIDE <1>1
  <2> QED BY <1>2, <1>4, <1>6, <2>1 DEF OrderRecords
<1> QED BY <1>1, <1>4, <1>5, <1>6, <1>7 DEF SameTerms

\* l2 is l, without its head if x = y.
ShortBy(l2, l, x, y) ==
  /\ l2 \in Seq(Nat) /\ Thinned(l2, l)
  /\ \A j \in 1..Len(l2) : (\E k \in 1..Len(l) : l2[j] = l[k]) /\ (x = y => l2[j] # Head(l))
  /\ \A k \in 1..Len(l) : (x = y => l[k] # Head(l)) => \E j \in 1..Len(l2) : l2[j] = l[k]

\* The list of the best order after the round.
LEMMA ShortIs ==
  ASSUME NEW l \in Seq(Nat), l # <<>>, \A j, k \in 1..Len(l) : j < k => l[j] # l[k], NEW x, NEW y,
         NEW l2, l2 = IF x = y THEN Tail(l) ELSE l
  PROVE  ShortBy(l2, l, x, y)
<1>1. CASE x = y
  <2>1. /\ Thinned(l2, l) /\ l2 \in Seq(Nat)
        /\ \A k \in 1..Len(l) : k # 1 => \E j \in 1..Len(l2) : l2[j] = l[k]
        /\ \A j \in 1..Len(l2) : \E k \in 1..Len(l) : k # 1 /\ l2[j] = l[k]
    BY <1>1, ThinnedTail
  <2>2. Head(l) = l[1] /\ Len(l) \in Nat \ {0}
    BY TailIs
  <2>3. \A k \in 1..Len(l) : k # 1 => l[k] # l[1]
    BY <2>2
  <2> QED BY <1>1, <2>1, <2>2, <2>3 DEF ShortBy
<1>2. CASE x # y
  BY <1>2, ThinnedSame DEF ShortBy
<1> QED BY <1>1, <1>2

Core(os, bk, tr) == OrdersOK(os) /\ BooksOK(os, bk) /\ TradesOK(os, tr)

\* Matching fills open orders and touches no other.
Moved(os, os2) ==
  /\ Len(os2) = Len(os)
  /\ \A i \in 1..Len(os) :
       /\ SameTerms(os[i], os2[i]) /\ os2[i].seen = os[i].seen /\ os2[i].era = os[i].era
       /\ os[i].fate # "open" => os2[i] = os[i]
       /\ os[i].fate = "open" => os2[i].fate \in {"open", "filled"}

\* No order of a list has expired.
FreshList(os, l) == \A k \in 1..Len(l) : os[l[k]].at + Ttl >= clock
FreshBook(os, b) == FreshList(os, b.bids) /\ FreshList(os, b.asks)

TradeRecords == [bid : Nat, ask : Nat, size : Nat, time : Nat, price : Nat]

\* The match t is made, which leaves the orders os2 and the books b2 of pair p.
IsRound(p, bk, tr, os, b, ts, os2, b2, t) ==
  /\ Round([orders |-> os, book |-> b, trades |-> ts]) = [orders |-> os2, book |-> b2, trades |-> Append(ts, t)]
  /\ Core(os2, [bk EXCEPT ![p] = b2], tr \cup {t}) /\ b2 \in BookRecords /\ FreshBook(os2, b2)
  /\ Moved(os, os2) /\ t \in TradeRecords /\ t \notin tr
  /\ t.bid \in 1..Len(os) /\ os[t.bid].fate = "open" /\ t.ask \in 1..Len(os) /\ os[t.ask].fate = "open"

\* A round in which the best bid and the best ask meet.
LEMMA RoundIs ==
  ASSUME clock \in Nat, NEW p \in Pairs, NEW bk \in [Pairs -> BookRecords], NEW tr,
         NEW os, NEW b \in BookRecords, Core(os, [bk EXCEPT ![p] = b], tr), FreshBook(os, b), Meets(os, b),
         NEW ts
  PROVE  \E os2, b2, t : IsRound(p, bk, tr, os, b, ts, os2, b2, t)
<1> DEFINE bk1 == [bk EXCEPT ![p] = b]
<1>0. /\ OrdersOK(os) /\ BooksOK(os, bk1) /\ TradesOK(os, tr)
      /\ os \in Seq(OrderRecords) /\ Len(os) \in Nat /\ \A i \in 1..Len(os) : os[i] \in OrderRecords
  <2>1. OrdersOK(os) /\ BooksOK(os, bk1) /\ TradesOK(os, tr)
    BY DEF Core
  <2>2. os \in Seq(OrderRecords)
    BY <2>1 DEF OrdersOK
  <2> HIDE DEF bk1
  <2> QED BY <2>1, <2>2, LenProperties, ElementOfSeq
<1>1. /\ bk1[p] = b /\ \A q \in Pairs : q # p => bk1[q] = bk[q]
      /\ b.bids = b["bids"] /\ b.asks = b["asks"]
  OBVIOUS
<1>2. ListOK(os, b.bids, p, "bids") /\ ListOK(os, b.asks, p, "asks")
  <2>1. \A q \in Pairs, s \in Lists : ListOK(os, bk1[q][s], q, s)
    BY <1>0 DEF BooksOK
  <2> HIDE DEF bk1
  <2> QED BY <1>1, <2>1 DEF Lists
<1> HIDE DEF bk1
<1>3. PICK bids, asks : bids = b.bids /\ asks = b.asks
  OBVIOUS
<1>4. /\ bids \in Seq(Nat) /\ bids # <<>> /\ Len(bids) \in Nat \ {0} /\ Head(bids) = bids[1]
      /\ asks \in Seq(Nat) /\ asks # <<>> /\ Len(asks) \in Nat \ {0} /\ Head(asks) = asks[1]
  <2>1. bids \in Seq(Nat) /\ bids # <<>> /\ asks \in Seq(Nat) /\ asks # <<>>
    BY <1>2, <1>3 DEF ListOK, Meets
  <2> QED BY <2>1, TailIs
<1>5. PICK bid, ask : bid = Head(bids) /\ ask = Head(asks)
  OBVIOUS
<1>6. /\ bid \in 1..Len(os) /\ os[bid].fate = "open" /\ os[bid].pair = p /\ ListFor(os[bid]) = "bids"
      /\ ask \in 1..Len(os) /\ os[ask].fate = "open" /\ os[ask].pair = p /\ ListFor(os[ask]) = "asks"
      /\ bid # ask
  <2>1. 1 \in 1..Len(bids) /\ 1 \in 1..Len(asks)
    BY <1>4
  <2>2. bid \in 1..Len(os) /\ os[bid].fate = "open" /\ os[bid].pair = p /\ ListFor(os[bid]) = "bids"
    BY <1>2, <1>3, <1>4, <1>5, <2>1 DEF ListOK
  <2>3. ask \in 1..Len(os) /\ os[ask].fate = "open" /\ os[ask].pair = p /\ ListFor(os[ask]) = "asks"
    BY <1>2, <1>3, <1>4, <1>5, <2>1 DEF ListOK
  <2>4. "bids" # "asks"
    OBVIOUS
  <2> QED BY <2>2, <2>3, <2>4
<1>7. PICK rb \in Nat, ra \in Nat : rb = os[bid].remaining /\ ra = os[ask].remaining /\ rb # 0 /\ ra # 0
  <2>1. os[bid] \in OrderRecords /\ os[ask] \in OrderRecords
    BY <1>0, <1>6
  <2>2. os[bid].remaining \in Nat /\ os[ask].remaining \in Nat
    BY <2>1 DEF OrderRecords
  <2>3. os[bid].remaining # 0 /\ os[ask].remaining # 0
    BY <1>0, <1>6 DEF OrdersOK
  <2> QED BY <2>2, <2>3
<1>8. PICK size \in Nat : /\ size = Min({os[bid].remaining, os[ask].remaining}) /\ size > 0
                          /\ size <= rb /\ size <= ra /\ (size = rb \/ size = ra)
  BY <1>7, MinOfTwo
<1>9. PICK os2 : os2 = [os EXCEPT ![bid] = Filled(@, size), ![ask] = Filled(@, size)]
  OBVIOUS
<1>10. PICK fb, fa : fb = Filled(os[bid], size) /\ fa = Filled(os[ask], size)
  OBVIOUS
<1>11. /\ fb \in OrderRecords /\ SameTerms(os[bid], fb) /\ fb.seen = os[bid].seen /\ fb.era = os[bid].era
       /\ fb.remaining = rb - size /\ fb.fate = IF rb = size THEN "filled" ELSE "open"
  <2>1. os[bid] \in OrderRecords /\ size <= os[bid].remaining
    BY <1>0, <1>6, <1>7, <1>8
  <2>2. /\ Filled(os[bid], size) \in OrderRecords /\ SameTerms(os[bid], Filled(os[bid], size))
        /\ Filled(os[bid], size).seen = os[bid].seen /\ Filled(os[bid], size).era = os[bid].era
        /\ Filled(os[bid], size).remaining = os[bid].remaining - size
        /\ Filled(os[bid], size).fate = IF os[bid].remaining = size THEN "filled" ELSE os[bid].fate
    BY <1>8, <2>1, FilledIs
  <2> QED BY <1>6, <1>7, <1>10, <2>2
<1>12. /\ fa \in OrderRecords /\ SameTerms(os[ask], fa) /\ fa.seen = os[ask].seen /\ fa.era = os[ask].era
       /\ fa.remaining = ra - size /\ fa.fate = IF ra = size THEN "filled" ELSE "open"
  <2>1. os[ask] \in OrderRecords /\ size <= os[ask].remaining
    BY <1>0, <1>6, <1>7, <1>8
  <2>2. /\ Filled(os[ask], size) \in OrderRecords /\ SameTerms(os[ask], Filled(os[ask], size))
        /\ Filled(os[ask], size).seen = os[ask].seen /\ Filled(os[ask], size).era = os[ask].era
        /\ Filled(os[ask], size).remaining = os[ask].remaining - size
        /\ Filled(os[ask], size).fate = IF os[ask].remaining = size THEN "filled" ELSE os[ask].fate
    BY <1>8, <2>1, FilledIs
  <2> QED BY <1>6, <1>7, <1>10, <2>2
<1>13. /\ os2 \in Seq(OrderRecords) /\ Len(os2) = Len(os) /\ os2[bid] = fb /\ os2[ask] = fa
       /\ \A i \in 1..Len(os) : i # bid /\ i # ask => os2[i] = os[i]
  <2>1. os2 = [os EXCEPT ![bid] = fb, ![ask] = fa]
    BY <1>6, <1>9, <1>10
  <2>2. os2 = [[os EXCEPT ![bid] = fb] EXCEPT ![ask] = fa]
    BY <2>1
  <2>3. PICK mid : mid = [os EXCEPT ![bid] = fb]
    OBVIOUS
  <2>4. mid \in Seq(OrderRecords) /\ Len(mid) = Len(os) /\ mid[bid] = fb /\ \A i \in 1..Len(os) : i # bid => mid[i] = os[i]
    BY <1>0, <1>6, <1>11, <2>3, ExceptSeq
  <2>5. os2 = [mid EXCEPT ![ask] = fa]
    BY <2>2, <2>3
  <2>6. os2 \in Seq(OrderRecords) /\ Len(os2) = Len(mid) /\ os2[ask] = fa /\ \A i \in 1..Len(mid) : i # ask => os2[i] = mid[i]
    BY <1>6, <1>12, <2>4, <2>5, ExceptSeq
  <2> QED BY <1>6, <2>4, <2>6
<1>14. Moved(os, os2)
  <2>1. ASSUME NEW i \in 1..Len(os)
        PROVE  /\ SameTerms(os[i], os2[i]) /\ os2[i].seen = os[i].seen /\ os2[i].era = os[i].era
               /\ os[i].fate # "open" => os2[i] = os[i]
               /\ os[i].fate = "open" => os2[i].fate \in {"open", "filled"}
    <3>1. CASE i = bid
      BY <1>6, <1>11, <1>13, <3>1
    <3>2. CASE i = ask
      BY <1>6, <1>12, <1>13, <3>2
    <3>3. CASE i # bid /\ i # ask
      BY <1>13, <3>3 DEF SameTerms
    <3> QED BY <3>1, <3>2, <3>3
  <2> QED BY <1>13, <2>1 DEF Moved
<1>15. OrdersOK(os2)
  <2>1. ASSUME NEW i \in 1..Len(os2) PROVE os2[i].size > 0 /\ (os2[i].fate = "filled" <=> os2[i].remaining = 0)
    <3>0. os[i].size > 0 /\ os2[i].size = os[i].size /\ (os[i].fate = "filled" <=> os[i].remaining = 0)
      BY <1>0, <1>13, <1>14 DEF OrdersOK, Moved, SameTerms
    <3>1. CASE i = bid
      BY <1>7, <1>8, <1>11, <1>13, <3>0, <3>1
    <3>2. CASE i = ask
      BY <1>7, <1>8, <1>12, <1>13, <3>0, <3>2
    <3>3. CASE i # bid /\ i # ask
      BY <1>13, <3>0, <3>3
    <3> QED BY <3>1, <3>2, <3>3
  <2> QED BY <1>0, <1>13, <2>1 DEF OrdersOK
<1>16. PICK bids2, asks2 : bids2 = (IF rb = size THEN Tail(bids) ELSE bids) /\ asks2 = (IF ra = size THEN Tail(asks) ELSE asks)
  OBVIOUS
<1>17. /\ bids2 \in Seq(Nat) /\ Thinned(bids2, bids)
       /\ \A j \in 1..Len(bids2) : (\E k \in 1..Len(bids) : bids2[j] = bids[k]) /\ (rb = size => bids2[j] # bid)
       /\ \A k \in 1..Len(bids) : (rb = size => bids[k] # bid) => \E j \in 1..Len(bids2) : bids2[j] = bids[k]
  <2>1. \A j, k \in 1..Len(bids) : j < k => bids[j] # bids[k]
    BY <1>2, <1>3 DEF ListOK
  <2>2. bids2 = IF rb = size THEN Tail(bids) ELSE bids
    BY <1>16
  <2>3. ShortBy(bids2, bids, rb, size)
    BY <1>4, <2>1, <2>2, ShortIs
  <2> QED BY <1>5, <2>3 DEF ShortBy
<1>18. /\ asks2 \in Seq(Nat) /\ Thinned(asks2, asks)
       /\ \A j \in 1..Len(asks2) : (\E k \in 1..Len(asks) : asks2[j] = asks[k]) /\ (ra = size => asks2[j] # ask)
       /\ \A k \in 1..Len(asks) : (ra = size => asks[k] # ask) => \E j \in 1..Len(asks2) : asks2[j] = asks[k]
  <2>1. \A j, k \in 1..Len(asks) : j < k => asks[j] # asks[k]
    BY <1>2, <1>3 DEF ListOK
  <2>2. asks2 = IF ra = size THEN Tail(asks) ELSE asks
    BY <1>16
  <2>3. ShortBy(asks2, asks, ra, size)
    BY <1>4, <2>1, <2>2, ShortIs
  <2> QED BY <1>5, <2>3 DEF ShortBy
<1>19. PICK b2 : b2 = [bids |-> bids2, asks |-> asks2]
  OBVIOUS
<1>20. b2 \in BookRecords /\ b2.bids = bids2 /\ b2.asks = asks2 /\ b2["bids"] = bids2 /\ b2["asks"] = asks2
  BY <1>17, <1>18, <1>19 DEF BookRecords
<1>21. PICK bk2 : bk2 = [bk EXCEPT ![p] = b2]
  OBVIOUS
<1>22. /\ bk2 \in [Pairs -> BookRecords] /\ bk2[p] = b2
       /\ \A q \in Pairs : q # p => bk2[q] = bk1[q]
  BY <1>1, <1>20, <1>21
\* Where an order of the books of before is.
<1>23. ASSUME NEW q \in Pairs, NEW s \in Lists, NEW k \in 1..Len(bk1[q][s])
       PROVE  LET i == bk1[q][s][k] IN
              /\ i \in 1..Len(os) /\ os[i].fate = "open" /\ (i = bid => q = p /\ s = "bids") /\ (i = ask => q = p /\ s = "asks")
  <2>1. ListOK(os, bk1[q][s], q, s)
    BY <1>0 DEF BooksOK
  <2> QED BY <1>6, <2>1 DEF ListOK
<1>24. ASSUME NEW q \in Pairs, NEW s \in Lists
       PROVE  /\ Thinned(bk2[q][s], bk1[q][s])
              /\ \A j \in 1..Len(bk2[q][s]) : os2[bk2[q][s][j]].fate = "open"
              /\ \A i \in 1..Len(os) : os2[i].fate = "open" =>
                   \A k \in 1..Len(bk1[q][s]) : bk1[q][s][k] = i => \E j \in 1..Len(bk2[q][s]) : bk2[q][s][j] = i
  <2>0. /\ bk1[q][s] \in Seq(Nat)
        /\ os2[bid].fate = "open" <=> rb # size
        /\ os2[ask].fate = "open" <=> ra # size
    <3>1. ListOK(os, bk1[q][s], q, s)
      BY <1>0 DEF BooksOK
    <3> QED BY <1>11, <1>12, <1>13, <3>1 DEF ListOK
  <2>1. CASE q # p
    <3>1. bk2[q][s] = bk1[q][s]
      BY <1>22, <2>1
    <3>2. \A j \in 1..Len(bk1[q][s]) : os2[bk1[q][s][j]].fate = "open"
      BY <1>13, <1>23, <2>1
    <3> QED BY <2>0, <3>1, <3>2, ThinnedSame
  <2>2. CASE q = p /\ s = "bids"
    <3>1. bk2[q][s] = bids2 /\ bk1[q][s] = bids
      BY <1>1, <1>3, <1>20, <1>22, <2>2
    <3>2. ASSUME NEW j \in 1..Len(bids2) PROVE os2[bids2[j]].fate = "open"
      <4>1. PICK k \in 1..Len(bids) : bids2[j] = bids[k]
        BY <1>17
      <4>2. bids[k] \in 1..Len(os) /\ os[bids[k]].fate = "open" /\ bids[k] # ask
        BY <1>23, <2>2, <3>1
      <4>3. CASE bids[k] = bid
        BY <1>17, <2>0, <4>1, <4>3
      <4>4. CASE bids[k] # bid
        BY <1>13, <4>1, <4>2, <4>4
      <4> QED BY <4>3, <4>4
    <3>3. ASSUME NEW i \in 1..Len(os), os2[i].fate = "open", NEW k \in 1..Len(bids), bids[k] = i
          PROVE  \E j \in 1..Len(bids2) : bids2[j] = i
      <4>1. rb = size => bids[k] # bid
        BY <2>0, <3>3
      <4> QED BY <1>17, <3>3, <4>1
    <3> QED BY <1>17, <3>1, <3>2, <3>3
  <2>3. CASE q = p /\ s = "asks"
    <3>1. bk2[q][s] = asks2 /\ bk1[q][s] = asks
      BY <1>1, <1>3, <1>20, <1>22, <2>3
    <3>2. ASSUME NEW j \in 1..Len(asks2) PROVE os2[asks2[j]].fate = "open"
      <4>1. PICK k \in 1..Len(asks) : asks2[j] = asks[k]
        BY <1>18
      <4>2. asks[k] \in 1..Len(os) /\ os[asks[k]].fate = "open" /\ asks[k] # bid
        BY <1>23, <2>3, <3>1
      <4>3. CASE asks[k] = ask
        BY <1>18, <2>0, <4>1, <4>3
      <4>4. CASE asks[k] # ask
        BY <1>13, <4>1, <4>2, <4>4
      <4> QED BY <4>3, <4>4
    <3>3. ASSUME NEW i \in 1..Len(os), os2[i].fate = "open", NEW k \in 1..Len(asks), asks[k] = i
          PROVE  \E j \in 1..Len(asks2) : asks2[j] = i
      <4>1. ra = size => asks[k] # ask
        BY <2>0, <3>3
      <4> QED BY <1>18, <3>3, <4>1
    <3> QED BY <1>18, <3>1, <3>2, <3>3
  <2>4. s = "bids" \/ s = "asks"
    BY DEF Lists
  <2> QED BY <2>1, <2>2, <2>3, <2>4
<1>25. BooksOK(os2, bk2)
  <2>1. \A i \in 1..Len(os) : SameTerms(os[i], os2[i])
    BY <1>14 DEF Moved
  <2>2. ASSUME NEW i \in 1..Len(os2), os2[i].fate = "open"
        PROVE  i \in 1..Len(os) /\ os[i].fate = "open" /\ StillIn(i, os, bk1, bk2)
    <3>1. i \in 1..Len(os) /\ os[i].fate = "open"
      BY <1>13, <1>14, <2>2 DEF Moved
    <3> QED BY <1>24, <2>2, <3>1 DEF StillIn
  <2>3. Len(os) <= Len(os2)
    BY <1>0, <1>13
  <2>4. /\ \A q \in Pairs, s \in Lists : Thinned(bk2[q][s], bk1[q][s])
        /\ \A q \in Pairs, s \in Lists : \A k \in 1..Len(bk2[q][s]) : os2[bk2[q][s][k]].fate = "open"
    BY <1>24
  <2>5. \A i \in 1..Len(os2) : os2[i].fate = "open" => i \in 1..Len(os) /\ os[i].fate = "open" /\ StillIn(i, os, bk1, bk2)
    BY <2>2
  <2>6. os2 \in Seq(OrderRecords) /\ bk2 \in [Pairs -> BookRecords]
    BY <1>13, <1>22
  <2> QED BY <1>0, <2>1, <2>3, <2>4, <2>5, <2>6, BooksThin
<1>26. PICK t : t = [bid |-> bid, ask |-> ask, size |-> size, time |-> clock, price |-> os[bid].price + os[ask].price]
  OBVIOUS
<1>27. t.bid = bid /\ t.ask = ask /\ t.size = size /\ t.time = clock /\ t.price = os[bid].price + os[ask].price
  BY <1>26
<1>28. t \notin tr
  <2>1. ASSUME t \in tr PROVE FALSE
    <3>1. os[bid].fate \in Closed \/ os[ask].fate \in Closed
      BY <1>0, <1>27, <2>1 DEF TradesOK, TradeOK
    <3> QED BY <1>6, <3>1 DEF Closed
  <2> QED BY <2>1
<1>29. TradeOK(os2, t)
  <2>1. os[bid] \in OrderRecords /\ os[ask] \in OrderRecords
    BY <1>0, <1>6
  <2>2. PICK pb \in Nat, pa \in Nat : pb = os[bid].price /\ pa = os[ask].price
    BY <2>1 DEF OrderRecords
  <2>3. pb >= pa
    BY <1>3, <1>5, <2>2 DEF Meets
  <2>4. /\ os2[bid].price = pb /\ os2[ask].price = pa /\ os2[bid].pair = p /\ os2[ask].pair = p
        /\ os2[bid].at = os[bid].at /\ os2[ask].at = os[ask].at
    BY <1>6, <1>14, <2>2 DEF Moved, SameTerms
  <2>5. os[bid].at + Ttl >= clock /\ os[ask].at + Ttl >= clock
    <3>1. 1 \in 1..Len(bids) /\ 1 \in 1..Len(asks)
      BY <1>4
    <3> QED BY <1>3, <1>4, <1>5, <3>1 DEF FreshBook, FreshList
  <2>6. /\ os2[bid].fate \in Closed \cup {"open"} /\ os2[ask].fate \in Closed \cup {"open"}
        /\ os2[bid].fate \in Closed \/ os2[ask].fate \in Closed
    BY <1>8, <1>11, <1>12, <1>13 DEF Closed
  <2>7. pb + pa \in Nat /\ 2 * pa <= pb + pa /\ pb + pa <= 2 * pb
    BY <2>2, <2>3
  <2> QED BY <1>6, <1>8, <1>13, <1>27, <2>2, <2>4, <2>5, <2>6, <2>7 DEF TradeOK
<1>30. TradesOK(os2, tr \cup {t})
  <2>1. IsFiniteSet(tr) /\ IsFiniteSet(tr \cup {t})
    BY <1>0, FS_AddElement DEF TradesOK
  <2>2. ASSUME NEW x \in tr PROVE TradeOK(os2, x)
    <3>1. TradeOK(os, x)
      BY <1>0 DEF TradesOK
    <3>2. ASSUME NEW i \in 1..Len(os)
          PROVE  /\ SameTerms(os[i], os2[i])
                 /\ os[i].fate \in Closed => os2[i].fate \in Closed
                 /\ os[i].fate = "open" => os2[i].fate \in Closed \cup {"open"}
      BY <1>14 DEF Moved, Closed
    <3> QED BY <1>0, <1>13, <3>1, <3>2, TradeStays
  <2>3. \A x \in tr \cup {t} : x.size \in Nat
    BY <1>29, <2>2 DEF TradeOK
  <2>4. ASSUME NEW i \in 1..Len(os2) PROVE os2[i].remaining + TradedIn(tr \cup {t}, i) = os2[i].size
    <3>1. TradedIn(tr \cup {t}, i) = TradedIn(tr, i) + ShareOf(t, i)
      <4>1. IsFiniteSet(tr) /\ t \notin tr /\ \A x \in tr \cup {t} : x.size \in Nat
        BY <1>28, <2>1, <2>3
      <4> QED BY <4>1, TradedMore
    <3>2. TradedIn(tr, i) \in Nat
      BY <2>1, <2>3, TradedIs
    <3>3. os[i].remaining + TradedIn(tr, i) = os[i].size /\ os2[i].size = os[i].size
      BY <1>0, <1>13, <1>14 DEF TradesOK, Moved, SameTerms
    <3>4. PICK n \in Nat : n = TradedIn(tr, i)
      BY <3>2
    <3>8. ASSUME i \in {bid, ask}, NEW r \in Nat, r = os[i].remaining, os2[i].remaining = r - size
          PROVE  os2[i].remaining + TradedIn(tr \cup {t}, i) = os2[i].size
      <4>1. TradedIn(tr \cup {t}, i) = n + size
        BY <1>27, <3>1, <3>4, <3>8 DEF ShareOf
      <4>2. r + n = os2[i].size
        BY <3>3, <3>4, <3>8
      <4> QED BY <1>8, <3>8, <4>1, <4>2
    <3>5. CASE i = bid
      <4>1. rb \in Nat /\ rb = os[i].remaining /\ os2[i].remaining = rb - size
        BY <1>7, <1>11, <1>13, <3>5
      <4> QED BY <3>5, <3>8, <4>1
    <3>6. CASE i = ask
      <4>1. ra \in Nat /\ ra = os[i].remaining /\ os2[i].remaining = ra - size
        BY <1>7, <1>12, <1>13, <3>6
      <4> QED BY <3>6, <3>8, <4>1
    <3>7. CASE i # bid /\ i # ask
      <4>1. ShareOf(t, i) = 0 /\ os2[i] = os[i]
        BY <1>13, <1>27, <3>7 DEF ShareOf
      <4> QED BY <3>1, <3>3, <3>4, <4>1
    <3> QED BY <3>5, <3>6, <3>7
  <2> QED BY <1>29, <2>1, <2>2, <2>4 DEF TradesOK
<1>31. FreshBook(os2, b2)
  <2>1. ASSUME NEW j \in 1..Len(bids2) PROVE os2[bids2[j]].at + Ttl >= clock
    <3>1. PICK k \in 1..Len(bids) : bids2[j] = bids[k]
      BY <1>17
    <3>2. bids[k] \in 1..Len(os) /\ os[bids[k]].at + Ttl >= clock
      BY <1>2, <1>3 DEF ListOK, FreshBook, FreshList
    <3> QED BY <1>14, <3>1, <3>2 DEF Moved, SameTerms
  <2>2. ASSUME NEW j \in 1..Len(asks2) PROVE os2[asks2[j]].at + Ttl >= clock
    <3>1. PICK k \in 1..Len(asks) : asks2[j] = asks[k]
      BY <1>18
    <3>2. asks[k] \in 1..Len(os) /\ os[asks[k]].at + Ttl >= clock
      BY <1>2, <1>3 DEF ListOK, FreshBook, FreshList
    <3> QED BY <1>14, <3>1, <3>2 DEF Moved, SameTerms
  <2> QED BY <1>20, <2>1, <2>2 DEF FreshBook, FreshList
<1>32. Round([orders |-> os, book |-> b, trades |-> ts]) = [orders |-> os2, book |-> b2, trades |-> Append(ts, t)]
  <2>1. (os2[bid].fate = "filled" <=> rb = size) /\ (os2[ask].fate = "filled" <=> ra = size)
    BY <1>11, <1>12, <1>13
  <2> QED BY <1>3, <1>5, <1>8, <1>9, <1>16, <1>19, <1>26, <2>1 DEF Round
<1>33. Core(os2, [bk EXCEPT ![p] = b2], tr \cup {t})
  BY <1>15, <1>21, <1>25, <1>30 DEF Core
<1>34. t \in TradeRecords
  <2>1. os[bid] \in OrderRecords /\ os[ask] \in OrderRecords
    BY <1>0, <1>6
  <2>2. os[bid].price + os[ask].price \in Nat /\ bid \in Nat /\ ask \in Nat
    <3>1. os[bid].price \in Nat /\ os[ask].price \in Nat
      BY <2>1 DEF OrderRecords
    <3>2. \A i \in 1..Len(os) : i \in Nat
      BY <1>0
    <3> QED BY <1>6, <3>1, <3>2
  <2>3. PICK price \in Nat : price = os[bid].price + os[ask].price
    BY <2>2
  <2>4. t = [bid |-> bid, ask |-> ask, size |-> size, time |-> clock, price |-> price]
    BY <1>26, <2>3
  <2> QED BY <1>8, <2>2, <2>3, <2>4 DEF TradeRecords
<1> QED BY <1>6, <1>14, <1>20, <1>27, <1>28, <1>31, <1>32, <1>33, <1>34 DEF IsRound

-----------------------------------------------------------------------------
(* All the rounds.                                                         *)

LoopRecords == [orders : Seq(OrderRecords), book : BookRecords, trades : Seq(TradeRecords)]

\* Where s stands between two rounds for pair p, os being the orders before the first one.
LoopOK(s, os, p) ==
  /\ Core(s.orders, [book EXCEPT ![p] = s.book], trades \cup ToSet(s.trades))
  /\ FreshBook(s.orders, s.book) /\ Moved(os, s.orders)
  /\ Cardinality(trades \cup ToSet(s.trades)) = Cardinality(trades) + Len(s.trades)
  /\ \A t \in ToSet(s.trades) : os[t.bid].fate = "open" /\ os[t.ask].fate = "open"

\* Orders that move twice have moved.
LEMMA MovedOn ==
  ASSUME NEW os, NEW os2, NEW os3, Moved(os, os2), Moved(os2, os3)
  PROVE  Moved(os, os3)
<1>1. ASSUME NEW i \in 1..Len(os)
      PROVE  /\ SameTerms(os[i], os3[i]) /\ os3[i].seen = os[i].seen /\ os3[i].era = os[i].era
             /\ os[i].fate # "open" => os3[i] = os[i]
             /\ os[i].fate = "open" => os3[i].fate \in {"open", "filled"}
  <2>1. /\ SameTerms(os[i], os2[i]) /\ os2[i].seen = os[i].seen /\ os2[i].era = os[i].era
        /\ os[i].fate # "open" => os2[i] = os[i]
        /\ os[i].fate = "open" => os2[i].fate \in {"open", "filled"}
    BY DEF Moved
  <2>2. /\ SameTerms(os2[i], os3[i]) /\ os3[i].seen = os2[i].seen /\ os3[i].era = os2[i].era
        /\ os2[i].fate # "open" => os3[i] = os2[i]
        /\ os2[i].fate = "open" => os3[i].fate \in {"open", "filled"}
    BY DEF Moved
  <2> QED BY <2>1, <2>2 DEF SameTerms
<1> QED BY <1>1 DEF Moved

\* A round of the matching loop keeps the invariant.
LEMMA RoundKeeps ==
  ASSUME clock \in Nat, NEW p \in Pairs, book \in [Pairs -> BookRecords], IsFiniteSet(trades),
         NEW os, NEW s \in LoopRecords, LoopOK(s, os, p)
  PROVE  Round(s) \in LoopRecords /\ LoopOK(Round(s), os, p)
<1>1. CASE ~Meets(s.orders, s.book)
  BY <1>1 DEF Round
<1>2. CASE Meets(s.orders, s.book)
  <2>1. PICK tr : tr = trades \cup ToSet(s.trades)
    OBVIOUS
  <2>2. PICK os1, b, ts : os1 = s.orders /\ b = s.book /\ ts = s.trades
    OBVIOUS
  <2>3. /\ s = [orders |-> os1, book |-> b, trades |-> ts]
        /\ os1 \in Seq(OrderRecords) /\ b \in BookRecords /\ ts \in Seq(TradeRecords)
    BY <2>2 DEF LoopRecords
  <2>4. /\ Core(os1, [book EXCEPT ![p] = b], tr) /\ FreshBook(os1, b) /\ Moved(os, os1) /\ Meets(os1, b)
        /\ Cardinality(tr) = Cardinality(trades) + Len(ts)
        /\ \A t \in ToSet(ts) : os[t.bid].fate = "open" /\ os[t.ask].fate = "open"
    BY <1>2, <2>1, <2>2 DEF LoopOK
  <2>a. PICK os2, b2, t : IsRound(p, book, tr, os1, b, ts, os2, b2, t)
    BY <2>3, <2>4, RoundIs
  <2>5. /\ Round([orders |-> os1, book |-> b, trades |-> ts]) = [orders |-> os2, book |-> b2, trades |-> Append(ts, t)]
        /\ Core(os2, [book EXCEPT ![p] = b2], tr \cup {t}) /\ b2 \in BookRecords /\ FreshBook(os2, b2)
        /\ Moved(os1, os2) /\ t \in TradeRecords /\ t \notin tr
        /\ t.bid \in 1..Len(os1) /\ os1[t.bid].fate = "open" /\ t.ask \in 1..Len(os1) /\ os1[t.ask].fate = "open"
    BY <2>a DEF IsRound
  <2>6. PICK ts2 : ts2 = Append(ts, t)
    OBVIOUS
  <2>7. /\ ts2 \in Seq(TradeRecords) /\ Len(ts2) = Len(ts) + 1 /\ Len(ts) \in Nat
        /\ (\A k \in 1..Len(ts) : ts2[k] = ts[k]) /\ ts2[Len(ts) + 1] = t
    BY <2>3, <2>5, <2>6, AppendIs
  <2>8. ToSet(ts2) = ToSet(ts) \cup {t}
    <3>1. DOMAIN ts2 = 1..Len(ts) + 1 /\ DOMAIN ts = 1..Len(ts)
      BY <2>3, <2>7, LenProperties
    <3>2. \A k \in 1..Len(ts) + 1 : k \in 1..Len(ts) \/ k = Len(ts) + 1
      BY <2>7
    <3>3. Len(ts) + 1 \in 1..Len(ts) + 1 /\ \A k \in 1..Len(ts) : k \in 1..Len(ts) + 1
      BY <2>7
    <3>4. ToSet(ts2) = {ts2[k] : k \in 1..Len(ts) + 1} /\ ToSet(ts) = {ts[k] : k \in 1..Len(ts)}
      BY <3>1 DEF ToSet
    <3> QED BY <2>7, <3>2, <3>3, <3>4
  <2>9. trades \cup ToSet(ts2) = tr \cup {t}
    BY <2>1, <2>2, <2>8
  <2>10. Cardinality(trades \cup ToSet(ts2)) = Cardinality(trades) + Len(ts2)
    <3>1. IsFiniteSet(tr)
      BY <2>4 DEF Core, TradesOK
    <3>2. Cardinality(tr \cup {t}) = Cardinality(tr) + 1 /\ Cardinality(tr) \in Nat /\ Cardinality(trades) \in Nat
      BY <2>5, <3>1, FS_AddElement, FS_CardinalityType
    <3>3. PICK n \in Nat, m \in Nat : n = Cardinality(trades) /\ m = Len(ts)
      BY <2>7, <3>2
    <3>4. Cardinality(tr) = n + m /\ Cardinality(tr \cup {t}) = n + m + 1 /\ Len(ts2) = m + 1
      BY <2>4, <2>7, <3>2, <3>3
    <3>5. n + m + 1 = n + (m + 1)
      OBVIOUS
    <3> QED BY <2>9, <3>3, <3>4, <3>5
  <2>11. os2 \in Seq(OrderRecords)
    BY <2>5 DEF Core, OrdersOK
  <2>12. Moved(os, os2)
    BY <2>4, <2>5, MovedOn
  <2>13. os[t.bid].fate = "open" /\ os[t.ask].fate = "open"
    <3>1. Len(os1) = Len(os) /\ \A i \in 1..Len(os) : os[i].fate # "open" => os1[i] = os[i]
      BY <2>4 DEF Moved
    <3> QED BY <2>5, <3>1
  <2>14. PICK s2 : s2 = [orders |-> os2, book |-> b2, trades |-> ts2]
    OBVIOUS
  <2>15. s2.orders = os2 /\ s2.book = b2 /\ s2.trades = ts2 /\ s2 \in LoopRecords
    BY <2>5, <2>7, <2>11, <2>14 DEF LoopRecords
  <2>16. Core(s2.orders, [book EXCEPT ![p] = s2.book], trades \cup ToSet(s2.trades))
    BY <2>5, <2>9, <2>15
  <2>17. \A x \in ToSet(ts2) : os[x.bid].fate = "open" /\ os[x.ask].fate = "open"
    BY <2>4, <2>8, <2>13
  <2>18. LoopOK(s2, os, p)
    BY <2>5, <2>10, <2>12, <2>15, <2>16, <2>17 DEF LoopOK
  <2> QED BY <2>3, <2>5, <2>6, <2>14, <2>15, <2>18
<1> QED BY <1>1, <1>2

RoundsFrom(start) ==
  LET after[k \in 0..MaxRounds] == IF k = 0 THEN start ELSE Round(after[k - 1])
  IN after[MaxRounds]

\* However many rounds there are, they leave the books in order.
LEMMA RoundsKeep ==
  ASSUME clock \in Nat, NEW p \in Pairs, book \in [Pairs -> BookRecords], IsFiniteSet(trades),
         NEW os, NEW start \in LoopRecords, LoopOK(start, os, p)
  PROVE  RoundsFrom(start) \in LoopRecords /\ LoopOK(RoundsFrom(start), os, p)
<1>1. PICK N \in Nat : N = MaxRounds
  BY MatcherBoundsAssumption
<1> DEFINE Of(f) == [k \in 0..N |-> IF k = 0 THEN start ELSE Round(f[k - 1])]
           after == CHOOSE f : f = Of(f)
<1>2. RoundsFrom(start) = after[N]
  BY <1>1 DEF RoundsFrom
<1>3. PICK S : S = {s \in LoopRecords : LoopOK(s, os, p)}
  OBVIOUS
<1>4. start \in S /\ \A s \in S : Round(s) \in S
  BY <1>3, RoundKeeps
<1>5. after = Of(after)
  <2>1. PICK step : step = [x \in (1..N) \X S |-> Round(x[2])]
    OBVIOUS
  <2>2. step \in [(1..N) \X S -> S] /\ \A n \in 1..N, s \in S : step[<<n, s>>] = Round(s)
    BY <1>4, <2>1
  <2>3. PICK f : Recurs(f, N, S, start, step)
    BY <1>1, <1>4, <2>2, Recursion
  <2>4. f \in [0..N -> S] /\ f[0] = start /\ \A n \in 1..N : f[n] = step[<<n, f[n - 1]>>]
    BY <2>3 DEF Recurs
  <2>5. \A n \in 1..N : f[n] = Round(f[n - 1])
    <3>1. \A n \in 1..N : n - 1 \in 0..N
      BY <1>1
    <3> QED BY <2>2, <2>4, <3>1
  <2>6. f = Of(f)
    <3>1. \A n \in 0..N : n # 0 => n \in 1..N
      OBVIOUS
    <3> QED BY <2>4, <2>5, <3>1
  <2> HIDE DEF Of
  <2> QED BY <2>6
<1>6. after[0] = start /\ \A n \in 1..N : after[n] = Round(after[n - 1])
  <2> HIDE DEF after
  <2>1. \A n \in 0..N : after[n] = IF n = 0 THEN start ELSE Round(after[n - 1])
    BY <1>5
  <2>2. 0 \in 0..N /\ \A n \in 1..N : n \in 0..N /\ n # 0
    BY <1>1
  <2> QED BY <2>1, <2>2
<1> HIDE DEF after
<1> DEFINE Good == {n \in 0..N : after[n] \in S}
<1>7. Good \in SUBSET Nat /\ 0 \in Good /\ \A n \in 1..N : n - 1 \in Good => n \in Good
  BY <1>1, <1>4, <1>6
<1>8. N \in Good
  <2>1. 0..N \subseteq Good
    <3> HIDE DEF Good
    <3> QED BY <1>1, <1>7, UpTo
  <2> QED BY <1>1, <2>1
<1> QED BY <1>2, <1>3, <1>8

-----------------------------------------------------------------------------
(* removeExpiredOrders, and matchOrders as a whole.                        *)

\* The fate of an order changes, and nothing else of it.
LEMMA FateIs ==
  ASSUME NEW o \in OrderRecords, NEW f \in Fates
  PROVE  LET now == [o EXCEPT !.fate = f] IN
         /\ now \in OrderRecords /\ SameTerms(o, now) /\ now.seen = o.seen /\ now.era = o.era
         /\ now.remaining = o.remaining /\ now.fate = f
<1>1. PICK now : now = [o EXCEPT !.fate = f]
  OBVIOUS
<1>2. /\ o.hash \in Hashes /\ o.pair \in Pairs /\ o.side \in {"LONG", "SHORT"} /\ o.price \in Nat /\ o.at \in 0..MaxTime
      /\ o.size \in Nat /\ o.remaining \in Nat /\ o.seen \in 0..MaxCalls /\ o.era \in 0..MaxStops
  BY DEF OrderRecords
<1>3. DOMAIN o = {"hash", "pair", "side", "price", "at", "size", "remaining", "fate", "seen", "era"}
  BY DEF OrderRecords
<1>4. /\ now.hash = o.hash /\ now.pair = o.pair /\ now.side = o.side /\ now.price = o.price /\ now.at = o.at
      /\ now.size = o.size /\ now.seen = o.seen /\ now.era = o.era /\ now.remaining = o.remaining
  BY <1>1, <1>3
<1>5. now.fate = f
  BY <1>1, <1>3
<1>6. now \in OrderRecords
  <2>1. now = [hash |-> now.hash, pair |-> now.pair, side |-> now.side, price |-> now.price, at |-> now.at, size |-> now.size,
               remaining |-> now.remaining, fate |-> now.fate, seen |-> now.seen, era |-> now.era]
    BY <1>1 DEF OrderRecords
  <2> HIDE <1>1
  <2> QED BY <1>2, <1>4, <1>5, <2>1 DEF OrderRecords
<1> QED BY <1>1, <1>4, <1>5, <1>6 DEF SameTerms

Gone(p) == {i \in ToSet(book[p].bids \o book[p].asks) : Expired(i)}
AfterExpiry(p) == [i \in DOMAIN orders |-> IF i \in Gone(p) THEN [orders[i] EXCEPT !.fate = "expired"] ELSE orders[i]]

\* The orders os2 are those of before, of which those of gone have been given up as f.
Ended(os, gone, f, os2) ==
  /\ Len(os2) = Len(os)
  /\ \A i \in 1..Len(os) :
       /\ SameTerms(os[i], os2[i]) /\ os2[i].seen = os[i].seen /\ os2[i].era = os[i].era /\ os2[i].remaining = os[i].remaining
       /\ i \in gone => os2[i].fate = f
       /\ i \notin gone => os2[i] = os[i]

\* What giving up open orders leaves of the orders and the matches.
LEMMA EndedIs ==
  ASSUME NEW os, OrdersOK(os), NEW tr, TradesOK(os, tr), NEW gone, \A i \in gone : i \in 1..Len(os) /\ os[i].fate = "open",
         NEW f \in Closed, f # "filled", NEW os2, os2 = [i \in DOMAIN os |-> IF i \in gone THEN [os[i] EXCEPT !.fate = f] ELSE os[i]]
  PROVE  OrdersOK(os2) /\ TradesOK(os2, tr) /\ Ended(os, gone, f, os2)
<1>0. /\ os \in Seq(OrderRecords) /\ Len(os) \in Nat /\ DOMAIN os = 1..Len(os) /\ Len(os) <= MaxCalls
      /\ \A i \in 1..Len(os) : os[i] \in OrderRecords
  BY LenProperties, ElementOfSeq DEF OrdersOK
<1>1. f \in Fates
  BY DEF Closed, Fates
<1>2. ASSUME NEW i \in 1..Len(os)
      PROVE  /\ os2[i] \in OrderRecords /\ SameTerms(os[i], os2[i]) /\ os2[i].seen = os[i].seen /\ os2[i].era = os[i].era
             /\ os2[i].remaining = os[i].remaining
             /\ i \in gone => os2[i].fate = f
             /\ i \notin gone => os2[i] = os[i]
  <2>1. CASE i \in gone
    <3>1. os2[i] = [os[i] EXCEPT !.fate = f]
      BY <1>0, <2>1
    <3> QED BY <1>0, <1>1, <2>1, <3>1, FateIs
  <2>2. CASE i \notin gone
    <3>1. os2[i] = os[i]
      BY <1>0, <2>2
    <3> QED BY <1>0, <2>2, <3>1 DEF SameTerms
  <2> QED BY <2>1, <2>2
<1>3. os2 \in Seq(OrderRecords) /\ Len(os2) = Len(os)
  <2>1. os2 \in [1..Len(os) -> OrderRecords]
    <3>1. DOMAIN os2 = 1..Len(os) /\ os2 = [i \in 1..Len(os) |-> os2[i]]
      BY <1>0
    <3> QED BY <1>2, <3>1
  <2>2. os2 \in Seq(OrderRecords)
    BY <1>0, <2>1, IsASeq
  <2>3. DOMAIN os2 = 1..Len(os2) /\ DOMAIN os2 = 1..Len(os) /\ Len(os2) \in Nat
    BY <2>1, <2>2, LenProperties
  <2> QED BY <1>0, <2>2, <2>3
<1>4. Ended(os, gone, f, os2)
  BY <1>2, <1>3 DEF Ended
<1>5. OrdersOK(os2)
  <2>1. ASSUME NEW i \in 1..Len(os2) PROVE os2[i].size > 0 /\ (os2[i].fate = "filled" <=> os2[i].remaining = 0)
    <3>1. i \in 1..Len(os) /\ os[i].size > 0 /\ (os[i].fate = "filled" <=> os[i].remaining = 0)
      BY <1>3 DEF OrdersOK
    <3>2. CASE i \in gone
      <4>1. os[i].fate = "open" /\ os2[i].fate = f
        BY <1>2, <3>1, <3>2
      <4> QED BY <1>2, <3>1, <4>1 DEF SameTerms
    <3>3. CASE i \notin gone
      BY <1>2, <3>1, <3>3
    <3> QED BY <3>2, <3>3
  <2> QED BY <1>0, <1>3, <2>1 DEF OrdersOK
<1>6. TradesOK(os2, tr)
  <2>1. ASSUME NEW i \in 1..Len(os)
        PROVE  /\ SameTerms(os[i], os2[i]) /\ os2[i].remaining = os[i].remaining
               /\ os[i].fate \in Closed => os2[i].fate \in Closed
               /\ os[i].fate = "open" => os2[i].fate \in Closed \cup {"open"}
    BY <1>2
  <2>2. Len(os) <= Len(os2) /\ \A i \in 1..Len(os2) : i \notin 1..Len(os) => os2[i].remaining = os2[i].size
    BY <1>0, <1>3
  <2> QED BY <1>0, <1>3, <2>1, <2>2, TradesStay
<1> QED BY <1>4, <1>5, <1>6

\* Orders that have expired go.
LEMMA ExpiryIs ==
  ASSUME Core(orders, book, trades), clock \in Nat, NEW p \in Pairs
  PROVE  /\ Core(AfterExpiry(p), [book EXCEPT ![p] = Unexpired(book[p])], trades)
         /\ Unexpired(book[p]) \in BookRecords /\ FreshBook(AfterExpiry(p), Unexpired(book[p]))
         /\ Ended(orders, Gone(p), "expired", AfterExpiry(p))
         /\ \A i \in Gone(p) : i \in 1..Len(orders) /\ orders[i].fate = "open"
<1>0. /\ OrdersOK(orders) /\ BooksOK(orders, book) /\ TradesOK(orders, trades)
      /\ orders \in Seq(OrderRecords) /\ Len(orders) \in Nat /\ DOMAIN orders = 1..Len(orders)
      /\ \A i \in 1..Len(orders) : orders[i] \in OrderRecords
  <2>1. OrdersOK(orders) /\ BooksOK(orders, book) /\ TradesOK(orders, trades)
    BY DEF Core
  <2>2. orders \in Seq(OrderRecords)
    BY <2>1 DEF OrdersOK
  <2> QED BY <2>1, <2>2, LenProperties, ElementOfSeq
<1>1. PICK bids, asks : bids = book[p].bids /\ asks = book[p].asks
  OBVIOUS
<1>2. ListOK(orders, bids, p, "bids") /\ ListOK(orders, asks, p, "asks")
  BY <1>0, <1>1 DEF BooksOK, Lists
<1>3. bids \in Seq(Nat) /\ asks \in Seq(Nat) /\ DOMAIN bids = 1..Len(bids) /\ DOMAIN asks = 1..Len(asks)
  <2>1. bids \in Seq(Nat) /\ asks \in Seq(Nat)
    BY <1>2 DEF ListOK
  <2> QED BY <2>1, LenProperties
<1>4. ToSet(bids \o asks) = ToSet(bids) \cup ToSet(asks)
  <2>1. /\ bids \o asks \in Seq(Nat) /\ Len(bids \o asks) = Len(bids) + Len(asks) /\ Len(bids) \in Nat /\ Len(asks) \in Nat
        /\ \A k \in 1..Len(bids) + Len(asks) : (bids \o asks)[k] = IF k <= Len(bids) THEN bids[k] ELSE asks[k - Len(bids)]
    BY <1>3, ConcatProperties, LenProperties
  <2>2. PICK both : both = bids \o asks
    OBVIOUS
  <2>3. PICK n \in Nat, m \in Nat : n = Len(bids) /\ m = Len(asks)
    BY <2>1
  <2>4. DOMAIN both = 1..n + m
    BY <2>1, <2>2, <2>3, LenProperties
  <2>5. ASSUME NEW k \in 1..n + m PROVE both[k] \in ToSet(bids) \cup ToSet(asks)
    <3>1. CASE k <= n
      <4>1. k \in 1..n
        BY <3>1
      <4>2. both[k] = bids[k]
        BY <2>1, <2>2, <2>3, <3>1
      <4> QED BY <1>3, <2>3, <4>1, <4>2 DEF ToSet
    <3>2. CASE ~ (k <= n)
      <4>1. k - n \in 1..m
        BY <3>2
      <4>2. both[k] = asks[k - n]
        BY <2>1, <2>2, <2>3, <3>2
      <4> QED BY <1>3, <2>3, <4>1, <4>2 DEF ToSet
    <3> QED BY <3>1, <3>2
  <2>6. ASSUME NEW k \in 1..n PROVE bids[k] \in ToSet(both)
    <3>0. k \in 1..n + m /\ k <= n
      OBVIOUS
    <3>1. both[k] = bids[k]
      BY <2>1, <2>2, <2>3, <3>0
    <3> QED BY <2>4, <3>0, <3>1 DEF ToSet
  <2>7. ASSUME NEW k \in 1..m PROVE asks[k] \in ToSet(both)
    <3>1. k + n \in 1..n + m /\ ~ (k + n <= n) /\ k + n - n = k
      OBVIOUS
    <3>2. both[k + n] = asks[k + n - n]
      BY <2>1, <2>2, <2>3, <3>1
    <3> QED BY <2>4, <3>1, <3>2 DEF ToSet
  <2>8. /\ \A x : x \in ToSet(both) <=> \E k \in 1..n + m : x = both[k]
        /\ \A x : x \in ToSet(bids) <=> \E k \in 1..n : x = bids[k]
        /\ \A x : x \in ToSet(asks) <=> \E k \in 1..m : x = asks[k]
    BY <1>3, <2>3, <2>4 DEF ToSet
  <2>9. ToSet(both) \subseteq ToSet(bids) \cup ToSet(asks)
    BY <2>5, <2>8
  <2>10. ToSet(bids) \cup ToSet(asks) \subseteq ToSet(both)
    BY <2>6, <2>7, <2>8
  <2> QED BY <2>2, <2>9, <2>10
<1>5. \A i : i \in Gone(p) <=> Expired(i) /\ ((\E k \in 1..Len(bids) : bids[k] = i) \/ (\E k \in 1..Len(asks) : asks[k] = i))
  <2>1. Gone(p) = {i \in ToSet(bids) \cup ToSet(asks) : Expired(i)}
    BY <1>1, <1>4 DEF Gone
  <2> QED BY <1>3, <2>1 DEF ToSet
<1>6. \A i \in Gone(p) : i \in 1..Len(orders) /\ orders[i].fate = "open"
  <2>1. /\ \A k \in 1..Len(bids) : bids[k] \in 1..Len(orders) /\ orders[bids[k]].fate = "open"
        /\ \A k \in 1..Len(asks) : asks[k] \in 1..Len(orders) /\ orders[asks[k]].fate = "open"
    BY <1>2 DEF ListOK
  <2>2. ASSUME NEW i \in Gone(p) PROVE i \in 1..Len(orders) /\ orders[i].fate = "open"
    <3>1. (\E k \in 1..Len(bids) : bids[k] = i) \/ (\E k \in 1..Len(asks) : asks[k] = i)
      BY <1>5, <2>2
    <3> QED BY <2>1, <3>1
  <2> QED BY <2>2
<1>7. PICK os1 : os1 = AfterExpiry(p)
  OBVIOUS
<1>8. OrdersOK(os1) /\ TradesOK(os1, trades) /\ Ended(orders, Gone(p), "expired", os1)
  <2>1. PICK gone : gone = Gone(p)
    OBVIOUS
  <2>2. os1 = [i \in DOMAIN orders |-> IF i \in gone THEN [orders[i] EXCEPT !.fate = "expired"] ELSE orders[i]]
    BY <1>7, <2>1 DEF AfterExpiry
  <2>3. "expired" \in Closed /\ "expired" # "filled"
    BY DEF Closed
  <2>4. \A i \in gone : i \in 1..Len(orders) /\ orders[i].fate = "open"
    BY <1>6, <2>1
  <2>5. OrdersOK(os1) /\ TradesOK(os1, trades) /\ Ended(orders, gone, "expired", os1)
    <3>1. OrdersOK(orders) /\ TradesOK(orders, trades)
      BY <1>0
    <3> QED BY <2>2, <2>3, <2>4, <3>1, EndedIs
  <2> QED BY <2>1, <2>5
<1>9. PICK keep : keep = {i \in DOMAIN orders : ~Expired(i)}
  OBVIOUS
<1>10. PICK bids1, asks1 : bids1 = Filtered(bids, keep) /\ asks1 = Filtered(asks, keep)
  OBVIOUS
<1>11. /\ bids1 \in Seq(Nat) /\ Thinned(bids1, bids) /\ \A k \in 1..Len(bids1) : bids1[k] \in keep
       /\ \A k \in 1..Len(bids) : bids[k] \in keep => \E j \in 1..Len(bids1) : bids1[j] = bids[k]
       /\ asks1 \in Seq(Nat) /\ Thinned(asks1, asks) /\ \A k \in 1..Len(asks1) : asks1[k] \in keep
       /\ \A k \in 1..Len(asks) : asks[k] \in keep => \E j \in 1..Len(asks1) : asks1[j] = asks[k]
  <2>1. Filtered(bids, keep) \in Seq(Nat) /\ KeptOnly(Filtered(bids, keep), bids, keep)
    BY <1>3, FilteredIs
  <2>2. Filtered(asks, keep) \in Seq(Nat) /\ KeptOnly(Filtered(asks, keep), asks, keep)
    BY <1>3, FilteredIs
  <2> QED BY <1>10, <2>1, <2>2 DEF KeptOnly
<1>12. PICK b1 : b1 = [bids |-> bids1, asks |-> asks1]
  OBVIOUS
<1>13. b1 \in BookRecords /\ b1.bids = bids1 /\ b1.asks = asks1 /\ b1["bids"] = bids1 /\ b1["asks"] = asks1
  BY <1>11, <1>12 DEF BookRecords
<1>14. Unexpired(book[p]) = b1
  BY <1>1, <1>9, <1>10, <1>12 DEF Unexpired
<1>15. PICK bk : bk = [book EXCEPT ![p] = b1]
  OBVIOUS
<1>16. /\ bk \in [Pairs -> BookRecords] /\ bk[p] = b1 /\ \A q \in Pairs : q # p => bk[q] = book[q]
       /\ book[p]["bids"] = bids /\ book[p]["asks"] = asks
  BY <1>0, <1>1, <1>13, <1>15 DEF BooksOK
<1>17. /\ \A i \in 1..Len(orders) : SameTerms(orders[i], os1[i]) /\ (i \notin Gone(p) => os1[i] = orders[i])
                                    /\ (i \in Gone(p) => os1[i].fate = "expired")
       /\ Len(os1) = Len(orders) /\ os1 \in Seq(OrderRecords)
  BY <1>8 DEF Ended, OrdersOK
<1>18. ASSUME NEW i \in keep PROVE i \in 1..Len(orders) /\ i \notin Gone(p) /\ os1[i] = orders[i] /\ orders[i].at + Ttl >= clock
  <2>1. i \in 1..Len(orders) /\ ~Expired(i)
    BY <1>0, <1>9
  <2>2. orders[i].at \in Nat
    <3>1. orders[i] \in OrderRecords
      BY <1>0, <2>1
    <3> QED BY <3>1 DEF OrderRecords
  <2>3. orders[i].at + Ttl >= clock
    BY <2>1, <2>2, MatcherBoundsAssumption DEF Expired
  <2> QED BY <1>5, <1>17, <2>1, <2>3
<1>19. ASSUME NEW q \in Pairs, NEW s \in Lists
       PROVE  /\ Thinned(bk[q][s], book[q][s])
              /\ \A j \in 1..Len(bk[q][s]) : os1[bk[q][s][j]].fate = "open"
              /\ \A i \in 1..Len(orders) : i \notin Gone(p) =>
                   \A k \in 1..Len(book[q][s]) : book[q][s][k] = i => \E j \in 1..Len(bk[q][s]) : bk[q][s][j] = i
  <2>0. ListOK(orders, book[q][s], q, s)
    BY <1>0 DEF BooksOK
  <2>1. CASE q # p
    <3>1. bk[q][s] = book[q][s] /\ book[q][s] \in Seq(Nat)
      BY <1>16, <2>0, <2>1 DEF ListOK
    <3>2. ASSUME NEW j \in 1..Len(book[q][s]) PROVE os1[book[q][s][j]].fate = "open"
      <4>1. book[q][s][j] \in 1..Len(orders) /\ orders[book[q][s][j]].fate = "open" /\ orders[book[q][s][j]].pair = q
        BY <2>0 DEF ListOK
      <4>2. book[q][s][j] \notin Gone(p)
        <5>1. (\A k \in 1..Len(bids) : orders[bids[k]].pair = p) /\ (\A k \in 1..Len(asks) : orders[asks[k]].pair = p)
          BY <1>2 DEF ListOK
        <5>2. \A i \in Gone(p) : orders[i].pair = p
          BY <1>5, <5>1
        <5> QED BY <2>1, <4>1, <5>2
      <4> QED BY <1>17, <4>1, <4>2
    <3> QED BY <3>1, <3>2, ThinnedSame
  <2>2. CASE q = p /\ s = "bids"
    <3>1. bk[q][s] = bids1 /\ book[q][s] = bids
      BY <1>13, <1>16, <2>2
    <3>2. ASSUME NEW j \in 1..Len(bids1) PROVE os1[bids1[j]].fate = "open"
      <4>1. PICK k \in 1..Len(bids) : bids1[j] = bids[k]
        BY <1>11 DEF Thinned
      <4>2. orders[bids[k]].fate = "open" /\ bids[k] \in keep
        BY <1>2, <1>11, <4>1 DEF ListOK
      <4> QED BY <1>18, <4>1, <4>2
    <3>3. ASSUME NEW i \in 1..Len(orders), i \notin Gone(p), NEW k \in 1..Len(bids), bids[k] = i
          PROVE  \E j \in 1..Len(bids1) : bids1[j] = i
      <4>1. i \in keep
        BY <1>0, <1>5, <1>9, <3>3
      <4> QED BY <1>11, <3>3, <4>1
    <3> QED BY <1>11, <3>1, <3>2, <3>3
  <2>3. CASE q = p /\ s = "asks"
    <3>1. bk[q][s] = asks1 /\ book[q][s] = asks
      BY <1>13, <1>16, <2>3
    <3>2. ASSUME NEW j \in 1..Len(asks1) PROVE os1[asks1[j]].fate = "open"
      <4>1. PICK k \in 1..Len(asks) : asks1[j] = asks[k]
        BY <1>11 DEF Thinned
      <4>2. orders[asks[k]].fate = "open" /\ asks[k] \in keep
        BY <1>2, <1>11, <4>1 DEF ListOK
      <4> QED BY <1>18, <4>1, <4>2
    <3>3. ASSUME NEW i \in 1..Len(orders), i \notin Gone(p), NEW k \in 1..Len(asks), asks[k] = i
          PROVE  \E j \in 1..Len(asks1) : asks1[j] = i
      <4>1. i \in keep
        BY <1>0, <1>5, <1>9, <3>3
      <4> QED BY <1>11, <3>3, <4>1
    <3> QED BY <1>11, <3>1, <3>2, <3>3
  <2>4. s = "bids" \/ s = "asks"
    BY DEF Lists
  <2> QED BY <2>1, <2>2, <2>3, <2>4
<1>20. BooksOK(os1, bk)
  <2>1. \A i \in 1..Len(orders) : SameTerms(orders[i], os1[i])
    BY <1>17
  <2>2. \A i \in 1..Len(os1) : os1[i].fate = "open" => i \in 1..Len(orders) /\ orders[i].fate = "open" /\ StillIn(i, orders, book, bk)
    <3>1. ASSUME NEW i \in 1..Len(os1), os1[i].fate = "open"
          PROVE  i \in 1..Len(orders) /\ orders[i].fate = "open" /\ StillIn(i, orders, book, bk)
      <4>1. i \in 1..Len(orders) /\ i \notin Gone(p) /\ orders[i].fate = "open"
        BY <1>17, <3>1
      <4> QED BY <1>19, <4>1 DEF StillIn
    <3> QED BY <3>1
  <2>3. Len(orders) <= Len(os1)
    BY <1>0, <1>17
  <2>4. /\ \A q \in Pairs, s \in Lists : Thinned(bk[q][s], book[q][s])
        /\ \A q \in Pairs, s \in Lists : \A k \in 1..Len(bk[q][s]) : os1[bk[q][s][k]].fate = "open"
    BY <1>19
  <2>5. os1 \in Seq(OrderRecords) /\ bk \in [Pairs -> BookRecords]
    BY <1>16, <1>17
  <2> QED BY <1>0, <2>1, <2>2, <2>3, <2>4, <2>5, BooksThin
<1>21. FreshBook(os1, b1)
  BY <1>11, <1>13, <1>18 DEF FreshBook, FreshList
<1> QED BY <1>6, <1>7, <1>8, <1>13, <1>14, <1>15, <1>20, <1>21 DEF Core

-----------------------------------------------------------------------------
(* What holds in every state.                                              *)

WithFate(os, F) == {i \in 1..Len(os) : os[i].fate \in F}
CountRecords == [orders : Nat, matches : Nat, cancelled : Nat, expired : Nat]

\* The counters of getStats.
CountsOK(os, tr, c) ==
  /\ c \in CountRecords
  /\ c.expired = Cardinality(WithFate(os, {"expired"})) /\ c.cancelled = Cardinality(WithFate(os, {"cancelled"}))
  /\ c.orders = Cardinality(WithFate(os, Closed \cup {"open"}))
  /\ c.matches = Cardinality(tr)

\* The submits that wait are of orders that nobody has seen yet.
PendingOK(os, pd) ==
  /\ pd \in Seq([id : Nat, valid : BOOLEAN])
  /\ \A k \in 1..Len(pd) : pd[k].id \in 1..Len(os) /\ os[pd[k].id].fate = "pending"
  /\ \A j, k \in 1..Len(pd) : j < k => pd[j].id # pd[k].id

\* Open orders are of the time since the last shutdown.
EraOK(os, st) == \A i \in 1..Len(os) : os[i].era <= st /\ (os[i].fate = "open" => os[i].era = st)

\* Cancelling an order has freed its commitment.
Freed(os, h) == \E c \in 1..Len(os) : os[c].hash = h /\ os[c].fate = "cancelled"

ActiveOK(os, ac, st) ==
  /\ ac \subseteq Hashes
  /\ \A i \in 1..Len(os) : os[i].fate \in {"open", "filled"} /\ os[i].era = st /\ os[i].hash \notin ac => Freed(os, os[i].hash)

\* Two open orders of one commitment overlapped, and a submit that was found valid overlaps the open orders of its own.
RaceOK(os, pd) ==
  /\ \A i, j \in 1..Len(os) :
       i # j /\ os[i].fate = "open" /\ os[j].fate = "open" /\ os[i].hash = os[j].hash
         => (os[i].seen >= j /\ os[j].seen >= i) \/ Freed(os, os[i].hash)
  /\ \A k \in 1..Len(pd), i \in 1..Len(os) :
       pd[k].valid /\ os[i].fate = "open" /\ os[i].hash = os[pd[k].id].hash /\ os[i].seen < pd[k].id => Freed(os, os[i].hash)

MatcherInv ==
  /\ running \in BOOLEAN /\ clock \in 0..MaxTime /\ stops \in 0..MaxStops
  /\ Core(orders, book, trades)
  /\ CountsOK(orders, trades, counts)
  /\ PendingOK(orders, pending)
  /\ EraOK(orders, stops) /\ ActiveOK(orders, active, stops) /\ RaceOK(orders, pending)

\* The orders go on to be os2 and the submits that wait to be pd2, and none of them opens.
LEMMA RaceStays ==
  ASSUME NEW os, NEW os2, Len(os2) = Len(os),
         \A i \in 1..Len(os) : /\ SameTerms(os[i], os2[i]) /\ os2[i].seen = os[i].seen /\ os2[i].era = os[i].era
                               /\ os2[i].fate = "open" => os[i].fate = "open"
                               /\ os2[i].fate = "filled" => os[i].fate \in {"open", "filled"}
                               /\ os[i].fate = "cancelled" => os2[i].fate = "cancelled",
         NEW pd, NEW pd2, \A k \in 1..Len(pd2) : \E j \in 1..Len(pd) : pd2[k] = pd[j],
         \A k \in 1..Len(pd) : pd[k].id \in 1..Len(os),
         NEW ac, NEW ac2, ac2 \subseteq ac, \A h \in ac \ ac2 : Freed(os2, h), NEW st,
         EraOK(os, st), ActiveOK(os, ac, st), RaceOK(os, pd)
  PROVE  EraOK(os2, st) /\ ActiveOK(os2, ac2, st) /\ RaceOK(os2, pd2)
<1>1. ASSUME NEW h, Freed(os, h) PROVE Freed(os2, h)
  BY <1>1 DEF Freed, SameTerms
<1>2. EraOK(os2, st)
  BY DEF EraOK
<1>3. ActiveOK(os2, ac2, st)
  <2>1. ASSUME NEW i \in 1..Len(os2), os2[i].fate \in {"open", "filled"}, os2[i].era = st, os2[i].hash \notin ac2
        PROVE  Freed(os2, os2[i].hash)
    <3>1. i \in 1..Len(os) /\ os[i].fate \in {"open", "filled"} /\ os[i].era = st /\ os[i].hash = os2[i].hash
      BY <2>1 DEF SameTerms
    <3>2. CASE os[i].hash \in ac
      BY <2>1, <3>1, <3>2
    <3>3. CASE os[i].hash \notin ac
      BY <1>1, <3>1, <3>3 DEF ActiveOK
    <3> QED BY <3>2, <3>3
  <2> QED BY <2>1 DEF ActiveOK
<1>4. RaceOK(os2, pd2)
  <2>1. ASSUME NEW i \in 1..Len(os2), NEW j \in 1..Len(os2),
               i # j, os2[i].fate = "open", os2[j].fate = "open", os2[i].hash = os2[j].hash
        PROVE  (os2[i].seen >= j /\ os2[j].seen >= i) \/ Freed(os2, os2[i].hash)
    <3>1. /\ i \in 1..Len(os) /\ os[i].fate = "open" /\ os[i].hash = os2[i].hash /\ os[i].seen = os2[i].seen
          /\ j \in 1..Len(os) /\ os[j].fate = "open" /\ os[j].hash = os2[j].hash /\ os[j].seen = os2[j].seen
      BY <2>1 DEF SameTerms
    <3>2. (os[i].seen >= j /\ os[j].seen >= i) \/ Freed(os, os[i].hash)
      BY <2>1, <3>1 DEF RaceOK
    <3> QED BY <1>1, <3>1, <3>2
  <2>2. ASSUME NEW k \in 1..Len(pd2), NEW i \in 1..Len(os2),
               pd2[k].valid, os2[i].fate = "open", os2[i].hash = os2[pd2[k].id].hash, os2[i].seen < pd2[k].id
        PROVE  Freed(os2, os2[i].hash)
    <3>1. PICK j \in 1..Len(pd) : pd2[k] = pd[j]
      OBVIOUS
    <3>2. pd[j].id \in 1..Len(os) /\ os2[pd[j].id].hash = os[pd[j].id].hash
      BY DEF SameTerms
    <3>3. i \in 1..Len(os) /\ os[i].fate = "open" /\ os[i].hash = os2[i].hash /\ os[i].seen = os2[i].seen
      BY <2>2 DEF SameTerms
    <3>4. Freed(os, os[i].hash)
      BY <2>2, <3>1, <3>2, <3>3 DEF RaceOK
    <3> QED BY <1>1, <3>3, <3>4
  <2> QED BY <2>1, <2>2 DEF RaceOK
<1> QED BY <1>2, <1>3, <1>4

\* The orders of gone are given up as f.
CountedAs(os, gone, f, os2) ==
  /\ IsFiniteSet(gone) /\ Cardinality(gone) \in Nat
  /\ Cardinality(WithFate(os2, {f})) = Cardinality(WithFate(os, {f})) + Cardinality(gone)
  /\ \A g \in Closed : g # f => WithFate(os2, {g}) = WithFate(os, {g})
  /\ WithFate(os2, Closed \cup {"open"}) = WithFate(os, Closed \cup {"open"})

\* The counters follow the orders that end together.
LEMMA CountsAtEnd ==
  ASSUME NEW os, Len(os) \in Nat, NEW os2, NEW gone, NEW f \in Closed, Ended(os, gone, f, os2),
         \A i \in gone : i \in 1..Len(os) /\ os[i].fate = "open"
  PROVE  CountedAs(os, gone, f, os2)
<1>1. IsFiniteSet(1..Len(os))
  BY FS_Interval
<1>2. IsFiniteSet(gone) /\ IsFiniteSet(WithFate(os, {f})) /\ Cardinality(gone) \in Nat /\ Cardinality(WithFate(os, {f})) \in Nat
  <2>1. gone \subseteq 1..Len(os) /\ WithFate(os, {f}) \subseteq 1..Len(os)
    BY DEF WithFate
  <2> QED BY <1>1, <2>1, FS_Subset, FS_CardinalityType
<1>3. /\ Len(os2) = Len(os)
      /\ \A i \in 1..Len(os) : (i \in gone => os2[i].fate = f /\ os[i].fate = "open") /\ (i \notin gone => os2[i] = os[i])
  BY DEF Ended
<1>4. "open" \notin Closed
  BY DEF Closed
<1>5. WithFate(os2, {f}) = WithFate(os, {f}) \cup gone /\ WithFate(os, {f}) \cap gone = {}
  BY <1>3, <1>4 DEF WithFate
<1>6. Cardinality(WithFate(os2, {f})) = Cardinality(WithFate(os, {f})) + Cardinality(gone)
  <2>1. PICK A, B : A = WithFate(os, {f}) /\ B = gone
    OBVIOUS
  <2>2. IsFiniteSet(A) /\ IsFiniteSet(B) /\ A \cap B = {} /\ Cardinality(A) \in Nat /\ Cardinality(B) \in Nat
    BY <1>2, <1>5, <2>1
  <2>3. Cardinality(A \cup B) = Cardinality(A) + Cardinality(B)
    <3>1. Cardinality(A \cup B) = Cardinality(A) + Cardinality(B) - Cardinality(A \cap B)
      BY <2>2, FS_Union
    <3>2. Cardinality(A \cap B) = 0
      BY <2>2, FS_EmptySet
    <3> QED BY <2>2, <3>1, <3>2
  <2> QED BY <1>5, <2>1, <2>3
<1>7. \A g \in Closed : g # f => WithFate(os2, {g}) = WithFate(os, {g})
  BY <1>3, <1>4 DEF WithFate
<1>8. WithFate(os2, Closed \cup {"open"}) = WithFate(os, Closed \cup {"open"})
  BY <1>3 DEF WithFate
<1> QED BY <1>2, <1>6, <1>7, <1>8 DEF CountedAs

\* An order is submitted.
LEMMA SubmitKeeps ==
  ASSUME MatcherInv, NEW r \in Requests, NEW ok \in BOOLEAN, SubmitOrder(r, ok)
  PROVE  MatcherInv'
<1>1. PICK os, pd : os = orders /\ pd = pending
  OBVIOUS
<1>2. PICK size : size = Max({MinOrderSize, r.size})
  OBVIOUS
<1>3. PICK new : new = [hash |-> r.hash, pair |-> r.pair, side |-> r.side, price |-> r.price, at |-> r.at,
                        size |-> size, remaining |-> size, fate |-> "pending", seen |-> 0, era |-> 0]
  OBVIOUS
<1>4. PICK valid \in BOOLEAN : valid = IsValid(r, ok)
  BY DEF IsValid
<1>5. PICK call : call = [id |-> Len(os) + 1, valid |-> valid]
  OBVIOUS
<1>6. PICK os2, pd2 : os2 = orders' /\ pd2 = pending'
  OBVIOUS
<1>7. /\ os2 = Append(os, new) /\ pd2 = Append(pd, call) /\ Len(os) < MaxCalls /\ r.at <= clock
      /\ UNCHANGED <<running, book, active, counts, trades, clock, stops>>
  BY <1>1, <1>2, <1>3, <1>4, <1>5, <1>6 DEF SubmitOrder
<1>8. /\ Core(os, book, trades) /\ CountsOK(os, trades, counts) /\ PendingOK(os, pd) /\ EraOK(os, stops)
      /\ ActiveOK(os, active, stops) /\ RaceOK(os, pd)
      /\ running \in BOOLEAN /\ clock \in 0..MaxTime /\ stops \in 0..MaxStops
  BY <1>1 DEF MatcherInv
<1>9. OrdersOK(os) /\ BooksOK(os, book) /\ TradesOK(os, trades) /\ os \in Seq(OrderRecords) /\ Len(os) \in Nat
  <2>1. OrdersOK(os) /\ BooksOK(os, book) /\ TradesOK(os, trades) /\ os \in Seq(OrderRecords)
    BY <1>8 DEF Core, OrdersOK
  <2> QED BY <2>1, LenProperties
<1>10. /\ new \in OrderRecords /\ new.size = size /\ new.remaining = size /\ size \in Nat /\ size > 0
       /\ new.fate = "pending" /\ new.hash = r.hash /\ new.era = 0
  <2>1. size \in Nat /\ size > 0
    <3>1. MinOrderSize \in Nat \ {0} /\ r.size \in Nat
      BY MinSizeAssumption, RequestsAssumption
    <3> QED BY <1>2, <3>1, MaxOfTwo
  <2>2. /\ r.hash \in Hashes /\ r.pair \in Pairs /\ r.side \in {"LONG", "SHORT"} /\ r.price \in Nat /\ r.at \in 0..MaxTime
    <3>1. r.side \in {"LONG", "SHORT"} /\ r.price \in Nat /\ r.at \in Nat
      BY RequestsAssumption
    <3>2. r.at \in 0..MaxTime
      BY <1>7, <1>8, <3>1, MatcherBoundsAssumption
    <3> QED BY <3>1, <3>2 DEF Hashes, Pairs
  <2>3. "pending" \in Fates /\ 0 \in 0..MaxCalls /\ 0 \in 0..MaxStops
    BY MatcherBoundsAssumption DEF Fates
  <2>4. new \in OrderRecords
    BY <1>3, <2>1, <2>2, <2>3 DEF OrderRecords
  <2> QED BY <1>3, <2>1, <2>4
<1>11. /\ os2 \in Seq(OrderRecords) /\ Len(os2) = Len(os) + 1
       /\ (\A i \in 1..Len(os) : os2[i] = os[i]) /\ os2[Len(os) + 1] = new
  BY <1>7, <1>9, <1>10, AppendIs
<1>12. \A i \in 1..Len(os2) : i \in 1..Len(os) \/ i = Len(os) + 1
  BY <1>9, <1>11
<1>13. \A i \in 1..Len(os) : i \in 1..Len(os2) /\ os2[i] = os[i]
  BY <1>9, <1>11
<1>14. OrdersOK(os2)
  <2>1. ASSUME NEW i \in 1..Len(os2) PROVE os2[i].size > 0 /\ (os2[i].fate = "filled" <=> os2[i].remaining = 0)
    <3>1. CASE i \in 1..Len(os)
      BY <1>9, <1>13, <3>1 DEF OrdersOK
    <3>2. CASE i = Len(os) + 1
      BY <1>10, <1>11, <3>2
    <3> QED BY <1>12, <3>1, <3>2
  <2>2. Len(os2) <= MaxCalls
    BY <1>7, <1>9, <1>11, MatcherBoundsAssumption
  <2> QED BY <1>11, <2>1, <2>2 DEF OrdersOK
<1>15. \A i \in 1..Len(os) : SameTerms(os[i], os2[i])
  BY <1>13 DEF SameTerms
<1>16. Len(os) <= Len(os2)
  BY <1>9, <1>11
<1>17. BooksOK(os2, book)
  <2>1. \A i \in 1..Len(os) : os[i].fate = "open" => os2[i].fate = "open"
    BY <1>13
  <2>2. \A i \in 1..Len(os2) : os2[i].fate = "open" => i \in 1..Len(os) /\ os[i].fate = "open"
    BY <1>10, <1>11, <1>12
  <2> QED BY <1>9, <1>11, <1>15, <1>16, <2>1, <2>2, BooksStay
<1>18. TradesOK(os2, trades)
  <2>1. \A i \in 1..Len(os) : /\ SameTerms(os[i], os2[i]) /\ os2[i].remaining = os[i].remaining
                              /\ os[i].fate \in Closed => os2[i].fate \in Closed
                              /\ os[i].fate = "open" => os2[i].fate \in Closed \cup {"open"}
    BY <1>13, <1>15
  <2>2. \A i \in 1..Len(os2) : i \notin 1..Len(os) => os2[i].remaining = os2[i].size
    BY <1>10, <1>11, <1>12
  <2> QED BY <1>9, <1>11, <1>16, <2>1, <2>2, TradesStay
<1>19. CountsOK(os2, trades, counts)
  <2>1. ASSUME NEW F, "pending" \notin F PROVE WithFate(os2, F) = WithFate(os, F)
    BY <1>10, <1>11, <1>12, <1>13, <2>1 DEF WithFate
  <2>2. "pending" \notin Closed \cup {"open"} /\ "pending" \notin {"expired"} /\ "pending" \notin {"cancelled"}
    BY DEF Closed
  <2> QED BY <1>8, <2>1, <2>2 DEF CountsOK
<1>20. /\ pd \in Seq([id : Nat, valid : BOOLEAN]) /\ call \in [id : Nat, valid : BOOLEAN]
       /\ call.id = Len(os) + 1 /\ call.valid = valid
  BY <1>5, <1>8, <1>9 DEF PendingOK
<1>21. /\ pd2 \in Seq([id : Nat, valid : BOOLEAN]) /\ Len(pd2) = Len(pd) + 1 /\ Len(pd) \in Nat
       /\ (\A k \in 1..Len(pd) : pd2[k] = pd[k]) /\ pd2[Len(pd) + 1] = call
  BY <1>7, <1>20, AppendIs
<1>22. \A k \in 1..Len(pd2) : k \in 1..Len(pd) \/ k = Len(pd) + 1
  BY <1>21
<1>23. \A k \in 1..Len(pd) : pd[k].id \in 1..Len(os) /\ os[pd[k].id].fate = "pending"
  BY <1>8 DEF PendingOK
<1>24. PendingOK(os2, pd2)
  <2>1. Len(os) + 1 \in 1..Len(os2)
    BY <1>9, <1>11
  <2>2. \A k \in 1..Len(pd2) : pd2[k].id \in 1..Len(os2) /\ os2[pd2[k].id].fate = "pending"
    <3>1. ASSUME NEW k \in 1..Len(pd) PROVE pd2[k].id \in 1..Len(os2) /\ os2[pd2[k].id].fate = "pending"
      <4>1. PICK i \in 1..Len(os) : i = pd[k].id /\ os[i].fate = "pending"
        BY <1>23
      <4> QED BY <1>13, <1>21, <4>1
    <3>2. pd2[Len(pd) + 1].id \in 1..Len(os2) /\ os2[pd2[Len(pd) + 1].id].fate = "pending"
      BY <1>10, <1>11, <1>20, <1>21, <2>1
    <3> QED BY <1>22, <3>1, <3>2
  <2>3. ASSUME NEW j \in 1..Len(pd2), NEW k \in 1..Len(pd2), j < k PROVE pd2[j].id # pd2[k].id
    <3>1. j \in 1..Len(pd)
      BY <1>21, <2>3
    <3>2. CASE k \in 1..Len(pd)
      BY <1>8, <1>21, <2>3, <3>1, <3>2 DEF PendingOK
    <3>3. CASE k = Len(pd) + 1
      <4>1. pd2[j].id \in 1..Len(os) /\ pd2[k].id = Len(os) + 1
        BY <1>20, <1>21, <1>23, <3>1, <3>3
      <4> QED BY <1>9, <4>1
    <3> QED BY <1>22, <3>2, <3>3
  <2> QED BY <1>21, <2>2, <2>3 DEF PendingOK
<1>25. EraOK(os2, stops)
  BY <1>8, <1>10, <1>11, <1>12, <1>13 DEF EraOK
<1>26. ASSUME NEW h, Freed(os, h) PROVE Freed(os2, h)
  BY <1>13, <1>26 DEF Freed
<1>27. ActiveOK(os2, active, stops)
  BY <1>8, <1>10, <1>11, <1>12, <1>13, <1>26 DEF ActiveOK
<1>28. RaceOK(os2, pd2)
  <2>1. \A i \in 1..Len(os2) : os2[i].fate = "open" => i \in 1..Len(os) /\ os[i].fate = "open" /\ os2[i] = os[i]
    BY <1>10, <1>11, <1>12, <1>13
  <2>2. ASSUME NEW i \in 1..Len(os2), NEW j \in 1..Len(os2),
               i # j, os2[i].fate = "open", os2[j].fate = "open", os2[i].hash = os2[j].hash
        PROVE  (os2[i].seen >= j /\ os2[j].seen >= i) \/ Freed(os2, os2[i].hash)
    <3>1. (os[i].seen >= j /\ os[j].seen >= i) \/ Freed(os, os[i].hash)
      BY <1>8, <2>1, <2>2 DEF RaceOK
    <3> QED BY <1>26, <2>1, <2>2, <3>1
  <2>3. ASSUME NEW k \in 1..Len(pd2), NEW i \in 1..Len(os2),
               pd2[k].valid, os2[i].fate = "open", os2[i].hash = os2[pd2[k].id].hash, os2[i].seen < pd2[k].id
        PROVE  Freed(os2, os2[i].hash)
    <3>0. i \in 1..Len(os) /\ os[i].fate = "open" /\ os2[i] = os[i]
      BY <2>1, <2>3
    <3>1. CASE k \in 1..Len(pd)
      <4>1. pd2[k] = pd[k] /\ os2[pd[k].id] = os[pd[k].id]
        BY <1>13, <1>21, <1>23, <3>1
      <4>2. Freed(os, os[i].hash)
        BY <1>8, <2>3, <3>0, <3>1, <4>1 DEF RaceOK
      <4> QED BY <1>26, <3>0, <4>2
    <3>2. CASE k = Len(pd) + 1
      <4>1. valid /\ os[i].hash = r.hash
        BY <1>10, <1>11, <1>20, <1>21, <2>3, <3>0, <3>2
      <4>2. os[i].hash \notin active
        BY <1>4, <4>1 DEF IsValid
      <4>3. os[i].era = stops
        BY <1>8, <3>0 DEF EraOK
      <4>4. Freed(os, os[i].hash)
        BY <1>8, <3>0, <4>2, <4>3 DEF ActiveOK
      <4> QED BY <1>26, <3>0, <4>4
    <3> QED BY <1>22, <3>1, <3>2
  <2> QED BY <2>2, <2>3 DEF RaceOK
<1>29. Core(os2, book, trades)
  BY <1>14, <1>17, <1>18 DEF Core
<1> QED BY <1>6, <1>7, <1>8, <1>19, <1>24, <1>25, <1>27, <1>28, <1>29 DEF MatcherInv

\* The first call is first, and the others, later, come after it.
InTurn(os, pd, first, later) ==
  /\ first.id \in 1..Len(os) /\ os[first.id].fate = "pending" /\ first.valid \in BOOLEAN
  /\ first = pd[1] /\ 1 \in 1..Len(pd)
  /\ later \in Seq([id : Nat, valid : BOOLEAN])
  /\ \A k \in 1..Len(later) : \E j \in 1..Len(pd) : later[k] = pd[j] /\ pd[j].id # first.id
  /\ \A j, k \in 1..Len(later) : j < k => later[j].id # later[k].id

\* What waits behind the first call.
LEMMA NextCall ==
  ASSUME NEW os, NEW pd, PendingOK(os, pd), pd # <<>>
  PROVE  InTurn(os, pd, Head(pd), Tail(pd))
<1>1. pd \in Seq([id : Nat, valid : BOOLEAN])
  BY DEF PendingOK
<1>2. PICK later : later = Tail(pd)
  OBVIOUS
<1>3. /\ Head(pd) = pd[1] /\ later \in Seq([id : Nat, valid : BOOLEAN]) /\ Len(later) = Len(pd) - 1 /\ Len(pd) \in Nat \ {0}
      /\ \A k \in 1..Len(pd) - 1 : later[k] = pd[k + 1]
  BY <1>1, <1>2, TailIs
<1>4. 1 \in 1..Len(pd) /\ pd[1] \in [id : Nat, valid : BOOLEAN]
  <2>1. 1 \in 1..Len(pd)
    BY <1>3
  <2> QED BY <1>1, <2>1, ElementOfSeq
<1>5. ASSUME NEW k \in 1..Len(later) PROVE k + 1 \in 1..Len(pd) /\ later[k] = pd[k + 1] /\ pd[k + 1].id # pd[1].id
  <2>1. k + 1 \in 1..Len(pd) /\ 1 < k + 1 /\ later[k] = pd[k + 1]
    BY <1>3
  <2> QED BY <1>4, <2>1 DEF PendingOK
<1>6. ASSUME NEW j \in 1..Len(later), NEW k \in 1..Len(later), j < k PROVE later[j].id # later[k].id
  <2>1. j + 1 < k + 1
    BY <1>3, <1>6
  <2>2. pd[j + 1].id # pd[k + 1].id
    BY <1>5, <2>1 DEF PendingOK
  <2> QED BY <1>5, <2>2
<1>7. Head(pd).id \in 1..Len(os) /\ os[Head(pd).id].fate = "pending" /\ Head(pd).valid \in BOOLEAN
  BY <1>3, <1>4 DEF PendingOK
<1> QED BY <1>2, <1>3, <1>4, <1>5, <1>6, <1>7 DEF InTurn

\* An order is rejected.
LEMMA RejectKeeps ==
  ASSUME MatcherInv, Resume, ~Head(pending).valid
  PROVE  MatcherInv'
<1>1. PICK os, pd, os2, pd2 : os = orders /\ pd = pending /\ os2 = orders' /\ pd2 = pending'
  OBVIOUS
<1>2. PICK i : i = Head(pd).id
  OBVIOUS
<1>3. /\ pd # <<>> /\ pd2 = Tail(pd) /\ os2 = [os EXCEPT ![i].fate = "rejected"]
      /\ UNCHANGED <<running, book, active, counts, trades, clock, stops>>
  BY <1>1, <1>2 DEF Resume
<1>4. /\ Core(os, book, trades) /\ CountsOK(os, trades, counts) /\ PendingOK(os, pd) /\ EraOK(os, stops)
      /\ ActiveOK(os, active, stops) /\ RaceOK(os, pd)
      /\ running \in BOOLEAN /\ clock \in 0..MaxTime /\ stops \in 0..MaxStops
  BY <1>1 DEF MatcherInv
<1>5. OrdersOK(os) /\ BooksOK(os, book) /\ TradesOK(os, trades) /\ os \in Seq(OrderRecords) /\ Len(os) \in Nat
  <2>1. OrdersOK(os) /\ BooksOK(os, book) /\ TradesOK(os, trades) /\ os \in Seq(OrderRecords)
    BY <1>4 DEF Core, OrdersOK
  <2> QED BY <2>1, LenProperties
<1>6. /\ i \in 1..Len(os) /\ os[i].fate = "pending"
      /\ pd2 \in Seq([id : Nat, valid : BOOLEAN])
      /\ \A k \in 1..Len(pd2) : \E j \in 1..Len(pd) : pd2[k] = pd[j] /\ pd[j].id # i
      /\ \A j, k \in 1..Len(pd2) : j < k => pd2[j].id # pd2[k].id
  <2>1. InTurn(os, pd, Head(pd), Tail(pd))
    BY <1>3, <1>4, NextCall
  <2> QED BY <1>2, <1>3, <2>1 DEF InTurn
<1>7. PICK now : now = [os[i] EXCEPT !.fate = "rejected"]
  OBVIOUS
<1>8. os[i] \in OrderRecords
  BY <1>5, <1>6, ElementOfSeq
<1>9. /\ now \in OrderRecords /\ SameTerms(os[i], now) /\ now.seen = os[i].seen /\ now.era = os[i].era
      /\ now.remaining = os[i].remaining /\ now.fate = "rejected"
  <2>1. "rejected" \in Fates
    BY DEF Fates
  <2> QED BY <1>7, <1>8, <2>1, FateIs
<1>10. /\ os2 \in Seq(OrderRecords) /\ Len(os2) = Len(os) /\ os2[i] = now
       /\ \A j \in 1..Len(os) : j # i => os2[j] = os[j]
  <2>1. os2 = [os EXCEPT ![i] = now]
    BY <1>3, <1>7
  <2> QED BY <1>5, <1>6, <1>9, <2>1, ExceptSeq
<1>11. \A j \in 1..Len(os) : SameTerms(os[j], os2[j]) /\ os2[j].seen = os[j].seen /\ os2[j].era = os[j].era /\ os2[j].remaining = os[j].remaining
  <2>1. ASSUME NEW j \in 1..Len(os)
        PROVE  SameTerms(os[j], os2[j]) /\ os2[j].seen = os[j].seen /\ os2[j].era = os[j].era /\ os2[j].remaining = os[j].remaining
    <3>1. CASE j = i
      BY <1>9, <1>10, <3>1
    <3>2. CASE j # i
      BY <1>10, <3>2 DEF SameTerms
    <3> QED BY <3>1, <3>2
  <2> QED BY <2>1
<1>12. ASSUME NEW j \in 1..Len(os), NEW f, f # "pending", f # "rejected" PROVE os2[j].fate = f <=> os[j].fate = f
  BY <1>6, <1>9, <1>10, <1>12
<1>13. OrdersOK(os2)
  <2>1. ASSUME NEW j \in 1..Len(os2) PROVE os2[j].size > 0 /\ (os2[j].fate = "filled" <=> os2[j].remaining = 0)
    <3>1. os[j].size > 0 /\ (os[j].fate = "filled" <=> os[j].remaining = 0) /\ SameTerms(os[j], os2[j]) /\ os2[j].remaining = os[j].remaining
      BY <1>5, <1>10, <1>11 DEF OrdersOK
    <3>2. os2[j].fate = "filled" <=> os[j].fate = "filled"
      BY <1>10, <1>12
    <3> QED BY <3>1, <3>2 DEF SameTerms
  <2> QED BY <1>5, <1>10, <2>1 DEF OrdersOK
<1>14. Len(os) <= Len(os2) /\ \A j \in 1..Len(os) : SameTerms(os[j], os2[j])
  BY <1>5, <1>10, <1>11
<1>15. BooksOK(os2, book)
  <2>1. \A j \in 1..Len(os) : os[j].fate = "open" => os2[j].fate = "open"
    BY <1>12
  <2>2. \A j \in 1..Len(os2) : os2[j].fate = "open" => j \in 1..Len(os) /\ os[j].fate = "open"
    BY <1>10, <1>12
  <2> QED BY <1>5, <1>10, <1>14, <2>1, <2>2, BooksStay
<1>16. ASSUME NEW F, "pending" \notin F, "rejected" \notin F
       PROVE  /\ \A j \in 1..Len(os) : os2[j].fate \in F <=> os[j].fate \in F
              /\ WithFate(os2, F) = WithFate(os, F)
  <2>1. ASSUME NEW j \in 1..Len(os) PROVE os2[j].fate \in F <=> os[j].fate \in F
    BY <1>6, <1>9, <1>10, <1>16
  <2> QED BY <1>10, <2>1 DEF WithFate
<1>17. "pending" \notin Closed /\ "rejected" \notin Closed
  BY DEF Closed
<1>18. TradesOK(os2, trades)
  <2>1. \A j \in 1..Len(os) : /\ SameTerms(os[j], os2[j]) /\ os2[j].remaining = os[j].remaining
                              /\ os[j].fate \in Closed => os2[j].fate \in Closed
                              /\ os[j].fate = "open" => os2[j].fate \in Closed \cup {"open"}
    BY <1>11, <1>12, <1>16, <1>17
  <2>2. \A j \in 1..Len(os2) : j \notin 1..Len(os) => os2[j].remaining = os2[j].size
    BY <1>10
  <2> QED BY <1>5, <1>10, <1>14, <2>1, <2>2, TradesStay
<1>19. CountsOK(os2, trades, counts)
  <2>1. "pending" \notin Closed \cup {"open"} /\ "rejected" \notin Closed \cup {"open"}
    BY <1>17
  <2>2. WithFate(os2, Closed \cup {"open"}) = WithFate(os, Closed \cup {"open"})
    BY <1>16, <2>1
  <2>3. WithFate(os2, {"expired"}) = WithFate(os, {"expired"}) /\ WithFate(os2, {"cancelled"}) = WithFate(os, {"cancelled"})
    BY <1>16
  <2> QED BY <1>4, <2>2, <2>3 DEF CountsOK
<1>20. PendingOK(os2, pd2)
  <2>1. ASSUME NEW k \in 1..Len(pd2) PROVE pd2[k].id \in 1..Len(os2) /\ os2[pd2[k].id].fate = "pending"
    <3>1. PICK j \in 1..Len(pd) : pd2[k] = pd[j] /\ pd[j].id # i
      BY <1>6
    <3>2. pd[j].id \in 1..Len(os) /\ os[pd[j].id].fate = "pending"
      BY <1>4 DEF PendingOK
    <3> QED BY <1>10, <3>1, <3>2
  <2> QED BY <1>6, <2>1 DEF PendingOK
<1>21. EraOK(os2, stops) /\ ActiveOK(os2, active, stops) /\ RaceOK(os2, pd2)
  <2>1. \A j \in 1..Len(os) : /\ SameTerms(os[j], os2[j]) /\ os2[j].seen = os[j].seen /\ os2[j].era = os[j].era
                              /\ os2[j].fate = "open" => os[j].fate = "open"
                              /\ os2[j].fate = "filled" => os[j].fate \in {"open", "filled"}
                              /\ os[j].fate = "cancelled" => os2[j].fate = "cancelled"
    BY <1>11, <1>12
  <2>2. \A k \in 1..Len(pd2) : \E j \in 1..Len(pd) : pd2[k] = pd[j]
    BY <1>6
  <2>3. \A k \in 1..Len(pd) : pd[k].id \in 1..Len(os)
    BY <1>4 DEF PendingOK
  <2>4. active \subseteq active /\ \A h \in active \ active : Freed(os2, h)
    OBVIOUS
  <2> QED BY <1>4, <1>10, <2>1, <2>2, <2>3, <2>4, RaceStays
<1> QED BY <1>1, <1>3, <1>4, <1>13, <1>15, <1>18, <1>19, <1>20, <1>21 DEF MatcherInv, Core

\* now is the order o, entered.
Opens(o, seen, era, now) ==
  /\ now \in OrderRecords /\ SameTerms(o, now) /\ now.seen = seen /\ now.era = era
  /\ now.remaining = o.remaining /\ now.fate = "open"

\* An order that is opened, field by field.
LEMMA OpenedIs ==
  ASSUME NEW o \in OrderRecords, NEW seen \in 0..MaxCalls, NEW era \in 0..MaxStops
  PROVE  Opens(o, seen, era, [o EXCEPT !.fate = "open", !.seen = seen, !.era = era])
<1>1. PICK now : now = [o EXCEPT !.fate = "open", !.seen = seen, !.era = era]
  OBVIOUS
<1>2. /\ o.hash \in Hashes /\ o.pair \in Pairs /\ o.side \in {"LONG", "SHORT"} /\ o.price \in Nat /\ o.at \in 0..MaxTime
      /\ o.size \in Nat /\ o.remaining \in Nat /\ "open" \in Fates
  BY DEF OrderRecords, Fates
<1>3. DOMAIN o = {"hash", "pair", "side", "price", "at", "size", "remaining", "fate", "seen", "era"}
  BY DEF OrderRecords
<1>4. /\ now.hash = o.hash /\ now.pair = o.pair /\ now.side = o.side /\ now.price = o.price /\ now.at = o.at
      /\ now.size = o.size /\ now.remaining = o.remaining
  BY <1>1, <1>3
<1>5. now.fate = "open" /\ now.seen = seen /\ now.era = era
  BY <1>1, <1>3
<1>6. now \in OrderRecords
  <2>1. now = [hash |-> now.hash, pair |-> now.pair, side |-> now.side, price |-> now.price, at |-> now.at, size |-> now.size,
               remaining |-> now.remaining, fate |-> now.fate, seen |-> now.seen, era |-> now.era]
    BY <1>1 DEF OrderRecords
  <2> HIDE <1>1
  <2> QED BY <1>2, <1>4, <1>5, <2>1 DEF OrderRecords
<1>7. Opens(o, seen, era, now)
  BY <1>4, <1>5, <1>6 DEF SameTerms, Opens
<1> QED BY <1>1, <1>7

\* An order is accepted.
LEMMA AcceptKeeps ==
  ASSUME MatcherInv, Resume, Head(pending).valid
  PROVE  MatcherInv'
<1>1. PICK os, pd, os2, pd2 : os = orders /\ pd = pending /\ os2 = orders' /\ pd2 = pending'
  OBVIOUS
<1>2. PICK i : i = Head(pd).id
  OBVIOUS
<1>a. PICK q, s : q = os[i].pair /\ s = ListFor(os[i])
  OBVIOUS
<1>b. PICK bk, bk2 : bk = book /\ bk2 = book'
  OBVIOUS
<1>3. /\ pd # <<>> /\ pd2 = Tail(pd)
      /\ os2 = [os EXCEPT ![i].fate = "open", ![i].seen = Len(os), ![i].era = stops]
      /\ bk2 = [bk EXCEPT ![q][s] = Inserted(@, i)]
      /\ active' = active \cup {os[i].hash} /\ counts' = [counts EXCEPT !.orders = @ + 1]
      /\ UNCHANGED <<running, trades, clock, stops>>
  BY <1>1, <1>2, <1>a, <1>b DEF Resume, SideOf, ListFor
<1>4. /\ Core(os, bk, trades) /\ CountsOK(os, trades, counts) /\ PendingOK(os, pd) /\ EraOK(os, stops)
      /\ ActiveOK(os, active, stops) /\ RaceOK(os, pd)
      /\ running \in BOOLEAN /\ clock \in 0..MaxTime /\ stops \in 0..MaxStops
  BY <1>1, <1>b DEF MatcherInv
<1>5. OrdersOK(os) /\ BooksOK(os, bk) /\ TradesOK(os, trades) /\ os \in Seq(OrderRecords) /\ Len(os) \in Nat /\ Len(os) <= MaxCalls
  <2>1. OrdersOK(os) /\ BooksOK(os, bk) /\ TradesOK(os, trades) /\ os \in Seq(OrderRecords) /\ Len(os) <= MaxCalls
    BY <1>4 DEF Core, OrdersOK
  <2> QED BY <2>1, LenProperties
<1>c. InTurn(os, pd, Head(pd), Tail(pd))
  BY <1>3, <1>4, NextCall
<1>6. /\ i \in 1..Len(os) /\ os[i].fate = "pending"
      /\ pd2 \in Seq([id : Nat, valid : BOOLEAN])
      /\ \A k \in 1..Len(pd2) : \E j \in 1..Len(pd) : pd2[k] = pd[j] /\ pd[j].id # i
      /\ \A j, k \in 1..Len(pd2) : j < k => pd2[j].id # pd2[k].id
  BY <1>2, <1>3, <1>c DEF InTurn
<1>7. PICK now : now = [os[i] EXCEPT !.fate = "open", !.seen = Len(os), !.era = stops]
  OBVIOUS
<1>8. os[i] \in OrderRecords
  BY <1>5, <1>6, ElementOfSeq
<1>9. /\ now \in OrderRecords /\ SameTerms(os[i], now) /\ now.seen = Len(os) /\ now.era = stops
      /\ now.remaining = os[i].remaining /\ now.fate = "open"
  <2>1. PICK seen, era : seen = Len(os) /\ era = stops
    OBVIOUS
  <2>2. seen \in 0..MaxCalls /\ era \in 0..MaxStops
    BY <1>4, <1>5, <2>1, MatcherBoundsAssumption
  <2>3. PICK o : o = os[i]
    OBVIOUS
  <2>4. o \in OrderRecords
    BY <1>8, <2>3
  <2>5. Opens(o, seen, era, [o EXCEPT !.fate = "open", !.seen = seen, !.era = era])
    BY <2>2, <2>4, OpenedIs
  <2> QED BY <1>7, <2>1, <2>3, <2>5 DEF Opens
<1>10. /\ os2 \in Seq(OrderRecords) /\ Len(os2) = Len(os) /\ os2[i] = now
       /\ \A j \in 1..Len(os) : j # i => os2[j] = os[j]
  <2>1. os2 = [os EXCEPT ![i] = now]
    BY <1>3, <1>5, <1>6, <1>7, <1>8 DEF OrderRecords
  <2> QED BY <1>5, <1>6, <1>9, <2>1, ExceptSeq
<1>11. \A j \in 1..Len(os) : SameTerms(os[j], os2[j]) /\ os2[j].remaining = os[j].remaining
  <2>1. ASSUME NEW j \in 1..Len(os) PROVE SameTerms(os[j], os2[j]) /\ os2[j].remaining = os[j].remaining
    <3>1. CASE j = i
      BY <1>9, <1>10, <3>1
    <3>2. CASE j # i
      BY <1>10, <3>2 DEF SameTerms
    <3> QED BY <3>1, <3>2
  <2> QED BY <2>1
<1>12. OrdersOK(os2)
  <2>1. ASSUME NEW j \in 1..Len(os2) PROVE os2[j].size > 0 /\ (os2[j].fate = "filled" <=> os2[j].remaining = 0)
    <3>1. os[j].size > 0 /\ (os[j].fate = "filled" <=> os[j].remaining = 0) /\ os2[j].size = os[j].size /\ os2[j].remaining = os[j].remaining
      BY <1>5, <1>10, <1>11 DEF OrdersOK, SameTerms
    <3>2. os2[j].fate = "filled" <=> os[j].fate = "filled"
      BY <1>6, <1>9, <1>10
    <3> QED BY <3>1, <3>2
  <2> QED BY <1>5, <1>10, <2>1 DEF OrdersOK
<1>13. q \in Pairs /\ s \in Lists /\ (s = "bids" \/ s = "asks")
  BY <1>8, <1>a DEF OrderRecords, ListFor, Lists
<1>14. bk \in [Pairs -> BookRecords] /\ \A p \in Pairs, l \in Lists : ListOK(os, bk[p][l], p, l)
  BY <1>5 DEF BooksOK
<1>15. ASSUME NEW p \in Pairs, NEW l \in Lists, NEW k \in 1..Len(bk[p][l])
       PROVE  LET j == bk[p][l][k] IN j \in 1..Len(os) /\ j # i /\ os2[j].fate = "open"
  <2>1. bk[p][l][k] \in 1..Len(os) /\ os[bk[p][l][k]].fate = "open"
    BY <1>14 DEF ListOK
  <2> QED BY <1>6, <1>10, <2>1
<1>16. PICK new : new = Inserted(bk[q][s], i)
  OBVIOUS
<1>17. /\ ListOK(os2, new, q, s) /\ \E k \in 1..Len(new) : new[k] = i
       /\ \A k \in 1..Len(bk[q][s]) : \E j \in 1..Len(new) : new[j] = bk[q][s][k]
  <2>1. PICK l : l = bk[q][s]
    OBVIOUS
  <2>2. orders \in Seq(OrderRecords) /\ Len(os2) = Len(orders) /\ \A j \in 1..Len(orders) : SameTerms(orders[j], os2[j])
    BY <1>1, <1>5, <1>10, <1>11
  <2>3. ListOK(orders, l, q, s) /\ (\A k \in 1..Len(l) : os2[l[k]].fate = "open") /\ (\A k \in 1..Len(l) : l[k] # i)
    BY <1>1, <1>13, <1>14, <1>15, <2>1
  <2>4. i \in 1..Len(orders) /\ os2[i].fate = "open" /\ orders[i].pair = q /\ ListFor(orders[i]) = s
    BY <1>1, <1>6, <1>9, <1>10, <1>a
  <2>5. PutIn(os2, Inserted(l, i), l, i, q, s)
    BY <1>10, <2>2, <2>3, <2>4, ListInserted
  <2> QED BY <1>16, <2>1, <2>5 DEF PutIn
<1>18. /\ bk2 \in [Pairs -> BookRecords] /\ bk2[q][s] = new
       /\ \A p \in Pairs, l \in Lists : p # q \/ l # s => bk2[p][l] = bk[p][l]
  <2>1. new \in Seq(Nat)
    BY <1>17 DEF ListOK
  <2>2. bk[q] \in BookRecords
    BY <1>13, <1>14
  <2>3. PICK b : b = [bk[q] EXCEPT ![s] = new]
    OBVIOUS
  <2>4. b \in BookRecords /\ b[s] = new /\ \A l \in Lists : l # s => b[l] = bk[q][l]
    BY <1>13, <2>1, <2>2, <2>3 DEF BookRecords, Lists
  <2>5. bk2 = [bk EXCEPT ![q] = b]
    BY <1>3, <1>13, <1>14, <1>16, <2>3
  <2> QED BY <1>13, <1>14, <2>4, <2>5
<1>19. BooksOK(os2, bk2)
  <2>1. ASSUME NEW p \in Pairs, NEW l \in Lists PROVE ListOK(os2, bk2[p][l], p, l)
    <3>1. CASE p = q /\ l = s
      BY <1>17, <1>18, <3>1
    <3>2. CASE p # q \/ l # s
      <4>1. bk2[p][l] = bk[p][l] /\ ListOK(os, bk[p][l], p, l)
        BY <1>14, <1>18, <3>2
      <4>2. bk[p][l] \in Seq(Nat)
        BY <4>1 DEF ListOK
      <4>3. Thinned(bk[p][l], bk[p][l])
        BY <4>2, ThinnedSame
      <4>4. Len(os) <= Len(os2) /\ \A j \in 1..Len(os) : SameTerms(os[j], os2[j])
        BY <1>5, <1>10, <1>11
      <4>5. \A k \in 1..Len(bk[p][l]) : os2[bk[p][l][k]].fate = "open"
        BY <1>15
      <4>6. ListOK(os2, bk[p][l], p, l)
        BY <1>5, <1>10, <4>1, <4>2, <4>3, <4>4, <4>5, ListStays
      <4> QED BY <4>1, <4>6
    <3> QED BY <3>1, <3>2
  <2>2. ASSUME NEW j \in 1..Len(os2), os2[j].fate = "open"
        PROVE  \E k \in 1..Len(bk2[os2[j].pair][ListFor(os2[j])]) : bk2[os2[j].pair][ListFor(os2[j])][k] = j
    <3>1. j \in 1..Len(os) /\ os2[j].pair = os[j].pair /\ ListFor(os2[j]) = ListFor(os[j])
      BY <1>10, <1>11 DEF SameTerms, ListFor
    <3>2. PICK p, l : p = os[j].pair /\ l = ListFor(os[j])
      OBVIOUS
    <3>3. p \in Pairs /\ l \in Lists
      <4>1. os[j] \in OrderRecords
        BY <1>5, <3>1, ElementOfSeq
      <4> QED BY <3>2, <4>1 DEF OrderRecords, ListFor, Lists
    <3>4. CASE j = i
      BY <1>17, <1>18, <1>a, <3>1, <3>4
    <3>5. CASE j # i
      <4>1. \E k \in 1..Len(bk[p][l]) : bk[p][l][k] = j
        <5>1. os[j].fate = "open"
          BY <1>10, <2>2, <3>1, <3>5
        <5> QED BY <1>5, <3>1, <3>2, <5>1 DEF BooksOK
      <4>2. \E k \in 1..Len(bk2[p][l]) : bk2[p][l][k] = j
        <5>1. CASE p = q /\ l = s
          BY <1>17, <1>18, <4>1, <5>1
        <5>2. CASE p # q \/ l # s
          BY <1>18, <3>3, <4>1, <5>2
        <5> QED BY <5>1, <5>2
      <4> QED BY <3>1, <3>2, <4>2
    <3> QED BY <3>4, <3>5
  <2> QED BY <1>18, <2>1, <2>2 DEF BooksOK
<1>20. TradesOK(os2, trades)
  <2>1. \A j \in 1..Len(os) : /\ SameTerms(os[j], os2[j]) /\ os2[j].remaining = os[j].remaining
                              /\ os[j].fate \in Closed => os2[j].fate \in Closed
                              /\ os[j].fate = "open" => os2[j].fate \in Closed \cup {"open"}
    <3>1. "pending" \notin Closed
      BY DEF Closed
    <3> QED BY <1>6, <1>10, <1>11, <3>1
  <2>2. Len(os) <= Len(os2) /\ \A j \in 1..Len(os2) : j \notin 1..Len(os) => os2[j].remaining = os2[j].size
    BY <1>5, <1>10
  <2> QED BY <1>5, <1>10, <2>1, <2>2, TradesStay
<1>21. CountsOK(os2, trades, counts')
  <2>1. WithFate(os2, {"expired"}) = WithFate(os, {"expired"}) /\ WithFate(os2, {"cancelled"}) = WithFate(os, {"cancelled"})
    BY <1>6, <1>9, <1>10 DEF WithFate
  <2>2. PICK old : old = WithFate(os, Closed \cup {"open"})
    OBVIOUS
  <2>3. WithFate(os2, Closed \cup {"open"}) = old \cup {i} /\ i \notin old
    <3>1. "pending" \notin Closed \cup {"open"}
      BY DEF Closed
    <3> QED BY <1>6, <1>9, <1>10, <2>2, <3>1 DEF WithFate
  <2>4. IsFiniteSet(old)
    <3>1. old \subseteq 1..Len(os) /\ IsFiniteSet(1..Len(os))
      BY <1>5, <2>2, FS_Interval DEF WithFate
    <3> QED BY <3>1, FS_Subset
  <2>5. Cardinality(old \cup {i}) = Cardinality(old) + 1
    BY <2>3, <2>4, FS_AddElement
  <2>6. counts \in CountRecords /\ counts.orders = Cardinality(old)
    BY <1>4, <2>2 DEF CountsOK
  <2>7. /\ counts' \in CountRecords /\ counts'.orders = counts.orders + 1 /\ counts'.matches = counts.matches
        /\ counts'.expired = counts.expired /\ counts'.cancelled = counts.cancelled
    BY <1>3, <2>6 DEF CountRecords
  <2> QED BY <1>4, <2>1, <2>3, <2>5, <2>6, <2>7 DEF CountsOK
<1>22. ASSUME NEW k \in 1..Len(pd2)
       PROVE  \E j \in 1..Len(pd) : pd2[k] = pd[j] /\ pd[j].id \in 1..Len(os) /\ os[pd[j].id].fate = "pending" /\ os2[pd[j].id] = os[pd[j].id]
  <2>1. PICK j \in 1..Len(pd) : pd2[k] = pd[j] /\ pd[j].id # i
    BY <1>6
  <2>2. pd[j].id \in 1..Len(os) /\ os[pd[j].id].fate = "pending"
    BY <1>4 DEF PendingOK
  <2> QED BY <1>10, <2>1, <2>2
<1>23. PendingOK(os2, pd2)
  <2>1. ASSUME NEW k \in 1..Len(pd2) PROVE pd2[k].id \in 1..Len(os2) /\ os2[pd2[k].id].fate = "pending"
    BY <1>10, <1>22
  <2> QED BY <1>6, <2>1 DEF PendingOK
<1>24. ASSUME NEW h, Freed(os, h) PROVE Freed(os2, h)
  BY <1>6, <1>10, <1>24 DEF Freed
<1>25. EraOK(os2, stops)
  <2>1. ASSUME NEW j \in 1..Len(os2) PROVE os2[j].era <= stops /\ (os2[j].fate = "open" => os2[j].era = stops)
    <3>1. CASE j = i
      BY <1>4, <1>9, <1>10, <3>1
    <3>2. CASE j # i
      BY <1>4, <1>10, <3>2 DEF EraOK
    <3> QED BY <3>1, <3>2
  <2> QED BY <2>1 DEF EraOK
<1>26. ActiveOK(os2, active \cup {os[i].hash}, stops)
  <2>1. active \cup {os[i].hash} \subseteq Hashes
    BY <1>4, <1>8 DEF ActiveOK, OrderRecords
  <2>2. ASSUME NEW j \in 1..Len(os2), os2[j].fate \in {"open", "filled"}, os2[j].era = stops, os2[j].hash \notin active \cup {os[i].hash}
        PROVE  Freed(os2, os2[j].hash)
    <3>1. j # i /\ os2[j] = os[j] /\ j \in 1..Len(os)
      BY <1>9, <1>10, <2>2 DEF SameTerms
    <3>2. Freed(os, os[j].hash)
      BY <1>4, <2>2, <3>1 DEF ActiveOK
    <3> QED BY <1>24, <3>1, <3>2
  <2> QED BY <2>1, <2>2 DEF ActiveOK
\* The order that opens found its commitment free when it was submitted.
<1>27. ASSUME NEW j \in 1..Len(os), j # i, os[j].fate = "open", os[j].hash = os[i].hash
       PROVE  (os2[i].seen >= j /\ os2[j].seen >= i) \/ Freed(os2, os[i].hash)
  <2>1. os2[i].seen >= j /\ os2[j].seen = os[j].seen
    BY <1>5, <1>9, <1>10, <1>27
  <2>2. os[j].seen \in Int /\ i \in Int
    <3>1. os[j] \in OrderRecords
      BY <1>5, ElementOfSeq
    <3>2. os[j].seen \in 0..MaxCalls
      BY <3>1 DEF OrderRecords
    <3> QED BY <1>5, <1>6, <3>2
  <2>3. CASE os[j].seen >= i
    BY <2>1, <2>3
  <2>4. CASE os[j].seen < i
    <3>1. 1 \in 1..Len(pd) /\ pd[1].valid /\ pd[1].id = i
      BY <1>1, <1>2, <1>c DEF InTurn
    <3>2. Freed(os, os[j].hash)
      BY <1>4, <1>27, <2>4, <3>1 DEF RaceOK
    <3> QED BY <1>24, <1>27, <3>2
  <2> QED BY <2>2, <2>3, <2>4
<1>28. RaceOK(os2, pd2)
  <2>0. os2[i].hash = os[i].hash /\ \A j \in 1..Len(os2) : j \in 1..Len(os) /\ os2[j].hash = os[j].hash /\ (j # i => os2[j] = os[j])
    BY <1>6, <1>10, <1>11 DEF SameTerms
  <2>1. ASSUME NEW j \in 1..Len(os2), NEW m \in 1..Len(os2),
               j # m, os2[j].fate = "open", os2[m].fate = "open", os2[j].hash = os2[m].hash
        PROVE  (os2[j].seen >= m /\ os2[m].seen >= j) \/ Freed(os2, os2[j].hash)
    <3>1. CASE j = i
      BY <1>27, <2>0, <2>1, <3>1
    <3>2. CASE m = i
      BY <1>27, <2>0, <2>1, <3>2
    <3>3. CASE j # i /\ m # i
      <4>1. (os[j].seen >= m /\ os[m].seen >= j) \/ Freed(os, os[j].hash)
        BY <1>4, <2>0, <2>1, <3>3 DEF RaceOK
      <4> QED BY <1>24, <2>0, <3>3, <4>1
    <3> QED BY <3>1, <3>2, <3>3
  <2>2. ASSUME NEW k \in 1..Len(pd2), NEW j \in 1..Len(os2),
               pd2[k].valid, os2[j].fate = "open", os2[j].hash = os2[pd2[k].id].hash, os2[j].seen < pd2[k].id
        PROVE  Freed(os2, os2[j].hash)
    <3>1. PICK m \in 1..Len(pd) : pd2[k] = pd[m] /\ pd[m].id \in 1..Len(os) /\ os2[pd[m].id] = os[pd[m].id]
      BY <1>22
    <3>2. j # i
      <4>1. ~ (Len(os) < pd[m].id)
        BY <1>5, <3>1
      <4> QED BY <1>9, <1>10, <2>2, <3>1, <4>1
    <3>3. Freed(os, os[j].hash)
      BY <1>4, <2>0, <2>2, <3>1, <3>2 DEF RaceOK
    <3> QED BY <1>24, <2>0, <3>3
  <2> QED BY <2>1, <2>2 DEF RaceOK
<1>29. Core(os2, bk2, trades)
  BY <1>12, <1>19, <1>20 DEF Core
<1> QED BY <1>1, <1>b, <1>3, <1>4, <1>21, <1>23, <1>25, <1>26, <1>28, <1>29 DEF MatcherInv

Start(p) == [orders |-> AfterExpiry(p), book |-> Unexpired(book[p]), trades |-> <<>>]

\* matchOrders for pair p ends in end.
Matched(p, end) ==
  /\ end \in LoopRecords /\ LoopOK(end, AfterExpiry(p), p)
  /\ orders' = end.orders /\ book' = [book EXCEPT ![p] = end.book] /\ trades' = trades \cup ToSet(end.trades)
  /\ counts' = [counts EXCEPT !.expired = @ + Cardinality(Gone(p)), !.matches = @ + Len(end.trades)]
  /\ running /\ UNCHANGED <<running, pending, active, clock, stops>>

\* What matching changes.
LEMMA MatchIs ==
  ASSUME MatcherInv, NEW p \in Pairs, MatchOrders(p)
  PROVE  \E end : Matched(p, end)
<1>1. Core(orders, book, trades) /\ clock \in 0..MaxTime
  BY DEF MatcherInv
<1>2. clock \in Nat /\ book \in [Pairs -> BookRecords] /\ IsFiniteSet(trades)
  BY <1>1, MatcherBoundsAssumption DEF Core, BooksOK, TradesOK
<1>3. /\ Core(AfterExpiry(p), [book EXCEPT ![p] = Unexpired(book[p])], trades)
      /\ Unexpired(book[p]) \in BookRecords /\ FreshBook(AfterExpiry(p), Unexpired(book[p]))
  BY <1>1, <1>2, ExpiryIs
<1>4. PICK os, b : os = AfterExpiry(p) /\ b = Unexpired(book[p])
  OBVIOUS
<1>5. PICK start : start = Start(p)
  OBVIOUS
<1>6. start.orders = os /\ start.book = b /\ start.trades = <<>> /\ start \in LoopRecords
  <2>1. os \in Seq(OrderRecords) /\ b \in BookRecords /\ <<>> \in Seq(TradeRecords)
    BY <1>3, <1>4 DEF Core, OrdersOK
  <2> QED BY <1>4, <1>5, <2>1 DEF Start, LoopRecords
<1>7. LoopOK(start, os, p)
  <2>1. ToSet(<<>>) = {} /\ Len(<<>>) = 0
    BY DEF ToSet
  <2>2. trades \cup ToSet(start.trades) = trades /\ \A t \in ToSet(start.trades) : FALSE
    BY <1>6, <2>1
  <2>3. Cardinality(trades) \in Nat
    BY <1>2, FS_CardinalityType
  <2>4. Cardinality(trades \cup ToSet(start.trades)) = Cardinality(trades) + Len(start.trades)
    <3>1. PICK c \in Nat : c = Cardinality(trades)
      BY <2>3
    <3>2. Cardinality(trades \cup ToSet(start.trades)) = c
      BY <2>2, <3>1
    <3>3. Len(start.trades) = 0
      BY <1>6, <2>1
    <3> QED BY <3>1, <3>2, <3>3
  <2>5. Moved(os, start.orders)
    BY <1>6 DEF Moved, SameTerms
  <2>6. Core(start.orders, [book EXCEPT ![p] = start.book], trades \cup ToSet(start.trades)) /\ FreshBook(start.orders, start.book)
    BY <1>3, <1>4, <1>6, <2>2
  <2> QED BY <2>2, <2>4, <2>5, <2>6 DEF LoopOK
<1>8. RoundsFrom(start) \in LoopRecords /\ LoopOK(RoundsFrom(start), os, p)
  BY <1>2, <1>6, <1>7, RoundsKeep
<1>9. /\ orders' = RoundsFrom(Start(p)).orders /\ book' = [book EXCEPT ![p] = RoundsFrom(Start(p)).book]
      /\ trades' = trades \cup ToSet(RoundsFrom(Start(p)).trades)
      /\ counts' = [counts EXCEPT !.expired = @ + Cardinality(Gone(p)), !.matches = @ + Len(RoundsFrom(Start(p)).trades)]
      /\ running /\ UNCHANGED <<running, pending, active, clock, stops>>
  BY DEF MatchOrders, RoundsFrom, Start, AfterExpiry, Gone
<1>10. Matched(p, RoundsFrom(start))
  BY <1>4, <1>5, <1>8, <1>9 DEF Matched
<1> QED BY <1>10

\* Matching may fill orders; it changes no other fate.
LEMMA MovedCounts ==
  ASSUME NEW os, NEW os2, Moved(os, os2)
  PROVE  /\ WithFate(os2, {"expired"}) = WithFate(os, {"expired"})
         /\ WithFate(os2, {"cancelled"}) = WithFate(os, {"cancelled"})
         /\ WithFate(os2, Closed \cup {"open"}) = WithFate(os, Closed \cup {"open"})
  BY DEF Moved, WithFate, Closed

\* Matching keeps the invariant.
LEMMA MatchKeeps ==
  ASSUME MatcherInv, NEW p \in Pairs, MatchOrders(p)
  PROVE  MatcherInv'
<1>1. PICK end : Matched(p, end)
  BY MatchIs
<1>2. PICK os, os1, os2, tr2, gone : os = orders /\ os1 = AfterExpiry(p) /\ os2 = orders' /\ tr2 = trades' /\ gone = Gone(p)
  OBVIOUS
<1>3. /\ LoopOK(end, os1, p) /\ end.orders = os2 /\ book' = [book EXCEPT ![p] = end.book] /\ tr2 = trades \cup ToSet(end.trades)
      /\ counts' = [counts EXCEPT !.expired = @ + Cardinality(gone), !.matches = @ + Len(end.trades)]
      /\ end \in LoopRecords /\ UNCHANGED <<running, pending, active, clock, stops>>
  BY <1>1, <1>2 DEF Matched
<1>4. Core(os2, book', tr2) /\ Moved(os1, os2) /\ Cardinality(tr2) = Cardinality(trades) + Len(end.trades)
  BY <1>3 DEF LoopOK
<1>5. /\ Core(os, book, trades) /\ CountsOK(os, trades, counts) /\ PendingOK(os, pending) /\ EraOK(os, stops)
      /\ ActiveOK(os, active, stops) /\ RaceOK(os, pending)
      /\ running \in BOOLEAN /\ clock \in 0..MaxTime /\ stops \in 0..MaxStops
  BY <1>2 DEF MatcherInv
<1>6. Ended(os, gone, "expired", os1) /\ \A i \in gone : i \in 1..Len(os) /\ os[i].fate = "open"
  <2>1. clock \in Nat
    BY <1>5, MatcherBoundsAssumption
  <2> QED BY <1>2, <1>5, <2>1, ExpiryIs
<1>7. /\ Len(os2) = Len(os) /\ Len(os1) = Len(os) /\ Len(os) \in Nat
      /\ \A i \in 1..Len(os) : /\ SameTerms(os[i], os2[i]) /\ os2[i].seen = os[i].seen /\ os2[i].era = os[i].era
                               /\ os[i].fate # "open" => os2[i] = os[i]
  <2>1. Len(os1) = Len(os) /\ Len(os2) = Len(os) /\ Len(os) \in Nat
    <3>1. os \in Seq(OrderRecords)
      BY <1>5 DEF Core, OrdersOK
    <3> QED BY <1>4, <1>6, <3>1, LenProperties DEF Moved, Ended
  <2>2. ASSUME NEW i \in 1..Len(os)
        PROVE  /\ SameTerms(os[i], os2[i]) /\ os2[i].seen = os[i].seen /\ os2[i].era = os[i].era
               /\ os[i].fate # "open" => os2[i] = os[i]
    <3>1. /\ SameTerms(os[i], os1[i]) /\ os1[i].seen = os[i].seen /\ os1[i].era = os[i].era
          /\ os[i].fate # "open" => os1[i] = os[i]
      BY <1>6 DEF Ended
    <3>2. /\ SameTerms(os1[i], os2[i]) /\ os2[i].seen = os1[i].seen /\ os2[i].era = os1[i].era
          /\ os1[i].fate # "open" => os2[i] = os1[i]
      BY <1>4, <2>1 DEF Moved
    <3> QED BY <3>1, <3>2 DEF SameTerms
  <2> QED BY <2>1, <2>2
<1>8. \A i \in 1..Len(os) : /\ os2[i].fate = "open" => os[i].fate = "open"
                            /\ os2[i].fate = "filled" => os[i].fate \in {"open", "filled"}
                            /\ os[i].fate = "cancelled" => os2[i].fate = "cancelled"
  BY <1>7
<1>9. CountsOK(os2, tr2, counts')
  <2>1. PICK n \in Nat : n = Len(end.trades)
    <3>1. end.trades \in Seq(TradeRecords)
      BY <1>3 DEF LoopRecords
    <3> QED BY <3>1, LenProperties
  <2>2. /\ Cardinality(gone) \in Nat
        /\ Cardinality(WithFate(os1, {"expired"})) = Cardinality(WithFate(os, {"expired"})) + Cardinality(gone)
        /\ WithFate(os1, {"cancelled"}) = WithFate(os, {"cancelled"})
        /\ WithFate(os1, Closed \cup {"open"}) = WithFate(os, Closed \cup {"open"})
    <3>1. "expired" \in Closed /\ "cancelled" \in Closed
      BY DEF Closed
    <3>2. CountedAs(os, gone, "expired", os1)
      BY <1>6, <1>7, <3>1, CountsAtEnd
    <3> QED BY <3>1, <3>2 DEF CountedAs
  <2>3. /\ WithFate(os2, {"expired"}) = WithFate(os1, {"expired"})
        /\ WithFate(os2, {"cancelled"}) = WithFate(os1, {"cancelled"})
        /\ WithFate(os2, Closed \cup {"open"}) = WithFate(os1, Closed \cup {"open"})
    BY <1>4, MovedCounts
  <2>4. PICK g \in Nat : g = Cardinality(gone)
    BY <2>2
  <2>5. counts' = [counts EXCEPT !.expired = @ + g, !.matches = @ + n]
    BY <1>3, <2>1, <2>4
  <2>6. counts \in CountRecords
    BY <1>5 DEF CountsOK
  <2>7. /\ counts' \in CountRecords /\ counts'.expired = counts.expired + g /\ counts'.matches = counts.matches + n
        /\ counts'.orders = counts.orders /\ counts'.cancelled = counts.cancelled
    <3>1. PICK c \in CountRecords : c = counts
      BY <2>6
    <3>2. PICK d : d = [c EXCEPT !.expired = @ + g]
      OBVIOUS
    <3>3. d \in CountRecords /\ d.expired = c.expired + g /\ d.matches = c.matches /\ d.orders = c.orders /\ d.cancelled = c.cancelled
      BY <2>4, <3>1, <3>2 DEF CountRecords
    <3>4. PICK e : e = [d EXCEPT !.matches = @ + n]
      OBVIOUS
    <3>5. e \in CountRecords /\ e.expired = d.expired /\ e.matches = d.matches + n /\ e.orders = d.orders /\ e.cancelled = d.cancelled
      BY <2>1, <3>3, <3>4 DEF CountRecords
    <3>6. [c EXCEPT !.expired = @ + g, !.matches = @ + n] = [[c EXCEPT !.expired = @ + g] EXCEPT !.matches = @ + n]
      BY <2>1, <2>4, <3>1 DEF CountRecords
    <3>7. counts' = e
      BY <2>5, <3>1, <3>2, <3>4, <3>6
    <3> QED BY <3>1, <3>3, <3>5, <3>7
  <2>8. counts'.expired = Cardinality(WithFate(os2, {"expired"})) /\ counts'.cancelled = Cardinality(WithFate(os2, {"cancelled"}))
    BY <1>5, <2>2, <2>3, <2>4, <2>7 DEF CountsOK
  <2>9. counts'.orders = Cardinality(WithFate(os2, Closed \cup {"open"})) /\ counts'.matches = Cardinality(tr2)
    BY <1>4, <1>5, <2>1, <2>2, <2>3, <2>7 DEF CountsOK
  <2> QED BY <2>7, <2>8, <2>9 DEF CountsOK
<1>10. PendingOK(os2, pending)
  <2>1. ASSUME NEW k \in 1..Len(pending) PROVE pending[k].id \in 1..Len(os2) /\ os2[pending[k].id].fate = "pending"
    <3>1. pending[k].id \in 1..Len(os) /\ os[pending[k].id].fate = "pending"
      BY <1>5 DEF PendingOK
    <3> QED BY <1>7, <3>1
  <2> QED BY <1>5, <2>1 DEF PendingOK
<1>11. EraOK(os2, stops) /\ ActiveOK(os2, active, stops) /\ RaceOK(os2, pending)
  <2>1. \A k \in 1..Len(pending) : pending[k].id \in 1..Len(os)
    BY <1>5 DEF PendingOK
  <2> QED BY <1>5, <1>7, <1>8, <2>1, RaceStays
<1> QED BY <1>2, <1>3, <1>4, <1>5, <1>9, <1>10, <1>11 DEF MatcherInv

\* removeOrder takes the order out of the list it is in.
LEMMA WithoutIs ==
  ASSUME NEW l \in Seq(Nat), NEW i, \A j, k \in 1..Len(l) : j < k => l[j] # l[k]
  PROVE  RemoveFirst(l, i) \in Seq(Nat) /\ KeptOnly(RemoveFirst(l, i), l, Nat \ {i})
<1>0. Len(l) \in Nat /\ \A k \in 1..Len(l) : l[k] \in Nat
  BY LenProperties, ElementOfSeq
<1>1. PICK r : r = RemoveFirst(l, i)
  OBVIOUS
<1>2. CASE \A k \in 1..Len(l) : l[k] # i
  <2>1. r = l
    BY <1>1, <1>2 DEF RemoveFirst
  <2>2. Thinned(l, l)
    BY ThinnedSame
  <2> QED BY <1>0, <1>1, <1>2, <2>1, <2>2 DEF KeptOnly
<1>3. CASE \E k \in 1..Len(l) : l[k] = i
  <2>1. PICK p \in 1..Len(l) : l[p] = i /\ RemoveFirst(l, i) = RemoveAt(l, p)
    BY <1>3, RemoveFirstIs
  <2>2. /\ Thinned(r, l) /\ r \in Seq(Nat)
        /\ \A k \in 1..Len(l) : k # p => \E j \in 1..Len(r) : r[j] = l[k]
    <3>1. r = RemoveAt(l, p)
      BY <1>1, <2>1
    <3>2. /\ Thinned(RemoveAt(l, p), l) /\ RemoveAt(l, p) \in Seq(Nat)
          /\ \A k \in 1..Len(l) : k # p => \E j \in 1..Len(RemoveAt(l, p)) : RemoveAt(l, p)[j] = l[k]
      BY <2>1, ThinnedByOne
    <3> QED BY <3>1, <3>2
  <2>3. Len(r) = Len(l) - 1 /\ \A k \in 1..Len(l) - 1 : r[k] = IF k < p THEN l[k] ELSE l[k + 1]
    BY <1>1, <2>1, RemoveAtIs
  <2>4. ASSUME NEW k \in 1..Len(r) PROVE r[k] \in Nat \ {i}
    <3>1. r[k] \in Nat
      BY <2>2, ElementOfSeq
    <3>2. PICK m \in 1..Len(l) : r[k] = l[m] /\ m # p
      <4>1. CASE k < p
        BY <1>0, <2>3, <4>1
      <4>2. CASE k >= p
        BY <1>0, <2>3, <4>2
      <4> QED BY <1>0, <2>3, <4>1, <4>2
    <3>3. l[m] # l[p]
      BY <3>2
    <3> QED BY <2>1, <3>1, <3>2, <3>3
  <2>5. \A k \in 1..Len(l) : l[k] \in Nat \ {i} => \E j \in 1..Len(r) : r[j] = l[k]
    BY <2>1, <2>2
  <2> QED BY <1>1, <2>2, <2>4, <2>5 DEF KeptOnly
<1> QED BY <1>2, <1>3

\* What giving up the orders of gone, none of which has been cancelled, does to all that is about the orders.
LEMMA EndKeeps ==
  ASSUME NEW os, NEW os2, NEW tr, NEW gone, NEW f \in Closed, f # "filled", Len(os) \in Nat, Ended(os, gone, f, os2),
         \A i \in gone : i \in 1..Len(os) /\ os[i].fate = "open",
         NEW pd, PendingOK(os, pd), NEW st, EraOK(os, st), NEW ac, ActiveOK(os, ac, st), RaceOK(os, pd),
         NEW ac2, ac2 \subseteq ac, \A h \in ac \ ac2 : Freed(os2, h)
  PROVE  PendingOK(os2, pd) /\ EraOK(os2, st) /\ ActiveOK(os2, ac2, st) /\ RaceOK(os2, pd)
<1>1. /\ Len(os2) = Len(os)
      /\ \A i \in 1..Len(os) : /\ SameTerms(os[i], os2[i]) /\ os2[i].seen = os[i].seen /\ os2[i].era = os[i].era
                               /\ i \in gone => os2[i].fate = f
                               /\ i \notin gone => os2[i] = os[i]
  BY DEF Ended
<1>2. f # "open" /\ f # "filled"
  BY DEF Closed
<1>3. \A i \in 1..Len(os) : /\ os2[i].fate = "open" => os[i].fate = "open"
                            /\ os2[i].fate = "filled" => os[i].fate \in {"open", "filled"}
                            /\ os[i].fate # "open" => os2[i] = os[i]
  BY <1>1, <1>2
<1>4. \A k \in 1..Len(pd) : pd[k].id \in 1..Len(os) /\ os[pd[k].id].fate = "pending"
  BY DEF PendingOK
<1>5. PendingOK(os2, pd)
  <2>1. \A k \in 1..Len(pd) : pd[k].id \in 1..Len(os2) /\ os2[pd[k].id].fate = "pending"
    BY <1>1, <1>3, <1>4
  <2> QED BY <2>1 DEF PendingOK
<1>6. EraOK(os2, st) /\ ActiveOK(os2, ac2, st) /\ RaceOK(os2, pd)
  <2>1. \A i \in 1..Len(os) : os[i].fate = "cancelled" => os2[i].fate = "cancelled"
    BY <1>3
  <2>2. \A k \in 1..Len(pd) : \E j \in 1..Len(pd) : pd[k] = pd[j]
    OBVIOUS
  <2>3. \A i \in 1..Len(os) : /\ SameTerms(os[i], os2[i]) /\ os2[i].seen = os[i].seen /\ os2[i].era = os[i].era
                              /\ os2[i].fate = "open" => os[i].fate = "open"
                              /\ os2[i].fate = "filled" => os[i].fate \in {"open", "filled"}
                              /\ os[i].fate = "cancelled" => os2[i].fate = "cancelled"
    BY <1>1, <1>3, <2>1
  <2>4. Len(os2) = Len(os) /\ \A k \in 1..Len(pd) : pd[k].id \in 1..Len(os)
    BY <1>1, <1>4
  <2> QED BY <2>2, <2>3, <2>4, RaceStays
<1> QED BY <1>5, <1>6

\* A cancel keeps the invariant.
LEMMA CancelKeeps ==
  ASSUME MatcherInv, NEW i \in DOMAIN orders, CancelOrder(i)
  PROVE  MatcherInv'
<1>1. PICK os, os2, bk, bk2, q : os = orders /\ os2 = orders' /\ bk = book /\ bk2 = book' /\ q = orders[i].pair
  OBVIOUS
<1>2. /\ Core(os, bk, trades) /\ CountsOK(os, trades, counts) /\ PendingOK(os, pending) /\ EraOK(os, stops)
      /\ ActiveOK(os, active, stops) /\ RaceOK(os, pending)
      /\ running \in BOOLEAN /\ clock \in 0..MaxTime /\ stops \in 0..MaxStops
  BY <1>1 DEF MatcherInv
<1>3. OrdersOK(os) /\ BooksOK(os, bk) /\ TradesOK(os, trades) /\ os \in Seq(OrderRecords)
  BY <1>2 DEF Core, OrdersOK
<1>4. Len(os) \in Nat /\ DOMAIN os = 1..Len(os) /\ i \in 1..Len(os) /\ \A j \in 1..Len(os) : os[j] \in OrderRecords
  BY <1>1, <1>3, LenProperties, ElementOfSeq
<1>5. /\ os[i].fate = "open" /\ os2 = [os EXCEPT ![i].fate = "cancelled"] /\ bk2 = [bk EXCEPT ![q] = Without(@, i)]
      /\ active' = active \ {os[i].hash} /\ counts' = [counts EXCEPT !.cancelled = @ + 1]
      /\ UNCHANGED <<running, pending, trades, clock, stops>>
  BY <1>1 DEF CancelOrder
<1>6. OrdersOK(os2) /\ TradesOK(os2, trades) /\ Ended(os, {i}, "cancelled", os2)
  <2>1. os2 = [j \in DOMAIN os |-> IF j \in {i} THEN [os[j] EXCEPT !.fate = "cancelled"] ELSE os[j]]
    BY <1>4, <1>5
  <2>2. \A j \in {i} : j \in 1..Len(os) /\ os[j].fate = "open"
    BY <1>4, <1>5
  <2>3. "cancelled" \in Closed
    BY DEF Closed
  <2> QED BY <1>3, <2>1, <2>2, <2>3, EndedIs
<1>7. /\ Len(os2) = Len(os) /\ os2 \in Seq(OrderRecords) /\ os2[i].fate = "cancelled"
      /\ \A j \in 1..Len(os) : SameTerms(os[j], os2[j]) /\ (j # i => os2[j] = os[j])
  BY <1>4, <1>6 DEF Ended, OrdersOK
<1>8. bk \in [Pairs -> BookRecords] /\ \A p \in Pairs, s \in Lists : ListOK(os, bk[p][s], p, s)
  BY <1>3 DEF BooksOK
<1>9. q \in Pairs
  BY <1>1, <1>4 DEF OrderRecords
<1>10. \A s \in Lists : bk2[q][s] \in Seq(Nat) /\ KeptOnly(bk2[q][s], bk[q][s], Nat \ {i})
  <2>1. ASSUME NEW s \in Lists PROVE RemoveFirst(bk[q][s], i) \in Seq(Nat) /\ KeptOnly(RemoveFirst(bk[q][s], i), bk[q][s], Nat \ {i})
    <3>1. bk[q][s] \in Seq(Nat) /\ \A j, k \in 1..Len(bk[q][s]) : j < k => bk[q][s][j] # bk[q][s][k]
      <4>1. ListOK(os, bk[q][s], q, s)
        BY <1>8, <1>9
      <4> QED BY <4>1 DEF ListOK
    <3> QED BY <3>1, WithoutIs
  <2>2. bk2[q] = [bids |-> RemoveFirst(bk[q].bids, i), asks |-> RemoveFirst(bk[q].asks, i)]
    BY <1>5, <1>8, <1>9 DEF Without
  <2> QED BY <2>1, <2>2 DEF Lists
<1>11. bk2 \in [Pairs -> BookRecords] /\ \A p \in Pairs : p # q => bk2[p] = bk[p]
  <2>1. Without(bk[q], i) \in BookRecords
    <3>1. Without(bk[q], i) = [bids |-> RemoveFirst(bk[q].bids, i), asks |-> RemoveFirst(bk[q].asks, i)] /\ bk2[q] = Without(bk[q], i)
      BY <1>5, <1>8, <1>9 DEF Without
    <3>2. RemoveFirst(bk[q].bids, i) \in Seq(Nat) /\ RemoveFirst(bk[q].asks, i) \in Seq(Nat)
      BY <1>10, <3>1 DEF Lists
    <3> QED BY <3>1, <3>2 DEF BookRecords
  <2> QED BY <1>5, <1>8, <1>9, <2>1
<1>12. ASSUME NEW p \in Pairs, NEW s \in Lists
       PROVE  /\ Thinned(bk2[p][s], bk[p][s])
              /\ \A k \in 1..Len(bk2[p][s]) : os2[bk2[p][s][k]].fate = "open"
              /\ \A j : j \in Nat \ {i} => \A k \in 1..Len(bk[p][s]) : bk[p][s][k] = j => \E m \in 1..Len(bk2[p][s]) : bk2[p][s][m] = j
  <2>1. /\ bk[p][s] \in Seq(Nat) /\ Len(bk[p][s]) \in Nat
        /\ \A k \in 1..Len(bk[p][s]) : bk[p][s][k] \in 1..Len(os) /\ os[bk[p][s][k]].fate = "open" /\ os[bk[p][s][k]].pair = p
    <3>1. ListOK(os, bk[p][s], p, s)
      BY <1>8
    <3> QED BY <3>1, LenProperties DEF ListOK
  <2>2. CASE p = q
    <3>1. KeptOnly(bk2[p][s], bk[p][s], Nat \ {i})
      BY <1>10, <2>2
    <3>2. Thinned(bk2[p][s], bk[p][s]) /\ \A k \in 1..Len(bk2[p][s]) : bk2[p][s][k] \in Nat \ {i}
      BY <3>1 DEF KeptOnly
    <3>3. \A k \in 1..Len(bk2[p][s]) : \E m \in 1..Len(bk[p][s]) : bk2[p][s][k] = bk[p][s][m]
      BY <3>2 DEF Thinned
    <3>4. ASSUME NEW k \in 1..Len(bk2[p][s]) PROVE os2[bk2[p][s][k]].fate = "open"
      <4>1. PICK m \in 1..Len(bk[p][s]) : bk2[p][s][k] = bk[p][s][m]
        BY <3>3
      <4>2. bk2[p][s][k] # i
        BY <3>2
      <4>3. bk[p][s][m] \in 1..Len(os) /\ os[bk[p][s][m]].fate = "open"
        BY <2>1, <4>1
      <4> QED BY <1>7, <4>1, <4>2, <4>3
    <3> QED BY <3>1, <3>2, <3>4 DEF KeptOnly
  <2>3. CASE p # q
    <3>1. bk2[p][s] = bk[p][s]
      BY <1>11, <2>3
    <3>2. Thinned(bk[p][s], bk[p][s])
      BY <2>1, ThinnedSame
    <3>3. \A k \in 1..Len(bk[p][s]) : bk[p][s][k] # i
      BY <1>1, <2>1, <2>3
    <3> QED BY <1>7, <2>1, <3>1, <3>2, <3>3
  <2> QED BY <2>2, <2>3
<1>13. BooksOK(os2, bk2)
  <2>1. ASSUME NEW j \in 1..Len(os2), os2[j].fate = "open"
        PROVE  j \in 1..Len(os) /\ os[j].fate = "open" /\ StillIn(j, os, bk, bk2)
    <3>1. j \in 1..Len(os) /\ j # i /\ os2[j] = os[j] /\ j \in Nat \ {i}
      BY <1>4, <1>7, <2>1
    <3>2. StillIn(j, os, bk, bk2)
      BY <1>12, <3>1 DEF StillIn
    <3> QED BY <2>1, <3>1, <3>2
  <2>2. Len(os) <= Len(os2) /\ \A j \in 1..Len(os) : SameTerms(os[j], os2[j])
    BY <1>4, <1>7
  <2>3. /\ \A p \in Pairs, s \in Lists : Thinned(bk2[p][s], bk[p][s])
        /\ \A p \in Pairs, s \in Lists : \A k \in 1..Len(bk2[p][s]) : os2[bk2[p][s][k]].fate = "open"
    BY <1>12
  <2>4. os \in Seq(OrderRecords) /\ os2 \in Seq(OrderRecords) /\ bk2 \in [Pairs -> BookRecords] /\ BooksOK(os, bk)
    BY <1>3, <1>7, <1>11
  <2>5. \A j \in 1..Len(os2) : os2[j].fate = "open" => j \in 1..Len(os) /\ os[j].fate = "open" /\ StillIn(j, os, bk, bk2)
    BY <2>1
  <2> QED BY <2>2, <2>3, <2>4, <2>5, BooksThin
<1>14. CountsOK(os2, trades, counts')
  <2>1. CountedAs(os, {i}, "cancelled", os2)
    <3>1. "cancelled" \in Closed /\ \A j \in {i} : j \in 1..Len(os) /\ os[j].fate = "open"
      BY <1>4, <1>5 DEF Closed
    <3> QED BY <1>4, <1>6, <3>1, CountsAtEnd
  <2>2. Cardinality({i}) = 1
    BY FS_Singleton
  <2>3. /\ Cardinality(WithFate(os2, {"cancelled"})) = Cardinality(WithFate(os, {"cancelled"})) + 1
        /\ WithFate(os2, {"expired"}) = WithFate(os, {"expired"})
        /\ WithFate(os2, Closed \cup {"open"}) = WithFate(os, Closed \cup {"open"})
    <3>1. "expired" \in Closed
      BY DEF Closed
    <3> QED BY <2>1, <2>2, <3>1 DEF CountedAs
  <2>4. counts \in CountRecords
    BY <1>2 DEF CountsOK
  <2>5. /\ counts' \in CountRecords /\ counts'.cancelled = counts.cancelled + 1 /\ counts'.matches = counts.matches
        /\ counts'.expired = counts.expired /\ counts'.orders = counts.orders
    BY <1>5, <2>4 DEF CountRecords
  <2>6. counts'.expired = Cardinality(WithFate(os2, {"expired"})) /\ counts'.cancelled = Cardinality(WithFate(os2, {"cancelled"}))
    BY <1>2, <2>3, <2>5 DEF CountsOK
  <2>7. counts'.orders = Cardinality(WithFate(os2, Closed \cup {"open"})) /\ counts'.matches = Cardinality(trades)
    BY <1>2, <2>3, <2>5 DEF CountsOK
  <2> QED BY <2>5, <2>6, <2>7 DEF CountsOK
<1>15. PendingOK(os2, pending) /\ EraOK(os2, stops) /\ ActiveOK(os2, active', stops) /\ RaceOK(os2, pending)
  <2>1. active' \subseteq active /\ \A h \in active \ active' : Freed(os2, h)
    BY <1>4, <1>5, <1>7 DEF Freed, SameTerms
  <2>2. "cancelled" \in Closed /\ \A j \in {i} : j \in 1..Len(os) /\ os[j].fate = "open"
    BY <1>4, <1>5 DEF Closed
  <2>3. PICK ac, ac2, gone, pd : ac = active /\ ac2 = active' /\ gone = {i} /\ pd = pending
    OBVIOUS
  <2>4. PendingOK(os, pd) /\ EraOK(os, stops) /\ ActiveOK(os, ac, stops) /\ RaceOK(os, pd) /\ ac2 \subseteq ac
    BY <1>2, <2>1, <2>3
  <2>5. Ended(os, gone, "cancelled", os2) /\ (\A j \in gone : j \in 1..Len(os) /\ os[j].fate = "open") /\ \A h \in ac \ ac2 : Freed(os2, h)
    BY <1>6, <2>1, <2>2, <2>3
  <2>6. PendingOK(os2, pd) /\ EraOK(os2, stops) /\ ActiveOK(os2, ac2, stops) /\ RaceOK(os2, pd)
    BY <1>4, <2>2, <2>4, <2>5, EndKeeps
  <2> QED BY <2>3, <2>6
<1>16. Core(os2, bk2, trades)
  BY <1>6, <1>13 DEF Core
<1> QED BY <1>1, <1>2, <1>5, <1>14, <1>15, <1>16 DEF MatcherInv

\* A shutdown keeps the invariant.
LEMMA ShutdownKeeps ==
  ASSUME MatcherInv, Shutdown
  PROVE  MatcherInv'
<1>1. PICK os, os2, bk, bk2, gone :
        os = orders /\ os2 = orders' /\ bk = book /\ bk2 = book' /\ gone = {i \in 1..Len(orders) : orders[i].fate = "open"}
  OBVIOUS
<1>2. /\ Core(os, bk, trades) /\ CountsOK(os, trades, counts) /\ PendingOK(os, pending) /\ EraOK(os, stops)
      /\ ActiveOK(os, active, stops) /\ RaceOK(os, pending)
      /\ running \in BOOLEAN /\ clock \in 0..MaxTime /\ stops \in 0..MaxStops
  BY <1>1 DEF MatcherInv
<1>3. OrdersOK(os) /\ BooksOK(os, bk) /\ TradesOK(os, trades) /\ os \in Seq(OrderRecords)
  BY <1>2 DEF Core, OrdersOK
<1>4. Len(os) \in Nat /\ DOMAIN os = 1..Len(os)
  BY <1>3, LenProperties
<1>5. /\ running' = FALSE /\ stops < MaxStops /\ bk2 = [p \in Pairs |-> EmptyBook] /\ active' = {} /\ stops' = stops + 1
      /\ os2 = [i \in DOMAIN os |-> IF os[i].fate = "open" THEN [os[i] EXCEPT !.fate = "dropped"] ELSE os[i]]
      /\ UNCHANGED <<pending, counts, trades, clock>>
  BY <1>1 DEF Shutdown
<1>6. "dropped" \in Closed /\ "expired" \in Closed /\ "cancelled" \in Closed /\ "open" \notin Closed
  BY DEF Closed
<1>7. \A i \in gone : i \in 1..Len(os) /\ os[i].fate = "open"
  BY <1>1
<1>8. OrdersOK(os2) /\ TradesOK(os2, trades) /\ Ended(os, gone, "dropped", os2)
  <2>1. os2 = [i \in DOMAIN os |-> IF i \in gone THEN [os[i] EXCEPT !.fate = "dropped"] ELSE os[i]]
    BY <1>1, <1>4, <1>5
  <2> QED BY <1>3, <1>6, <1>7, <2>1, EndedIs
<1>9. Len(os2) = Len(os) /\ os2 \in Seq(OrderRecords) /\ \A i \in 1..Len(os) : SameTerms(os[i], os2[i]) /\ os2[i].fate # "open"
  <2>1. \A i \in 1..Len(os) : os2[i].fate # "open"
    BY <1>1, <1>8 DEF Ended
  <2> QED BY <1>8, <2>1 DEF Ended, OrdersOK
<1>10. BooksOK(os2, bk2)
  <2>1. bk2 \in [Pairs -> BookRecords]
    BY <1>5 DEF BookRecords, EmptyBook
  <2>2. \A p \in Pairs, s \in Lists : bk2[p][s] = <<>>
    BY <1>5 DEF EmptyBook, Lists
  <2>3. ASSUME NEW p \in Pairs, NEW s \in Lists PROVE ListOK(os2, bk2[p][s], p, s)
    <3>1. bk2[p][s] = <<>>
      BY <2>2
    <3>2. ListOK(os2, <<>>, p, s)
      BY DEF ListOK
    <3> QED BY <3>1, <3>2
  <2> QED BY <1>9, <2>1, <2>3 DEF BooksOK
<1>11. CountsOK(os2, trades, counts)
  <2>1. CountedAs(os, gone, "dropped", os2)
    BY <1>4, <1>6, <1>7, <1>8, CountsAtEnd
  <2>2. /\ WithFate(os2, {"expired"}) = WithFate(os, {"expired"}) /\ WithFate(os2, {"cancelled"}) = WithFate(os, {"cancelled"})
        /\ WithFate(os2, Closed \cup {"open"}) = WithFate(os, Closed \cup {"open"})
    BY <1>6, <2>1 DEF CountedAs
  <2> QED BY <1>2, <2>2 DEF CountsOK
<1>12. PendingOK(os2, pending)
  <2>1. ASSUME NEW k \in 1..Len(pending) PROVE pending[k].id \in 1..Len(os2) /\ os2[pending[k].id].fate = "pending"
    <3>1. pending[k].id \in 1..Len(os) /\ os[pending[k].id].fate = "pending"
      BY <1>2 DEF PendingOK
    <3> QED BY <1>1, <1>8, <3>1 DEF Ended
  <2> QED BY <1>2, <2>1 DEF PendingOK
\* Every order is of an earlier time now, and none is open.
<1>13. \A i \in 1..Len(os2) : os2[i].era <= stops /\ os2[i].era \in Nat /\ stops \in Nat
  <2>1. ASSUME NEW i \in 1..Len(os2) PROVE os2[i].era <= stops /\ os2[i].era \in Nat
    <3>1. os2[i] \in OrderRecords /\ os2[i].era = os[i].era /\ os[i].era <= stops
      BY <1>2, <1>8, <1>9, ElementOfSeq DEF Ended, EraOK
    <3> QED BY <3>1, MatcherBoundsAssumption DEF OrderRecords
  <2> QED BY <1>2, <2>1, MatcherBoundsAssumption
<1>14. EraOK(os2, stops') /\ ActiveOK(os2, active', stops')
  <2>1. \A i \in 1..Len(os2) : os2[i].era <= stops + 1 /\ os2[i].era # stops + 1 /\ os2[i].fate # "open"
    BY <1>9, <1>13
  <2> QED BY <1>5, <2>1 DEF EraOK, ActiveOK
<1>15. RaceOK(os2, pending)
  BY <1>9 DEF RaceOK
<1>16. stops' \in 0..MaxStops
  BY <1>2, <1>5, MatcherBoundsAssumption
<1>17. Core(os2, bk2, trades)
  BY <1>8, <1>10 DEF Core
<1> QED BY <1>1, <1>2, <1>5, <1>11, <1>12, <1>14, <1>15, <1>16, <1>17 DEF MatcherInv

-----------------------------------------------------------------------------
(* The theorems.                                                           *)

\* The matcher starts with empty books.
LEMMA MatcherStarts == MatcherInit => MatcherInv
<1> SUFFICES ASSUME MatcherInit PROVE MatcherInv
  OBVIOUS
<1>1. /\ running = FALSE /\ orders = <<>> /\ pending = <<>> /\ active = {} /\ book = [p \in Pairs |-> EmptyBook]
      /\ counts = [orders |-> 0, matches |-> 0, cancelled |-> 0, expired |-> 0] /\ trades = {} /\ clock = 0 /\ stops = 0
  BY DEF MatcherInit
<1>2. orders \in Seq(OrderRecords) /\ Len(orders) = 0 /\ pending \in Seq([id : Nat, valid : BOOLEAN]) /\ Len(pending) = 0
  BY <1>1
<1>3. OrdersOK(orders)
  BY <1>2, MatcherBoundsAssumption DEF OrdersOK
<1>4. BooksOK(orders, book)
  <2>1. book \in [Pairs -> BookRecords]
    BY <1>1 DEF BookRecords, EmptyBook
  <2>2. ASSUME NEW p \in Pairs, NEW s \in Lists PROVE ListOK(orders, book[p][s], p, s)
    <3>1. book[p][s] = <<>>
      BY <1>1 DEF EmptyBook, Lists
    <3>2. ListOK(orders, <<>>, p, s)
      BY DEF ListOK
    <3> QED BY <3>1, <3>2
  <2>3. \A i \in 1..Len(orders) : FALSE
    BY <1>2
  <2> QED BY <2>1, <2>2, <2>3 DEF BooksOK
<1>5. TradesOK(orders, trades)
  BY <1>1, <1>2, FS_EmptySet DEF TradesOK
<1>6. CountsOK(orders, trades, counts)
  <2>1. Cardinality({}) = 0
    BY FS_EmptySet
  <2>2. \A F : WithFate(orders, F) = {}
    BY <1>2 DEF WithFate
  <2>3. counts \in CountRecords /\ counts.orders = 0 /\ counts.matches = 0 /\ counts.cancelled = 0 /\ counts.expired = 0
    BY <1>1 DEF CountRecords
  <2> QED BY <1>1, <2>1, <2>2, <2>3 DEF CountsOK
<1>7. PendingOK(orders, pending) /\ EraOK(orders, stops) /\ ActiveOK(orders, active, stops) /\ RaceOK(orders, pending)
  BY <1>1, <1>2 DEF PendingOK, EraOK, ActiveOK, RaceOK
<1>8. clock \in 0..MaxTime /\ stops \in 0..MaxStops
  BY <1>1, MatcherBoundsAssumption
<1>9. running \in BOOLEAN
  BY <1>1
<1> QED BY <1>3, <1>4, <1>5, <1>6, <1>7, <1>8, <1>9 DEF MatcherInv, Core

\* Every step of the matcher keeps the invariant.
LEMMA MatcherSteps == MatcherInv /\ [MatcherNext]_matcherVars => MatcherInv'
<1> SUFFICES ASSUME MatcherInv, [MatcherNext]_matcherVars PROVE MatcherInv'
  OBVIOUS
<1>1. CASE Initialize
  BY <1>1 DEF MatcherInv, Initialize, Core
<1>2. CASE Tick
  <2>1. clock' \in 0..MaxTime
    BY <1>2, MatcherBoundsAssumption DEF MatcherInv, Tick
  <2> QED BY <1>2, <2>1 DEF MatcherInv, Tick, Core
<1>3. CASE Resume
  BY <1>3, AcceptKeeps, RejectKeeps
<1>4. CASE Shutdown
  BY <1>4, ShutdownKeeps
<1>5. ASSUME NEW r \in Requests, NEW ok \in BOOLEAN, SubmitOrder(r, ok) PROVE MatcherInv'
  BY <1>5, SubmitKeeps
<1>6. ASSUME NEW p \in Pairs, MatchOrders(p) PROVE MatcherInv'
  BY <1>6, MatchKeeps
<1>7. ASSUME NEW i \in DOMAIN orders, CancelOrder(i) PROVE MatcherInv'
  BY <1>7, CancelKeeps
<1>8. CASE UNCHANGED matcherVars
  BY <1>8 DEF MatcherInv, matcherVars, Core
<1> QED BY <1>1, <1>2, <1>3, <1>4, <1>5, <1>6, <1>7, <1>8 DEF MatcherNext

\* The invariant of the matcher is inductive: whatever is submitted, matched, cancelled and shut down, the books
\* list the open orders best first, each order's remaining size and its matches make its size, and the counters and
\* activeCommitments are in step with the orders (order_matcher.ts, order_book.ts).
THEOREM MatcherInductive == MatcherSpec => []MatcherInv
BY MatcherStarts, MatcherSteps, PTL DEF MatcherSpec

\* A list is no longer than there are orders.
LEMMA ListsFit ==
  ASSUME NEW os, Len(os) \in Nat, NEW l, NEW p, NEW s, ListOK(os, l, p, s)
  PROVE  Len(l) <= Len(os)
<1>1. PICK m \in Nat, n \in Nat : m = Len(l) /\ n = Len(os)
  BY LenProperties DEF ListOK
<1>2. SUFFICES ASSUME m > n PROVE FALSE
  BY <1>1
<1>3. PICK f : f = [k \in 1..m |-> l[k]]
  OBVIOUS
<1>4. f \in [1..m -> 1..n] /\ \A j, k \in 1..m : j < k => f[j] # f[k]
  BY <1>1, <1>3 DEF ListOK
<1>5. ASSUME NEW k \in Nat PROVE IsFiniteSet(1..k) /\ Cardinality(1..k) = k
  <2>1. PICK one \in Int, to \in Int : one = 1 /\ to = k
    OBVIOUS
  <2>2. IsFiniteSet(one..to) /\ Cardinality(one..to) = (IF one > to THEN 0 ELSE to - one + 1)
    BY FS_Interval
  <2> QED BY <2>1, <2>2
<1>6. \E x, y \in 1..m : x # y /\ f[x] = f[y]
  <2>1. IsFiniteSet(1..m) /\ IsFiniteSet(1..n) /\ Cardinality(1..n) < Cardinality(1..m)
    BY <1>1, <1>2, <1>5
  <2> QED BY <1>4, <2>1, FS_PigeonHole
<1>7. PICK x \in 1..m, y \in 1..m : x # y /\ f[x] = f[y]
  BY <1>6
<1>8. x < y \/ y < x
  BY <1>7
<1> QED BY <1>4, <1>7, <1>8

\* The invariant has books in price-time order.
LEMMA PriorityHolds == MatcherInv => PriceTimePriority
<1> SUFFICES ASSUME MatcherInv, NEW p \in Pairs, NEW s \in {"bids", "asks"}, NEW k \in 1..(Len(book[p][s]) - 1)
             PROVE  ~Ahead(book[p][s][k + 1], book[p][s][k])
  BY DEF PriceTimePriority
<1>1. ListOK(orders, book[p][s], p, s)
  BY DEF MatcherInv, Core, BooksOK, Lists
<1>2. Len(book[p][s]) \in Nat
  BY <1>1, LenProperties DEF ListOK
<1>3. k \in 1..Len(book[p][s]) /\ k + 1 \in 1..Len(book[p][s]) /\ k < k + 1
  BY <1>2
<1>4. ~Before(orders[book[p][s][k + 1]], orders[book[p][s][k]])
  BY <1>1, <1>3 DEF ListOK
<1> QED BY <1>4 DEF Ahead, Before

\* Price-time priority: no order stands in a list behind a worse one, or behind one as good that was committed
\* later, whatever was added, matched, cancelled or expired in between (order_book.ts:37-61).
THEOREM PriorityIsKept == MatcherSpec => []PriceTimePriority
BY MatcherInductive, PriorityHolds, PTL

\* The invariant has matches of orders that there are.
LEMMA TypesHold == MatcherInv => MatcherTypeOK
<1> SUFFICES ASSUME MatcherInv PROVE MatcherTypeOK
  OBVIOUS
<1>1. /\ OrdersOK(orders) /\ BooksOK(orders, book) /\ CountsOK(orders, trades, counts) /\ PendingOK(orders, pending)
      /\ ActiveOK(orders, active, stops)
      /\ running \in BOOLEAN /\ clock \in 0..MaxTime /\ stops \in 0..MaxStops
  BY DEF MatcherInv, Core
<1>2. DOMAIN orders = 1..Len(orders) /\ Len(orders) <= MaxCalls /\ \A i \in 1..Len(orders) : orders[i] \in OrderRecords
  BY <1>1, LenProperties, ElementOfSeq DEF OrdersOK
<1>3. \A k \in DOMAIN pending : pending[k] \in [id : DOMAIN orders, valid : BOOLEAN]
  <2>1. DOMAIN pending = 1..Len(pending)
    BY <1>1, LenProperties DEF PendingOK
  <2>2. ASSUME NEW k \in 1..Len(pending) PROVE pending[k] \in [id : DOMAIN orders, valid : BOOLEAN]
    <3>1. pending[k] \in [id : Nat, valid : BOOLEAN] /\ pending[k].id \in 1..Len(orders)
      BY <1>1, ElementOfSeq DEF PendingOK
    <3> QED BY <1>2, <3>1
  <2> QED BY <2>1, <2>2
<1>4. ASSUME NEW p \in Pairs, NEW s \in {"bids", "asks"} PROVE ToSet(book[p][s]) \subseteq DOMAIN orders
  <2>1. ListOK(orders, book[p][s], p, s)
    BY <1>1 DEF BooksOK, Lists
  <2>2. DOMAIN book[p][s] = 1..Len(book[p][s])
    BY <2>1, LenProperties DEF ListOK
  <2> QED BY <1>2, <2>1, <2>2 DEF ToSet, ListOK
<1>5. active \subseteq Hashes
  BY <1>1 DEF ActiveOK
<1>6. DOMAIN counts = {"orders", "matches", "cancelled", "expired"} /\ \A c \in DOMAIN counts : counts[c] \in Nat
  BY <1>1 DEF CountsOK, CountRecords
<1> QED BY <1>1, <1>2, <1>3, <1>4, <1>5, <1>6 DEF MatcherTypeOK, OrderRecords

\* What is left and what was traded make the size.
LEMMA FillsHold == MatcherInv => FillsAddUp
<1> SUFFICES ASSUME MatcherInv PROVE FillsAddUp
  OBVIOUS
<1>1. OrdersOK(orders) /\ BooksOK(orders, book) /\ TradesOK(orders, trades)
  BY DEF MatcherInv, Core
<1>2. DOMAIN orders = 1..Len(orders) /\ Len(orders) \in Nat /\ Len(orders) <= MaxCalls /\ orders \in Seq(OrderRecords)
  BY <1>1, LenProperties DEF OrdersOK
<1>3. \A p \in Pairs, s \in {"bids", "asks"} : ListOK(orders, book[p][s], p, s)
  BY <1>1 DEF BooksOK, Lists
<1>4. \A p \in Pairs, s \in {"bids", "asks"} : DOMAIN book[p][s] = 1..Len(book[p][s]) /\ Len(book[p][s]) \in Nat
  BY <1>3, LenProperties DEF ListOK
<1>5. ASSUME NEW i \in 1..Len(orders)
      PROVE  Cardinality({x \in Pairs \X {"bids", "asks"} \X (1..MaxCalls) :
                            x[3] \in DOMAIN book[x[1]][x[2]] /\ book[x[1]][x[2]][x[3]] = i}) = (IF orders[i].fate = "open" THEN 1 ELSE 0)
  <2>1. PICK X : X = {x \in Pairs \X {"bids", "asks"} \X (1..MaxCalls) :
                        x[3] \in DOMAIN book[x[1]][x[2]] /\ book[x[1]][x[2]][x[3]] = i}
    OBVIOUS
  <2>2. ASSUME NEW x \in X
        PROVE  /\ orders[i].fate = "open" /\ x[1] = orders[i].pair /\ x[2] = ListFor(orders[i])
               /\ x[3] \in 1..Len(book[x[1]][x[2]]) /\ book[x[1]][x[2]][x[3]] = i /\ x = <<x[1], x[2], x[3]>>
    <3>1. x[1] \in Pairs /\ x[2] \in {"bids", "asks"} /\ x[3] \in DOMAIN book[x[1]][x[2]] /\ book[x[1]][x[2]][x[3]] = i
          /\ x = <<x[1], x[2], x[3]>>
      BY <2>1
    <3>2. PICK p, s, k : p = x[1] /\ s = x[2] /\ k = x[3]
      OBVIOUS
    <3>3. ListOK(orders, book[p][s], p, s) /\ k \in 1..Len(book[p][s]) /\ book[p][s][k] = i
      BY <1>3, <1>4, <3>1, <3>2
    <3>4. orders[i].fate = "open" /\ orders[i].pair = p /\ ListFor(orders[i]) = s
      BY <3>3 DEF ListOK
    <3> QED BY <3>1, <3>2, <3>3, <3>4
  <2>3. CASE orders[i].fate # "open"
    <3>1. X = {}
      BY <2>2, <2>3
    <3>2. Cardinality({}) = 0
      BY FS_EmptySet
    <3> QED BY <2>1, <2>3, <3>1, <3>2
  <2>4. CASE orders[i].fate = "open"
    <3>1. PICK p, s : p = orders[i].pair /\ s = ListFor(orders[i])
      OBVIOUS
    <3>2. p \in Pairs /\ s \in {"bids", "asks"}
      <4>1. orders[i] \in OrderRecords
        BY <1>2, ElementOfSeq
      <4> QED BY <3>1, <4>1 DEF OrderRecords, ListFor
    <3>3. PICK k \in 1..Len(book[p][s]) : book[p][s][k] = i
      BY <1>1, <2>4, <3>1 DEF BooksOK
    <3>4. ListOK(orders, book[p][s], p, s) /\ Len(book[p][s]) \in Nat /\ DOMAIN book[p][s] = 1..Len(book[p][s])
      BY <1>3, <1>4, <3>2
    <3>5. Len(book[p][s]) <= Len(orders)
      BY <1>2, <3>4, ListsFit
    <3>6. k \in 1..MaxCalls
      BY <1>2, <3>3, <3>4, <3>5, MatcherBoundsAssumption
    <3>7. PICK y : y = <<p, s, k>>
      OBVIOUS
    <3>8. y \in Pairs \X {"bids", "asks"} \X (1..MaxCalls) /\ y[1] = p /\ y[2] = s /\ y[3] = k
      BY <3>2, <3>6, <3>7
    <3>9. y \in X
      BY <2>1, <3>3, <3>4, <3>8
    <3>10. ASSUME NEW x \in X PROVE x = y
      <4>1. x[1] = p /\ x[2] = s /\ x = <<x[1], x[2], x[3]>>
        BY <2>2, <3>1
      <4>2. x[3] \in 1..Len(book[p][s]) /\ book[p][s][x[3]] = i
        BY <2>2, <4>1
      <4>3. x[3] = k
        <5>1. PICK m \in 1..Len(book[p][s]) : m = x[3]
          BY <4>2
        <5>2. ~(m < k) /\ ~(k < m)
          BY <3>3, <3>4, <4>2, <5>1 DEF ListOK
        <5> QED BY <3>3, <3>4, <5>1, <5>2
      <4> QED BY <3>7, <4>1, <4>3
    <3>11. X = {y}
      BY <3>9, <3>10
    <3> QED BY <2>1, <2>4, <3>11, FS_Singleton
  <2> QED BY <2>3, <2>4
<1>6. ASSUME NEW i \in 1..Len(orders)
      PROVE  orders[i].remaining + TradedSize(i) = orders[i].size /\ (orders[i].fate = "filled" <=> orders[i].remaining = 0)
  <2>1. TradedSize(i) = TradedIn(trades, i)
    BY DEF TradedSize, TradedIn
  <2> QED BY <1>1, <2>1 DEF TradesOK, OrdersOK
<1> QED BY <1>2, <1>5, <1>6 DEF FillsAddUp

\* Matches are within the limits of both orders.
LEMMA LimitsHold == MatcherInv => MatchesWithinLimits
BY DEF MatcherInv, Core, TradesOK, TradeOK, MatchesWithinLimits

\* The orders that have been accepted are of five kinds.
LEMMA FiveFates ==
  ASSUME NEW os, Len(os) \in Nat
  PROVE  Cardinality(WithFate(os, Closed \cup {"open"})) =
           Cardinality(WithFate(os, {"open"})) + Cardinality(WithFate(os, {"filled"})) + Cardinality(WithFate(os, {"cancelled"}))
             + Cardinality(WithFate(os, {"expired"})) + Cardinality(WithFate(os, {"dropped"}))
<1>1. \A F : IsFiniteSet(WithFate(os, F)) /\ Cardinality(WithFate(os, F)) \in Nat
  <2>1. IsFiniteSet(1..Len(os)) /\ \A F : WithFate(os, F) \subseteq 1..Len(os)
    BY FS_Interval DEF WithFate
  <2> QED BY <2>1, FS_Subset, FS_CardinalityType
<1>2. ASSUME NEW F, NEW f, f \notin F
      PROVE  Cardinality(WithFate(os, F \cup {f})) = Cardinality(WithFate(os, F)) + Cardinality(WithFate(os, {f}))
  <2>1. PICK A, B : A = WithFate(os, F) /\ B = WithFate(os, {f})
    OBVIOUS
  <2>2. A \cap B = {} /\ A \cup B = WithFate(os, F \cup {f})
    BY <1>2, <2>1 DEF WithFate
  <2>3. IsFiniteSet(A) /\ IsFiniteSet(B) /\ Cardinality(A) \in Nat /\ Cardinality(B) \in Nat
    BY <1>1, <2>1
  <2>4. Cardinality(A \cup B) = Cardinality(A) + Cardinality(B) - Cardinality(A \cap B)
    BY <2>3, FS_Union
  <2>5. Cardinality(A \cap B) = 0
    BY <2>2, FS_EmptySet
  <2>6. Cardinality(A \cup B) = Cardinality(A) + Cardinality(B)
    BY <2>3, <2>4, <2>5
  <2> QED BY <2>1, <2>2, <2>6
\* The count of two kinds, given the count of the first.
<1>0. ASSUME NEW F, NEW f, f \notin F, NEW c, c = Cardinality(WithFate(os, F)), NEW d, d = Cardinality(WithFate(os, {f}))
      PROVE  Cardinality(WithFate(os, F \cup {f})) = c + d
  BY <1>0, <1>2
<1>3. PICK c1, c2, c3, c4, c5 : /\ c1 = Cardinality(WithFate(os, {"open"})) /\ c2 = Cardinality(WithFate(os, {"filled"}))
                                /\ c3 = Cardinality(WithFate(os, {"cancelled"})) /\ c4 = Cardinality(WithFate(os, {"expired"}))
                                /\ c5 = Cardinality(WithFate(os, {"dropped"}))
  OBVIOUS
<1>4. c1 \in Nat /\ c2 \in Nat /\ c3 \in Nat /\ c4 \in Nat /\ c5 \in Nat
  BY <1>1, <1>3
<1>5. Cardinality(WithFate(os, {"open"} \cup {"filled"})) = c1 + c2
  BY <1>2, <1>3
<1>6. Cardinality(WithFate(os, ({"open"} \cup {"filled"}) \cup {"cancelled"})) = c1 + c2 + c3
  <2>1. "cancelled" \notin {"open"} \cup {"filled"}
    OBVIOUS
  <2> QED BY <1>2, <1>3, <1>5, <2>1
<1>7. Cardinality(WithFate(os, (({"open"} \cup {"filled"}) \cup {"cancelled"}) \cup {"expired"})) = c1 + c2 + c3 + c4
  <2>1. "expired" \notin ({"open"} \cup {"filled"}) \cup {"cancelled"}
    OBVIOUS
  <2>2. PICK F : F = ({"open"} \cup {"filled"}) \cup {"cancelled"}
    OBVIOUS
  <2>3. "expired" \notin F /\ Cardinality(WithFate(os, F)) = c1 + c2 + c3
    BY <1>6, <2>1, <2>2
  <2>4. Cardinality(WithFate(os, F \cup {"expired"})) = (c1 + c2 + c3) + c4
    BY <1>0, <1>3, <2>3
  <2> QED BY <2>2, <2>4
<1>8. Cardinality(WithFate(os, ((({"open"} \cup {"filled"}) \cup {"cancelled"}) \cup {"expired"}) \cup {"dropped"})) = c1 + c2 + c3 + c4 + c5
  <2>1. "dropped" \notin (({"open"} \cup {"filled"}) \cup {"cancelled"}) \cup {"expired"}
    OBVIOUS
  <2>2. PICK F : F = (({"open"} \cup {"filled"}) \cup {"cancelled"}) \cup {"expired"}
    OBVIOUS
  <2>3. "dropped" \notin F /\ Cardinality(WithFate(os, F)) = c1 + c2 + c3 + c4
    BY <1>7, <2>1, <2>2
  <2>4. Cardinality(WithFate(os, F \cup {"dropped"})) = (c1 + c2 + c3 + c4) + c5
    BY <1>0, <1>3, <2>3
  <2> QED BY <2>2, <2>4
<1>9. Closed \cup {"open"} = ((({"open"} \cup {"filled"}) \cup {"cancelled"}) \cup {"expired"}) \cup {"dropped"}
  BY DEF Closed
<1> QED BY <1>3, <1>8, <1>9

\* The counters tell where every order went.
LEMMA CountsHold == MatcherInv => CountsAddUp
<1> SUFFICES ASSUME MatcherInv PROVE CountsAddUp
  OBVIOUS
<1>1. Len(orders) \in Nat /\ DOMAIN orders = 1..Len(orders)
  <2>1. orders \in Seq(OrderRecords)
    BY DEF MatcherInv, Core, OrdersOK
  <2> QED BY <2>1, LenProperties
<1>2. ASSUME NEW f PROVE {i \in DOMAIN orders : orders[i].fate = f} = WithFate(orders, {f})
  BY <1>1 DEF WithFate
<1>3. /\ counts.expired = Cardinality(WithFate(orders, {"expired"})) /\ counts.cancelled = Cardinality(WithFate(orders, {"cancelled"}))
      /\ counts.orders = Cardinality(WithFate(orders, Closed \cup {"open"})) /\ counts.matches = Cardinality(trades)
  BY DEF MatcherInv, CountsOK
<1>4. Cardinality(WithFate(orders, Closed \cup {"open"})) =
        Cardinality(WithFate(orders, {"open"})) + Cardinality(WithFate(orders, {"filled"})) + Cardinality(WithFate(orders, {"cancelled"}))
          + Cardinality(WithFate(orders, {"expired"})) + Cardinality(WithFate(orders, {"dropped"}))
  BY <1>1, FiveFates
<1>5. \A f : Cardinality({i \in DOMAIN orders : orders[i].fate = f}) = Cardinality(WithFate(orders, {f}))
  BY <1>2
<1> QED BY <1>3, <1>4, <1>5 DEF CountsAddUp

\* Matches are sound: every match is within the limits of its two orders, what an order has left and what it has
\* traded make its size, it stands in the book exactly while it is open, and the counters tell where every order
\* went (order_matcher.ts:123-219, order_book.ts:140-191).
THEOREM MatchesSound == MatcherSpec => []MatchesAreSound
<1>1. MatcherInv => MatchesAreSound
  BY TypesHold, FillsHold, LimitsHold, CountsHold DEF MatchesAreSound
<1> QED BY <1>1, MatcherInductive, PTL

\* A commitment is booked twice only in a race.
LEMMA CommitmentsHold == MatcherInv => DoubleBookingTakesARace /\ TradedIsBlocked /\ StoppedBooksAreEmpty
<1> SUFFICES ASSUME MatcherInv PROVE DoubleBookingTakesARace /\ TradedIsBlocked /\ StoppedBooksAreEmpty
  OBVIOUS
<1>1. RaceOK(orders, pending) /\ ActiveOK(orders, active, stops) /\ EraOK(orders, stops)
  BY DEF MatcherInv
<1>2. DOMAIN orders = 1..Len(orders)
  <2>1. orders \in Seq(OrderRecords)
    BY DEF MatcherInv, Core, OrdersOK
  <2> QED BY <2>1, LenProperties
<1>3. DoubleBookingTakesARace
  <2> SUFFICES ASSUME NEW i \in 1..Len(orders), NEW j \in 1..Len(orders),
                      i # j, orders[i].fate = "open", orders[j].fate = "open", orders[i].hash = orders[j].hash
               PROVE  Overlap(i, j) \/ \E k \in DOMAIN orders \ {i, j} : orders[k].hash = orders[i].hash /\ orders[k].fate = "cancelled"
    BY <1>2 DEF DoubleBookingTakesARace
  <2>1. (orders[i].seen >= j /\ orders[j].seen >= i) \/ Freed(orders, orders[i].hash)
    BY <1>1 DEF RaceOK
  <2> QED BY <1>2, <2>1 DEF Overlap, Freed
<1>4. TradedIsBlocked
  <2> SUFFICES ASSUME NEW i \in 1..Len(orders),
                      orders[i].fate \in {"open", "filled"}, orders[i].era = stops, orders[i].hash \notin active
               PROVE  \E j \in DOMAIN orders \ {i} : orders[j].hash = orders[i].hash /\ orders[j].fate = "cancelled"
    BY <1>2 DEF TradedIsBlocked
  <2>1. Freed(orders, orders[i].hash)
    BY <1>1 DEF ActiveOK
  <2> QED BY <1>2, <2>1 DEF Freed
<1>5. StoppedBooksAreEmpty
  BY <1>1, <1>2 DEF StoppedBooksAreEmpty, EraOK
<1> QED BY <1>3, <1>4, <1>5

\* An order that has left the book stays as it is, and only open orders trade.
GoneForGood ==
  /\ \A i \in DOMAIN orders : orders[i].fate \in Fates \ {"pending", "open"} => orders'[i] = orders[i]
  /\ \A t \in trades' \ trades : orders[t.bid].fate = "open" /\ orders[t.ask].fate = "open"

\* Matching puts nobody back who has left.
LEMMA MatchLeavesForGood ==
  ASSUME MatcherInv, NEW p \in Pairs, MatchOrders(p)
  PROVE  GoneForGood
<1>1. PICK end : Matched(p, end)
  BY MatchIs
<1>2. PICK os, os1, os2, gone : os = orders /\ os1 = AfterExpiry(p) /\ os2 = orders' /\ gone = Gone(p)
  OBVIOUS
<1>3. LoopOK(end, os1, p) /\ end.orders = os2 /\ trades' = trades \cup ToSet(end.trades)
  BY <1>1, <1>2 DEF Matched
<1>4. Core(os, book, trades) /\ clock \in Nat /\ os \in Seq(OrderRecords) /\ DOMAIN os = 1..Len(os)
  <2>1. Core(os, book, trades) /\ clock \in Nat
    BY <1>2, MatcherBoundsAssumption DEF MatcherInv
  <2>2. os \in Seq(OrderRecords)
    BY <2>1 DEF Core, OrdersOK
  <2> QED BY <2>1, <2>2, LenProperties
<1>5. Ended(os, gone, "expired", os1) /\ \A i \in gone : i \in 1..Len(os) /\ os[i].fate = "open"
  BY <1>2, <1>4, ExpiryIs
<1>6. Moved(os1, os2) /\ TradesOK(os2, trades \cup ToSet(end.trades)) /\ \A t \in ToSet(end.trades) : os1[t.bid].fate = "open" /\ os1[t.ask].fate = "open"
  BY <1>3 DEF LoopOK, Core
<1>7. Len(os1) = Len(os) /\ Len(os2) = Len(os)
  BY <1>5, <1>6 DEF Moved, Ended
<1>8. ASSUME NEW i \in 1..Len(os), os[i].fate # "open" PROVE os2[i] = os[i]
  <2>1. os1[i] = os[i]
    BY <1>5, <1>8 DEF Ended
  <2> QED BY <1>6, <1>7, <1>8, <2>1 DEF Moved
<1>9. ASSUME NEW i \in 1..Len(os), os1[i].fate = "open" PROVE os[i].fate = "open"
  BY <1>5, <1>9 DEF Ended
<1>10. ASSUME NEW t \in trades' \ trades PROVE os[t.bid].fate = "open" /\ os[t.ask].fate = "open"
  <2>1. t \in ToSet(end.trades)
    BY <1>3
  <2>2. t.bid \in 1..Len(os) /\ t.ask \in 1..Len(os)
    BY <1>6, <1>7, <2>1 DEF TradesOK, TradeOK
  <2> QED BY <1>6, <1>9, <2>1, <2>2
<1> QED BY <1>2, <1>4, <1>8, <1>10 DEF GoneForGood

\* No step puts an order back that has left.
LEMMA LeavesForGood == MatcherInv /\ [MatcherNext]_matcherVars => [GoneForGood]_matcherVars
<1> SUFFICES ASSUME MatcherInv, MatcherNext PROVE GoneForGood
  BY DEF matcherVars
<1>1. orders \in Seq(OrderRecords) /\ DOMAIN orders = 1..Len(orders) /\ Len(orders) \in Nat
  <2>1. orders \in Seq(OrderRecords)
    BY DEF MatcherInv, Core, OrdersOK
  <2> QED BY <2>1, LenProperties
<1>2. CASE Initialize \/ Tick
  BY <1>2 DEF Initialize, Tick, GoneForGood
<1>3. CASE Resume
  <2>1. PICK i : i = Head(pending).id
    OBVIOUS
  <2>2. orders[i].fate = "pending"
    <3>1. pending # <<>> /\ PendingOK(orders, pending)
      BY <1>3 DEF Resume, MatcherInv
    <3>2. 1 \in 1..Len(pending) /\ Head(pending) = pending[1]
      <4>1. pending \in Seq([id : Nat, valid : BOOLEAN])
        BY <3>1 DEF PendingOK
      <4> QED BY <3>1, <4>1, HeadTailProperties, LenProperties, EmptySeq
    <3> QED BY <2>1, <3>1, <3>2 DEF PendingOK
  <2>3. trades' = trades /\ \A j \in 1..Len(orders) : j # i => orders'[j] = orders[j]
    BY <1>1, <1>3, <2>1 DEF Resume
  <2> QED BY <1>1, <2>2, <2>3 DEF GoneForGood
<1>4. CASE Shutdown
  BY <1>4 DEF Shutdown, GoneForGood
<1>5. ASSUME NEW r \in Requests, NEW ok \in BOOLEAN, SubmitOrder(r, ok) PROVE GoneForGood
  <2>1. PICK new : orders' = Append(orders, new) /\ trades' = trades
    BY <1>5 DEF SubmitOrder
  <2>2. \A j \in 1..Len(orders) : Append(orders, new)[j] = orders[j]
    BY <1>1, AppendProperties
  <2> QED BY <1>1, <2>1, <2>2 DEF GoneForGood
<1>6. ASSUME NEW p \in Pairs, MatchOrders(p) PROVE GoneForGood
  BY <1>6, MatchLeavesForGood
<1>7. ASSUME NEW i \in DOMAIN orders, CancelOrder(i) PROVE GoneForGood
  BY <1>7 DEF CancelOrder, GoneForGood
<1> QED BY <1>2, <1>3, <1>4, <1>5, <1>6, <1>7 DEF MatcherNext

\* A commitment is worth one order: two orders of one commitment are open at once only if their submits overlapped
\* or a cancel freed it, one that rests or has traded is not accepted again, no order outlives a shutdown, and what
\* has left the book neither comes back nor trades (order_matcher.ts:71-219).
THEOREM CommitmentsKept == MatcherSpec => CommitmentsAreKept
<1>1. MatcherSpec => [](DoubleBookingTakesARace /\ TradedIsBlocked /\ StoppedBooksAreEmpty)
  BY CommitmentsHold, MatcherInductive, PTL
<1>2. MatcherSpec => [][GoneForGood]_matcherVars
  <2>1. MatcherInv /\ [MatcherNext]_matcherVars => [GoneForGood]_matcherVars
    BY LeavesForGood
  <2> QED BY <2>1, MatcherInductive, PTL DEF MatcherSpec
<1>3. [][GoneForGood]_matcherVars <=> LeftForGood
  BY DEF LeftForGood, GoneForGood
<1> QED BY <1>1, <1>2, <1>3 DEF CommitmentsAreKept

=============================================================================
