--------------------------- MODULE LibraryProofs ---------------------------
(***************************************************************************)
(* Theorems about the classes of the library beside the order matcher, for *)
(* any callers and amounts.                                                *)
(***************************************************************************)
EXTENDS MatchingEvents, MarginManager, LiquidationEngine, SettlementEngine,
        SealedVault, ListsAndSums

-----------------------------------------------------------------------------
(***************************************************************************)
(* MatchingEvents: no handler is called more often than it subscribed, and *)
(* none is forgotten, whatever the handlers do to the lists.               *)
(***************************************************************************)

\* The lists e has not begun to walk.
NotReached(e) == IF emit[e].step = "idle" THEN Kinds ELSE IF emit[e].step = "specific" THEN {"global"} ELSE {}

\* How often e may still call h as a handler of k.
Rest(e, k, h) ==
  IF emit[e].step = k THEN Often(Walked(e), h, emit[e].at)
  ELSE IF k \in NotReached(e) THEN Often(lists[k], h, 0) ELSE 0

CallsBounded(e, k, h) == Often(got[e], <<k, h>>, 0) + Rest(e, k, h) <= subscribed[k][h]

\* e will still call h as a handler of k.
Coming(e, k, h) ==
  \/ emit[e].step = k /\ \E i \in 1..Len(Walked(e)) : i > emit[e].at /\ Walked(e)[i] = h
  \/ k \in NotReached(e) /\ \E i \in 1..Len(lists[k]) : lists[k][i] = h

Called(e, k, h) == \E i \in 1..Len(got[e]) : got[e][i] = <<k, h>>

NotForgotten(e) ==
  emit[e].step # "thrown" /\ e \notin shifted =>
    \A k \in Kinds, h \in Handlers : <<k, h>> \in stayed[e] => Coming(e, k, h) \/ Called(e, k, h)

EmitterTypeOK ==
  /\ lists \in [Kinds -> Seq(Handlers)]
  /\ emit \in [Emits -> [step : Kinds \cup {"idle", "thrown", "done"}, at : Nat,
                         replaced : [old : BOOLEAN, list : Seq(Handlers)]]]
  /\ got \in [Emits -> Seq(Kinds \X Handlers)]
  /\ stayed \in [Emits -> SUBSET (Kinds \X Handlers)]
  /\ shifted \in SUBSET Emits
  /\ subscribed \in [Kinds -> [Handlers -> Nat]]

EmitterInv ==
  /\ EmitterTypeOK
  /\ \A k \in Kinds, h \in Handlers : Often(lists[k], h, 0) <= subscribed[k][h]
  /\ \A e \in Emits, k \in Kinds, h \in Handlers : CallsBounded(e, k, h)
  /\ \A e \in Emits : NotForgotten(e) /\ (emit[e].step = "idle" => stayed[e] = {})

\* Types of a delivery.
LEMMA WalkedType ==
  ASSUME EmitterTypeOK, NEW e \in Emits
  PROVE  /\ emit[e].step \in Kinds => Walked(e) \in Seq(Handlers) /\ Len(Walked(e)) \in Nat
         /\ emit[e].at \in Nat /\ emit[e].replaced.list \in Seq(Handlers)
         /\ \A k \in Kinds : lists[k] \in Seq(Handlers) /\ Len(lists[k]) \in Nat
         /\ got[e] \in Seq(Kinds \X Handlers) /\ Len(got[e]) \in Nat
         /\ emit[e].step = "idle" => emit[e].step \notin Kinds
<1>1. emit[e].at \in Nat /\ emit[e].replaced.list \in Seq(Handlers)
  BY DEF EmitterTypeOK
<1>2. \A k \in Kinds : lists[k] \in Seq(Handlers) /\ Len(lists[k]) \in Nat
  BY LenProperties DEF EmitterTypeOK
<1>3. got[e] \in Seq(Kinds \X Handlers) /\ Len(got[e]) \in Nat
  BY LenProperties DEF EmitterTypeOK
<1>4. emit[e].step \in Kinds => Walked(e) \in Seq(Handlers) /\ Len(Walked(e)) \in Nat
  BY <1>1, <1>2, LenProperties DEF Walked
<1> QED BY <1>1, <1>2, <1>3, <1>4 DEF Kinds

\* How often a handler is still to come is a number.
LEMMA RestType ==
  ASSUME EmitterTypeOK, NEW e \in Emits, NEW k \in Kinds, NEW h \in Handlers
  PROVE  /\ Rest(e, k, h) \in Nat /\ Often(got[e], <<k, h>>, 0) \in Nat /\ Often(lists[k], h, 0) \in Nat
         /\ subscribed[k][h] \in Nat
<1>1. Often(got[e], <<k, h>>, 0) \in Nat /\ Often(lists[k], h, 0) \in Nat
  BY WalkedType, OftenType
<1>2. emit[e].step = k => Often(Walked(e), h, emit[e].at) \in Nat
  BY WalkedType, OftenType
<1>3. subscribed[k][h] \in Nat
  BY DEF EmitterTypeOK
<1> QED BY <1>1, <1>2, <1>3 DEF Rest

\* The same of the next state.
LEMMA RestTypeNext ==
  ASSUME EmitterTypeOK', NEW e \in Emits, NEW k \in Kinds, NEW h \in Handlers
  PROVE  Rest(e, k, h)' \in Nat
<1>1. \A j \in Kinds : lists'[j] \in Seq(Handlers)
  BY DEF EmitterTypeOK
<1>2. emit'[e].at \in Nat /\ emit'[e].replaced.list \in Seq(Handlers)
  BY DEF EmitterTypeOK
<1>3. ASSUME emit'[e].step = k PROVE Often(Walked(e)', h, emit'[e].at) \in Nat
  <2>1. Walked(e)' \in Seq(Handlers)
    BY <1>1, <1>2, <1>3 DEF Walked
  <2> QED BY <1>2, <2>1, OftenType
<1>4. Often(lists'[k], h, 0) \in Nat
  BY <1>1, OftenType
<1> QED BY <1>3, <1>4 DEF Rest

\* Nobody has subscribed yet.
LEMMA EmitterInitInv == EmitterInit => EmitterInv
<1> SUFFICES ASSUME EmitterInit PROVE EmitterInv
  OBVIOUS
<1>1. EmitterTypeOK
  BY DEF EmitterInit, EmitterTypeOK, NotBegun, Old
<1>2. ASSUME NEW k \in Kinds, NEW h \in Handlers PROVE Often(lists[k], h, 0) = 0
  <2>1. lists[k] = <<>>
    BY DEF EmitterInit
  <2> QED BY <2>1, OftenEmpty
<1>3. ASSUME NEW e \in Emits, NEW k \in Kinds, NEW h \in Handlers
      PROVE  CallsBounded(e, k, h)
  <2>1. Often(got[e], <<k, h>>, 0) = 0
    <3>1. got[e] = <<>>
      BY DEF EmitterInit
    <3> QED BY <3>1, OftenEmpty
  <2>2. emit[e].step = "idle" /\ subscribed[k][h] = 0
    BY DEF EmitterInit, NotBegun
  <2> QED BY <1>2, <2>1, <2>2 DEF CallsBounded, Rest, Kinds
<1>4. \A e \in Emits : stayed[e] = {}
  BY DEF EmitterInit
<1>5. \A k \in Kinds, h \in Handlers : subscribed[k][h] = 0
  BY DEF EmitterInit
<1> QED BY <1>1, <1>2, <1>3, <1>4, <1>5 DEF EmitterInv, NotForgotten

\* A step that changes nothing e looks at keeps what is said of e.
LEMMA SameEmit ==
  ASSUME NEW e \in Emits, NotForgotten(e), emit[e].step = "idle" => stayed[e] = {},
         \A k \in Kinds, h \in Handlers : CallsBounded(e, k, h),
         emit'[e] = emit[e], got'[e] = got[e], stayed'[e] = stayed[e],
         lists' = lists, shifted' = shifted, subscribed' = subscribed
  PROVE  /\ NotForgotten(e)' /\ (emit[e].step = "idle" => stayed[e] = {})'
         /\ \A k \in Kinds, h \in Handlers : CallsBounded(e, k, h)'
<1>1. Walked(e)' = Walked(e) /\ NotReached(e)' = NotReached(e)
  BY DEF Walked, NotReached
<1>2. \A k \in Kinds, h \in Handlers : Rest(e, k, h)' = Rest(e, k, h)
  BY <1>1 DEF Rest
<1>3. \A k \in Kinds, h \in Handlers : CallsBounded(e, k, h)'
  BY <1>2 DEF CallsBounded
<1>4. \A k \in Kinds, h \in Handlers : Coming(e, k, h)' <=> Coming(e, k, h)
  BY <1>1 DEF Coming
<1>5. NotForgotten(e)'
  BY <1>4 DEF NotForgotten, Called
<1> QED BY <1>3, <1>5

\* A subscription goes to the end of the list.
LEMMA OnKeeps ==
  ASSUME EmitterInv, NEW k \in Kinds, NEW h \in Handlers, On(k, h)
  PROVE  EmitterInv'
<1> USE DEF EmitterInv
<1>1. EmitterTypeOK'
  <2>1. Append(lists[k], h) \in Seq(Handlers)
    BY AppendIs DEF EmitterTypeOK
  <2> QED BY <2>1 DEF EmitterTypeOK, On
<1>2. /\ lists' = [lists EXCEPT ![k] = Append(lists[k], h)]
      /\ subscribed' = [subscribed EXCEPT ![k][h] = subscribed[k][h] + 1]
      /\ UNCHANGED <<emit, got, stayed, shifted>>
  BY DEF On
<1>3. ASSUME NEW g \in Handlers, NEW n \in Nat
      PROVE  Often(lists'[k], g, n) <= Often(lists[k], g, n) + (IF g = h THEN 1 ELSE 0)
  <2>1. lists'[k] = Append(lists[k], h) /\ lists[k] \in Seq(Handlers)
    BY <1>2 DEF EmitterTypeOK
  <2>2. Often(lists[k], g, n) \in Nat
    BY <2>1, OftenType
  <2>3. Often(Append(lists[k], h), g, n) = Often(lists[k], g, n) + (IF h = g /\ n <= Len(lists[k]) THEN 1 ELSE 0)
    BY <2>1, OftenAppend
  <2> QED BY <2>1, <2>2, <2>3
<1>4. ASSUME NEW j \in Kinds, NEW g \in Handlers
      PROVE  subscribed'[j][g] = subscribed[j][g] + (IF j = k /\ g = h THEN 1 ELSE 0)
  BY <1>2, RestType DEF EmitterTypeOK
<1>5. ASSUME NEW j \in Kinds, NEW g \in Handlers PROVE Often(lists[j], g, 0)' <= subscribed[j][g]'
  <2>1. CASE j = k
    <3>1. Often(lists[k], g, 0) \in Nat /\ Often(lists'[k], g, 0) \in Nat /\ subscribed[k][g] \in Nat
      BY <1>1, OftenType DEF EmitterTypeOK
    <3> QED BY <1>3, <1>4, <2>1, <3>1
  <2>2. CASE j # k
    <3>1. lists'[j] = lists[j] /\ subscribed[j][g] \in Nat
      BY <1>2, <2>2 DEF EmitterTypeOK
    <3> QED BY <1>4, <2>2, <3>1
  <2> QED BY <2>1, <2>2
<1>6. ASSUME NEW e \in Emits, NEW j \in Kinds, NEW g \in Handlers
      PROVE  CallsBounded(e, j, g)' /\ (Coming(e, j, g) => Coming(e, j, g)')
  <2>1. /\ Rest(e, j, g) \in Nat /\ Rest(e, j, g)' \in Nat /\ Often(got[e], <<j, g>>, 0) \in Nat
        /\ subscribed[j][g] \in Nat /\ subscribed'[j][g] \in Nat
    <3>1. Rest(e, j, g) \in Nat /\ Often(got[e], <<j, g>>, 0) \in Nat /\ subscribed[j][g] \in Nat
      BY RestType
    <3>2. Rest(e, j, g)' \in Nat
      BY <1>1, RestTypeNext
    <3> QED BY <1>4, <3>1, <3>2
  <2>2. Walked(e)' = IF emit[e].step = k /\ ~emit[e].replaced.old THEN lists'[k]
                     ELSE IF emit[e].step \in Kinds THEN Walked(e) ELSE Walked(e)'
    BY <1>2 DEF Walked, EmitterTypeOK
  <2>3. Rest(e, j, g)' <= Rest(e, j, g) + (IF j = k /\ g = h THEN 1 ELSE 0)
    <3>1. CASE emit[e].step = j
      <4>1. Often(Walked(e)', g, emit[e].at) <= Often(Walked(e), g, emit[e].at) + (IF j = k /\ g = h THEN 1 ELSE 0)
        <5>1. Often(Walked(e), g, emit[e].at) \in Nat
          BY <3>1, WalkedType, OftenType
        <5>2. CASE j = k /\ ~emit[e].replaced.old
          BY <1>3, <2>2, <3>1, <5>1, <5>2, WalkedType DEF Walked
        <5>3. CASE ~ (j = k /\ ~emit[e].replaced.old)
          <6>1. Walked(e)' = Walked(e)
            BY <2>2, <3>1, <5>3
          <6> QED BY <5>1, <6>1
        <5> QED BY <5>2, <5>3
      <4>2. emit' = emit
        BY <1>2
      <4>3. Rest(e, j, g)' = Often(Walked(e)', g, emit[e].at) /\ Rest(e, j, g) = Often(Walked(e), g, emit[e].at)
        BY <3>1, <4>2 DEF Rest
      <4> QED BY <4>1, <4>3
    <3>2. CASE emit[e].step # j
      <4>1. NotReached(e)' = NotReached(e) /\ emit' = emit
        BY <1>2 DEF NotReached
      <4>2. Often(lists'[j], g, 0) <= Often(lists[j], g, 0) + (IF j = k /\ g = h THEN 1 ELSE 0)
        <5>1. CASE j = k
          BY <1>3, <5>1
        <5>2. CASE j # k
          <6>1. lists'[j] = lists[j] /\ Often(lists[j], g, 0) \in Nat
            BY <1>2, <5>2, RestType DEF EmitterTypeOK
          <6> QED BY <5>2, <6>1
        <5> QED BY <5>1, <5>2
      <4> QED BY <3>2, <4>1, <4>2, RestType DEF Rest
    <3> QED BY <3>1, <3>2
  <2>4. Often(got[e], <<j, g>>, 0) + Rest(e, j, g) <= subscribed[j][g]
    BY DEF CallsBounded
  <2>5. CallsBounded(e, j, g)'
    <3>1. Often(got[e], <<j, g>>, 0)' = Often(got[e], <<j, g>>, 0)
      BY <1>2
    <3> QED BY <1>4, <2>1, <2>3, <2>4, <3>1 DEF CallsBounded
  <2>6. ASSUME Coming(e, j, g) PROVE Coming(e, j, g)'
    <3>1. \A i \in 1..Len(lists[j]) : i \in 1..Len(lists'[j]) /\ lists'[j][i] = lists[j][i]
      <4>1. CASE j = k
        <5>1. lists'[k] = Append(lists[k], h) /\ lists[k] \in Seq(Handlers)
          BY <1>2 DEF EmitterTypeOK
        <5>2. /\ Len(Append(lists[k], h)) = Len(lists[k]) + 1 /\ Len(lists[k]) \in Nat
              /\ \A i \in 1..Len(lists[k]) : Append(lists[k], h)[i] = lists[k][i]
          BY <5>1, AppendIs
        <5> QED BY <4>1, <5>1, <5>2
      <4>2. CASE j # k
        BY <1>2, <4>2 DEF EmitterTypeOK
      <4> QED BY <4>1, <4>2
    <3>2. emit' = emit /\ NotReached(e)' = NotReached(e)
      BY <1>2 DEF NotReached
    <3>3. emit[e].step = j => Walked(e)' = Walked(e) \/ (Walked(e)' = lists'[j] /\ Walked(e) = lists[j])
      BY <1>2 DEF Walked
    <3> QED BY <2>6, <3>1, <3>2, <3>3 DEF Coming
  <2> QED BY <2>5, <2>6
<1>7. ASSUME NEW e \in Emits PROVE NotForgotten(e)' /\ (emit[e].step = "idle" => stayed[e] = {})'
  BY <1>2, <1>6 DEF NotForgotten, Called
<1> QED BY <1>1, <1>5, <1>6, <1>7

\* removeAllListeners leaves deliveries to run out.
LEMMA RemoveAllKeeps ==
  ASSUME EmitterInv, NEW ks \in SUBSET Kinds, RemoveAll(ks)
  PROVE  EmitterInv'
<1> USE DEF EmitterInv
<1>1. /\ lists' = [k \in Kinds |-> IF k \in ks THEN <<>> ELSE lists[k]]
      /\ emit' = [e \in Emits |-> IF emit[e].step \in ks /\ ~emit[e].replaced.old
                                  THEN [emit[e] EXCEPT !.replaced = [old |-> TRUE, list |-> lists[emit[e].step]]]
                                  ELSE emit[e]]
      /\ stayed' = [e \in Emits |-> {s \in stayed[e] : s[1] \notin ks}]
      /\ UNCHANGED <<got, shifted, subscribed>>
  BY DEF RemoveAll
<1>2. \A k \in Kinds : lists'[k] = IF k \in ks THEN <<>> ELSE lists[k]
  BY <1>1
<1>3. ASSUME NEW e \in Emits
      PROVE  /\ emit'[e].step = emit[e].step /\ emit'[e].at = emit[e].at /\ NotReached(e)' = NotReached(e)
             /\ emit[e].step \in Kinds => Walked(e)' = Walked(e)
             /\ emit'[e] \in [step : Kinds \cup {"idle", "thrown", "done"}, at : Nat,
                              replaced : [old : BOOLEAN, list : Seq(Handlers)]]
  <2>1. emit[e] \in [step : Kinds \cup {"idle", "thrown", "done"}, at : Nat,
                     replaced : [old : BOOLEAN, list : Seq(Handlers)]]
    BY DEF EmitterTypeOK
  <2>2. CASE emit[e].step \in ks /\ ~emit[e].replaced.old
    <3>1. emit'[e] = [emit[e] EXCEPT !.replaced = [old |-> TRUE, list |-> lists[emit[e].step]]]
      BY <1>1, <2>2
    <3>2. lists[emit[e].step] \in Seq(Handlers)
      BY <2>2 DEF EmitterTypeOK
    <3>3. /\ emit'[e].step = emit[e].step /\ emit'[e].at = emit[e].at
          /\ emit'[e].replaced = [old |-> TRUE, list |-> lists[emit[e].step]]
      BY <2>1, <3>1
    <3>4. NotReached(e)' = NotReached(e)
      BY <3>3 DEF NotReached
    <3>5. Walked(e)' = Walked(e)
      BY <2>2, <3>3 DEF Walked
    <3>6. emit'[e] \in [step : Kinds \cup {"idle", "thrown", "done"}, at : Nat,
                              replaced : [old : BOOLEAN, list : Seq(Handlers)]]
      <4>1. PICK r \in [old : BOOLEAN, list : Seq(Handlers)] : r = [old |-> TRUE, list |-> lists[emit[e].step]]
        BY <3>2
      <4>2. emit'[e] = [emit[e] EXCEPT !.replaced = r]
        BY <3>1, <4>1
      <4> QED BY <2>1, <4>2
    <3>7. emit'[e].step = emit[e].step /\ emit'[e].at = emit[e].at
      BY <3>3
    <3> QED BY <3>4, <3>5, <3>6, <3>7
  <2>3. CASE ~ (emit[e].step \in ks /\ ~emit[e].replaced.old)
    <3>1. emit'[e] = emit[e]
      BY <1>1, <2>3
    <3>2. emit[e].step \in Kinds => Walked(e)' = Walked(e)
      BY <1>2, <2>3, <3>1 DEF Walked
    <3> QED BY <2>1, <3>1, <3>2 DEF NotReached
  <2> QED BY <2>2, <2>3
<1>4. EmitterTypeOK'
  <2>1. lists' \in [Kinds -> Seq(Handlers)]
    BY <1>1 DEF EmitterTypeOK
  <2>2. emit' \in [Emits -> [step : Kinds \cup {"idle", "thrown", "done"}, at : Nat,
                              replaced : [old : BOOLEAN, list : Seq(Handlers)]]]
    BY <1>1, <1>3
  <2>3. stayed' \in [Emits -> SUBSET (Kinds \X Handlers)]
    BY <1>1 DEF EmitterTypeOK
  <2> QED BY <1>1, <2>1, <2>2, <2>3 DEF EmitterTypeOK
<1>5. ASSUME NEW k \in Kinds, NEW h \in Handlers
      PROVE  Often(lists[k], h, 0)' <= Often(lists[k], h, 0) /\ Often(lists[k], h, 0)' \in Nat /\ Often(lists[k], h, 0) \in Nat
  <2>1. Often(lists[k], h, 0) \in Nat
    BY OftenType DEF EmitterTypeOK
  <2>2. Often(<<>>, h, 0) = 0
    BY OftenEmpty
  <2>3. CASE k \in ks
    BY <1>2, <2>1, <2>2, <2>3
  <2>4. CASE k \notin ks
    BY <1>2, <2>1, <2>4
  <2> QED BY <2>3, <2>4
<1>6. ASSUME NEW k \in Kinds, NEW h \in Handlers PROVE Often(lists[k], h, 0)' <= subscribed'[k][h]
  <2>1. Often(lists[k], h, 0) <= subscribed[k][h] /\ subscribed' = subscribed
    BY <1>1
  <2>2. subscribed[k][h] \in Nat
    BY DEF EmitterTypeOK
  <2> QED BY <1>5, <2>1, <2>2
<1>7. ASSUME NEW e \in Emits, NEW k \in Kinds, NEW h \in Handlers PROVE CallsBounded(e, k, h)'
  <2>1. Rest(e, k, h)' <= Rest(e, k, h)
    <3>1. CASE emit[e].step = k
      <4>1. Rest(e, k, h)' = Rest(e, k, h)
        BY <1>3, <3>1 DEF Rest
      <4>2. Rest(e, k, h) \in Nat
        BY RestType
      <4> QED BY <4>1, <4>2
    <3>2. CASE emit[e].step # k
      BY <1>3, <1>5, <3>2 DEF Rest
    <3> QED BY <3>1, <3>2
  <2>2. Rest(e, k, h)' \in Nat
    BY <1>4, RestTypeNext
  <2>3. got' = got /\ subscribed' = subscribed
    BY <1>1
  <2> QED BY <2>1, <2>2, <2>3, RestType DEF CallsBounded
<1>8. ASSUME NEW e \in Emits PROVE NotForgotten(e)' /\ (emit[e].step = "idle" => stayed[e] = {})'
  <2>1. ASSUME NEW k \in Kinds, NEW h \in Handlers, <<k, h>> \in stayed'[e], Coming(e, k, h)
        PROVE  Coming(e, k, h)'
    <3>1. k \notin ks
      BY <1>1, <2>1
    <3>2. lists'[k] = lists[k]
      BY <1>2, <3>1
    <3> QED BY <1>3, <2>1, <3>2 DEF Coming
  <2>2. stayed'[e] \subseteq stayed[e] /\ got' = got /\ shifted' = shifted
    BY <1>1
  <2>3. emit'[e].step = emit[e].step
    BY <1>3
  <2>4. NotForgotten(e)'
    BY <2>1, <2>2, <2>3 DEF NotForgotten, Called
  <2> QED BY <2>2, <2>3, <2>4
<1> QED BY <1>4, <1>6, <1>7, <1>8

\* A removal before the index of a delivery makes it skip one.
LEMMA OffKeeps ==
  ASSUME EmitterInv, NEW k \in Kinds, NEW h \in Handlers, Off(k, h)
  PROVE  EmitterInv'
<1> USE DEF EmitterInv
<1>1. lists[k] \in Seq(Handlers) /\ Len(lists[k]) \in Nat /\ DOMAIN lists[k] = 1..Len(lists[k])
  BY LenProperties DEF EmitterTypeOK
<1>2. \E i \in 1..Len(lists[k]) : lists[k][i] = h
  BY <1>1 DEF Off, ToSet
<1>3. PICK p \in 1..Len(lists[k]) :
        lists[k][p] = h /\ (\A i \in 1..p - 1 : lists[k][i] # h) /\ RemoveFirst(lists[k], h) = RemoveAt(lists[k], p)
  BY <1>1, <1>2, RemoveFirstIs
<1>4. PICK less : less = RemoveAt(lists[k], p)
  OBVIOUS
<1>5. /\ less \in Seq(Handlers) /\ Len(less) = Len(lists[k]) - 1
      /\ \A i \in 1..Len(lists[k]) - 1 : less[i] = IF i < p THEN lists[k][i] ELSE lists[k][i + 1]
  BY <1>1, <1>4, RemoveAtIs
<1>6. /\ lists' = [lists EXCEPT ![k] = less]
      /\ stayed' = [e \in Emits |-> stayed[e] \ {<<k, h>>}]
      /\ shifted' = shifted \cup {e \in Emits : /\ emit[e].step = k /\ ~emit[e].replaced.old
                                            /\ \E i \in 1..emit[e].at : i \in DOMAIN lists[k] /\ lists[k][i] = h}
      /\ UNCHANGED <<emit, got, subscribed>>
  BY <1>3, <1>4 DEF Off
<1>7. EmitterTypeOK'
  BY <1>5, <1>6 DEF EmitterTypeOK
<1>8. ASSUME NEW j \in Kinds PROVE lists'[j] = IF j = k THEN less ELSE lists[j]
  BY <1>6 DEF EmitterTypeOK
<1>9. ASSUME NEW j \in Kinds, NEW g \in Handlers, NEW n \in Nat
      PROVE  /\ Often(lists'[j], g, n) <= Often(lists[j], g, n)
             /\ Often(lists'[j], g, n) \in Nat /\ Often(lists[j], g, n) \in Nat
  <2>1. lists[j] \in Seq(Handlers)
    BY DEF EmitterTypeOK
  <2>2. Often(less, g, n) \in Nat /\ Often(lists[j], g, n) \in Nat
    BY <1>5, <2>1, OftenType
  <2>3. Often(less, g, n) <= Often(lists[k], g, n)
    BY <1>1, <1>4, OftenRemove
  <2> QED BY <1>8, <2>2, <2>3
<1>10. ASSUME NEW j \in Kinds, NEW g \in Handlers PROVE Often(lists[j], g, 0)' <= subscribed'[j][g]
  <2>1. Often(lists[j], g, 0) <= subscribed[j][g] /\ subscribed' = subscribed
    BY <1>6
  <2>2. subscribed[j][g] \in Nat
    BY DEF EmitterTypeOK
  <2>3. /\ Often(lists'[j], g, 0) <= Often(lists[j], g, 0)
        /\ Often(lists'[j], g, 0) \in Nat /\ Often(lists[j], g, 0) \in Nat
    BY <1>9
  <2> QED BY <2>1, <2>2, <2>3
<1>11. \A e \in Emits : Walked(e)' = IF emit[e].replaced.old THEN Walked(e) ELSE lists'[emit[e].step]
  BY <1>6 DEF Walked
<1>12. ASSUME NEW e \in Emits, NEW j \in Kinds, NEW g \in Handlers PROVE CallsBounded(e, j, g)'
  <2>1. Rest(e, j, g)' <= Rest(e, j, g)
    <3>1. CASE emit[e].step = j /\ ~emit[e].replaced.old
      <4>1. Rest(e, j, g)' = Often(lists'[j], g, emit[e].at) /\ Rest(e, j, g) = Often(lists[j], g, emit[e].at)
        BY <1>6, <1>11, <3>1 DEF Rest, Walked
      <4> QED BY <1>9, <4>1, WalkedType
    <3>2. CASE emit[e].step = j /\ emit[e].replaced.old
      <4>1. Rest(e, j, g)' = Rest(e, j, g)
        BY <1>6, <1>11, <3>2 DEF Rest
      <4>2. Rest(e, j, g) \in Nat
        BY RestType
      <4> QED BY <4>1, <4>2
    <3>3. CASE emit[e].step # j
      <4>1. NotReached(e)' = NotReached(e)
        BY <1>6 DEF NotReached
      <4>2. /\ Rest(e, j, g) = IF j \in NotReached(e) THEN Often(lists[j], g, 0) ELSE 0
            /\ Rest(e, j, g)' = IF j \in NotReached(e) THEN Often(lists'[j], g, 0) ELSE 0
        BY <1>6, <3>3, <4>1 DEF Rest
      <4>3. /\ Often(lists'[j], g, 0) <= Often(lists[j], g, 0)
            /\ Often(lists'[j], g, 0) \in Nat /\ Often(lists[j], g, 0) \in Nat
        BY <1>9
      <4> QED BY <4>2, <4>3
    <3> QED BY <3>1, <3>2, <3>3
  <2>2. Rest(e, j, g)' \in Nat
    BY <1>7, RestTypeNext
  <2>3. got' = got /\ subscribed' = subscribed
    BY <1>6
  <2> QED BY <2>1, <2>2, <2>3, RestType DEF CallsBounded
<1>13. ASSUME NEW e \in Emits, e \notin shifted', NEW j \in Kinds, NEW g \in Handlers, <<j, g>> # <<k, h>>, Coming(e, j, g)
       PROVE  Coming(e, j, g)'
  <2>1. emit' = emit /\ NotReached(e)' = NotReached(e)
    BY <1>6 DEF NotReached
  <2>2. CASE j # k
    BY <1>8, <1>11, <1>13, <2>1, <2>2 DEF Coming, Walked
  <2>3. CASE j = k
    <3>1. g # h
      BY <1>13, <2>3
    <3>2. ASSUME NEW i \in 1..Len(lists[k]), lists[k][i] = g
          PROVE  \E m \in 1..Len(less) : less[m] = g /\ (m = i \/ (m = i - 1 /\ i > p))
      <4>1. i # p
        BY <1>3, <3>1, <3>2
      <4>2. CASE i < p
        <5>1. i \in 1..Len(lists[k]) - 1
          BY <1>1, <4>2
        <5> QED BY <1>5, <3>2, <4>2, <5>1
      <4>3. CASE i > p
        <5>1. i - 1 \in 1..Len(lists[k]) - 1 /\ ~ (i - 1 < p) /\ (i - 1) + 1 = i
          BY <1>1, <4>3
        <5>2. less[i - 1] = lists[k][(i - 1) + 1]
          BY <1>5, <5>1
        <5> QED BY <1>5, <3>2, <4>3, <5>1, <5>2
      <4> QED BY <4>1, <4>2, <4>3
    <3>3. CASE emit[e].step = k
      <4>1. PICK i \in 1..Len(Walked(e)) : i > emit[e].at /\ Walked(e)[i] = g
        BY <1>13, <2>3, <3>3 DEF Coming, NotReached, Kinds
      <4>2. CASE emit[e].replaced.old
        BY <1>11, <2>1, <2>3, <3>3, <4>1, <4>2 DEF Coming
      <4>3. CASE ~emit[e].replaced.old
        <5>1. Walked(e) = lists[k] /\ Walked(e)' = less /\ emit[e].at \in Nat
          BY <1>8, <1>11, <3>3, <4>3, WalkedType DEF Walked
        <5>2. ~ (p \in 1..emit[e].at)
          BY <1>1, <1>3, <1>6, <1>13, <3>3, <4>3
        <5>3. p > emit[e].at
          BY <1>1, <5>1, <5>2
        <5>4. PICK m \in 1..Len(less) : less[m] = g /\ (m = i \/ (m = i - 1 /\ i > p))
          BY <3>2, <4>1, <5>1
        <5>5. m > emit[e].at
          BY <1>1, <4>1, <5>1, <5>3, <5>4
        <5> QED BY <2>1, <2>3, <3>3, <5>1, <5>4, <5>5 DEF Coming
      <4> QED BY <4>2, <4>3
    <3>4. CASE emit[e].step # k
      <4>1. k \in NotReached(e) /\ \E i \in 1..Len(lists[k]) : lists[k][i] = g
        BY <1>13, <2>3, <3>4 DEF Coming
      <4>2. \E m \in 1..Len(less) : less[m] = g
        BY <3>2, <4>1
      <4> QED BY <1>8, <2>1, <2>3, <4>1, <4>2 DEF Coming
    <3> QED BY <3>3, <3>4
  <2> QED BY <2>2, <2>3
<1>14. ASSUME NEW e \in Emits PROVE NotForgotten(e)' /\ (emit[e].step = "idle" => stayed[e] = {})'
  <2>1. \A j \in Kinds, g \in Handlers : <<j, g>> \in stayed'[e] => <<j, g>> # <<k, h>> /\ <<j, g>> \in stayed[e]
    BY <1>6
  <2>2. e \notin shifted' => e \notin shifted
    BY <1>6
  <2>3. (emit[e].step = "idle" => stayed[e] = {})'
    BY <1>6
  <2> QED BY <1>6, <1>13, <2>1, <2>2, <2>3 DEF NotForgotten, Called
<1> QED BY <1>7, <1>10, <1>12, <1>14

\* What a call of Deliver does to the emit that makes it.
LEMMA CallsType ==
  ASSUME EmitterInv, NEW e \in Emits, NEW c \in Calls(e)
  PROVE  \E j \in Kinds, g \in Handlers, l \in Seq(Handlers) :
           /\ c.list = j /\ c.handler = g /\ c.at \in Nat \ {0} /\ c.at <= Len(l) /\ l[c.at] = g
           /\ c.replaced \in [old : BOOLEAN, list : Seq(Handlers)]
           /\ l = IF c.replaced.old THEN c.replaced.list ELSE lists[j]
           /\ \/ emit[e].step = j /\ l = Walked(e) /\ c.at = emit[e].at + 1
              \/ /\ emit[e].step # j /\ j \in NotReached(e) /\ c.at = 1 /\ l = lists[j]
                 /\ emit[e].step \in Kinds => emit[e].at >= Len(Walked(e))
                 /\ j = "specific" \/ (emit[e].step = "idle" => lists["specific"] = <<>>)
<1> USE DEF EmitterInv
<1>1. CASE Walking(e) /\ emit[e].at < Len(Walked(e))
  <2>1. c = [list |-> emit[e].step, at |-> emit[e].at + 1, handler |-> Walked(e)[emit[e].at + 1], replaced |-> emit[e].replaced]
    BY <1>1 DEF Calls
  <2>2. /\ emit[e].step \in Kinds /\ Walked(e) \in Seq(Handlers) /\ Len(Walked(e)) \in Nat /\ emit[e].at \in Nat
        /\ emit[e].replaced \in [old : BOOLEAN, list : Seq(Handlers)]
    BY <1>1, WalkedType DEF Walking, EmitterTypeOK
  <2>3. emit[e].at + 1 \in 1..Len(Walked(e))
    BY <1>1, <2>2
  <2>4. Walked(e)[emit[e].at + 1] \in Handlers
    BY <2>2, <2>3, ElementOfSeq
  <2>5. Walked(e) = IF c.replaced.old THEN c.replaced.list ELSE lists[emit[e].step]
    BY <2>1 DEF Walked
  <2> QED BY <2>1, <2>2, <2>3, <2>4, <2>5
<1>2. CASE ~ (Walking(e) /\ emit[e].at < Len(Walked(e)))
  <2>1. PICK j \in First(e) : c = [list |-> j, at |-> 1, handler |-> Head(lists[j]), replaced |-> Old]
    BY <1>2 DEF Calls
  <2>2. /\ j \in Kinds /\ lists[j] # <<>> /\ j \in NotReached(e) /\ emit[e].step # j
        /\ j = "specific" \/ (emit[e].step = "idle" => lists["specific"] = <<>>)
    BY <2>1 DEF First, Kinds, NotReached
  <2>3. lists[j] \in Seq(Handlers)
    BY <2>2 DEF EmitterTypeOK
  <2>4. Head(lists[j]) = lists[j][1] /\ Len(lists[j]) \in Nat \ {0}
    BY <2>2, <2>3, TailIs
  <2>5. lists[j][1] \in Handlers
    BY <2>3, <2>4, ElementOfSeq
  <2>6. emit[e].step \in Kinds => emit[e].at >= Len(Walked(e))
    BY <1>2, WalkedType DEF Walking
  <2>7. Old \in [old : BOOLEAN, list : Seq(Handlers)] /\ Old.old = FALSE
    BY DEF Old
  <2>8. lists[j] = IF c.replaced.old THEN c.replaced.list ELSE lists[j]
    BY <2>1, <2>7
  <2> QED BY <2>1, <2>2, <2>3, <2>4, <2>5, <2>6, <2>7, <2>8
<1> QED BY <1>1, <1>2

\* What was subscribed when e began and has stayed is still to be called or has been.
LEMMA BegunComing ==
  ASSUME EmitterInv, NEW e \in Emits, emit[e].step # "thrown", e \notin shifted,
         NEW k \in Kinds, NEW h \in Handlers, <<k, h>> \in Begun(e)
  PROVE  Coming(e, k, h) \/ Called(e, k, h)
<1> USE DEF EmitterInv
<1>1. CASE emit[e].step = "idle"
  <2>1. <<k, h>> \in Subscriptions
    BY <1>1 DEF Begun
  <2>2. h \in ToSet(lists[k])
    BY <2>1 DEF Subscriptions
  <2>3. DOMAIN lists[k] = 1..Len(lists[k])
    BY LenProperties DEF EmitterTypeOK
  <2>4. \E i \in 1..Len(lists[k]) : lists[k][i] = h
    BY <2>2, <2>3 DEF ToSet
  <2> QED BY <1>1, <2>4 DEF Coming, NotReached
<1>2. CASE emit[e].step # "idle"
  BY <1>2 DEF Begun, NotForgotten
<1> QED BY <1>1, <1>2

\* A delivery begins at the head of the list.
LEMMA DeliverKeeps ==
  ASSUME EmitterInv, NEW e \in Emits, Deliver(e)
  PROVE  EmitterInv'
<1> USE DEF EmitterInv
<1>1. PICK c \in Calls(e), ok \in BOOLEAN :
        /\ emit' = [emit EXCEPT ![e] = [step |-> IF ok THEN c.list ELSE "thrown", at |-> c.at, replaced |-> c.replaced]]
        /\ got' = [got EXCEPT ![e] = Append(got[e], <<c.list, c.handler>>)]
        /\ stayed' = [stayed EXCEPT ![e] = Begun(e)]
        /\ UNCHANGED <<lists, shifted, subscribed>>
  BY DEF Deliver
<1>2. PICK j \in Kinds, g \in Handlers, l \in Seq(Handlers) :
           /\ c.list = j /\ c.handler = g /\ c.at \in Nat \ {0} /\ c.at <= Len(l) /\ l[c.at] = g
           /\ c.replaced \in [old : BOOLEAN, list : Seq(Handlers)]
           /\ l = IF c.replaced.old THEN c.replaced.list ELSE lists[j]
           /\ \/ emit[e].step = j /\ l = Walked(e) /\ c.at = emit[e].at + 1
              \/ /\ emit[e].step # j /\ j \in NotReached(e) /\ c.at = 1 /\ l = lists[j]
                 /\ emit[e].step \in Kinds => emit[e].at >= Len(Walked(e))
                 /\ j = "specific" \/ (emit[e].step = "idle" => lists["specific"] = <<>>)
  BY CallsType
<1>3. PICK a \in Nat, r \in [old : BOOLEAN, list : Seq(Handlers)] : a = c.at /\ r = c.replaced
  BY <1>2
<1>4. PICK now : now = [step |-> IF ok THEN j ELSE "thrown", at |-> a, replaced |-> r]
  OBVIOUS
<1>5. emit' = [emit EXCEPT ![e] = now] /\ now.step = (IF ok THEN j ELSE "thrown") /\ now.at = a /\ now.replaced = r
  BY <1>1, <1>2, <1>3, <1>4
<1>6. got' = [got EXCEPT ![e] = Append(got[e], <<j, g>>)]
  BY <1>1, <1>2
<1>7. /\ a >= 1 /\ a - 1 \in Nat /\ a <= Len(l) /\ l[a] = g /\ Len(l) \in Nat
      /\ l = IF r.old THEN r.list ELSE lists[j]
      /\ \/ emit[e].step = j /\ l = Walked(e) /\ a - 1 = emit[e].at
         \/ /\ emit[e].step # j /\ j \in NotReached(e) /\ a - 1 = 0 /\ l = lists[j]
            /\ emit[e].step \in Kinds => emit[e].at >= Len(Walked(e))
            /\ j = "specific" \/ (emit[e].step = "idle" => lists["specific"] = <<>>)
  BY <1>2, <1>3, WalkedType, LenProperties
<1>8. Begun(e) \in SUBSET (Kinds \X Handlers)
  BY DEF Begun, Subscriptions, EmitterTypeOK
<1>9. got[e] \in Seq(Kinds \X Handlers) /\ <<j, g>> \in Kinds \X Handlers
  BY WalkedType
<1>10. EmitterTypeOK'
  <2>1. now \in [step : Kinds \cup {"idle", "thrown", "done"}, at : Nat,
                 replaced : [old : BOOLEAN, list : Seq(Handlers)]]
    BY <1>4
  <2>2. Append(got[e], <<j, g>>) \in Seq(Kinds \X Handlers)
    BY <1>9, AppendIs
  <2>3. emit' \in [Emits -> [step : Kinds \cup {"idle", "thrown", "done"}, at : Nat,
                            replaced : [old : BOOLEAN, list : Seq(Handlers)]]]
    <3> HIDE DEF EmitterInv
    <3>1. emit \in [Emits -> [step : Kinds \cup {"idle", "thrown", "done"}, at : Nat,
                              replaced : [old : BOOLEAN, list : Seq(Handlers)]]]
      BY DEF EmitterInv, EmitterTypeOK
    <3> QED BY <1>5, <2>1, <3>1
  <2>4. got' \in [Emits -> Seq(Kinds \X Handlers)]
    BY <1>6, <2>2 DEF EmitterTypeOK
  <2>5. stayed' \in [Emits -> SUBSET (Kinds \X Handlers)]
    BY <1>1, <1>8 DEF EmitterTypeOK
  <2> QED BY <1>1, <2>3, <2>4, <2>5 DEF EmitterTypeOK
<1>11. emit'[e] = now /\ got'[e] = Append(got[e], <<j, g>>) /\ stayed'[e] = Begun(e)
  BY <1>1, <1>5, <1>6 DEF EmitterTypeOK
<1>12. ASSUME NEW d \in Emits, d # e
       PROVE  emit'[d] = emit[d] /\ got'[d] = got[d] /\ stayed'[d] = stayed[d] /\ lists' = lists
  BY <1>1, <1>5, <1>6, <1>12 DEF EmitterTypeOK
<1>13. \A k \in Kinds, h \in Handlers : Often(lists[k], h, 0)' <= subscribed'[k][h]
  BY <1>1
<1>14. ok => Walked(e)' = l /\ emit'[e].step = j /\ emit'[e].at = a
  <2>1. lists' = lists
    BY <1>1
  <2>2. emit'[e] = now /\ emit'[e].step = now.step /\ emit'[e].at = now.at /\ emit'[e].replaced = now.replaced
    BY <1>11
  <2> QED BY <1>1, <1>5, <1>7, <2>1, <2>2 DEF Walked
<1>15. NotReached(e)' = IF ok /\ j = "specific" THEN {"global"} ELSE {}
  BY <1>5, <1>11 DEF NotReached, Kinds
<1>16. ASSUME NEW k \in Kinds, NEW h \in Handlers PROVE CallsBounded(e, k, h)'
  <2>1. Rest(e, k, h) \in Nat /\ Often(got[e], <<k, h>>, 0) \in Nat /\ subscribed[k][h] \in Nat /\ Often(lists[k], h, 0) \in Nat
    BY RestType
  <2>2. Rest(e, k, h)' \in Nat
    BY <1>10, RestTypeNext
  <2>3. Often(got'[e], <<k, h>>, 0) = Often(got[e], <<k, h>>, 0) + (IF j = k /\ g = h THEN 1 ELSE 0)
    <3>1. Often(Append(got[e], <<j, g>>), <<k, h>>, 0)
            = Often(got[e], <<k, h>>, 0) + (IF <<j, g>> = <<k, h>> /\ 0 <= Len(got[e]) THEN 1 ELSE 0)
      <4>1. ASSUME NEW s \in Seq(Kinds \X Handlers), NEW x \in Kinds \X Handlers, NEW y
            PROVE  Often(Append(s, x), y, 0) = Often(s, y, 0) + (IF x = y /\ 0 <= Len(s) THEN 1 ELSE 0)
        BY OftenAppend
      <4> QED BY <1>9, <4>1
    <3>2. Len(got[e]) \in Nat
      BY WalkedType
    <3>3. (<<j, g>> = <<k, h>> /\ 0 <= Len(got[e])) <=> (j = k /\ g = h)
      BY <3>2
    <3> QED BY <1>11, <3>1, <3>3
  <2>4. Rest(e, k, h)' + (IF j = k /\ g = h THEN 1 ELSE 0) <= Rest(e, k, h)
    <3>1. CASE k = j
      <4>1. Rest(e, k, h) = Often(l, h, a - 1)
        BY <1>7, <3>1 DEF Rest
      <4>2. Often(l, h, a - 1) = Often(l, h, (a - 1) + 1) + (IF l[(a - 1) + 1] = h THEN 1 ELSE 0)
        <5>1. a - 1 < Len(l)
          BY <1>7
        <5> QED BY <1>7, <5>1, OftenStep
      <4>3. (a - 1) + 1 = a /\ Often(l, h, a) \in Nat
        <5>1. (a - 1) + 1 = a
          OBVIOUS
        <5>2. Often(l, h, a) \in Nat
          BY OftenType
        <5> QED BY <5>1, <5>2
      <4>4. Rest(e, k, h)' <= Often(l, h, a)
        <5>1. CASE ok
          <6>1. Rest(e, k, h)' = Often(l, h, a)
            BY <1>5, <1>11, <1>14, <3>1, <5>1 DEF Rest
          <6> QED BY <4>3, <6>1
        <5>2. CASE ~ok
          <6>1. Rest(e, k, h)' = 0
            BY <1>5, <1>11, <1>15, <5>2 DEF Rest, Kinds
          <6> QED BY <4>3, <6>1
        <5> QED BY <5>1, <5>2
      <4> QED BY <1>7, <2>2, <3>1, <4>1, <4>2, <4>3, <4>4
    <3>2. CASE k # j
      <4>1. CASE ok /\ j = "specific"
        <5>1. k = "global" /\ emit[e].step # k /\ k \in NotReached(e)
          BY <1>7, <3>2, <4>1 DEF Kinds, NotReached
        <5>2. Rest(e, k, h) = Often(lists[k], h, 0)
          BY <5>1 DEF Rest
        <5>3. Rest(e, k, h)' = Often(lists[k], h, 0)
          BY <1>1, <1>5, <1>11, <1>15, <3>2, <4>1, <5>1 DEF Rest
        <5> QED BY <2>1, <3>2, <5>2, <5>3
      <4>2. CASE ~ (ok /\ j = "specific")
        <5>1. Rest(e, k, h)' = 0
          BY <1>5, <1>11, <1>15, <3>2, <4>2 DEF Rest, Kinds
        <5> QED BY <2>1, <3>2, <5>1
      <4> QED BY <4>1, <4>2
    <3> QED BY <3>1, <3>2
  <2>5. Often(got[e], <<k, h>>, 0) + Rest(e, k, h) <= subscribed[k][h]
    BY DEF CallsBounded
  <2>6. subscribed' = subscribed
    BY <1>1
  <2>7. (Often(got[e], <<k, h>>, 0))' = Often(got'[e], <<k, h>>, 0)
    OBVIOUS
  <2> QED BY <2>1, <2>2, <2>3, <2>4, <2>5, <2>6, <2>7 DEF CallsBounded
<1>17. NotForgotten(e)' /\ (emit[e].step = "idle" => stayed[e] = {})'
  <2>1. emit'[e].step # "idle"
    BY <1>5, <1>11 DEF Kinds
  <2>2. SUFFICES ASSUME ok, e \notin shifted, NEW k \in Kinds, NEW h \in Handlers, <<k, h>> \in Begun(e)
                 PROVE  Coming(e, k, h)' \/ Called(e, k, h)'
    BY <1>1, <1>5, <1>11, <2>1 DEF NotForgotten
  <2>3. emit[e].step # "thrown"
    BY <1>7 DEF NotReached, Kinds
  <2>4. Coming(e, k, h) \/ Called(e, k, h)
    BY <2>2, <2>3, BegunComing
  <2>5. ASSUME Called(e, k, h) \/ <<k, h>> = <<j, g>> PROVE Called(e, k, h)'
    <3>1. /\ Len(got'[e]) = Len(got[e]) + 1 /\ Len(got[e]) \in Nat
          /\ \A i \in 1..Len(got[e]) : got'[e][i] = got[e][i]
          /\ got'[e][Len(got[e]) + 1] = <<j, g>>
      BY <1>9, <1>11, AppendIs
    <3>2. \A i \in 1..Len(got[e]) : i \in 1..Len(got'[e])
      BY <3>1
    <3>3. Len(got[e]) + 1 \in 1..Len(got'[e])
      BY <3>1
    <3> QED BY <2>5, <3>1, <3>2, <3>3 DEF Called
  <2>6. ASSUME Coming(e, k, h), <<k, h>> # <<j, g>> PROVE Coming(e, k, h)'
    <3>1. emit'[e].step = j /\ emit'[e].at = a /\ Walked(e)' = l
      BY <1>14, <2>2
    <3>2. CASE k = j
      <4>1. PICK i \in 1..Len(l) : i > a - 1 /\ l[i] = h
        <5>1. CASE emit[e].step = j
          BY <1>7, <2>6, <3>2, <5>1 DEF Coming, NotReached, Kinds
        <5>2. CASE emit[e].step # j
          <6>1. PICK i \in 1..Len(lists[k]) : lists[k][i] = h
            BY <2>6, <3>2, <5>2 DEF Coming
          <6>2. a - 1 = 0 /\ l = lists[k]
            BY <1>7, <3>2, <5>2
          <6> QED BY <6>1, <6>2
        <5> QED BY <5>1, <5>2
      <4>2. i # a
        BY <1>7, <2>6, <3>2, <4>1
      <4>3. i > a
        BY <1>7, <4>1, <4>2
      <4> QED BY <3>1, <3>2, <4>1, <4>3 DEF Coming
    <3>3. CASE k # j
      <4>1. CASE emit[e].step = k
        <5>1. emit[e].step \in Kinds /\ emit[e].at >= Len(Walked(e)) /\ k \notin NotReached(e)
          BY <1>7, <3>3, <4>1 DEF NotReached, Kinds
        <5>2. PICK i \in 1..Len(Walked(e)) : i > emit[e].at
          BY <2>6, <4>1, <5>1 DEF Coming
        <5> QED BY <5>1, <5>2, WalkedType
      <4>2. CASE emit[e].step # k
        <5>1. k \in NotReached(e) /\ \E i \in 1..Len(lists[k]) : lists[k][i] = h
          BY <2>6, <4>2 DEF Coming
        <5>2. CASE j = "specific"
          <6>1. k \in NotReached(e)' /\ lists' = lists
            BY <1>1, <1>15, <2>2, <3>3, <5>2 DEF Kinds
          <6> QED BY <5>1, <6>1 DEF Coming
        <5>3. CASE j # "specific"
          <6>1. k = "specific" /\ emit[e].step = "idle"
            BY <3>3, <5>1, <5>3 DEF Kinds, NotReached
          <6>2. lists[k] = <<>>
            BY <1>7, <5>3, <6>1 DEF Kinds
          <6>3. Len(lists[k]) = 0
            BY <6>2
          <6> QED BY <5>1, <6>3
        <5> QED BY <5>2, <5>3
      <4> QED BY <4>1, <4>2
    <3> QED BY <3>2, <3>3
  <2> QED BY <2>4, <2>5, <2>6
<1>18. ASSUME NEW d \in Emits, d # e
       PROVE  /\ NotForgotten(d)' /\ (emit[d].step = "idle" => stayed[d] = {})'
              /\ \A k \in Kinds, h \in Handlers : CallsBounded(d, k, h)'
  <2>1. NotForgotten(d) /\ (emit[d].step = "idle" => stayed[d] = {}) /\ \A k \in Kinds, h \in Handlers : CallsBounded(d, k, h)
    OBVIOUS
  <2>2. /\ emit'[d] = emit[d] /\ got'[d] = got[d] /\ stayed'[d] = stayed[d]
        /\ lists' = lists /\ shifted' = shifted /\ subscribed' = subscribed
    BY <1>1, <1>12, <1>18
  <2> QED BY <2>1, <2>2, SameEmit
<1> QED BY <1>10, <1>13, <1>16, <1>17, <1>18

\* A delivery calls the next handler, or ends.
LEMMA DeliveredKeeps ==
  ASSUME EmitterInv, NEW e \in Emits, Delivered(e)
  PROVE  EmitterInv'
<1> USE DEF EmitterInv
<1>1. /\ emit' = [emit EXCEPT ![e].step = "done"]
      /\ stayed' = [stayed EXCEPT ![e] = Begun(e)]
      /\ UNCHANGED <<lists, got, shifted, subscribed>>
      /\ emit[e].step \in Kinds \cup {"idle"} /\ Calls(e) = {}
  BY DEF Delivered
<1>2. Begun(e) \in SUBSET (Kinds \X Handlers)
  BY DEF Begun, Subscriptions, EmitterTypeOK
<1>3. EmitterTypeOK'
  <2>1. emit' \in [Emits -> [step : Kinds \cup {"idle", "thrown", "done"}, at : Nat,
                         replaced : [old : BOOLEAN, list : Seq(Handlers)]]]
    BY <1>1 DEF EmitterTypeOK
  <2> QED BY <1>1, <1>2, <2>1 DEF EmitterTypeOK
<1>4. emit'[e].step = "done" /\ stayed'[e] = Begun(e)
  BY <1>1 DEF EmitterTypeOK
<1>5. ASSUME NEW k \in Kinds, NEW h \in Handlers PROVE CallsBounded(e, k, h)'
  <2>1. Rest(e, k, h)' = 0
    BY <1>4 DEF Rest, NotReached, Kinds
  <2>2. got' = got /\ subscribed' = subscribed
    BY <1>1
  <2>3. Rest(e, k, h) \in Nat /\ Often(got[e], <<k, h>>, 0) \in Nat /\ subscribed[k][h] \in Nat
    BY RestType
  <2>4. Often(got[e], <<k, h>>, 0) + Rest(e, k, h) <= subscribed[k][h]
    BY DEF CallsBounded
  <2> QED BY <2>1, <2>2, <2>3, <2>4 DEF CallsBounded
<1>6. ASSUME NEW k \in Kinds, NEW h \in Handlers PROVE ~Coming(e, k, h)
  <2>1. ~ (Walking(e) /\ emit[e].at < Len(Walked(e)))
    BY <1>1 DEF Calls
  <2>2. First(e) = {}
    BY <1>1, <2>1 DEF Calls
  <2>3. emit[e].step = k => emit[e].at >= Len(Walked(e)) /\ Len(Walked(e)) \in Nat /\ emit[e].at \in Nat
    BY <2>1, WalkedType DEF Walking
  <2>4. k \in NotReached(e) => lists[k] = <<>>
    BY <2>2 DEF First, NotReached, Kinds
  <2>5. lists[k] = <<>> => Len(lists[k]) = 0
    OBVIOUS
  <2> QED BY <2>3, <2>4, <2>5 DEF Coming
<1>7. NotForgotten(e)' /\ (emit[e].step = "idle" => stayed[e] = {})'
  <2>1. SUFFICES ASSUME e \notin shifted, NEW k \in Kinds, NEW h \in Handlers, <<k, h>> \in Begun(e)
                 PROVE  Called(e, k, h)'
    BY <1>1, <1>4 DEF NotForgotten
  <2>2. emit[e].step # "thrown"
    BY <1>1 DEF Kinds
  <2>3. Called(e, k, h)
    BY <1>6, <2>1, <2>2, BegunComing
  <2> QED BY <1>1, <2>3 DEF Called
<1>8. ASSUME NEW d \in Emits, d # e
      PROVE  /\ NotForgotten(d)' /\ (emit[d].step = "idle" => stayed[d] = {})'
             /\ \A k \in Kinds, h \in Handlers : CallsBounded(d, k, h)'
  <2>1. NotForgotten(d) /\ (emit[d].step = "idle" => stayed[d] = {}) /\ \A k \in Kinds, h \in Handlers : CallsBounded(d, k, h)
    OBVIOUS
  <2>2. /\ emit'[d] = emit[d] /\ got'[d] = got[d] /\ stayed'[d] = stayed[d]
        /\ lists' = lists /\ shifted' = shifted /\ subscribed' = subscribed
    BY <1>1, <1>8 DEF EmitterTypeOK
  <2> QED BY <2>1, <2>2, SameEmit
<1>9. \A k \in Kinds, h \in Handlers : Often(lists[k], h, 0)' <= subscribed'[k][h]
  BY <1>1
<1> QED BY <1>3, <1>5, <1>7, <1>8, <1>9

\* Every step of the emitter keeps its invariant.
LEMMA EmitterNextInv == EmitterInv /\ [EmitterNext]_emitterVars => EmitterInv'
<1> SUFFICES ASSUME EmitterInv, [EmitterNext]_emitterVars PROVE EmitterInv'
  OBVIOUS
<1>1. CASE \E k \in Kinds, h \in Handlers : On(k, h)
  BY <1>1, OnKeeps
<1>2. CASE \E k \in Kinds, h \in Handlers : Off(k, h)
  BY <1>2, OffKeeps
<1>3. CASE \E ks \in {Kinds, {"specific"}} : RemoveAll(ks)
  <2>1. \A ks \in {Kinds, {"specific"}} : ks \in SUBSET Kinds
    BY DEF Kinds
  <2> QED BY <1>3, <2>1, RemoveAllKeeps
<1>4. CASE \E e \in Emits : Deliver(e)
  BY <1>4, DeliverKeeps
<1>5. CASE \E e \in Emits : Delivered(e)
  BY <1>5, DeliveredKeeps
<1>6. CASE UNCHANGED emitterVars
  <2>1. /\ emit' = emit /\ got' = got /\ stayed' = stayed
        /\ lists' = lists /\ shifted' = shifted /\ subscribed' = subscribed
    BY <1>6 DEF emitterVars
  <2>2. \A e \in Emits : /\ NotForgotten(e)' /\ (emit[e].step = "idle" => stayed[e] = {})'
                         /\ \A k \in Kinds, h \in Handlers : CallsBounded(e, k, h)'
    BY <2>1, SameEmit DEF EmitterInv
  <2> QED BY <2>1, <2>2 DEF EmitterInv, EmitterTypeOK
<1> QED BY <1>1, <1>2, <1>3, <1>4, <1>5, <1>6 DEF EmitterNext

\* The invariant holds of every behaviour.
THEOREM EmitterInductive == EmitterSpec => []EmitterInv
BY EmitterInitInv, EmitterNextInv, PTL DEF EmitterSpec

\* Whoever comes, goes or removes all others during its awaits, an emit calls who is subscribed, and nobody twice.
THEOREM HandlersServedOnce == EmitterSpec => []ServedOnce
<1>1. ASSUME EmitterInv PROVE ServedOnce
  <2> USE <1>1 DEF EmitterInv
  <2>1. ASSUME NEW e \in Emits, emit[e].step = "done", e \notin shifted PROVE stayed[e] \subseteq ToSet(got[e])
    <3>1. stayed[e] \subseteq Kinds \X Handlers
      BY DEF EmitterTypeOK
    <3>2. \A k \in Kinds, h \in Handlers : ~Coming(e, k, h)
      BY <2>1 DEF Coming, NotReached, Kinds
    <3>3. ASSUME NEW k \in Kinds, NEW h \in Handlers, <<k, h>> \in stayed[e] PROVE <<k, h>> \in ToSet(got[e])
      <4>1. Called(e, k, h)
        BY <2>1, <3>2, <3>3 DEF NotForgotten
      <4>2. DOMAIN got[e] = 1..Len(got[e])
        BY LenProperties DEF EmitterTypeOK
      <4> QED BY <4>1, <4>2 DEF Called, ToSet
    <3> QED BY <3>1, <3>3
  <2>2. ASSUME NEW e \in Emits, NEW k \in Kinds, NEW h \in Handlers
        PROVE  Cardinality({i \in DOMAIN got[e] : got[e][i] = <<k, h>>}) <= subscribed[k][h]
    <3>1. Often(got[e], <<k, h>>, 0) = Cardinality({i \in DOMAIN got[e] : got[e][i] = <<k, h>>})
      <4>1. got[e] \in Seq(Kinds \X Handlers)
        BY WalkedType
      <4> QED BY <4>1, OftenAll
    <3>2. Often(got[e], <<k, h>>, 0) + Rest(e, k, h) <= subscribed[k][h]
      BY DEF CallsBounded
    <3>3. Rest(e, k, h) \in Nat /\ Often(got[e], <<k, h>>, 0) \in Nat /\ subscribed[k][h] \in Nat
      BY RestType
    <3> QED BY <3>1, <3>2, <3>3
  <2> QED BY <2>1, <2>2 DEF ServedOnce, ServedUnlessShifted, ServedOncePerSubscription
<1> QED BY <1>1, EmitterInductive, PTL

-----------------------------------------------------------------------------
(***************************************************************************)
(* MarginManager: the accounts add up, and no withdrawal and no lock       *)
(* overdraws one.                                                          *)
(*                                                                         *)
(* That an account still adds up after a release needs that a lock is      *)
(* never more than what is locked, which needs that all the locks together *)
(* are not.  Their sum is counted in units, a set.                         *)
(***************************************************************************)

\* One element for each unit of each lock of a trader.
Units(ls) == {u \in Positions \X Nat : u[2] \in 1..ls[u[1]]}

Covered(ls, n) == IsFiniteSet(Units(ls)) /\ Cardinality(Units(ls)) <= n

MarginInv ==
  /\ MarginTypeOK
  /\ \A t \in Traders : Covered(locks[t], locked[t])
  /\ \A t \in Traders \ relocked : Cardinality(Units(locks[t])) = locked[t]
  /\ BalancesAddUp
  /\ NeverOverdrawn

-----------------------------------------------------------------------------
\* The units of one lock are as many as it locks.
LEMMA UnitsOfLock ==
  ASSUME NEW p, NEW n \in Nat
  PROVE  IsFiniteSet({p} \X (1..n)) /\ Cardinality({p} \X (1..n)) = n
<1>1. IsFiniteSet({p}) /\ Cardinality({p}) = 1
  BY FS_Singleton
<1>2. IsFiniteSet(1..n) /\ Cardinality(1..n) = n
  BY FS_Interval
<1>3. PICK S, T : S = {p} /\ T = 1..n
  OBVIOUS
<1>4. IsFiniteSet(S \X T) /\ Cardinality(S \X T) = Cardinality(S) * Cardinality(T)
  <2>1. IsFiniteSet(S) /\ IsFiniteSet(T)
    BY <1>1, <1>2, <1>3
  <2> QED BY <2>1, FS_Product
<1>5. 1 * n = n
  OBVIOUS
<1> QED BY <1>1, <1>2, <1>3, <1>4, <1>5

\* The units of the other locks.
LEMMA UnitsWithout ==
  ASSUME NEW ls \in [Positions -> Nat], NEW p \in Positions
  PROVE  Units([ls EXCEPT ![p] = 0]) = Units(ls) \ ({p} \X (1..ls[p]))
<1> DEFINE V == Units([ls EXCEPT ![p] = 0])
           W == Units(ls) \ ({p} \X (1..ls[p]))
<1>1. ASSUME NEW q \in Positions, NEW i \in Nat
      PROVE  <<q, i>> \in V <=> <<q, i>> \in W
  <2>1. <<q, i>> \in V <=> i \in 1..(IF q = p THEN 0 ELSE ls[q])
    BY DEF Units
  <2>2. <<q, i>> \in Units(ls) <=> i \in 1..ls[q]
    BY DEF Units
  <2>3. <<q, i>> \in {p} \X (1..ls[p]) <=> q = p /\ i \in 1..ls[p]
    OBVIOUS
  <2>4. CASE q = p
    BY <2>1, <2>2, <2>3, <2>4
  <2>5. CASE q # p
    BY <2>1, <2>2, <2>3, <2>5
  <2> QED BY <2>4, <2>5
<1>2. V \subseteq Positions \X Nat /\ W \subseteq Positions \X Nat
  BY DEF Units
<1> HIDE DEF V, W
<1>3. ASSUME NEW u \in Positions \X Nat PROVE u \in V <=> u \in W
  <2>1. PICK q \in Positions, i \in Nat : u = <<q, i>>
    OBVIOUS
  <2> QED BY <1>1, <2>1
<1>4. V = W
  BY <1>2, <1>3
<1> QED BY <1>4 DEF V, W

\* Units of one more lock.
LEMMA UnitsWith ==
  ASSUME NEW ls \in [Positions -> Nat], NEW p \in Positions, NEW a \in Nat
  PROVE  LET R == Units([ls EXCEPT ![p] = 0])
             A == {p} \X (1..a)
         IN  Units([ls EXCEPT ![p] = a]) = R \cup A /\ R \cap A = {}
<1> DEFINE V == Units([ls EXCEPT ![p] = a])
           R == Units([ls EXCEPT ![p] = 0])
           A == {p} \X (1..a)
<1>1. R = V \ A
  <2>1. [ls EXCEPT ![p] = a] \in [Positions -> Nat] /\ [ls EXCEPT ![p] = a][p] = a
    OBVIOUS
  <2>2. [[ls EXCEPT ![p] = a] EXCEPT ![p] = 0] = [ls EXCEPT ![p] = 0]
    OBVIOUS
  <2> QED BY <2>1, <2>2, UnitsWithout
<1>2. A \subseteq V
  BY DEF Units
<1> HIDE DEF V, R, A
<1>3. V = R \cup A /\ R \cap A = {}
  BY <1>1, <1>2
<1> QED BY <1>3 DEF V, R, A

\* A covered lock is not more than what is locked, and the rest stays covered
\* when it is released.
LEMMA ReleaseCovered ==
  ASSUME NEW ls \in [Positions -> Nat], NEW n \in Nat, NEW p \in Positions, Covered(ls, n)
  PROVE  /\ ls[p] <= n /\ Covered([ls EXCEPT ![p] = 0], n - ls[p])
         /\ Cardinality(Units([ls EXCEPT ![p] = 0])) = Cardinality(Units(ls)) - ls[p]
<1> DEFINE U == Units(ls)
           P == {p} \X (1..ls[p])
<1>1. IsFiniteSet(U) /\ Cardinality(U) \in Nat /\ Cardinality(U) <= n
  BY FS_CardinalityType DEF Covered
<1>2. P \subseteq U /\ U \cap P = P
  BY DEF Units
<1>3. IsFiniteSet(P) /\ Cardinality(P) = ls[p]
  BY UnitsOfLock
<1>4. ls[p] <= Cardinality(U)
  BY <1>1, <1>2, <1>3, FS_Subset
<1>5. Units([ls EXCEPT ![p] = 0]) = U \ P
  BY UnitsWithout
<1> HIDE DEF U, P
<1>6. IsFiniteSet(U \ P) /\ Cardinality(U \ P) = Cardinality(U) - ls[p]
  <2>1. IsFiniteSet(U \ P) /\ Cardinality(U \ P) = Cardinality(U) - Cardinality(U \cap P)
    BY <1>1, FS_Difference
  <2> QED BY <1>2, <1>3, <2>1
<1>7. Cardinality(U \ P) <= n - ls[p]
  BY <1>1, <1>6
<1>8. IsFiniteSet(Units([ls EXCEPT ![p] = 0])) /\ Cardinality(Units([ls EXCEPT ![p] = 0])) <= n - ls[p]
  BY <1>5, <1>6, <1>7 DEF U, P
<1>9. Cardinality(Units([ls EXCEPT ![p] = 0])) = Cardinality(Units(ls)) - ls[p]
  BY <1>5, <1>6 DEF U, P
<1> QED BY <1>1, <1>4, <1>8, <1>9 DEF Covered

\* A lock, over another of the same position too, is covered by as much more.
LEMMA LockCovered ==
  ASSUME NEW ls \in [Positions -> Nat], NEW n \in Nat, NEW p \in Positions, NEW a \in Nat, Covered(ls, n)
  PROVE  /\ Covered([ls EXCEPT ![p] = a], n + a)
         /\ Cardinality(Units([ls EXCEPT ![p] = a])) = Cardinality(Units(ls)) - ls[p] + a
<1> DEFINE R == Units([ls EXCEPT ![p] = 0])
           A == {p} \X (1..a)
<1>1. /\ ls[p] <= n /\ IsFiniteSet(R) /\ Cardinality(R) <= n - ls[p] /\ ls[p] \in Nat
      /\ Cardinality(R) = Cardinality(Units(ls)) - ls[p]
  BY ReleaseCovered DEF Covered
<1>2. IsFiniteSet(A) /\ Cardinality(A) = a
  BY UnitsOfLock
<1>3. Units([ls EXCEPT ![p] = a]) = R \cup A /\ R \cap A = {}
  BY UnitsWith
<1> HIDE DEF R, A
<1>4. Cardinality(R \cap A) = 0
  BY <1>3, FS_EmptySet
<1>5. IsFiniteSet(R \cup A) /\ Cardinality(R \cup A) = Cardinality(R) + Cardinality(A) - Cardinality(R \cap A)
  BY <1>1, <1>2, FS_Union
<1>6. Cardinality(R) \in Nat
  BY <1>1, FS_CardinalityType
<1>7. Cardinality(R \cup A) <= n + a
  BY <1>1, <1>2, <1>4, <1>5, <1>6
<1>8. Cardinality(R \cup A) = Cardinality(Units(ls)) - ls[p] + a
  BY <1>1, <1>2, <1>4, <1>5, <1>6
<1> QED BY <1>3, <1>5, <1>7, <1>8 DEF Covered

\* Math.max(0, x).
LEMMA MaxWithZero ==
  ASSUME NEW x \in Int, x >= 0
  PROVE  Max({0, x}) = x
BY DEF Max

-----------------------------------------------------------------------------
\* No account has anything.
LEMMA InitMarginInv == MarginInit => MarginInv
<1> SUFFICES ASSUME MarginInit PROVE MarginInv
  OBVIOUS
<1>1. MarginTypeOK
  BY MarginBoundsAssumption DEF MarginInit, MarginTypeOK
<1>2. ASSUME NEW t \in Traders PROVE Covered(locks[t], locked[t]) /\ Cardinality(Units(locks[t])) = locked[t]
  <2>1. Units(locks[t]) = {}
    BY DEF Units, MarginInit
  <2> QED BY <2>1, FS_EmptySet DEF Covered, MarginInit
<1> QED BY <1>1, <1>2 DEF MarginInit, MarginInv, BalancesAddUp, NeverOverdrawn

\* A deposit adds to the balance.
LEMMA DepositKeeps ==
  ASSUME MarginInv, NEW t \in Traders, NEW a \in Amounts, DepositMargin(t, a)
  PROVE  MarginInv'
<1> USE DEF MarginInv, DepositMargin
<1>1. a \in Nat
  BY MarginAmountsAssumption
<1>2. MarginTypeOK'
  BY <1>1 DEF MarginTypeOK
<1>3. BalancesAddUp' /\ NeverOverdrawn'
  BY <1>1 DEF MarginTypeOK, BalancesAddUp, NeverOverdrawn
<1> QED BY <1>2, <1>3

\* A withdrawal takes at most what is free.
LEMMA WithdrawKeeps ==
  ASSUME MarginInv, NEW t \in Traders, NEW a \in Amounts, WithdrawMargin(t, a)
  PROVE  MarginInv'
<1> USE DEF MarginInv, WithdrawMargin
<1>1. a \in Nat
  BY MarginAmountsAssumption
<1>2. MarginTypeOK'
  BY <1>1 DEF MarginTypeOK
<1>3. BalancesAddUp' /\ NeverOverdrawn'
  BY <1>1 DEF MarginTypeOK, BalancesAddUp, NeverOverdrawn
<1> QED BY <1>2, <1>3

\* A lock takes from what is free.
LEMMA LockKeeps ==
  ASSUME MarginInv, NEW t \in Traders, NEW a \in Amounts, NEW p \in Positions, LockMargin(t, a, p)
  PROVE  MarginInv'
<1> USE DEF MarginInv, LockMargin
<1>1. a \in Nat
  BY MarginAmountsAssumption
<1>2. MarginTypeOK'
  BY <1>1 DEF MarginTypeOK
<1>3. BalancesAddUp' /\ NeverOverdrawn'
  BY <1>1 DEF MarginTypeOK, BalancesAddUp, NeverOverdrawn
<1>4. ASSUME NEW s \in Traders
      PROVE  /\ Covered(locks'[s], locked'[s])
             /\ s \notin relocked' => Cardinality(Units(locks'[s])) = locked'[s]
  <2>1. CASE s = t
    <3>1. locks'[t] = [locks[t] EXCEPT ![p] = a] /\ locked'[t] = locked[t] + a
      BY DEF MarginTypeOK
    <3>2. locks[t] \in [Positions -> Nat] /\ locked[t] \in Nat /\ locks[t][p] \in Nat
      BY DEF MarginTypeOK
    <3>3. /\ Covered([locks[t] EXCEPT ![p] = a], locked[t] + a)
          /\ Cardinality(Units([locks[t] EXCEPT ![p] = a])) = Cardinality(Units(locks[t])) - locks[t][p] + a
      BY <1>1, <3>2, LockCovered
    <3>4. t \notin relocked' => t \notin relocked /\ locks[t][p] = 0
      BY <3>2
    <3> QED BY <1>1, <2>1, <3>1, <3>2, <3>3, <3>4
  <2>2. CASE s # t
    BY <2>2 DEF MarginTypeOK
  <2> QED BY <2>1, <2>2
<1> QED BY <1>2, <1>3, <1>4

\* A release gives back what was locked.
LEMMA ReleaseKeeps ==
  ASSUME MarginInv, NEW t \in Traders, NEW p \in Positions, NEW pnl \in Pnls, ReleaseMargin(t, p, pnl)
  PROVE  MarginInv'
<1> USE DEF MarginInv, ReleaseMargin
<1>1. pnl \in Int
  BY MarginAmountsAssumption
<1>2. locks[t] \in [Positions -> Nat] /\ locked[t] \in Nat /\ locks[t][p] \in Nat
  BY DEF MarginTypeOK
<1>3. /\ locks[t][p] <= locked[t]
      /\ Covered([locks[t] EXCEPT ![p] = 0], locked[t] - locks[t][p])
      /\ Cardinality(Units([locks[t] EXCEPT ![p] = 0])) = Cardinality(Units(locks[t])) - locks[t][p]
  BY <1>2, ReleaseCovered
<1>4. Max({0, locked[t] - locks[t][p]}) = locked[t] - locks[t][p]
  <2> HIDE DEF MarginInv, ReleaseMargin
  <2>1. locked[t] - locks[t][p] \in Int /\ locked[t] - locks[t][p] >= 0
    BY <1>2, <1>3
  <2> QED BY <2>1, MaxWithZero
<1>5. locked' = [locked EXCEPT ![t] = @ - locks[t][p]]
  BY <1>4
<1>6. MarginTypeOK'
  BY <1>1, <1>2, <1>3, <1>5, MarginBoundsAssumption DEF MarginTypeOK
<1>7. BalancesAddUp'
  BY <1>1, <1>2, <1>5 DEF MarginTypeOK, BalancesAddUp
<1>8. NeverOverdrawn'
  BY <1>1, <1>2 DEF MarginTypeOK, NeverOverdrawn
<1>9. ASSUME NEW s \in Traders
      PROVE  /\ Covered(locks'[s], locked'[s])
             /\ s \notin relocked' => Cardinality(Units(locks'[s])) = locked'[s]
  <2>1. CASE s = t
    <3>1. locks'[t] = [locks[t] EXCEPT ![p] = 0] /\ locked'[t] = locked[t] - locks[t][p]
      BY <1>5 DEF MarginTypeOK
    <3> QED BY <1>3, <2>1, <3>1
  <2>2. CASE s # t
    BY <1>5, <2>2 DEF MarginTypeOK
  <2> QED BY <2>1, <2>2
<1> QED BY <1>6, <1>7, <1>8, <1>9

\* Every step of the margin manager keeps its invariant.
LEMMA NextMarginInv == MarginInv /\ [MarginNext]_marginVars => MarginInv'
<1> SUFFICES ASSUME MarginInv, [MarginNext]_marginVars PROVE MarginInv'
  OBVIOUS
<1>1. CASE \E t \in Traders, a \in Amounts : DepositMargin(t, a)
  BY <1>1, DepositKeeps
<1>2. CASE \E t \in Traders, a \in Amounts : WithdrawMargin(t, a)
  BY <1>2, WithdrawKeeps
<1>3. CASE \E t \in Traders, a \in Amounts, p \in Positions : LockMargin(t, a, p)
  BY <1>3, LockKeeps
<1>4. CASE \E t \in Traders, p \in Positions, pnl \in Pnls : ReleaseMargin(t, p, pnl)
  BY <1>4, ReleaseKeeps
<1>5. CASE UNCHANGED marginVars
  BY <1>5 DEF MarginInv, MarginTypeOK, BalancesAddUp, NeverOverdrawn, marginVars
<1> QED BY <1>1, <1>2, <1>3, <1>4, <1>5 DEF MarginNext

\* The invariant holds of every behaviour.
THEOREM MarginInductive == MarginSpec => []MarginInv
BY InitMarginInv, NextMarginInv, PTL DEF MarginSpec

\* Deposits, withdrawals, locks over locks and releases leave every account
\* split into what is available and what is locked, and true to what was paid.
THEOREM AccountsAddUp == MarginSpec => []BalancesAddUp
<1>1. MarginInv => BalancesAddUp
  BY DEF MarginInv
<1> QED BY <1>1, MarginInductive, PTL

\* What an account has locked is what its locks say.
LEMMA LocksCounted ==
  ASSUME NEW t
  PROVE  UNION {{p} \X (1..locks[t][p]) : p \in Positions} = Units(locks[t])
<1> DEFINE L == UNION {{p} \X (1..locks[t][p]) : p \in Positions}
<1>1. ASSUME NEW u \in L PROVE u \in Units(locks[t])
  <2>1. PICK p \in Positions : u \in {p} \X (1..locks[t][p])
    OBVIOUS
  <2>2. u = <<p, u[2]>> /\ u[1] = p /\ u[2] \in 1..locks[t][p]
    BY <2>1
  <2>3. u[2] \in Nat
    BY <2>2
  <2> QED BY <2>2, <2>3 DEF Units
<1>2. ASSUME NEW u \in Units(locks[t]) PROVE u \in L
  <2>1. u \in Positions \X Nat /\ u[2] \in 1..locks[t][u[1]]
    BY DEF Units
  <2>2. u[1] \in Positions /\ u = <<u[1], u[2]>>
    BY <2>1
  <2>3. u \in {u[1]} \X (1..locks[t][u[1]])
    BY <2>1, <2>2
  <2> QED BY <2>2, <2>3
<1> QED BY <1>1, <1>2

\* All that is locked can be released, position by position, unless a position
\* was locked over a lock.
THEOREM LocksReleasable == MarginSpec => []LockedIsReleasable
<1>1. ASSUME MarginInv PROVE LockedIsReleasable
  <2>1. ASSUME NEW t \in Traders
        PROVE  locked[t] >= LockSum(t) /\ (locked[t] > LockSum(t) => t \in relocked)
    <3>1. LockSum(t) = Cardinality(Units(locks[t]))
      BY LocksCounted DEF LockSum
    <3>2. LockSum(t) \in Nat /\ locked[t] \in Nat /\ LockSum(t) <= locked[t]
      BY <1>1, <3>1, FS_CardinalityType DEF MarginInv, Covered, MarginTypeOK
    <3>3. t \notin relocked => LockSum(t) = locked[t]
      BY <1>1, <3>1 DEF MarginInv
    <3> QED BY <3>2, <3>3
  <2> QED BY <2>1 DEF LockedIsReleasable
<1> QED BY <1>1, MarginInductive, PTL

\* Only a realised loss brings what is available below nothing.
THEOREM OnlyLossesOverdraw == MarginSpec => []NeverOverdrawn
<1>1. MarginInv => NeverOverdrawn
  BY DEF MarginInv
<1> QED BY <1>1, MarginInductive, PTL

\* The three together.
THEOREM AccountsSound == MarginSpec => []AccountsHold
<1>1. BalancesAddUp /\ LockedIsReleasable /\ NeverOverdrawn => AccountsHold
  BY DEF AccountsHold
<1> QED BY <1>1, AccountsAddUp, LocksReleasable, OnlyLossesOverdraw, PTL

-----------------------------------------------------------------------------
(***************************************************************************)
(* LiquidationEngine: scans that await between two positions, and the      *)
(* money that funding moves.                                               *)
(***************************************************************************)

(* Scans: what is still in front of the iteration and what it has reported *)

ScanRecords ==
  [step : {"idle", "walk", "done"}, at : Nat, mark : Marks \cup {0}, out : Seq(Contracts),
   stayed : SUBSET Contracts, shifted : BOOLEAN]

ScanTypeOK ==
  /\ positions \in Seq(Contracts) /\ registrations \in [Contracts -> 0..MaxRegistrations]
  /\ scan \in [Scanners -> ScanRecords]

\* How often s may still report c.
StillToReport(s, c) == IF scan[s].step = "walk" THEN Often(positions, c, scan[s].at) ELSE 0

ReportsBounded(s, c) == Often(scan[s].out, c, 0) + StillToReport(s, c) <= registrations[c]

InFront(s, c) == scan[s].step = "walk" /\ \E i \in 1..Len(positions) : i > scan[s].at /\ positions[i] = c
Reported(s, c) == \E i \in 1..Len(scan[s].out) : scan[s].out[i] = c

NoneOverlooked(s) ==
  ~scan[s].shifted => \A c \in scan[s].stayed : AtRisk(c, scan[s].mark) => InFront(s, c) \/ Reported(s, c)

ScanInv ==
  /\ ScanTypeOK
  /\ \A c \in Contracts : Often(positions, c, 0) <= registrations[c]
  /\ \A s \in Scanners, c \in Contracts : ReportsBounded(s, c)
  /\ \A s \in Scanners : NoneOverlooked(s) /\ (scan[s].step = "idle" => scan[s].out = <<>>)

\* The types of the registry and of the scans that run.
LEMMA ScanTypes ==
  ASSUME ScanTypeOK
  PROVE  /\ positions \in Seq(Contracts) /\ Len(positions) \in Nat
         /\ \A c \in Contracts : /\ registrations[c] \in Nat
                                 /\ \A n \in Nat : Often(positions, c, n) \in Nat
         /\ \A s \in Scanners : /\ scan[s].at \in Nat /\ scan[s].out \in Seq(Contracts) /\ Len(scan[s].out) \in Nat
                                /\ \A c \in Contracts : Often(scan[s].out, c, 0) \in Nat /\ StillToReport(s, c) \in Nat
<1>1. positions \in Seq(Contracts) /\ Len(positions) \in Nat
  BY LenProperties DEF ScanTypeOK, ScanRecords
<1>2. ASSUME NEW c \in Contracts, NEW n \in Nat PROVE Often(positions, c, n) \in Nat
  BY <1>1, OftenType
<1>3. \A c \in Contracts : registrations[c] \in Nat
  BY DEF ScanTypeOK, ScanRecords
<1>4. \A s \in Scanners : scan[s].at \in Nat /\ scan[s].out \in Seq(Contracts)
  BY DEF ScanTypeOK, ScanRecords
<1>5. ASSUME NEW s \in Scanners, NEW c \in Contracts
      PROVE  Often(scan[s].out, c, 0) \in Nat /\ StillToReport(s, c) \in Nat
  <2>1. Often(scan[s].out, c, 0) \in Nat
    BY <1>4, OftenType
  <2>2. StillToReport(s, c) \in Nat
    BY <1>2, <1>4 DEF StillToReport
  <2> QED BY <2>1, <2>2
<1>6. \A s \in Scanners : Len(scan[s].out) \in Nat
  BY <1>4, LenProperties
<1> QED BY <1>1, <1>2, <1>3, <1>4, <1>5, <1>6

\* No position is registered, no scan runs.
LEMMA ScanInitInv == LiquidationInit => ScanInv
<1> SUFFICES ASSUME LiquidationInit PROVE ScanInv
  OBVIOUS
<1>1. /\ positions = <<>> /\ registrations = [c \in Contracts |-> 0] /\ scan = [s \in Scanners |-> NoScan]
  BY DEF LiquidationInit
<1>2. ScanTypeOK
  <2>1. 0 \in 0..MaxRegistrations
    BY FundAssumption
  <2>2. NoScan \in ScanRecords
    BY DEF NoScan, ScanRecords
  <2>3. positions \in Seq(Contracts)
    BY <1>1
  <2> QED BY <1>1, <2>1, <2>2, <2>3 DEF ScanTypeOK, ScanRecords
<1>3. \A s \in Scanners : scan[s].out = <<>> /\ scan[s].stayed = {} /\ scan[s].step = "idle"
  BY <1>1 DEF NoScan
<1>4. ASSUME NEW c \in Contracts PROVE Often(positions, c, 0) <= registrations[c]
  <2>1. Often(<<>>, c, 0) = 0
    BY OftenEmpty
  <2> QED BY <1>1, <2>1
<1>5. ASSUME NEW s \in Scanners, NEW c \in Contracts PROVE ReportsBounded(s, c)
  <2>1. Often(<<>>, c, 0) = 0
    BY OftenEmpty
  <2>2. StillToReport(s, c) = 0 /\ Often(scan[s].out, c, 0) = 0 /\ registrations[c] = 0
    BY <1>1, <1>3, <2>1 DEF StillToReport
  <2> QED BY <2>2 DEF ReportsBounded
<1>6. \A s \in Scanners : NoneOverlooked(s)
  BY <1>3 DEF NoneOverlooked
<1> QED BY <1>2, <1>3, <1>4, <1>5, <1>6 DEF ScanInv

\* Registering a position while scans run.
LEMMA RegisterKeepsScans ==
  ASSUME ScanInv, NEW c \in Contracts, RegisterOpenPosition(c)
  PROVE  ScanInv'
<1> USE DEF ScanInv
<1>1. /\ positions' = Append(positions, c) /\ SumFunction(registrations) < MaxRegistrations
      /\ registrations' = [registrations EXCEPT ![c] = registrations[c] + 1] /\ scan' = scan
  BY DEF RegisterOpenPosition
<1>2. /\ positions \in Seq(Contracts) /\ Len(positions) \in Nat
      /\ positions' \in Seq(Contracts) /\ Len(positions') = Len(positions) + 1
      /\ \A i \in 1..Len(positions) : positions'[i] = positions[i]
  BY <1>1, ScanTypes, AppendIs
<1>3. \A d \in Contracts : registrations[d] \in Nat /\ registrations'[d] = registrations[d] + (IF d = c THEN 1 ELSE 0)
  <2>1. \A d \in Contracts : registrations[d] \in Nat
    BY ScanTypes
  <2>2. registrations \in [Contracts -> 0..MaxRegistrations]
    BY DEF ScanTypeOK
  <2> QED BY <1>1, <2>1, <2>2
<1>4. ScanTypeOK'
  <2>1. IsFiniteSet(Contracts) /\ registrations \in [Contracts -> Nat]
    BY ContractsAssumption DEF ScanTypeOK, ScanRecords
  <2>2. SumFunction(registrations) \in Nat /\ registrations[c] <= SumFunction(registrations)
    BY <2>1, SumOfNats
  <2>3. registrations[c] + 1 \in 0..MaxRegistrations
    BY <1>1, <1>3, <2>2, FundAssumption
  <2> QED BY <1>1, <1>2, <2>3 DEF ScanTypeOK, ScanRecords
<1>5. ASSUME NEW d \in Contracts, NEW n \in Nat
      PROVE  /\ Often(positions', d, n) <= Often(positions, d, n) + (IF d = c THEN 1 ELSE 0)
             /\ Often(positions', d, n) \in Nat /\ Often(positions, d, n) \in Nat
  <2>1. Often(positions, d, n) \in Nat
    BY <1>2, OftenType
  <2>2. Often(Append(positions, c), d, n) = Often(positions, d, n) + (IF c = d /\ n <= Len(positions) THEN 1 ELSE 0)
    BY <1>2, OftenAppend
  <2> QED BY <1>1, <2>1, <2>2
<1>6. ASSUME NEW d \in Contracts PROVE (Often(positions, d, 0) <= registrations[d])'
  <2>1. Often(positions, d, 0) <= registrations[d]
    OBVIOUS
  <2>2. /\ Often(positions', d, 0) <= Often(positions, d, 0) + (IF d = c THEN 1 ELSE 0)
        /\ Often(positions', d, 0) \in Nat /\ Often(positions, d, 0) \in Nat
    BY <1>5
  <2> QED BY <1>3, <2>1, <2>2
<1>7. ASSUME NEW s \in Scanners, NEW d \in Contracts PROVE ReportsBounded(s, d)'
  <2>1. Often(scan[s].out, d, 0) \in Nat /\ StillToReport(s, d) \in Nat /\ scan[s].at \in Nat
    BY ScanTypes
  <2>2. StillToReport(s, d)' <= StillToReport(s, d) + (IF d = c THEN 1 ELSE 0) /\ StillToReport(s, d)' \in Nat
    <3>1. CASE scan[s].step = "walk"
      <4>1. StillToReport(s, d) = Often(positions, d, scan[s].at) /\ StillToReport(s, d)' = Often(positions', d, scan[s].at)
        BY <1>1, <3>1 DEF StillToReport
      <4> QED BY <1>5, <2>1, <4>1
    <3>2. CASE scan[s].step # "walk"
      BY <1>1, <2>1, <3>2 DEF StillToReport
    <3> QED BY <3>1, <3>2
  <2>3. Often(scan[s].out, d, 0) + StillToReport(s, d) <= registrations[d]
    BY DEF ReportsBounded
  <2>4. Often(scan'[s].out, d, 0) + StillToReport(s, d)' <= registrations'[d]
    BY <1>1, <1>3, <2>1, <2>2, <2>3
  <2> QED BY <2>4 DEF ReportsBounded
<1>8. ASSUME NEW s \in Scanners PROVE NoneOverlooked(s)' /\ (scan[s].step = "idle" => scan[s].out = <<>>)'
  <2>1. \A d \in Contracts : InFront(s, d) => InFront(s, d)'
    BY <1>1, <1>2 DEF InFront
  <2>2. scan[s].stayed \subseteq Contracts
    BY DEF ScanTypeOK, ScanRecords
  <2> QED BY <1>1, <2>1, <2>2 DEF NoneOverlooked, Reported
<1> QED BY <1>4, <1>6, <1>7, <1>8

\* The removal of c by unregisterPosition and by the end of a liquidation: a walk that has lost an entry in front of
\* it loses no other; one that may have skipped an entry is marked as shifted.
LEMMA RemovalKeepsScans ==
  ASSUME ScanInv, NEW c \in Contracts,
         positions' = RemoveFirst(positions, c), scan' = Shifted(c), registrations' = registrations
  PROVE  ScanInv'
<1> USE DEF ScanInv
<1>1. positions \in Seq(Contracts) /\ Len(positions) \in Nat /\ DOMAIN positions = 1..Len(positions)
  BY ScanTypes, LenProperties
<1>2. \A s \in Scanners : scan'[s] = IF scan[s].step # "walk" \/ c \notin ToSet(positions) THEN scan[s]
                                     ELSE [scan[s] EXCEPT !.stayed = scan[s].stayed \ {c}, !.shifted = TRUE]
  BY DEF Shifted
<1>3. ASSUME NEW s \in Scanners
      PROVE  /\ scan'[s].step = scan[s].step /\ scan'[s].at = scan[s].at /\ scan'[s].out = scan[s].out
             /\ scan'[s].mark = scan[s].mark /\ scan'[s] \in ScanRecords
             /\ ~scan'[s].shifted => scan'[s] = scan[s] /\ (scan[s].step = "walk" => c \notin ToSet(positions))
  <2>1. scan[s] \in ScanRecords
    BY DEF ScanTypeOK
  <2>2. CASE scan[s].step # "walk" \/ c \notin ToSet(positions)
    BY <1>2, <2>1, <2>2
  <2>3. CASE ~ (scan[s].step # "walk" \/ c \notin ToSet(positions))
    <3>1. scan'[s] = [scan[s] EXCEPT !.stayed = scan[s].stayed \ {c}, !.shifted = TRUE]
      BY <1>2, <2>3
    <3> QED BY <2>1, <3>1 DEF ScanRecords
  <2> QED BY <2>2, <2>3
<1>4. positions' \in Seq(Contracts) /\ \A d \in Contracts, n \in Nat : Often(positions', d, n) <= Often(positions, d, n)
  <2>1. CASE \E k \in 1..Len(positions) : positions[k] = c
    <3>1. PICK p \in 1..Len(positions) : RemoveFirst(positions, c) = RemoveAt(positions, p)
      BY <1>1, <2>1, RemoveFirstIs
    <3>2. positions' = RemoveAt(positions, p) /\ RemoveAt(positions, p) \in Seq(Contracts)
      BY <1>1, <3>1, RemoveAtIs
    <3>3. ASSUME NEW d \in Contracts, NEW n \in Nat PROVE Often(RemoveAt(positions, p), d, n) <= Often(positions, d, n)
      BY <1>1, OftenRemove
    <3> QED BY <3>2, <3>3
  <2>2. CASE ~ \E k \in 1..Len(positions) : positions[k] = c
    <3>1. positions' = positions
      BY <2>2 DEF RemoveFirst
    <3>2. \A d \in Contracts, n \in Nat : Often(positions, d, n) \in Nat
      BY ScanTypes
    <3>3. \A d \in Contracts, n \in Nat : Often(positions, d, n) <= Often(positions, d, n)
      BY <3>2
    <3> QED BY <1>1, <3>1, <3>3
  <2> QED BY <2>1, <2>2
<1>5. \A d \in Contracts, n \in Nat : Often(positions', d, n) \in Nat /\ Often(positions, d, n) \in Nat
  <2>1. ASSUME NEW d \in Contracts, NEW n \in Nat PROVE Often(positions', d, n) \in Nat
    BY <1>4, OftenType
  <2> QED BY <2>1, ScanTypes
<1>6. ScanTypeOK'
  <2>1. scan' \in [Scanners -> ScanRecords]
    <3>1. DOMAIN scan' = Scanners /\ scan' = [s \in Scanners |-> scan'[s]]
      BY DEF Shifted
    <3> QED BY <1>3, <3>1
  <2> QED BY <1>4, <2>1 DEF ScanTypeOK, ScanRecords
<1>7. ASSUME NEW d \in Contracts PROVE (Often(positions, d, 0) <= registrations[d])'
  <2>1. Often(positions, d, 0) <= registrations[d] /\ registrations[d] \in Nat
    BY ScanTypes
  <2>2. Often(positions', d, 0) <= Often(positions, d, 0) /\ Often(positions', d, 0) \in Nat /\ Often(positions, d, 0) \in Nat
    BY <1>4, <1>5
  <2> QED BY <2>1, <2>2
<1>8. ASSUME NEW s \in Scanners, NEW d \in Contracts PROVE ReportsBounded(s, d)'
  <2>1. Often(scan[s].out, d, 0) \in Nat /\ StillToReport(s, d) \in Nat /\ scan[s].at \in Nat /\ registrations[d] \in Nat
    BY ScanTypes
  <2>2. StillToReport(s, d)' <= StillToReport(s, d) /\ StillToReport(s, d)' \in Nat
    <3>1. scan'[s].step = scan[s].step /\ scan'[s].at = scan[s].at
      BY <1>3
    <3>2. CASE scan[s].step = "walk"
      <4>1. StillToReport(s, d) = Often(positions, d, scan[s].at) /\ StillToReport(s, d)' = Often(positions', d, scan[s].at)
        BY <3>1, <3>2 DEF StillToReport
      <4> QED BY <1>4, <1>5, <2>1, <4>1
    <3>3. CASE scan[s].step # "walk"
      BY <2>1, <3>1, <3>3 DEF StillToReport
    <3> QED BY <3>2, <3>3
  <2>3. Often(scan[s].out, d, 0) + StillToReport(s, d) <= registrations[d]
    BY DEF ReportsBounded
  <2>4. Often(scan'[s].out, d, 0) + StillToReport(s, d)' <= registrations'[d]
    BY <1>3, <2>1, <2>2, <2>3
  <2> QED BY <2>4 DEF ReportsBounded
<1>9. ASSUME NEW s \in Scanners PROVE NoneOverlooked(s)' /\ (scan[s].step = "idle" => scan[s].out = <<>>)'
  <2>1. ASSUME ~scan'[s].shifted, NEW d \in Contracts, InFront(s, d) PROVE InFront(s, d)'
    <3>1. scan[s].step = "walk" /\ c \notin ToSet(positions)
      BY <1>3, <2>1 DEF InFront
    <3>2. ~ \E k \in 1..Len(positions) : positions[k] = c
      BY <1>1, <3>1 DEF ToSet
    <3>3. positions' = positions
      BY <3>2 DEF RemoveFirst
    <3> QED BY <1>3, <2>1, <3>3 DEF InFront
  <2>2. scan[s].stayed \subseteq Contracts
    BY DEF ScanTypeOK, ScanRecords
  <2>3. NoneOverlooked(s)'
    BY <1>3, <2>1, <2>2 DEF NoneOverlooked, Reported
  <2> QED BY <1>3, <2>3
<1> QED BY <1>6, <1>7, <1>8, <1>9

\* Steps that change neither the registry nor a scan.
LEMMA SameScan ==
  ASSUME ScanInv, NEW s \in Scanners, scan'[s] = scan[s], positions' = positions, registrations' = registrations
  PROVE  /\ NoneOverlooked(s)' /\ (scan[s].step = "idle" => scan[s].out = <<>>)'
         /\ \A c \in Contracts : ReportsBounded(s, c)'
<1>1. NoneOverlooked(s) /\ (scan[s].step = "idle" => scan[s].out = <<>>) /\ \A c \in Contracts : ReportsBounded(s, c)
  BY DEF ScanInv
<1>2. \A c \in Contracts : (InFront(s, c) <=> InFront(s, c)') /\ (Reported(s, c) <=> Reported(s, c)') /\ StillToReport(s, c)' = StillToReport(s, c)
  BY DEF InFront, Reported, StillToReport
<1>3. scan[s].stayed \subseteq Contracts
  BY DEF ScanInv, ScanTypeOK, ScanRecords
<1>4. NoneOverlooked(s)'
  BY <1>1, <1>2, <1>3 DEF NoneOverlooked
<1> QED BY <1>1, <1>2, <1>4 DEF ReportsBounded

\* A scan takes the positions as they are.
LEMMA StartKeepsScans ==
  ASSUME ScanInv, NEW s \in Scanners, NEW m \in Marks, ScanAtRiskPositions(s, m)
  PROVE  ScanInv'
<1> USE DEF ScanInv
<1>1. /\ scan' = [scan EXCEPT ![s] = [step |-> "walk", at |-> 0, mark |-> m, out |-> <<>>,
                                  stayed |-> ToSet(positions), shifted |-> FALSE]]
      /\ positions' = positions /\ registrations' = registrations
  BY DEF ScanAtRiskPositions
<1>2. positions \in Seq(Contracts) /\ DOMAIN positions = 1..Len(positions) /\ \A i \in 1..Len(positions) : positions[i] \in Contracts
  BY LenProperties, ElementOfSeq DEF ScanTypeOK, ScanRecords
<1>3. ToSet(positions) \in SUBSET Contracts
  BY <1>2 DEF ToSet
<1>4. PICK now : now = [step |-> "walk", at |-> 0, mark |-> m, out |-> <<>>, stayed |-> ToSet(positions), shifted |-> FALSE]
  OBVIOUS
<1>5. /\ now \in ScanRecords
      /\ now.step = "walk" /\ now.at = 0 /\ now.out = <<>> /\ now.stayed = ToSet(positions)
  BY <1>3, <1>4 DEF ScanRecords
<1>6. scan' = [scan EXCEPT ![s] = now]
  BY <1>1, <1>4
<1>7. ScanTypeOK'
  BY <1>1, <1>5, <1>6 DEF ScanTypeOK, ScanRecords
<1>8. scan'[s] = now /\ \A r \in Scanners : r # s => scan'[r] = scan[r]
  BY <1>6 DEF ScanTypeOK, ScanRecords
<1>9. ASSUME NEW c \in Contracts PROVE ReportsBounded(s, c)'
  <2>1. Often(<<>>, c, 0) = 0 /\ Often(positions, c, 0) \in Nat /\ Often(positions, c, 0) <= registrations[c]
    BY OftenEmpty, ScanTypes
  <2>2. StillToReport(s, c)' = Often(positions, c, 0) /\ Often(scan'[s].out, c, 0) = 0
    BY <1>1, <1>5, <1>8, <2>1 DEF StillToReport
  <2>3. Often(scan'[s].out, c, 0) + StillToReport(s, c)' <= registrations'[c]
    BY <1>1, <2>1, <2>2
  <2> QED BY <2>3 DEF ReportsBounded
<1>10. NoneOverlooked(s)' /\ (scan[s].step = "idle" => scan[s].out = <<>>)'
  <2>1. ASSUME NEW c \in ToSet(positions) PROVE InFront(s, c)'
    <3>1. PICK i \in 1..Len(positions) : positions[i] = c
      BY <1>2 DEF ToSet
    <3> QED BY <1>1, <1>2, <1>5, <1>8, <3>1 DEF InFront
  <2> QED BY <1>5, <1>8, <2>1 DEF NoneOverlooked
<1>11. \A r \in Scanners : /\ NoneOverlooked(r)' /\ (scan[r].step = "idle" => scan[r].out = <<>>)'
                           /\ \A c \in Contracts : ReportsBounded(r, c)'
  BY <1>1, <1>8, <1>9, <1>10, SameScan
<1>12. \A c \in Contracts : (Often(positions, c, 0) <= registrations[c])'
  BY <1>1
<1> QED BY <1>7, <1>11, <1>12

\* A scan looks at the next position.
LEMMA AssessKeepsScans ==
  ASSUME ScanInv, NEW s \in Scanners, Assess(s)
  PROVE  ScanInv'
<1> USE DEF ScanInv
<1>1. PICK n \in Nat, c \in Contracts, more \in Seq(Contracts) :
        /\ n = scan[s].at /\ scan[s].step = "walk" /\ n < Len(positions) /\ c = positions[n + 1]
        /\ more = IF AtRisk(c, scan[s].mark) THEN Append(scan[s].out, c) ELSE scan[s].out
  <2>1. /\ scan[s].at \in Nat /\ scan[s].step = "walk" /\ scan[s].at < Len(positions)
        /\ positions \in Seq(Contracts) /\ Len(positions) \in Nat /\ scan[s].out \in Seq(Contracts)
    BY ScanTypes DEF Assess
  <2>2. positions[scan[s].at + 1] \in Contracts
    BY <2>1, ElementOfSeq
  <2>3. Append(scan[s].out, positions[scan[s].at + 1]) \in Seq(Contracts)
    BY <2>1, <2>2, AppendIs
  <2> QED BY <2>1, <2>2, <2>3
<1>2. /\ scan' = [scan EXCEPT ![s].at = n + 1, ![s].out = more]
      /\ positions' = positions /\ registrations' = registrations
  BY <1>1 DEF Assess
<1>3. scan[s] \in ScanRecords
  BY DEF ScanTypeOK, ScanRecords
<1>4. PICK now : now = [scan[s] EXCEPT !.at = n + 1, !.out = more]
  OBVIOUS
<1>5. /\ now \in ScanRecords
      /\ now.step = "walk" /\ now.at = n + 1 /\ now.out = more /\ now.stayed = scan[s].stayed
      /\ now.mark = scan[s].mark /\ now.shifted = scan[s].shifted
  <2>1. n + 1 \in Nat /\ more \in Seq(Contracts)
    BY <1>1
  <2>2. now \in ScanRecords
    BY <1>3, <1>4, <2>1 DEF ScanRecords
  <2>3. now.at = n + 1 /\ now.out = more
    BY <1>3, <1>4 DEF ScanRecords
  <2>4. /\ now.step = scan[s].step /\ now.stayed = scan[s].stayed
        /\ now.mark = scan[s].mark /\ now.shifted = scan[s].shifted
    BY <1>3, <1>4 DEF ScanRecords
  <2> QED BY <1>1, <2>2, <2>3, <2>4
<1>6. scan' = [scan EXCEPT ![s] = now]
  <2>1. scan' = [scan EXCEPT ![s] = [scan[s] EXCEPT !.at = n + 1, !.out = more]]
    BY <1>2 DEF ScanTypeOK
  <2> QED BY <1>4, <2>1
<1>7. ScanTypeOK'
  BY <1>2, <1>5, <1>6 DEF ScanTypeOK
<1>8. scan'[s] = now /\ \A r \in Scanners : r # s => scan'[r] = scan[r]
  BY <1>6 DEF ScanTypeOK, ScanRecords
<1>9. positions \in Seq(Contracts) /\ Len(positions) \in Nat /\ scan[s].out \in Seq(Contracts) /\ Len(scan[s].out) \in Nat
  BY ScanTypes
<1>10. ASSUME NEW d \in Contracts PROVE ReportsBounded(s, d)'
  <2>1. Often(positions, d, n) = Often(positions, d, n + 1) + (IF positions[n + 1] = d THEN 1 ELSE 0)
    BY <1>1, <1>9, OftenStep
  <2>2. Often(scan[s].out, d, 0) \in Nat /\ Often(positions, d, n + 1) \in Nat /\ registrations[d] \in Nat
    <3>1. n + 1 \in Nat
      BY <1>1
    <3> QED BY <3>1, ScanTypes
  <2>3. Often(more, d, 0) <= Often(scan[s].out, d, 0) + (IF c = d THEN 1 ELSE 0) /\ Often(more, d, 0) \in Nat
    <3>1. Often(Append(scan[s].out, c), d, 0) = Often(scan[s].out, d, 0) + (IF c = d /\ 0 <= Len(scan[s].out) THEN 1 ELSE 0)
      BY <1>9, OftenAppend
    <3>2. CASE AtRisk(c, scan[s].mark)
      BY <1>1, <1>9, <2>2, <3>1, <3>2
    <3>3. CASE ~AtRisk(c, scan[s].mark)
      BY <1>1, <2>2, <3>3
    <3> QED BY <3>2, <3>3
  <2>4. StillToReport(s, d) = Often(positions, d, n) /\ StillToReport(s, d)' = Often(positions, d, n + 1)
    BY <1>1, <1>2, <1>5, <1>8 DEF StillToReport
  <2>5. Often(scan[s].out, d, 0) + StillToReport(s, d) <= registrations[d]
    BY DEF ReportsBounded
  <2>6. Often(more, d, 0) + StillToReport(s, d)' <= registrations[d]
    BY <1>1, <2>1, <2>2, <2>3, <2>4, <2>5
  <2> QED BY <1>2, <1>5, <1>8, <2>6 DEF ReportsBounded
<1>11. NoneOverlooked(s)' /\ (scan[s].step = "idle" => scan[s].out = <<>>)'
  <2>1. ASSUME NEW d \in Contracts, AtRisk(d, scan[s].mark), InFront(s, d) PROVE InFront(s, d)' \/ Reported(s, d)'
    <3>1. PICK i \in 1..Len(positions) : i > n /\ positions[i] = d
      BY <1>1, <2>1 DEF InFront
    <3>2. CASE i = n + 1
      <4>1. more = Append(scan[s].out, d)
        BY <1>1, <2>1, <3>1, <3>2
      <4>2. Len(more) = Len(scan[s].out) + 1 /\ more[Len(scan[s].out) + 1] = d
        BY <1>9, <4>1, AppendIs
      <4>3. Len(scan[s].out) + 1 \in 1..Len(more)
        BY <1>9, <4>2
      <4> QED BY <1>5, <1>8, <4>2, <4>3 DEF Reported
    <3>3. CASE i # n + 1
      <4>1. i > n + 1
        BY <1>9, <3>1, <3>3
      <4> QED BY <1>2, <1>5, <1>8, <3>1, <4>1 DEF InFront
    <3> QED BY <3>2, <3>3
  <2>2. ASSUME NEW d \in Contracts, Reported(s, d) PROVE Reported(s, d)'
    <3>1. PICK i \in 1..Len(scan[s].out) : scan[s].out[i] = d
      BY <2>2 DEF Reported
    <3>2. i \in 1..Len(more) /\ more[i] = d
      BY <1>1, <1>9, <3>1, AppendIs
    <3> QED BY <1>5, <1>8, <3>2 DEF Reported
  <2>3. scan[s].stayed \subseteq Contracts /\ NoneOverlooked(s)
    BY DEF ScanTypeOK, ScanRecords
  <2> QED BY <1>5, <1>8, <2>1, <2>2, <2>3 DEF NoneOverlooked
<1>12. \A r \in Scanners : /\ NoneOverlooked(r)' /\ (scan[r].step = "idle" => scan[r].out = <<>>)'
                           /\ \A d \in Contracts : ReportsBounded(r, d)'
  BY <1>2, <1>8, <1>10, <1>11, SameScan
<1>13. \A d \in Contracts : (Often(positions, d, 0) <= registrations[d])'
  BY <1>2
<1> QED BY <1>7, <1>12, <1>13

\* A scan reports what it has found.
LEMMA EndKeepsScans ==
  ASSUME ScanInv, NEW s \in Scanners, Scanned(s)
  PROVE  ScanInv'
<1> USE DEF ScanInv
<1>1. /\ scan' = [scan EXCEPT ![s].step = "done"] /\ scan[s].step = "walk" /\ scan[s].at >= Len(positions)
      /\ positions' = positions /\ registrations' = registrations
  BY DEF Scanned
<1>2. scan[s] \in ScanRecords
  BY DEF ScanTypeOK, ScanRecords
<1>3. PICK now : now = [scan[s] EXCEPT !.step = "done"]
  OBVIOUS
<1>4. /\ now \in ScanRecords
      /\ now.step = "done" /\ now.at = scan[s].at /\ now.out = scan[s].out /\ now.stayed = scan[s].stayed
      /\ now.mark = scan[s].mark /\ now.shifted = scan[s].shifted
  BY <1>2, <1>3 DEF ScanRecords
<1>5. scan' = [scan EXCEPT ![s] = now]
  BY <1>1, <1>3 DEF ScanTypeOK, ScanRecords
<1>6. ScanTypeOK'
  BY <1>1, <1>4, <1>5 DEF ScanTypeOK, ScanRecords
<1>7. scan'[s] = now /\ \A r \in Scanners : r # s => scan'[r] = scan[r]
  BY <1>5 DEF ScanTypeOK, ScanRecords
<1>8. ASSUME NEW d \in Contracts PROVE ReportsBounded(s, d)'
  <2>1. Often(scan[s].out, d, 0) \in Nat /\ StillToReport(s, d) \in Nat /\ registrations[d] \in Nat
    BY ScanTypes
  <2>2. StillToReport(s, d)' = 0
    BY <1>4, <1>7 DEF StillToReport
  <2>3. Often(scan[s].out, d, 0) + StillToReport(s, d) <= registrations[d]
    BY DEF ReportsBounded
  <2>4. Often(scan[s].out, d, 0) + StillToReport(s, d)' <= registrations[d]
    BY <2>1, <2>2, <2>3
  <2> QED BY <1>1, <1>4, <1>7, <2>4 DEF ReportsBounded
<1>9. NoneOverlooked(s)' /\ (scan[s].step = "idle" => scan[s].out = <<>>)'
  <2>1. \A d \in Contracts : ~InFront(s, d)
    BY <1>1, ScanTypes DEF InFront
  <2>2. scan[s].stayed \subseteq Contracts /\ NoneOverlooked(s)
    BY DEF ScanTypeOK, ScanRecords
  <2> QED BY <1>4, <1>7, <2>1, <2>2 DEF NoneOverlooked, Reported
<1>10. \A r \in Scanners : /\ NoneOverlooked(r)' /\ (scan[r].step = "idle" => scan[r].out = <<>>)'
                           /\ \A d \in Contracts : ReportsBounded(r, d)'
  BY <1>1, <1>7, <1>8, <1>9, SameScan
<1>11. \A d \in Contracts : (Often(positions, d, 0) <= registrations[d])'
  BY <1>1
<1> QED BY <1>6, <1>10, <1>11

\* Every step of the engine keeps the invariant of the scans.
LEMMA ScanNextInv ==
  ASSUME ScanInv, \A k \in 1..Len(executing) : executing[k].c \in Contracts, executing \in Seq([c : Contracts, mark : Marks]),
         [LiquidationNext]_liquidationVars
  PROVE  ScanInv'
<1>1. ASSUME positions' = positions, scan' = scan, registrations' = registrations PROVE ScanInv'
  <2>1. \A s \in Scanners : /\ NoneOverlooked(s)' /\ (scan[s].step = "idle" => scan[s].out = <<>>)'
                            /\ \A d \in Contracts : ReportsBounded(s, d)'
    BY <1>1, SameScan
  <2> QED BY <1>1, <2>1 DEF ScanInv, ScanTypeOK
<1>2. CASE Liquidate
  <2>1. executing \in Seq([c : Contracts, mark : Marks]) /\ executing # <<>>
    BY <1>2 DEF Liquidate
  <2>2. Head(executing) \in [c : Contracts, mark : Marks]
    BY <2>1, HeadTailProperties
  <2>3. Head(executing).c \in Contracts
    BY <2>2
  <2>4. /\ positions' = RemoveFirst(positions, Head(executing).c) /\ scan' = Shifted(Head(executing).c)
        /\ registrations' = registrations
    BY <1>2 DEF Liquidate
  <2> QED BY <2>3, <2>4, RemovalKeepsScans
<1>3. CASE \E c \in Contracts : RegisterOpenPosition(c)
  BY <1>3, RegisterKeepsScans
<1>4. CASE \E c \in Contracts : UnregisterPosition(c)
  BY <1>4, RemovalKeepsScans DEF UnregisterPosition
<1>5. CASE \E c \in Contracts, m \in Marks : ExecuteLiquidation(c, m)
  BY <1>1, <1>5 DEF ExecuteLiquidation
<1>6. CASE \E x \in Shortfalls : ProcessSocializedLoss(x)
  BY <1>1, <1>6 DEF ProcessSocializedLoss
<1>7. CASE \E s \in Scanners : Assess(s)
  BY <1>7, AssessKeepsScans
<1>8. CASE \E s \in Scanners : Scanned(s)
  BY <1>8, EndKeepsScans
<1>9. CASE \E s \in Scanners, m \in Marks : ScanAtRiskPositions(s, m)
  BY <1>9, StartKeepsScans
<1>10. CASE \E m \in Marks : ProcessFundingEpoch(m)
  BY <1>1, <1>10 DEF ProcessFundingEpoch
<1>11. CASE UNCHANGED liquidationVars
  BY <1>1, <1>11 DEF liquidationVars
<1> QED BY <1>2, <1>3, <1>4, <1>5, <1>6, <1>7, <1>8, <1>9, <1>10, <1>11 DEF LiquidationNext

-----------------------------------------------------------------------------
(* The insurance fund *)

PenaltyAt(p) == Penalty(p.c, p.mark)
PenaltySum(list) == SumFunction([k \in DOMAIN list |-> PenaltyAt(list[k])])

FundInv ==
  /\ insurance \in [balance : Nat, collected : Nat, paid : Nat, count : Nat]
  /\ executing \in Seq([c : Contracts, mark : Marks]) /\ penalties \in Seq([c : Contracts, mark : Marks])
  /\ Len(executing) + Len(penalties) <= MaxLiquidations
  /\ insurance.balance + insurance.paid = insurance.collected
  /\ insurance.collected = PenaltySum(penalties) /\ insurance.count = Len(penalties)
  /\ \A k \in 1..Len(executing) : Liquidatable(executing[k].c, executing[k].mark)
  /\ \A k \in 1..Len(penalties) : Liquidatable(penalties[k].c, penalties[k].mark)

Cases == [c : Contracts, mark : Marks]

\* A penalty is a number.
LEMMA PenaltyType ==
  ASSUME NEW p \in Cases
  PROVE  p.c \in Contracts /\ p.mark \in Marks /\ PenaltyAt(p) \in Nat
<1>1. p.c \in Contracts /\ p.mark \in Marks
  BY DEF Cases
<1>2. PICK size \in Nat, mark \in Nat, bps \in Nat : size = p.c.size /\ mark = p.mark /\ bps = PenaltyBps
  BY <1>1, ContractsAssumption, MarksAssumption, BpsAssumption
<1>3. size * mark * bps \in Nat
  OBVIOUS
<1> QED BY <1>1, <1>2, <1>3 DEF PenaltyAt, Penalty

\* One more penalty adds to what the fund has collected.
LEMMA PenaltyAppend ==
  ASSUME NEW list \in Seq(Cases), NEW p \in Cases
  PROVE  PenaltySum(Append(list, p)) = PenaltySum(list) + PenaltyAt(p) /\ PenaltySum(list) \in Int
<1>1. PICK n \in Nat : n = Len(list)
  BY LenProperties
<1>2. PICK more : more = Append(list, p)
  OBVIOUS
<1>3. more \in Seq(Cases) /\ Len(more) = n + 1 /\ (\A k \in 1..n : more[k] = list[k]) /\ more[n + 1] = p
  BY <1>1, <1>2, AppendIs
<1>4. DOMAIN more = 1..n + 1 /\ DOMAIN list = 1..n /\ \A k \in 1..n + 1 : more[k] \in Cases
  BY <1>1, <1>3, LenProperties, ElementOfSeq
<1>5. PICK f : f = [k \in 1..n + 1 |-> PenaltyAt(more[k])]
  OBVIOUS
<1>6. f \in [1..n + 1 -> Int] /\ f[n + 1] = PenaltyAt(p)
  BY <1>3, <1>4, <1>5, PenaltyType
<1>7. /\ SumFunction([k \in 1..n |-> f[k]]) \in Int
      /\ SumFunction(f) = SumFunction([k \in 1..n |-> f[k]]) + f[n + 1]
  BY <1>6, SumLast
<1>8. [k \in 1..n |-> f[k]] = [k \in DOMAIN list |-> PenaltyAt(list[k])]
  BY <1>3, <1>4, <1>5
<1>9. f = [k \in DOMAIN more |-> PenaltyAt(more[k])]
  BY <1>4, <1>5
<1> QED BY <1>2, <1>6, <1>7, <1>8, <1>9 DEF PenaltySum

\* The fund starts with what it is given.
LEMMA FundInitInv == LiquidationInit => FundInv
<1> SUFFICES ASSUME LiquidationInit PROVE FundInv
  OBVIOUS
<1>1. executing = <<>> /\ penalties = <<>> /\ insurance = [balance |-> 0, collected |-> 0, paid |-> 0, count |-> 0]
  BY DEF LiquidationInit
<1>2. PenaltySum(<<>>) = 0
  <2>1. [k \in DOMAIN <<>> |-> PenaltyAt(<<>>[k])] \in [1..0 -> Int]
    OBVIOUS
  <2> QED BY <2>1, SumNone DEF PenaltySum
<1>3. Len(<<>>) = 0 /\ <<>> \in Seq([c : Contracts, mark : Marks])
  OBVIOUS
<1>4. Len(executing) + Len(penalties) <= MaxLiquidations
  BY <1>1, <1>3, FundAssumption
<1>5. \A k \in 1..0 : FALSE
  OBVIOUS
<1> QED BY <1>1, <1>2, <1>3, <1>4, <1>5 DEF FundInv

\* Every step of the engine keeps the invariant of the fund.
LEMMA FundNextInv ==
  ASSUME FundInv, [LiquidationNext]_liquidationVars
  PROVE  FundInv'
<1> USE DEF FundInv
<1>0. /\ executing \in Seq(Cases) /\ penalties \in Seq(Cases) /\ Len(executing) \in Nat /\ Len(penalties) \in Nat
  BY LenProperties DEF Cases
<1>1. ASSUME insurance' = insurance, executing' = executing, penalties' = penalties PROVE FundInv'
  BY <1>1
<1>2. CASE Liquidate
  <2>1. PICK p : p = Head(executing)
    OBVIOUS
  <2>2. executing # <<>> /\ executing' = Tail(executing)
    BY <1>2 DEF Liquidate
  <2>3. /\ p = executing[1] /\ executing' \in Seq(Cases) /\ Len(executing') = Len(executing) - 1 /\ Len(executing) >= 1
        /\ \A k \in 1..Len(executing) - 1 : executing'[k] = executing[k + 1]
    BY <1>0, <2>1, <2>2, TailIs
  <2>4. p \in Cases /\ Liquidatable(p.c, p.mark)
    BY <1>0, <2>3, ElementOfSeq
  <2>5. PICK amount \in Nat : amount = PenaltyAt(p)
    BY <2>4, PenaltyType
  <2>6. /\ insurance' = [insurance EXCEPT !.balance = insurance.balance + amount, !.collected = insurance.collected + amount,
                                          !.count = insurance.count + 1]
        /\ penalties' = Append(penalties, [c |-> p.c, mark |-> p.mark])
    BY <1>2, <2>1, <2>5 DEF Liquidate, PenaltyAt
  <2>7. [c |-> p.c, mark |-> p.mark] = p
    BY <2>4 DEF Cases
  <2>8. penalties' = Append(penalties, p)
    BY <2>6, <2>7
  <2>9. /\ penalties' \in Seq(Cases) /\ Len(penalties') = Len(penalties) + 1
        /\ (\A k \in 1..Len(penalties) : penalties'[k] = penalties[k]) /\ penalties'[Len(penalties) + 1] = p
    BY <1>0, <2>4, <2>8, AppendIs
  <2>10. PenaltySum(penalties') = PenaltySum(penalties) + amount
    BY <1>0, <2>4, <2>5, <2>8, PenaltyAppend
  <2>11. PICK b \in Nat, l \in Nat, d \in Nat, n \in Nat :
           insurance = [balance |-> b, collected |-> l, paid |-> d, count |-> n]
    OBVIOUS
  <2>12. insurance' = [balance |-> b + amount, collected |-> l + amount, paid |-> d, count |-> n + 1]
    BY <2>6, <2>11
  <2>13. b + d = l /\ l = PenaltySum(penalties) /\ n = Len(penalties)
    BY <2>11
  <2>14. \A k \in 1..Len(executing') : Liquidatable(executing'[k].c, executing'[k].mark)
    <3>1. \A k \in 1..Len(executing) - 1 : k + 1 \in 1..Len(executing)
      BY <1>0
    <3> QED BY <2>3, <3>1
  <2>15. \A k \in 1..Len(penalties') : Liquidatable(penalties'[k].c, penalties'[k].mark)
    <3>1. \A k \in 1..Len(penalties) + 1 : k \in 1..Len(penalties) \/ k = Len(penalties) + 1
      BY <1>0
    <3> QED BY <2>4, <2>9, <3>1
  <2>16. Len(executing') + Len(penalties') <= MaxLiquidations
    BY <1>0, <2>3, <2>9, FundAssumption
  <2>17. insurance' \in [balance : Nat, collected : Nat, paid : Nat, count : Nat]
    BY <2>12
  <2>18. insurance'.balance + insurance'.paid = insurance'.collected
    BY <2>12, <2>13
  <2>19. insurance'.collected = PenaltySum(penalties') /\ insurance'.count = Len(penalties')
    BY <2>9, <2>10, <2>12, <2>13
  <2> QED BY <2>3, <2>9, <2>14, <2>15, <2>16, <2>17, <2>18, <2>19 DEF Cases
<1>3. CASE \E c \in Contracts, m \in Marks : ExecuteLiquidation(c, m)
  <2>1. PICK c \in Contracts, m \in Marks : ExecuteLiquidation(c, m)
    BY <1>3
  <2>2. PICK p : p = [c |-> c, mark |-> m]
    OBVIOUS
  <2>3. p \in Cases /\ Liquidatable(p.c, p.mark) /\ executing' = Append(executing, p)
    BY <2>1, <2>2 DEF ExecuteLiquidation, Cases
  <2>4. /\ executing' \in Seq(Cases) /\ Len(executing') = Len(executing) + 1
        /\ (\A k \in 1..Len(executing) : executing'[k] = executing[k]) /\ executing'[Len(executing) + 1] = p
    BY <1>0, <2>3, AppendIs
  <2>5. insurance' = insurance /\ penalties' = penalties /\ Len(executing) + Len(penalties) < MaxLiquidations
    BY <2>1 DEF ExecuteLiquidation
  <2>6. \A k \in 1..Len(executing') : Liquidatable(executing'[k].c, executing'[k].mark)
    <3>1. \A k \in 1..Len(executing) + 1 : k \in 1..Len(executing) \/ k = Len(executing) + 1
      BY <1>0
    <3> QED BY <2>3, <2>4, <3>1
  <2>7. Len(executing') + Len(penalties') <= MaxLiquidations
    BY <1>0, <2>4, <2>5, FundAssumption
  <2> QED BY <2>4, <2>5, <2>6, <2>7 DEF Cases
<1>4. CASE \E x \in Shortfalls : ProcessSocializedLoss(x)
  <2>1. PICK x \in Nat : /\ insurance.balance >= x /\ executing' = executing /\ penalties' = penalties
                         /\ insurance' = [insurance EXCEPT !.balance = insurance.balance - x, !.paid = insurance.paid + x]
    BY <1>4, FundAssumption DEF ProcessSocializedLoss
  <2>2. PICK b \in Nat, l \in Nat, d \in Nat, n \in Nat :
          insurance = [balance |-> b, collected |-> l, paid |-> d, count |-> n]
    OBVIOUS
  <2>3. insurance' = [balance |-> b - x, collected |-> l, paid |-> d + x, count |-> n] /\ b >= x /\ b + d = l
    BY <2>1, <2>2
  <2>4. insurance' \in [balance : Nat, collected : Nat, paid : Nat, count : Nat]
    BY <2>3
  <2>5. insurance'.balance + insurance'.paid = insurance'.collected
    BY <2>3
  <2>6. insurance'.collected = insurance.collected /\ insurance'.count = insurance.count
    BY <2>2, <2>3
  <2> QED BY <2>1, <2>4, <2>5, <2>6
<1>5. CASE \E c \in Contracts : RegisterOpenPosition(c) \/ UnregisterPosition(c)
  BY <1>1, <1>5 DEF RegisterOpenPosition, UnregisterPosition
<1>6. CASE \E s \in Scanners : Assess(s) \/ Scanned(s) \/ \E m \in Marks : ScanAtRiskPositions(s, m)
  BY <1>1, <1>6 DEF Assess, Scanned, ScanAtRiskPositions
<1>7. CASE \E m \in Marks : ProcessFundingEpoch(m)
  BY <1>1, <1>7 DEF ProcessFundingEpoch
<1>8. CASE UNCHANGED liquidationVars
  BY <1>1, <1>8 DEF liquidationVars
<1> QED BY <1>2, <1>3, <1>4, <1>5, <1>6, <1>7, <1>8 DEF LiquidationNext

-----------------------------------------------------------------------------
(* Funding *)

Paid(c, mark) == Max({0, FundingPayment(c, mark)})
Received(c, mark) == Max({0, -FundingPayment(c, mark)})
SizeOn(side, c) == IF c.side = side THEN c.size ELSE 0
PaidBy(list, mark) == SumFunction([k \in DOMAIN list |-> Paid(list[k], mark)])
ReceivedBy(list, mark) == SumFunction([k \in DOMAIN list |-> Received(list[k], mark)])
Interest(side, list) == SumFunction([k \in DOMAIN list |-> SizeOn(side, list[k])])

HistoryInv ==
  /\ history \in Seq([mark : Marks, rate : Int, among : Seq(Contracts), paid : Int, received : Int])
  /\ Len(history) <= MaxEpochs
  /\ \A k \in 1..Len(history) :
       /\ history[k].rate = FundingRate(history[k].mark)
       /\ history[k].paid = PaidBy(history[k].among, history[k].mark)
       /\ history[k].received = ReceivedBy(history[k].among, history[k].mark)

\* The rate is bounded both ways and has the sign of the premium.
LEMMA RateIs ==
  ASSUME NEW m \in Marks
  PROVE  /\ FundingRate(m) \in Int /\ -MaxFunding * Index <= FundingRate(m) /\ FundingRate(m) <= MaxFunding * Index
         /\ FundingRate(m) > 0 => m > Index
         /\ FundingRate(m) < 0 => m < Index
<1>1. PICK i \in Nat, d \in Nat, f \in Nat, n \in Nat : i = Index /\ d = FundingDampening /\ f = MaxFunding /\ n = m
  BY MarksAssumption, FundingAssumption
<1>2. PICK raw \in Int, cap \in Nat : raw = (n - i) * d /\ cap = f * i
  <2>1. (n - i) * d \in Int /\ f * i \in Nat
    BY <1>1
  <2> QED BY <2>1
<1>3. FundingRate(m) = IF raw > cap THEN cap ELSE IF raw < -cap THEN -cap ELSE raw
  BY <1>1, <1>2 DEF FundingRate
<1>4. -MaxFunding * Index = -cap /\ MaxFunding * Index = cap
  BY <1>1, <1>2
<1>5. raw > 0 => n > i
  <2>1. n <= i => raw <= 0
    BY <1>2
  <2> QED BY <2>1
<1>6. raw < 0 => n < i
  <2>1. n >= i => raw >= 0
    BY <1>2
  <2> QED BY <2>1
<1> QED BY <1>1, <1>2, <1>3, <1>4, <1>5, <1>6

\* What one position pays and receives.
LEMMA PaymentIs ==
  ASSUME NEW c \in Contracts, NEW m \in Marks
  PROVE  /\ Paid(c, m) \in Nat /\ Received(c, m) \in Nat
         /\ SizeOn("LONG", c) \in Nat /\ SizeOn("SHORT", c) \in Nat
         /\ Paid(c, m) - Received(c, m) = FundingRate(m) * m * (SizeOn("LONG", c) - SizeOn("SHORT", c))
         /\ Paid(c, m) > 0 => SizeOn(IF m > Index THEN "LONG" ELSE "SHORT", c) > 0
<1>1. PICK r \in Int, n \in Nat, size \in Nat \ {0} : r = FundingRate(m) /\ n = m /\ size = c.size
  BY RateIs, MarksAssumption, ContractsAssumption
<1>2. c.side \in {"LONG", "SHORT"}
  BY ContractsAssumption
<1>3. PICK base \in Int : base = r * size * n
  <2>1. r * size * n \in Int
    BY <1>1
  <2> QED BY <2>1
<1>4. base > 0 => r > 0
  <2>1. r <= 0 => base <= 0
    <3>1. PICK v \in Nat : v = size * n
      <4>1. size * n \in Nat
        BY <1>1
      <4> QED BY <4>1
    <3>2. base = r * v
      BY <1>1, <1>3, <3>1
    <3>3. r <= 0 => r * v <= 0
      OBVIOUS
    <3> QED BY <3>2, <3>3
  <2> QED BY <2>1
<1>5. base < 0 => r < 0
  <2>1. r >= 0 => base >= 0
    <3>1. PICK v \in Nat : v = size * n
      <4>1. size * n \in Nat
        BY <1>1
      <4> QED BY <4>1
    <3>2. base = r * v
      BY <1>1, <1>3, <3>1
    <3>3. r >= 0 => r * v >= 0
      OBVIOUS
    <3> QED BY <3>2, <3>3
  <2> QED BY <2>1
<1>6. base = r * n * size
  BY <1>1, <1>3
<1>7. CASE c.side = "LONG"
  <2>1. FundingPayment(c, m) = base
    BY <1>1, <1>3, <1>7 DEF FundingPayment
  <2>2. /\ Paid(c, m) = IF 0 >= base THEN 0 ELSE base
        /\ Received(c, m) = IF 0 >= -base THEN 0 ELSE -base
    BY <2>1, MaxOfTwo DEF Paid, Received
  <2>3. SizeOn("LONG", c) = size /\ SizeOn("SHORT", c) = 0
    BY <1>1, <1>7 DEF SizeOn
  <2>4. FundingRate(m) * m * (SizeOn("LONG", c) - SizeOn("SHORT", c)) = base
    <3>1. size - 0 = size
      OBVIOUS
    <3> QED BY <1>1, <1>6, <2>3, <3>1
  <2>5. Paid(c, m) > 0 => m > Index
    BY <1>1, <1>4, <2>2, RateIs
  <2> QED BY <2>2, <2>3, <2>4, <2>5
<1>8. CASE c.side = "SHORT"
  <2>1. FundingPayment(c, m) = -base /\ -(-base) = base /\ -base \in Int
    BY <1>1, <1>3, <1>8 DEF FundingPayment
  <2>2. /\ Paid(c, m) = IF 0 >= -base THEN 0 ELSE -base
        /\ Received(c, m) = IF 0 >= base THEN 0 ELSE base
    BY <2>1, MaxOfTwo DEF Paid, Received
  <2>3. SizeOn("LONG", c) = 0 /\ SizeOn("SHORT", c) = size
    BY <1>1, <1>8 DEF SizeOn
  <2>4. FundingRate(m) * m * (SizeOn("LONG", c) - SizeOn("SHORT", c)) = -base
    <3>1. 0 - size = -size /\ r * n * (-size) = -(r * n * size)
      BY <1>1
    <3> QED BY <1>1, <1>6, <2>3, <3>1
  <2>5. Paid(c, m) > 0 => ~ (m > Index)
    <3>1. Paid(c, m) > 0 => r < 0
      BY <1>5, <2>2
    <3>2. r < 0 => m < Index /\ m \in Nat /\ Index \in Nat
      BY <1>1, RateIs, MarksAssumption
    <3> QED BY <3>1, <3>2
  <2> QED BY <2>2, <2>3, <2>4, <2>5
<1> QED BY <1>2, <1>7, <1>8

\* What all pay and receive, one position after the other.
LEMMA PaymentsBalance ==
  ASSUME NEW list \in Seq(Contracts), NEW m \in Marks
  PROVE  /\ PaidBy(list, m) \in Int /\ ReceivedBy(list, m) \in Int
         /\ PaidBy(list, m) - ReceivedBy(list, m)
              = FundingRate(m) * m * (Interest("LONG", list) - Interest("SHORT", list))
         /\ PaidBy(list, m) > 0 => Interest(IF m > Index THEN "LONG" ELSE "SHORT", list) > 0
<1>1. PICK N \in Nat : N = Len(list)
  BY LenProperties
<1>2. DOMAIN list = 1..N /\ \A k \in 1..N : list[k] \in Contracts
  BY <1>1, LenProperties, ElementOfSeq
<1>3. PICK r \in Int : r = FundingRate(m) * m
  <2>1. FundingRate(m) \in Int /\ m \in Nat
    BY RateIs, MarksAssumption
  <2>2. \A x, y \in Int : x * y \in Int
    OBVIOUS
  <2> QED BY <2>1, <2>2
<1>4. PICK front \in {"LONG", "SHORT"} : front = IF m > Index THEN "LONG" ELSE "SHORT"
  OBVIOUS
<1>5. PICK p, q, l, s : /\ p = [k \in 1..N |-> Paid(list[k], m)] /\ q = [k \in 1..N |-> Received(list[k], m)]
                        /\ l = [k \in 1..N |-> SizeOn("LONG", list[k])] /\ s = [k \in 1..N |-> SizeOn("SHORT", list[k])]
  OBVIOUS
<1>6. /\ p \in [1..N -> Int] /\ q \in [1..N -> Int] /\ l \in [1..N -> Int] /\ s \in [1..N -> Int]
      /\ \A k \in 1..N : /\ p[k] \in Nat /\ q[k] \in Nat /\ l[k] \in Nat /\ s[k] \in Nat
                         /\ p[k] - q[k] = r * (l[k] - s[k])
                         /\ p[k] > 0 => (IF front = "LONG" THEN l[k] ELSE s[k]) > 0
  <2>1. \A k \in 1..N : /\ p[k] = Paid(list[k], m) /\ q[k] = Received(list[k], m)
                        /\ l[k] = SizeOn("LONG", list[k]) /\ s[k] = SizeOn("SHORT", list[k])
    BY <1>5
  <2>2. ASSUME NEW k \in 1..N
        PROVE  /\ p[k] \in Nat /\ q[k] \in Nat /\ l[k] \in Nat /\ s[k] \in Nat
               /\ p[k] - q[k] = r * (l[k] - s[k])
               /\ p[k] > 0 => (IF front = "LONG" THEN l[k] ELSE s[k]) > 0
    <3>1. list[k] \in Contracts
      BY <1>2
    <3> QED BY <1>3, <1>4, <2>1, <3>1, PaymentIs
  <2> QED BY <1>5, <2>2
<1> DEFINE Sum(f, n) == SumFunction([k \in 1..n |-> f[k]])
           Good == {n \in 0..N : /\ Sum(p, n) \in Nat /\ Sum(q, n) \in Nat /\ Sum(l, n) \in Nat /\ Sum(s, n) \in Nat
                                 /\ Sum(p, n) - Sum(q, n) = r * (Sum(l, n) - Sum(s, n))
                                 /\ Sum(p, n) > 0 => (IF front = "LONG" THEN Sum(l, n) ELSE Sum(s, n)) > 0}
<1>7. ASSUME NEW f \in [1..N -> Int], NEW n \in 1..N
      PROVE  Sum(f, n) = Sum(f, n - 1) + f[n] /\ Sum(f, n - 1) \in Int
  <2>1. PICK j \in Nat : n = j + 1 /\ n - 1 = j
    <3>1. n - 1 \in Nat /\ n = (n - 1) + 1
      OBVIOUS
    <3> QED BY <3>1
  <2>2. PICK g : g = [k \in 1..j + 1 |-> f[k]]
    OBVIOUS
  <2>3. g \in [1..j + 1 -> Int] /\ g[j + 1] = f[n] /\ [k \in 1..j |-> g[k]] = [k \in 1..j |-> f[k]]
    BY <2>1, <2>2
  <2>4. /\ SumFunction([k \in 1..j |-> g[k]]) \in Int
        /\ SumFunction(g) = SumFunction([k \in 1..j |-> g[k]]) + g[j + 1]
    BY <2>3, SumLast
  <2> QED BY <2>1, <2>2, <2>3, <2>4
<1>8. ASSUME NEW f \in [1..N -> Int] PROVE Sum(f, 0) = 0
  <2>1. [k \in 1..0 |-> f[k]] \in [1..0 -> Int]
    OBVIOUS
  <2> QED BY <2>1, SumNone
<1>9. 0 \in Good
  <2>1. Sum(p, 0) = 0 /\ Sum(q, 0) = 0 /\ Sum(l, 0) = 0 /\ Sum(s, 0) = 0
    <3> HIDE DEF Sum
    <3> QED BY <1>6, <1>8
  <2>2. r * (0 - 0) = 0
    OBVIOUS
  <2> HIDE DEF Sum
  <2> QED BY <2>1, <2>2
<1>10. ASSUME NEW n \in 1..N, n - 1 \in Good PROVE n \in Good
  <2> HIDE DEF Sum
  <2>1. PICK a \in Nat, b \in Nat, c \in Nat, d \in Nat :
          /\ a = Sum(p, n - 1) /\ b = Sum(q, n - 1) /\ c = Sum(l, n - 1) /\ d = Sum(s, n - 1)
          /\ a - b = r * (c - d)
          /\ a > 0 => (IF front = "LONG" THEN c ELSE d) > 0
    BY <1>10
  <2>2. PICK x \in Nat, y \in Nat, u \in Nat, v \in Nat :
          /\ x = p[n] /\ y = q[n] /\ u = l[n] /\ v = s[n]
          /\ x - y = r * (u - v)
          /\ x > 0 => (IF front = "LONG" THEN u ELSE v) > 0
    BY <1>6
  <2>3. Sum(p, n) = a + x /\ Sum(q, n) = b + y /\ Sum(l, n) = c + u /\ Sum(s, n) = d + v
    BY <1>6, <1>7, <2>1, <2>2
  <2>4. r * ((c + u) - (d + v)) = r * (c - d) + r * (u - v)
    OBVIOUS
  <2>5. (a + x) - (b + y) = r * ((c + u) - (d + v))
    <3>1. PICK e \in Int, f \in Int : e = r * (c - d) /\ f = r * (u - v)
      <4>1. r * (c - d) \in Int /\ r * (u - v) \in Int
        OBVIOUS
      <4> QED BY <4>1
    <3>2. a - b = e /\ x - y = f
      <4>1. a - b = r * (c - d)
        BY <2>1
      <4>2. x - y = r * (u - v)
        BY <2>2
      <4> QED BY <3>1, <4>1, <4>2
    <3>3. (a + x) - (b + y) = e + f
      BY <3>2
    <3> QED BY <2>4, <3>1, <3>3
  <2>6. a + x > 0 => (IF front = "LONG" THEN c + u ELSE d + v) > 0
    <3>1. (a > 0 => (IF front = "LONG" THEN c ELSE d) > 0) /\ (x > 0 => (IF front = "LONG" THEN u ELSE v) > 0)
      <4>1. a > 0 => (IF front = "LONG" THEN c ELSE d) > 0
        BY <2>1
      <4>2. x > 0 => (IF front = "LONG" THEN u ELSE v) > 0
        BY <2>2
      <4> QED BY <4>1, <4>2
    <3>2. CASE front = "LONG"
      BY <3>1, <3>2
    <3>3. CASE front # "LONG"
      BY <3>1, <3>3
    <3> QED BY <3>2, <3>3
  <2>7. n \in 0..N /\ a + x \in Nat /\ b + y \in Nat /\ c + u \in Nat /\ d + v \in Nat
    OBVIOUS
  <2>8. /\ Sum(p, n) \in Nat /\ Sum(q, n) \in Nat /\ Sum(l, n) \in Nat /\ Sum(s, n) \in Nat
        /\ Sum(p, n) > 0 => (IF front = "LONG" THEN Sum(l, n) ELSE Sum(s, n)) > 0
    BY <2>3, <2>6, <2>7
  <2>9. Sum(p, n) - Sum(q, n) = r * (Sum(l, n) - Sum(s, n))
    BY <2>3, <2>5
  <2> QED BY <2>7, <2>8, <2>9
<1>11. N \in Good
  <2> HIDE DEF Sum
  <2>1. Good \in SUBSET Nat
    OBVIOUS
  <2>2. \A n \in 1..N : n - 1 \in Good => n \in Good
    <3> HIDE DEF Good
    <3> QED BY <1>10
  <2>3. 0..N \subseteq Good
    <3> HIDE DEF Good
    <3> QED BY <1>9, <2>1, <2>2, UpTo
  <2>4. N \in 0..N
    OBVIOUS
  <2> QED BY <2>3, <2>4
<1>12. /\ PaidBy(list, m) = Sum(p, N) /\ ReceivedBy(list, m) = Sum(q, N)
       /\ Interest("LONG", list) = Sum(l, N) /\ Interest("SHORT", list) = Sum(s, N)
  <2>1. /\ [k \in 1..N |-> p[k]] = [k \in DOMAIN list |-> Paid(list[k], m)]
        /\ [k \in 1..N |-> q[k]] = [k \in DOMAIN list |-> Received(list[k], m)]
        /\ [k \in 1..N |-> l[k]] = [k \in DOMAIN list |-> SizeOn("LONG", list[k])]
        /\ [k \in 1..N |-> s[k]] = [k \in DOMAIN list |-> SizeOn("SHORT", list[k])]
    BY <1>2, <1>5
  <2> QED BY <2>1 DEF PaidBy, ReceivedBy, Interest
<1> HIDE DEF Sum
<1> QED BY <1>3, <1>4, <1>11, <1>12

\* No funding epoch yet.
LEMMA HistoryInitInv == LiquidationInit => HistoryInv
BY FundAssumption DEF LiquidationInit, HistoryInv

\* Every step of the engine keeps the invariant of the funding history.
LEMMA HistoryNextInv ==
  ASSUME HistoryInv, positions \in Seq(Contracts), [LiquidationNext]_liquidationVars
  PROVE  HistoryInv'
<1> USE DEF HistoryInv
<1>1. CASE \E m \in Marks : ProcessFundingEpoch(m)
  <2>1. PICK m \in Marks : ProcessFundingEpoch(m)
    BY <1>1
  <2>2. PICK e : e = [mark |-> m, rate |-> FundingRate(m), among |-> positions,
                      paid |-> PaidBy(positions, m), received |-> ReceivedBy(positions, m)]
    OBVIOUS
  <2>3. Len(history) < MaxEpochs /\ history' = <<e>> \o history
    BY <2>1, <2>2 DEF ProcessFundingEpoch, SumOver, PaidBy, ReceivedBy, Paid, Received
  <2>4. e \in [mark : Marks, rate : Int, among : Seq(Contracts), paid : Int, received : Int]
    BY <2>2, RateIs, PaymentsBalance
  <2>5. Len(history) \in Nat
    BY LenProperties
  <2>6. /\ history' \in Seq([mark : Marks, rate : Int, among : Seq(Contracts), paid : Int, received : Int])
        /\ Len(history') = Len(history) + 1
        /\ history'[1] = e /\ \A k \in 2..Len(history) + 1 : history'[k] = history[k - 1]
    <3>1. PICK S : S = [mark : Marks, rate : Int, among : Seq(Contracts), paid : Int, received : Int]
      OBVIOUS
    <3>2. PICK q, first, n : q = history /\ first = <<e>> /\ n = Len(history)
      OBVIOUS
    <3>3. q \in Seq(S) /\ n \in Nat /\ Len(q) = n /\ first \in Seq(S) /\ Len(first) = 1 /\ first[1] = e
      BY <2>4, <2>5, <3>1, <3>2
    <3>4. /\ first \o q \in Seq(S) /\ Len(first \o q) = 1 + n
          /\ \A k \in 1..1 + n : (first \o q)[k] = IF k <= 1 THEN first[k] ELSE q[k - 1]
      <4>1. /\ first \o q \in Seq(S) /\ Len(first \o q) = Len(first) + Len(q)
            /\ \A k \in 1..Len(first) + Len(q) : (first \o q)[k] = IF k <= Len(first) THEN first[k] ELSE q[k - Len(first)]
        BY <3>3, ConcatProperties
      <4>2. Len(first) = 1 /\ Len(q) = n
        BY <3>3
      <4> QED BY <4>1, <4>2
    <3>5. (first \o q)[1] = e /\ \A k \in 2..n + 1 : (first \o q)[k] = q[k - 1]
      BY <3>3, <3>4
    <3>6. history' = first \o q
      BY <2>3, <3>2
    <3> QED BY <3>1, <3>2, <3>3, <3>4, <3>5, <3>6
  <2>7. ASSUME NEW k \in 1..Len(history')
        PROVE  /\ history'[k].rate = FundingRate(history'[k].mark)
               /\ history'[k].paid = PaidBy(history'[k].among, history'[k].mark)
               /\ history'[k].received = ReceivedBy(history'[k].among, history'[k].mark)
    <3>1. CASE k = 1
      BY <2>2, <2>6, <3>1
    <3>2. CASE k # 1
      <4>1. k \in 2..Len(history) + 1 /\ k - 1 \in 1..Len(history)
        <5>1. PICK n \in Nat : n = Len(history)
          BY <2>5
        <5>2. k \in 1..n + 1
          BY <2>6, <5>1
        <5>3. k \in 2..n + 1 /\ k - 1 \in 1..n
          BY <3>2, <5>2
        <5> QED BY <5>1, <5>3
      <4> QED BY <2>6, <4>1
    <3> QED BY <3>1, <3>2
  <2>8. Len(history') <= MaxEpochs
    BY <2>3, <2>5, <2>6, FundAssumption
  <2> QED BY <2>6, <2>7, <2>8
<1>2. CASE UNCHANGED history
  BY <1>2
<1>3. ASSUME ~ \E m \in Marks : ProcessFundingEpoch(m) PROVE UNCHANGED history
  BY <1>3 DEF LiquidationNext, liquidationVars, Liquidate, RegisterOpenPosition, UnregisterPosition, ExecuteLiquidation,
     ProcessSocializedLoss, Assess, Scanned, ScanAtRiskPositions
<1> QED BY <1>1, <1>2, <1>3

\* The three parts of the engine's invariant; none reads what another writes but types.
EngineInv == ScanInv /\ FundInv /\ HistoryInv

\* The invariant of the liquidation engine holds throughout, for any positions, marks and scans.
THEOREM EngineInductive == LiquidationSpec => []EngineInv
<1>1. LiquidationInit => EngineInv
  BY ScanInitInv, FundInitInv, HistoryInitInv DEF EngineInv
<1>2. EngineInv /\ [LiquidationNext]_liquidationVars => EngineInv'
  <2> SUFFICES ASSUME EngineInv, [LiquidationNext]_liquidationVars PROVE EngineInv'
    OBVIOUS
  <2>1. executing \in Seq([c : Contracts, mark : Marks]) /\ positions \in Seq(Contracts)
    BY DEF EngineInv, FundInv, ScanInv, ScanTypeOK
  <2>2. \A k \in 1..Len(executing) : executing[k].c \in Contracts
    <3>1. \A k \in 1..Len(executing) : executing[k] \in [c : Contracts, mark : Marks]
      BY <2>1, ElementOfSeq
    <3> QED BY <3>1
  <2> QED BY <2>1, <2>2, ScanNextInv, FundNextInv, HistoryNextInv DEF EngineInv
<1> QED BY <1>1, <1>2, PTL DEF LiquidationSpec

\* A scan across its awaits reports every position at risk that stays and was not shifted past it, and none more
\* often than it was registered (liquidation_engine.ts:165).
THEOREM EveryScanIsFair == LiquidationSpec => []ScansAreFair
<1>1. ASSUME EngineInv PROVE ScansAreFair
  <2> USE <1>1 DEF EngineInv, ScanInv
  <2>1. ASSUME NEW s \in Scanners, scan[s].step = "done", ~scan[s].shifted, NEW c \in scan[s].stayed, AtRisk(c, scan[s].mark)
        PROVE  c \in ToSet(scan[s].out)
    <3>1. Reported(s, c)
      BY <2>1 DEF NoneOverlooked, InFront
    <3>2. DOMAIN scan[s].out = 1..Len(scan[s].out)
      BY ScanTypes, LenProperties
    <3> QED BY <3>1, <3>2 DEF Reported, ToSet
  <2>2. ASSUME NEW s \in Scanners, NEW c \in Contracts PROVE Count(c, scan[s].out) <= registrations[c]
    <3>1. Often(scan[s].out, c, 0) \in Nat /\ StillToReport(s, c) \in Nat /\ registrations[c] \in Nat /\ scan[s].out \in Seq(Contracts)
      BY ScanTypes
    <3>2. Often(scan[s].out, c, 0) = Count(c, scan[s].out)
      BY <3>1, OftenAll DEF Count
    <3>3. Often(scan[s].out, c, 0) + StillToReport(s, c) <= registrations[c]
      BY DEF ReportsBounded
    <3> QED BY <3>1, <3>2, <3>3
  <2> QED BY <2>1, <2>2 DEF ScansAreFair, ScanSeesWhatStayed, ScanSeesEachOnce
<1> QED BY <1>1, EngineInductive, PTL

\* The insurance fund is the penalties less the losses paid, one for each liquidation of a position that was due; of
\* funding, what one side pays the other receives up to the imbalance of the two.
THEOREM MoneyAddsUp == LiquidationSpec => []FundsAddUp
<1>1. ASSUME EngineInv PROVE FundsAddUp
  <2>1. LiquidationTypeOK
    <3>1. insurance.count \in 0..MaxLiquidations
      <4>1. insurance.count = Len(penalties) /\ Len(executing) + Len(penalties) <= MaxLiquidations
        BY <1>1 DEF EngineInv, FundInv
      <4>2. Len(executing) \in Nat /\ Len(penalties) \in Nat
        BY <1>1, LenProperties DEF EngineInv, FundInv
      <4> QED BY <4>1, <4>2, FundAssumption
    <3>2. insurance \in [balance : Nat, collected : Nat, paid : Nat, count : 0..MaxLiquidations]
      BY <1>1, <3>1 DEF EngineInv, FundInv
    <3>3. executing \in Seq([c : Contracts, mark : Marks]) /\ penalties \in Seq([c : Contracts, mark : Marks])
      BY <1>1 DEF EngineInv, FundInv
    <3>4. positions \in Seq(Contracts) /\ registrations \in [Contracts -> 0..MaxRegistrations]
      BY <1>1 DEF EngineInv, ScanInv, ScanTypeOK
    <3>5. scan \in [Scanners -> [step : {"idle", "walk", "done"}, at : Nat, mark : Marks \cup {0}, out : Seq(Contracts),
                            stayed : SUBSET Contracts, shifted : BOOLEAN]]
      BY <1>1 DEF EngineInv, ScanInv, ScanTypeOK, ScanRecords
    <3>6. Len(history) <= MaxEpochs
      BY <1>1 DEF EngineInv, HistoryInv
    <3> QED BY <3>2, <3>3, <3>4, <3>5, <3>6 DEF LiquidationTypeOK
  <2>2. InsuranceAddsUp
    <3>1. /\ insurance.balance + insurance.paid = insurance.collected
          /\ insurance.collected = PenaltySum(penalties) /\ insurance.count = Len(penalties)
          /\ \A k \in 1..Len(penalties) : Liquidatable(penalties[k].c, penalties[k].mark)
      BY <1>1 DEF EngineInv, FundInv
    <3>2. DOMAIN penalties = 1..Len(penalties)
      BY <1>1, LenProperties DEF EngineInv, FundInv
    <3> QED BY <3>1, <3>2 DEF InsuranceAddsUp, SumOver, PenaltySum, PenaltyAt
  <2>3. FundingBalances
    <3>1. DOMAIN history = 1..Len(history)
      BY <1>1, LenProperties DEF EngineInv, HistoryInv
    <3>2. ASSUME NEW k \in 1..Len(history)
          PROVE  /\ -MaxFunding * Index <= history[k].rate /\ history[k].rate <= MaxFunding * Index
                 /\ history[k].paid - history[k].received
                      = history[k].rate * history[k].mark * (Interest("LONG", history[k].among) - Interest("SHORT", history[k].among))
                 /\ history[k].paid > 0 => Interest(IF history[k].mark > Index THEN "LONG" ELSE "SHORT", history[k].among) > 0
      <4>1. history[k] \in [mark : Marks, rate : Int, among : Seq(Contracts), paid : Int, received : Int]
        BY <1>1, <3>2, ElementOfSeq DEF EngineInv, HistoryInv
      <4>2. /\ history[k].rate = FundingRate(history[k].mark)
            /\ history[k].paid = PaidBy(history[k].among, history[k].mark)
            /\ history[k].received = ReceivedBy(history[k].among, history[k].mark)
        BY <1>1, <3>2 DEF EngineInv, HistoryInv
      <4>3. history[k].mark \in Marks /\ history[k].among \in Seq(Contracts)
        BY <4>1
      <4> QED BY <4>2, <4>3, RateIs, PaymentsBalance
    <3> QED BY <3>1, <3>2 DEF FundingBalances, SumOver, Interest, SizeOn
  <2> QED BY <2>1, <2>2, <2>3 DEF FundsAddUp
<1> QED BY <1>1, EngineInductive, PTL

-----------------------------------------------------------------------------
(***************************************************************************)
(* SettlementEngine, for any batches, lengths, starts and shutdowns.       *)
(***************************************************************************)

Outcome == {"confirmed", "failed", "thrown"}

\* What the engine will be when all initialize and shutdown calls that are
\* about to resume have done so: if on, it has a client by now.
EndsConnected ==
  connector => IF resuming = <<>> THEN initialized => lucid
               ELSE resuming[Len(resuming)] = "start" => lucid

\* A batch that has confirmed a match since the engine stopped is between
\* matches, unless the engine runs again.
LateIsBetween ==
  \A b \in Batches : /\ late[b] <= 1
                     /\ late[b] = 1 => initialized \/ at[b] \in {"idle", "call", "done"}

\* batchSettle's try around each settleTrade: a batch has an answer for each of its matches when it ends, and not before.
AnswersInTime ==
  \A b \in Batches : /\ Len(outcomes[b]) <= BatchLen
                     /\ (at[b] = "done") = (Len(outcomes[b]) = BatchLen)

\* Whatever is in the mempool or on the ledger has been accepted.
NodeIsHonest == \A b \in Batches : mempool[b] \cup anchored[b] \subseteq accepted[b]

\* Only with a connector is a transaction built.
BuildsWithConnector == \A b \in Batches : at[b] \in {"build", "sign", "submit"} => connector

SettlementInv ==
  /\ SettlementTypeOK /\ connecting <= starts /\ BuildsWithConnector
  /\ EndsConnected /\ LateIsBetween
  /\ AnswersInTime
  /\ NodeIsHonest /\ AnswersAreTrue

\* The engine starts offline, with no batch.
LEMMA InitSettlementInv == SettlementInit => SettlementInv
<1> SUFFICES ASSUME SettlementInit PROVE SettlementInv
  OBVIOUS
<1>1. SettlementTypeOK /\ connecting <= starts /\ BuildsWithConnector
  <2>1. resuming \in Seq({"start", "stop"}) /\ outcomes \in [Batches -> Seq({"confirmed", "failed", "thrown"})]
    BY DEF SettlementInit
  <2>2. /\ at \in [Batches -> Places] /\ late \in [Batches -> Nat]
        /\ accepted \in [Batches -> SUBSET (1..BatchLen)]
        /\ mempool \in [Batches -> SUBSET (1..BatchLen)] /\ anchored \in [Batches -> SUBSET (1..BatchLen)]
    BY DEF SettlementInit, Places
  <2>3. /\ connecting \in 0..MaxStarts /\ starts \in 0..MaxStarts /\ shutdowns \in 0..MaxShutdowns
        /\ connecting <= starts
    BY BatchesAssumption DEF SettlementInit
  <2>4. connector \in BOOLEAN /\ initialized \in BOOLEAN /\ lucid \in BOOLEAN
    BY DEF SettlementInit
  <2>5. BuildsWithConnector
    BY DEF SettlementInit, BuildsWithConnector
  <2> QED BY <2>1, <2>2, <2>3, <2>4, <2>5 DEF SettlementTypeOK
<1>2. \A b \in Batches : Len(outcomes[b]) = 0 /\ DOMAIN outcomes[b] = {} /\ at[b] = "idle"
  BY DEF SettlementInit
<1>3. EndsConnected /\ LateIsBetween
  BY DEF SettlementInit, EndsConnected, LateIsBetween
<1>4. AnswersInTime
  BY <1>2, BatchesAssumption DEF AnswersInTime
<1>5. NodeIsHonest /\ AnswersAreTrue
  BY <1>2 DEF NodeIsHonest, AnswersAreTrue, Answer, SettlementInit
<1> QED BY <1>1, <1>3, <1>4, <1>5 DEF SettlementInv

-----------------------------------------------------------------------------
\* initialize and shutdown do not touch the batches.
LEMMA EngineKeeps ==
  ASSUME SettlementInv, EngineInitialize \/ Connected \/ ConnectFails \/ EngineShutdown \/ EngineResume
  PROVE  SettlementInv'
<1> USE DEF SettlementInv
<1>1. AnswersInTime' /\ NodeIsHonest' /\ AnswersAreTrue' /\ BuildsWithConnector'
  BY DEF AnswersInTime, BuildsWithConnector, NodeIsHonest, AnswersAreTrue, Answer, nodeVars,
         EngineInitialize, Connected, ConnectFails, EngineShutdown, EngineResume
<1>2. LateIsBetween'
  BY DEF LateIsBetween, SettlementTypeOK,
         EngineInitialize, Connected, ConnectFails, EngineShutdown, EngineResume
<1>3. (SettlementTypeOK /\ connecting <= starts)'
  <2>1. resuming' \in Seq({"start", "stop"})
    <3>1. resuming \in Seq({"start", "stop"})
      BY DEF SettlementTypeOK
    <3>2. /\ Append(resuming, "start") \in Seq({"start", "stop"})
          /\ Append(resuming, "stop") \in Seq({"start", "stop"})
          /\ resuming # <<>> => Tail(resuming) \in Seq({"start", "stop"})
      BY <3>1
    <3> QED BY <3>1, <3>2 DEF EngineInitialize, Connected, ConnectFails, EngineShutdown, EngineResume
  <2>2. late' \in [Batches -> Nat]
    BY DEF SettlementTypeOK, EngineInitialize, Connected, ConnectFails, EngineShutdown, EngineResume
  <2>3. /\ connecting' \in 0..MaxStarts /\ starts' \in 0..MaxStarts /\ shutdowns' \in 0..MaxShutdowns
        /\ connecting' <= starts'
    BY BatchesAssumption
       DEF SettlementTypeOK, EngineInitialize, Connected, ConnectFails, EngineShutdown, EngineResume
  <2>4. /\ connector' \in BOOLEAN /\ initialized' \in BOOLEAN /\ lucid' \in BOOLEAN
        /\ UNCHANGED <<at, outcomes, accepted, mempool, anchored>>
    BY DEF SettlementTypeOK, nodeVars, EngineInitialize, Connected, ConnectFails, EngineShutdown, EngineResume
  <2> QED BY <2>1, <2>2, <2>3, <2>4 DEF SettlementTypeOK
<1>4. EndsConnected'
  <2> USE DEF SettlementTypeOK, EndsConnected
  <2>1. CASE EngineInitialize
    BY <2>1 DEF EngineInitialize
  <2>2. CASE Connected
    <3>1. lucid' = TRUE
      BY <2>2 DEF Connected
    <3> QED BY <3>1
  <2>3. CASE ConnectFails
    BY <2>3 DEF ConnectFails
  <2>4. CASE EngineShutdown
    <3>1. resuming \in Seq({"start", "stop"}) /\ resuming' = Append(resuming, "stop")
      BY <2>4 DEF EngineShutdown
    <3>2. Len(resuming') = Len(resuming) + 1 /\ resuming'[Len(resuming) + 1] = "stop" /\ Len(resuming) \in Nat
      BY <3>1, AppendProperties, LenProperties
    <3>3. resuming' # <<>>
      <4>1. Len(resuming') # 0
        BY <3>2
      <4> QED BY <4>1, EmptySeq
    <3> QED BY <3>2, <3>3
  <2>5. CASE EngineResume
    <3>1. CASE Len(resuming) = 1
      <4>1. resuming' = <<>> /\ Head(resuming) = resuming[Len(resuming)]
        <5>1. resuming \in Seq({"start", "stop"}) /\ resuming # <<>> /\ resuming' = Tail(resuming)
          BY <2>5 DEF EngineResume
        <5>2. Len(resuming') = 0 /\ resuming' \in Seq({"start", "stop"})
          BY <3>1, <5>1, HeadTailProperties
        <5> QED BY <3>1, <5>1, <5>2, EmptySeq, HeadTailProperties
      <4>2. connector /\ initialized' => lucid'
        BY <2>5, <4>1 DEF EngineResume
      <4> QED BY <2>5, <4>1, <4>2 DEF EngineResume
    <3>2. CASE Len(resuming) # 1
      <4>1. resuming' # <<>> /\ resuming'[Len(resuming')] = resuming[Len(resuming)]
        <5>1. resuming \in Seq({"start", "stop"}) /\ resuming # <<>> /\ resuming' = Tail(resuming)
          BY <2>5 DEF EngineResume
        <5>2. Len(resuming) \in Nat /\ Len(resuming) > 1 /\ Len(resuming') = Len(resuming) - 1
          <6>1. Len(resuming) \in Nat /\ Len(resuming) # 0
            BY <5>1, LenProperties, EmptySeq
          <6>2. Len(Tail(resuming)) = Len(resuming) - 1
            BY <5>1, HeadTailProperties
          <6> QED BY <3>2, <5>1, <6>1, <6>2
        <5>3. resuming'[Len(resuming) - 1] = resuming[Len(resuming)]
          BY <5>1, <5>2, HeadTailProperties
        <5> QED BY <5>2, <5>3
      <4> QED BY <2>5, <4>1 DEF EngineResume
    <3> QED BY <3>1, <3>2
  <2> QED BY <2>1, <2>2, <2>3, <2>4, <2>5
<1> QED BY <1>1, <1>2, <1>3, <1>4

\* What a step of a batch to another place of the same match keeps.
LEMMA GoesToKeeps ==
  ASSUME SettlementInv, NEW b \in Batches, NEW place \in Places \ {"done"}, GoesTo(b, place),
         at[b] # "done", late[b] = 1 => initialized \/ place \in {"idle", "call"},
         place \in {"build", "sign", "submit"} => connector,
         UNCHANGED <<engineVars, nodeVars>>
  PROVE  SettlementInv'
<1> USE DEF SettlementInv, GoesTo, engineVars, nodeVars
<1>1. at' \in [Batches -> Places] /\ \A c \in Batches : (at'[c] = "done") = (at[c] = "done")
  BY DEF SettlementTypeOK
<1>2. SettlementTypeOK' /\ (connecting <= starts)' /\ BuildsWithConnector'
  BY <1>1 DEF SettlementTypeOK, BuildsWithConnector
<1>3. EndsConnected' /\ NodeIsHonest' /\ AnswersAreTrue'
  BY DEF EndsConnected, NodeIsHonest, AnswersAreTrue, Answer
<1>4. AnswersInTime'
  BY <1>1 DEF AnswersInTime
<1>5. LateIsBetween'
  BY DEF LateIsBetween, SettlementTypeOK
<1> QED BY <1>2, <1>3, <1>4, <1>5

\* What the end of a match keeps: with a connector, a confirmed one has just
\* been accepted, and an accepted one does not end as thrown.
LEMMA EndsKeeps ==
  ASSUME SettlementInv, NEW b \in Batches, NEW o \in Outcome, Ends(b, o), UNCHANGED engineVars,
         at[b] # "done", at[b] = "call" => o # "confirmed",
         at[b] # "idle",
         NEW k, k = Len(outcomes[b]) + 1,
         \/ Accepted(b) /\ connector /\ o # "thrown"
         \/ UNCHANGED nodeVars /\ (connector => o # "confirmed")
  PROVE  SettlementInv'
<1> USE DEF SettlementInv, engineVars, nodeVars
<1>1. k \in 1..BatchLen /\ Len(outcomes[b]) \in Nat /\ k = Len(outcomes[b]) + 1
  BY BatchesAssumption DEF SettlementTypeOK, AnswersInTime
<1>2. /\ outcomes' = [outcomes EXCEPT ![b] = Append(@, o)]
      /\ outcomes' \in [Batches -> Seq(Outcome)]
      /\ Len(outcomes'[b]) = k
  BY <1>1 DEF Ends, SettlementTypeOK, Outcome
<1>3. /\ at' = [at EXCEPT ![b] = IF k = BatchLen THEN "done" ELSE "call"]
      /\ at' \in [Batches -> Places]
  BY <1>1 DEF Ends, SettlementTypeOK, Places
<1>4. /\ late' \in [Batches -> Nat] /\ accepted' \in [Batches -> SUBSET (1..BatchLen)]
      /\ mempool' \in [Batches -> SUBSET (1..BatchLen)] /\ anchored' \in [Batches -> SUBSET (1..BatchLen)]
  <2>1. late' \in [Batches -> Nat]
    BY DEF Ends, SettlementTypeOK
  <2>2. accepted' \in [Batches -> SUBSET (1..BatchLen)] /\ mempool' \in [Batches -> SUBSET (1..BatchLen)]
    <3>1. accepted \in [Batches -> SUBSET (1..BatchLen)] /\ mempool \in [Batches -> SUBSET (1..BatchLen)]
      BY DEF SettlementTypeOK
    <3>2. PICK more \in SUBSET (1..BatchLen) :
            /\ accepted' = [accepted EXCEPT ![b] = @ \cup more]
            /\ mempool' = [mempool EXCEPT ![b] = @ \cup more]
      <4>1. CASE Accepted(b)
        BY <1>1, <4>1 DEF Accepted
      <4>2. CASE UNCHANGED nodeVars
        <5>1. /\ accepted' = [accepted EXCEPT ![b] = @ \cup {}]
              /\ mempool' = [mempool EXCEPT ![b] = @ \cup {}]
          <6>1. accepted' = accepted /\ mempool' = mempool
            BY <4>2
          <6> HIDE DEF nodeVars
          <6> QED BY <3>1, <6>1, Zenon
        <5> QED BY <5>1
      <4> QED BY <4>1, <4>2
    <3> QED BY <3>1, <3>2
  <2>3. anchored' \in [Batches -> SUBSET (1..BatchLen)]
    BY DEF SettlementTypeOK, Accepted
  <2> QED BY <2>1, <2>2, <2>3
<1>5. SettlementTypeOK' /\ (connecting <= starts)'
  BY <1>2, <1>3, <1>4 DEF SettlementTypeOK, Ends, Outcome
<1>10. BuildsWithConnector'
  BY <1>3 DEF BuildsWithConnector, Ends, SettlementTypeOK
<1>6. EndsConnected'
  BY DEF EndsConnected, Ends
<1>7. AnswersInTime' /\ NodeIsHonest'
  <2>1. AnswersInTime'
    BY <1>1, <1>2, <1>3, BatchesAssumption DEF AnswersInTime, SettlementTypeOK
  <2>2. NodeIsHonest'
    BY DEF NodeIsHonest, SettlementTypeOK, Accepted
  <2> QED BY <2>1, <2>2
<1>8. LateIsBetween'
  <2> SUFFICES ASSUME NEW c \in Batches
      PROVE  late'[c] <= 1 /\ (late'[c] = 1 => initialized \/ at'[c] \in {"idle", "call", "done"})
    BY DEF LateIsBetween
  <2>1. CASE c # b
    BY <2>1, <1>3 DEF LateIsBetween, Ends, SettlementTypeOK
  <2>2. CASE c = b
    <3>1. at'[b] \in {"call", "done"}
      BY <1>3 DEF SettlementTypeOK
    <3>2. late[b] \in Nat /\ late[b] <= 1 /\ (o = "confirmed" /\ ~initialized => late[b] = 0)
      BY DEF LateIsBetween, SettlementTypeOK, Places
    <3>3. late'[b] = late[b] + (IF o = "confirmed" /\ ~initialized THEN 1 ELSE 0)
      BY DEF Ends, SettlementTypeOK
    <3> QED BY <2>2, <3>1, <3>2, <3>3
  <2> QED BY <2>1, <2>2
<1>9. AnswersAreTrue'
  <2> SUFFICES ASSUME NEW c \in Batches, NEW i \in 1..BatchLen
      PROVE  /\ connector /\ Answer(c, i)' = "confirmed" => i \in accepted'[c]
             /\ i \in accepted'[c] => connector /\ Answer(c, i)' \in {"confirmed", "failed"}
    BY <1>7 DEF AnswersAreTrue, Ends, NodeIsHonest
  <2>0. /\ connector /\ Answer(c, i) = "confirmed" => i \in accepted[c]
        /\ i \in accepted[c] => connector /\ Answer(c, i) \in {"confirmed", "failed"}
    BY DEF AnswersAreTrue
  <2>1. CASE c # b
    <3>1. outcomes'[c] = outcomes[c] /\ accepted'[c] = accepted[c]
      BY <2>1, <1>2 DEF SettlementTypeOK, Accepted
    <3> QED BY <2>0, <3>1 DEF Answer
  <2>2. CASE c = b /\ i # k
    <3>1. (i \in accepted'[b]) = (i \in accepted[b])
      BY <1>1, <2>2 DEF SettlementTypeOK, Accepted
    <3>2. (i \in DOMAIN outcomes'[b]) = (i \in DOMAIN outcomes[b])
      BY <1>1, <1>2, <2>2 DEF SettlementTypeOK
    <3>3. i \in DOMAIN outcomes[b] => outcomes'[b][i] = outcomes[b][i]
      BY <1>1, <1>2, <2>2 DEF SettlementTypeOK
    <3> QED BY <2>0, <2>2, <3>1, <3>2, <3>3 DEF Answer
  <2>3. CASE c = b /\ i = k
    <3>1. Answer(c, i)' = o
      BY <1>1, <1>2, <2>3 DEF SettlementTypeOK, Answer
    <3>2. Answer(c, i) = "none"
      BY <1>1, <2>3 DEF SettlementTypeOK, Answer
    <3>3. i \notin accepted[c]
      BY <2>0, <3>2
    <3>4. Accepted(b) => i \in accepted'[c]
      BY <2>3 DEF SettlementTypeOK, Accepted
    <3> QED BY <2>3, <3>1, <3>3, <3>4 DEF Outcome
  <2> QED BY <2>1, <2>2, <2>3
<1> QED BY <1>5, <1>6, <1>7, <1>8, <1>9, <1>10

\* What the mempool lets go had been accepted, and blocks take nothing else.
LEMMA NodeKeeps ==
  ASSUME SettlementInv, NEW b \in Batches, NEW k \in mempool[b], Included(b, k) \/ Dropped(b, k)
  PROVE  SettlementInv'
<1> USE DEF SettlementInv, Included, Dropped, Leaves, engineVars
<1>1. k \in 1..BatchLen /\ k \in accepted[b]
  BY DEF SettlementTypeOK, NodeIsHonest
<1>8. mempool \in [Batches -> SUBSET (1..BatchLen)] /\ anchored \in [Batches -> SUBSET (1..BatchLen)]
  BY DEF SettlementTypeOK
<1>9. mempool' = [mempool EXCEPT ![b] = @ \ {k}]
  OBVIOUS
<1>10. anchored' = [anchored EXCEPT ![b] = @ \cup {k}] \/ anchored' = anchored
  OBVIOUS
<1>2. mempool' \in [Batches -> SUBSET (1..BatchLen)] /\ anchored' \in [Batches -> SUBSET (1..BatchLen)]
  BY ONLY <1>1, <1>8, <1>9, <1>10, b \in Batches
<1>3. SettlementTypeOK' /\ (connecting <= starts)'
  BY <1>2 DEF SettlementTypeOK
<1>4. EndsConnected' /\ LateIsBetween' /\ AnswersInTime'
  BY DEF EndsConnected, LateIsBetween, AnswersInTime
<1>7. BuildsWithConnector'
  BY DEF BuildsWithConnector
<1>5. NodeIsHonest'
  <2>1. UNCHANGED accepted
    OBVIOUS
  <2>2. ASSUME NEW c \in Batches PROVE mempool'[c] \subseteq mempool[c]
    BY ONLY <1>8, <1>9, <2>2
  <2>3. ASSUME NEW c \in Batches PROVE anchored'[c] \subseteq anchored[c] \cup mempool[c]
    BY ONLY <1>8, <1>10, <2>3, k \in mempool[b]
  <2> QED BY <2>1, <2>2, <2>3 DEF NodeIsHonest
<1>6. AnswersAreTrue'
  <2>1. /\ UNCHANGED <<connector, outcomes, accepted>>
        /\ \A c \in Batches : mempool'[c] \cup anchored'[c] \subseteq accepted[c]
    BY <1>5 DEF NodeIsHonest
  <2> QED BY <2>1 DEF AnswersAreTrue, Answer
<1> QED BY <1>3, <1>4, <1>5, <1>6, <1>7

\* A batch only moves on from places that a late one is not at.
LEMMA BatchKeeps ==
  ASSUME SettlementInv, NEW b \in Batches,
         BatchSettle(b) \/ SettleTrade(b) \/ Awake(b) \/ Built(b) \/ Signed(b) \/ Submitted(b)
  PROVE  SettlementInv'
<1> DEFINE k == Len(outcomes[b]) + 1
<1>1. CASE \E place \in Places \ {"done"} :
             /\ GoesTo(b, place) /\ at[b] # "done" /\ UNCHANGED <<engineVars, nodeVars>>
             /\ late[b] = 1 => initialized \/ place \in {"idle", "call"}
             /\ place \in {"build", "sign", "submit"} => connector
  BY <1>1, GoesToKeeps
<1>2. CASE \E o \in Outcome :
             /\ Ends(b, o) /\ UNCHANGED engineVars /\ at[b] \notin {"idle", "done"}
             /\ at[b] = "call" => o # "confirmed"
             /\ \/ Accepted(b) /\ connector /\ o # "thrown"
                \/ UNCHANGED nodeVars /\ (connector => o # "confirmed")
  BY <1>2, EndsKeeps
<1>3. late[b] = 1 => initialized \/ at[b] \in {"idle", "call", "done"}
  BY DEF SettlementInv, LateIsBetween
<1>10. at[b] \in {"build", "sign", "submit"} => connector
  BY DEF SettlementInv, BuildsWithConnector
<1>4. CASE BatchSettle(b)
  BY <1>1, <1>4 DEF BatchSettle, Places
<1>5. CASE SettleTrade(b)
  BY <1>1, <1>2, <1>5 DEF SettleTrade, Places, Outcome
<1>6. CASE Awake(b)
  BY <1>1, <1>2, <1>3, <1>6 DEF Awake, Places, Outcome
<1>7. CASE Built(b)
  BY <1>1, <1>2, <1>3, <1>7, <1>10 DEF Built, Places, Outcome
<1>8. CASE Signed(b)
  BY <1>1, <1>2, <1>3, <1>8, <1>10 DEF Signed, Places, Outcome
<1>9. CASE Submitted(b)
  BY <1>2, <1>9, <1>10 DEF Submitted, Outcome
<1> QED BY <1>4, <1>5, <1>6, <1>7, <1>8, <1>9

\* Every step of the settlement engine keeps its invariant.
LEMMA NextSettlementInv == SettlementInv /\ [SettlementNext]_settlementVars => SettlementInv'
<1> SUFFICES ASSUME SettlementInv, [SettlementNext]_settlementVars PROVE SettlementInv'
  OBVIOUS
<1>1. CASE SettlementNext
  BY <1>1, EngineKeeps, BatchKeeps, NodeKeeps DEF SettlementNext
<1>2. CASE UNCHANGED settlementVars
  BY <1>2 DEF settlementVars, nodeVars, SettlementInv, SettlementTypeOK, EndsConnected, LateIsBetween,
              BuildsWithConnector, AnswersInTime, NodeIsHonest, AnswersAreTrue, Answer
<1> QED BY <1>1, <1>2

\* The invariant holds of every behaviour.
THEOREM SettlementInductive == SettlementSpec => []SettlementInv
BY InitSettlementInv, NextSettlementInv, PTL DEF SettlementSpec

\* However initialize and shutdown overlap, an engine that is on, and not
\* about to be turned off, has its connection.
THEOREM RunningIsConnected == SettlementSpec => []OnlineIsConnected
<1>1. SettlementInv => OnlineIsConnected
  <2> SUFFICES ASSUME SettlementInv, connector, initialized,
                      "stop" \notin {resuming[k] : k \in DOMAIN resuming}
      PROVE  lucid
    BY DEF OnlineIsConnected
  <2>1. CASE resuming = <<>>
    BY <2>1 DEF SettlementInv, EndsConnected
  <2>2. CASE resuming # <<>>
    <3>1. Len(resuming) \in DOMAIN resuming /\ resuming[Len(resuming)] \in {"start", "stop"}
      BY <2>2 DEF SettlementInv, SettlementTypeOK
    <3>2. resuming[Len(resuming)] = "start"
      BY <3>1
    <3> QED BY <2>2, <3>2 DEF SettlementInv, EndsConnected
  <2> QED BY <2>1, <2>2
<1> QED BY <1>1, SettlementInductive, PTL

\* After a shutdown a batch confirms at most the match it was about.
THEOREM AtMostOneLate == SettlementSpec => []OneLateConfirmation
<1>1. SettlementInv => OneLateConfirmation
  BY DEF SettlementInv, LateIsBetween, OneLateConfirmation
<1> QED BY <1>1, SettlementInductive, PTL

\* What settleTrade reports as confirmed through a connector is what the node has accepted, and of what it threw before
\* the submit the node has nothing and blocks will have nothing; that a confirmed match is on the ledger is not so
\* (settlement_engine.ts:83-95).
THEOREM BatchesAnswer == SettlementSpec => []AnswersAreTrue
<1>1. SettlementInv => AnswersAreTrue
  BY DEF SettlementInv
<1> QED BY <1>1, SettlementInductive, PTL

-----------------------------------------------------------------------------
(***************************************************************************)
(* SealedVault, for any clients, keys and versions: no update is lost,     *)
(* because a copy of the stored version is a copy of the stored content.   *)
(***************************************************************************)

\* What was read of the state x since the last encryptState is not newer than
\* the store, and of the same version only if it has the same content.
Past(x) ==
  /\ x.era \in 1..encrypts
  /\ x.era = encrypts => /\ x.version <= store.version
                         /\ x.version = store.version => x.content = store.content

VaultInv ==
  /\ VaultTypeOK
  /\ store.found => encrypts >= 1
  /\ \A c \in Clients : /\ copy[c].held => Past(copy[c])
                        /\ querying[c].open => Past(querying[c])
  /\ NoUpdateLost

\* The vault is empty.
LEMMA InitVaultInv == VaultInit => VaultInv
<1> SUFFICES ASSUME VaultInit PROVE VaultInv
  OBVIOUS
<1>1. (CHOOSE k \in Keys : TRUE) \in Keys
  BY KeysAssumption
<1>2. VaultTypeOK
  BY <1>1, VaultBoundsAssumption DEF VaultInit, VaultTypeOK, NoPlaintext, NoQuery
<1> QED BY <1>2 DEF VaultInit, VaultInv, NoPlaintext, NoQuery, NoUpdateLost

\* A new entry begins an era that no copy and no query is of.
LEMMA EncryptKeeps ==
  ASSUME VaultInv, NEW k \in Keys, NEW v \in {0, 1}, EncryptState(v, k)
  PROVE  VaultInv'
<1> USE DEF VaultInv, EncryptState
<1>1. VaultTypeOK'
  BY VaultBoundsAssumption DEF VaultTypeOK
<1>2. ASSUME NEW c \in Clients
      PROVE  (copy[c].held => Past(copy[c]))' /\ (querying[c].open => Past(querying[c]))'
  BY VaultBoundsAssumption DEF Past, VaultTypeOK
<1>3. NoUpdateLost' /\ (store.found => encrypts >= 1)'
  BY DEF NoUpdateLost, VaultTypeOK
<1> QED BY <1>1, <1>2, <1>3

\* A query reads, and waits for the decryption.
LEMMA QueryKeeps ==
  ASSUME VaultInv, NEW c \in Clients, NEW k \in Keys, QueryState(c, k)
  PROVE  VaultInv'
<1> USE DEF VaultInv, QueryState
<1>1. VaultTypeOK'
  BY DEF VaultTypeOK
<1>2. ASSUME NEW d \in Clients
      PROVE  (copy[d].held => Past(copy[d]))' /\ (querying[d].open => Past(querying[d]))'
  <2>1. (copy[d].held => Past(copy[d]))'
    BY DEF Past, VaultTypeOK
  <2>2. CASE d = c
    BY <2>1, <2>2 DEF Past, VaultTypeOK
  <2>3. CASE d # c
    BY <2>1, <2>3 DEF Past, VaultTypeOK
  <2> QED BY <2>2, <2>3
<1> QED BY <1>1, <1>2 DEF NoUpdateLost

\* A record comes back from decryption.
LEMMA DecryptedKeeps ==
  ASSUME VaultInv, NEW c \in Clients, Decrypted(c)
  PROVE  VaultInv'
<1> USE DEF VaultInv, Decrypted
<1>1. VaultTypeOK'
  <2>1. querying' \in [Clients -> [open : BOOLEAN, version : 0..MaxVersion, content : SUBSET Clients,
                                  era : 0..MaxEncrypts, fits : BOOLEAN]]
    BY VaultBoundsAssumption DEF VaultTypeOK, NoQuery
  <2>2. copy' \in [Clients -> [held : BOOLEAN, version : 0..MaxVersion, content : SUBSET Clients,
                              era : 0..MaxEncrypts]]
    BY DEF VaultTypeOK
  <2> QED BY <2>1, <2>2 DEF VaultTypeOK
<1>2. ASSUME NEW d \in Clients
      PROVE  (copy[d].held => Past(copy[d]))' /\ (querying[d].open => Past(querying[d]))'
  <2>1. CASE d = c
    BY <2>1 DEF Past, VaultTypeOK, NoQuery
  <2>2. CASE d # c
    BY <2>2 DEF Past, VaultTypeOK, NoQuery
  <2> QED BY <2>1, <2>2
<1> QED BY <1>1, <1>2 DEF NoUpdateLost

\* The update works on the stored content, for in the first era its copy is
\* of the stored version, and makes every other copy an older one.
LEMMA UpdateKeeps ==
  ASSUME VaultInv, NEW c \in Clients, NEW k \in Keys, UpdateEncryptedState(c, k)
  PROVE  VaultInv'
<1> USE DEF VaultInv, UpdateEncryptedState
<1>1. VaultTypeOK'
  BY VaultBoundsAssumption DEF VaultTypeOK, NoPlaintext
<1>2. store'.version = store.version + 1 /\ store.version \in Nat
  BY DEF VaultTypeOK
<1>3. ASSUME NEW d \in Clients
      PROVE  (copy[d].held => Past(copy[d]))' /\ (querying[d].open => Past(querying[d]))'
  <2>1. (querying[d].open => Past(querying[d]))'
    BY <1>2 DEF Past, VaultTypeOK
  <2>2. CASE d = c
    BY <2>1, <2>2 DEF VaultTypeOK, NoPlaintext
  <2>3. CASE d # c
    BY <1>2, <2>1, <2>3 DEF Past, VaultTypeOK
  <2> QED BY <2>2, <2>3
<1>4. NoUpdateLost'
  <2> SUFFICES ASSUME encrypts <= 1 PROVE store'.content = added'
    BY DEF NoUpdateLost
  <2>1. copy[c].era = encrypts
    BY DEF Past, VaultTypeOK
  <2>2. copy[c].content = added
    BY <2>1 DEF Past, NoUpdateLost
  <2> QED BY <2>2
<1> QED BY <1>1, <1>2, <1>3, <1>4

\* Every step of the vault keeps its invariant.
LEMMA NextVaultInv == VaultInv /\ [VaultNext]_vaultVars => VaultInv'
<1> SUFFICES ASSUME VaultInv, [VaultNext]_vaultVars PROVE VaultInv'
  OBVIOUS
<1>1. CASE \E k \in Keys, v \in {0, 1} : EncryptState(v, k)
  BY <1>1, EncryptKeeps
<1>2. CASE \E k \in Keys, c \in Clients : QueryState(c, k)
  BY <1>2, QueryKeeps
<1>3. CASE \E k \in Keys, c \in Clients : UpdateEncryptedState(c, k)
  BY <1>3, UpdateKeeps
<1>4. CASE \E c \in Clients : Decrypted(c)
  BY <1>4, DecryptedKeeps
<1>5. CASE UNCHANGED vaultVars
  BY <1>5 DEF VaultInv, VaultTypeOK, Past, NoUpdateLost, vaultVars
<1> QED BY <1>1, <1>2, <1>3, <1>4, <1>5 DEF VaultNext

\* The invariant holds of every behaviour.
THEOREM VaultInductive == VaultSpec => []VaultInv
BY InitVaultInv, NextVaultInv, PTL DEF VaultSpec

\* updateEncryptedState tests the version and stores without an await between
\* them: what any client added is still there, however clients interleave.
THEOREM UpdatesKept == VaultSpec => []NoUpdateLost
<1>1. VaultInv => NoUpdateLost
  BY DEF VaultInv
<1> QED BY <1>1, VaultInductive, PTL

\* A version names one content: a decrypted copy of the version that is
\* stored is a copy of what is stored.
THEOREM VersionsNameContents == VaultSpec => []VersionNamesContent
<1>1. VaultInv => VersionNamesContent
  BY DEF VaultInv, VersionNamesContent, Past
<1> QED BY <1>1, VaultInductive, PTL

=============================================================================
