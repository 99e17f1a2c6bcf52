--------------------------- MODULE TradeApiProofs ---------------------------
(***************************************************************************)
(* Theorems about TradeApi, for every set of requests and payloads, every  *)
(* pool size and any number of crashes.  Types, the flag and the limits of *)
(* executions: for every traffic and both sweep modes.  What each order    *)
(* has in the venue: without rest-only calls, in both sweep modes up to    *)
(* the first batch that has both settled and restored something.           *)
(***************************************************************************)
EXTENDS TradeApi, ListsAndSums

-----------------------------------------------------------------------------
(* Lemmas about the operators of RestingBook.                              *)

\* Removing a position from a sequence leaves a sequence over the same set.
LEMMA RemoveAtType ==
  ASSUME NEW S, NEW b \in Seq(S), NEW i \in DOMAIN b
  PROVE  /\ RemoveAt(b, i) \in Seq(S)
         /\ Len(RemoveAt(b, i)) = Len(b) - 1
<1>1. i \in 1..Len(b) /\ Len(b) \in Nat
  BY LenProperties
<1>2. SubSeq(b, 1, i-1) \in Seq(S) /\ Len(SubSeq(b, 1, i-1)) = i - 1
  <2>1. \A k \in 1..i-1 : b[k] \in S
    BY <1>1, ElementOfSeq
  <2>2. 1 \in 1..Len(b)+1 /\ i-1 \in 0..Len(b)
    BY <1>1
  <2> QED BY <1>1, <2>1, <2>2, SubSeqProperties
<1>3. SubSeq(b, i+1, Len(b)) \in Seq(S) /\ Len(SubSeq(b, i+1, Len(b))) = Len(b) - i
  <2>1. \A k \in i+1..Len(b) : b[k] \in S
    BY <1>1, ElementOfSeq
  <2>2. i+1 \in 1..Len(b)+1 /\ Len(b) \in 0..Len(b)
    BY <1>1
  <2> QED BY <1>1, <2>1, <2>2, SubSeqProperties
<1> DEFINE front == SubSeq(b, 1, i-1)
           back  == SubSeq(b, i+1, Len(b))
<1>4. front \o back \in Seq(S) /\ Len(front \o back) = Len(front) + Len(back)
  <2>1. front \in Seq(S) /\ back \in Seq(S)
    BY <1>2, <1>3
  <2> HIDE DEF front, back
  <2> QED BY <2>1, ConcatProperties
<1>5. RemoveAt(b, i) = front \o back
  BY DEF RemoveAt
<1>6. Len(front \o back) = Len(b) - 1
  <2>1. Len(front) = i - 1 /\ Len(back) = Len(b) - i
    BY <1>2, <1>3
  <2>2. (i - 1) + (Len(b) - i) = Len(b) - 1
    BY <1>1
  <2> HIDE DEF front, back
  <2> QED BY <1>4, <2>1, <2>2
<1> QED BY <1>4, <1>5, <1>6

\* The smaller of two sizes is a size no larger than either.
LEMMA SmallerType ==
  ASSUME NEW m \in Nat, NEW n \in Nat
  PROVE  /\ Smaller(m, n) \in Nat
         /\ Smaller(m, n) <= m /\ Smaller(m, n) <= n
  BY DEF Smaller

\* What sizeStr writes is a size.
LEMMA SizeStrType ==
  ASSUME NEW q \in Nat
  PROVE  SizeStr(q) \in Nat
<1>1. Grain \in Nat \ {0}
  BY GrainAssumption
<1>2. (2 * q + Grain) \in Nat /\ (2 * Grain) \in Nat \ {0}
  BY <1>1
<1>3. \A a \in Nat, b \in Nat \ {0} : a \div b \in Nat
  OBVIOUS
<1>4. (2 * q + Grain) \div (2 * Grain) \in Nat
  BY <1>2, <1>3
<1>5. \A a, b \in Nat : a * b \in Nat
  OBVIOUS
<1> QED BY <1>1, <1>4, <1>5 DEF SizeStr

\* With a grain of one, sizeStr writes a size as it is.
LEMMA SizeStrIs ==
  ASSUME Grain = 1, NEW q \in Nat
  PROVE  SizeStr(q) = q
<1>1. SizeStr(q) = 1 * ((2 * q + 1) \div (2 * 1))
  BY DEF SizeStr
<1>2. (2 * q + 1) \div 2 = q
  OBVIOUS
<1> QED BY <1>1, <1>2

\* Sets of orders that stay closed when an order is partially filled.
Resizable(S) ==
  /\ S \subseteq Order
  /\ \A o \in S, q \in Nat \ {0} : [o EXCEPT !.size = SizeStr(q)] \in S

\* An order whose size is set to another size is still an order.
LEMMA OrderResizable == Resizable(Order)
<1>1. ASSUME NEW o \in Order, NEW q \in Nat \ {0} PROVE [o EXCEPT !.size = SizeStr(q)] \in Order
  <2>1. SizeStr(q) \in Nat
    BY SizeStrType
  <2> QED BY <2>1 DEF Order
<1> QED BY <1>1 DEF Resizable

\* Filling a maker in place keeps the book a sequence over the same set.
LEMMA ConsumeType ==
  ASSUME NEW S, Resizable(S), NEW b \in Seq(S), NEW i \in DOMAIN b,
         NEW q \in Nat, q <= b[i].size
  PROVE  Consume(b, i, q) \in Seq(S)
<1>1. i \in 1..Len(b) /\ b[i] \in S
  BY LenProperties, ElementOfSeq
<1>2. b[i].size \in Nat
  BY <1>1 DEF Resizable, Order
<1>3. CASE q = b[i].size
  BY <1>3, RemoveAtType DEF Consume
<1>4. CASE q # b[i].size
  <2> DEFINE o == [b[i] EXCEPT !.size = SizeStr(b[i].size - q)]
  <2>1. b[i].size - q \in Nat \ {0}
    BY <1>2, <1>4
  <2>2. o \in S
    BY <1>1, <2>1 DEF Resizable
  <2>3. [b EXCEPT ![i] = o] \in Seq(S)
    <3> HIDE DEF o
    <3> QED BY <1>1, <2>2, ExceptSeq
  <2>4. Consume(b, i, q) = [b EXCEPT ![i] = o]
    BY <1>4 DEF Consume
  <2> QED BY <2>3, <2>4
<1> QED BY <1>3, <1>4

\* What is left of an order is a sequence of at most one order of the set.
LEMMA RestType ==
  ASSUME NEW S, Resizable(S), NEW o \in S, NEW q \in Nat
  PROVE  Rest(o, q) \in Seq(S)
<1>1. o.size \in Nat
  BY DEF Resizable, Order
<1>2. CASE o.size > q
  <2>1. o.size - q \in Nat \ {0}
    BY <1>1, <1>2
  <2>2. [o EXCEPT !.size = SizeStr(o.size - q)] \in S
    BY <2>1 DEF Resizable
  <2> QED BY <1>2, <2>2 DEF Rest
<1>3. CASE ~ (o.size > q)
  BY <1>3, EmptySeq DEF Rest
<1> QED BY <1>2, <1>3

\* Taking two orders out and pushing what is left of them does, too.
LEMMA CrossType ==
  ASSUME NEW S, Resizable(S), NEW b \in Seq(S),
         NEW l \in DOMAIN b, NEW s \in DOMAIN b, l # s
  PROVE  Cross(b, l, s) \in Seq(S)
<1> DEFINE q      == Smaller(b[l].size, b[s].size)
           others == IF l < s THEN RemoveAt(RemoveAt(b, s), l)
                              ELSE RemoveAt(RemoveAt(b, l), s)
<1>1. /\ DOMAIN b = 1..Len(b) /\ Len(b) \in Nat
      /\ b[l] \in S /\ b[s] \in S
  BY LenProperties, ElementOfSeq
<1>2. q \in Nat
  BY <1>1, SmallerType DEF Resizable, Order
<1>3. others \in Seq(S)
  <2>1. CASE l < s
    <3>1. RemoveAt(b, s) \in Seq(S) /\ Len(RemoveAt(b, s)) = Len(b) - 1
      BY RemoveAtType
    <3>2. l \in DOMAIN RemoveAt(b, s)
      BY <1>1, <2>1, <3>1, LenProperties
    <3> QED BY <2>1, <3>1, <3>2, RemoveAtType
  <2>2. CASE ~ (l < s)
    <3>1. RemoveAt(b, l) \in Seq(S) /\ Len(RemoveAt(b, l)) = Len(b) - 1
      BY RemoveAtType
    <3>2. s \in DOMAIN RemoveAt(b, l)
      BY <1>1, <2>2, <3>1, LenProperties
    <3> QED BY <2>2, <3>1, <3>2, RemoveAtType
  <2> QED BY <2>1, <2>2
<1>4. Rest(b[l], q) \in Seq(S) /\ Rest(b[s], q) \in Seq(S)
  <2> HIDE DEF q
  <2> QED BY <1>1, <1>2, RestType
<1>5. Cross(b, l, s) = others \o Rest(b[l], q) \o Rest(b[s], q)
  BY DEF Cross
<1> QED
  <2> HIDE DEF q, others
  <2>1. others \o Rest(b[l], q) \in Seq(S)
    BY <1>3, <1>4, ConcatProperties
  <2> QED BY <1>4, <1>5, <2>1, ConcatProperties

-----------------------------------------------------------------------------
(* Types of the handlers' locals.                                          *)

\* The locals of a handler that has not arrived or has replied are a frame.
LEMMA NoFrameType == NoFrame \in Frame
  BY EmptySeq DEF NoFrame, Frame, PC

\* Moving on with well-typed locals keeps the handlers well-typed.
LEMMA GotoType ==
  ASSUME TypeOK, NEW r \in Req, NEW n \in PC, NEW f \in Frame, Goto(r, n, f)
  PROVE  /\ pc' \in [Req -> PC]
         /\ frame' \in [Req -> Frame]
         /\ tradePipelineInFlight' \in BOOLEAN
  BY NoFrameType DEF TypeOK, Goto

\* Executions have the type Fill.
LEMMA TakerFillType ==
  ASSUME NEW r \in Req, NEW t \in Requests, NEW m \in Order
  PROVE  TakerFill(r, t, m) \in Fill
<1>1. SizeStr(Smaller(t.size, m.size)) \in Nat
  BY SmallerType, SizeStrType DEF Requests, Order
<1> QED BY <1>1 DEF TakerFill, Fill, Requests, Order

\* The execution of a resting cross has the type Fill, too.
LEMMA CrossFillType ==
  ASSUME NEW l \in Order, NEW s \in Order
  PROVE  CrossFill(l, s) \in Fill
<1>1. SizeStr(Smaller(l.size, s.size)) \in Nat
  BY SmallerType, SizeStrType DEF Order
<1> QED BY <1>1 DEF CrossFill, Fill, Order

\* Where a handler goes on after a write.
AfterWrite == {"pipe", "rollback", "sweep", "cross", "conflict", "error", "ok"}

\* What a handler's place p says of its request x and its locals f.
Fits(p, x, f) ==
  /\ p = "new" => x = NoRequest
  /\ p = "cli" => x = RunAll
  /\ p \in Awaits \ {"cli"} => x \in Requests /\ x.kind \in {"submit", "rest"}
  /\ p \in {"open", "land"} => f.next \in AfterWrite
  /\ p \in {"snap", "match"} => f.rem = x.size
  /\ p \in {"new", "snap", "match"} => f.done = 0
  /\ p \in {"stamp", "add"} => f.rem > 0
  /\ f.slot # <<>> => p = "join" \/ (p \in {"open", "land"} /\ f.next = "error")
  /\ f.done + Len(f.slot) <= Len(f.fills)

HandlersFit == \A r \in Req : Fits(pc[r], req[r], frame[r])

IInv == TypeOK /\ HandlersFit

\* The empty book and handlers that have not arrived satisfy the invariant.
LEMMA InitIInv == Init => IInv
<1> SUFFICES ASSUME Init PROVE IInv
  OBVIOUS
<1>1. TypeOK
  BY NoFrameType, EmptySeq DEF Init, TypeOK, FileStates, PC
<1>2. HandlersFit
  BY EmptySeq DEF Init, HandlersFit, Fits, NoFrame, Awaits
<1> QED BY <1>1, <1>2 DEF IInv

\* A handler that moves on to a place its locals fit disturbs nothing.
LEMMA GotoKeeps ==
  ASSUME IInv, NEW r \in Req, NEW n \in PC \ {"new"}, NEW f \in Frame,
         n \in Awaits => Fits(n, req[r], f),
         Goto(r, n, f), req' = req
  PROVE  /\ pc' \in [Req -> PC]
         /\ frame' \in [Req -> Frame]
         /\ tradePipelineInFlight' \in BOOLEAN
         /\ HandlersFit'
<1>1. TypeOK /\ HandlersFit
  BY DEF IInv
<1>2. /\ pc' = [pc EXCEPT ![r] = n]
      /\ frame' = [frame EXCEPT ![r] = IF n \in Replies THEN NoFrame ELSE f]
  BY DEF Goto
<1>3. Fits(n, req[r], IF n \in Replies THEN NoFrame ELSE f)
  <2>1. CASE n \in Awaits
    BY <2>1 DEF Awaits, Replies
  <2>2. CASE n \in Replies
    BY <2>2, EmptySeq DEF Fits, NoFrame, Awaits, Replies
  <2> QED BY <2>1, <2>2 DEF PC
<1>4. HandlersFit'
  <2> SUFFICES ASSUME NEW q \in Req PROVE Fits(pc'[q], req'[q], frame'[q])
    BY DEF HandlersFit
  <2>1. CASE q = r
    BY <1>1, <1>2, <1>3, <2>1 DEF TypeOK
  <2>2. CASE q # r
    BY <1>1, <1>2, <2>2 DEF TypeOK, HandlersFit
  <2> QED BY <2>1, <2>2
<1> QED BY <1>1, <1>4, GotoType

\* The same for a handler that starts a write it can go on from.
LEMMA WriteKeeps ==
  ASSUME IInv, NEW r \in Req, pc[r] \in Awaits \ {"cli"},
         NEW b \in Seq(Order), NEW n \in AfterWrite, NEW f \in Frame,
         f.slot # <<>> => n = "error",
         f.done + Len(f.slot) <= Len(f.fills),
         WriteStore(r, b, n, f), req' = req
  PROVE  /\ pc' \in [Req -> PC]
         /\ frame' \in [Req -> Frame]
         /\ tradePipelineInFlight' \in BOOLEAN
         /\ HandlersFit'
<1> DEFINE g == [f EXCEPT !.buf = b, !.next = n]
<1>1. n \in PC
  BY DEF AfterWrite, PC, Awaits, Replies
<1>2. /\ g \in Frame /\ g.next = n
      /\ g.slot = f.slot /\ g.done = f.done /\ g.fills = f.fills
  BY <1>1 DEF Frame
<1>3. req[r] \in Requests /\ req[r].kind \in {"submit", "rest"}
  BY DEF IInv, HandlersFit, Fits
<1>4. Fits("open", req[r], g)
  <2> HIDE DEF g
  <2> QED BY <1>2, <1>3 DEF Fits
<1>5. "open" \in PC \ {"new"}
  BY DEF PC, Awaits
<1>6. Goto(r, "open", g)
  BY DEF WriteStore
<1> QED
  <2> HIDE DEF g
  <2> QED BY <1>2, <1>4, <1>5, <1>6, GotoKeeps

-----------------------------------------------------------------------------
(* Every step keeps IInv.                                                  *)

\* Arrivals keep it: they set a request, its quantity to rest and the flag.
LEMMA ArriveIInv ==
  ASSUME IInv, NEW r \in Req, Arrive(r)
  PROVE  IInv'
<1>1. TypeOK /\ HandlersFit
  BY DEF IInv
<1>2. CASE Invalid(r) \/ Busy(r)
  <2>1. TypeOK'
    BY <1>1, <1>2 DEF Invalid, Busy, BookUnchanged, GhostUnchanged, TypeOK, PC,
       Replies
  <2>2. HandlersFit'
    <3>1. /\ req' = req /\ frame' = frame /\ pc[r] = "new" /\ pc'[r] \in {"invalid", "busy"}
          /\ \A q \in Req \ {r} : pc'[q] = pc[q]
      BY <1>1, <1>2 DEF Invalid, Busy, TypeOK
    <3>2. \A q \in Req : Fits(pc[q], req[q], frame[q])
      BY <1>1 DEF HandlersFit
    <3>3. Fits(pc'[r], req[r], frame[r])
      BY <3>1, <3>2 DEF Fits, Awaits
    <3> QED BY <3>1, <3>2, <3>3 DEF HandlersFit
  <2> QED BY <2>1, <2>2 DEF IInv
<1>3. ASSUME NEW kind \in {"submit", "rest"}, NEW p \in Payloads,
             pc[r] = "new",
             req' = [req EXCEPT ![r] = Body(kind, p)],
             frame' = [frame EXCEPT ![r].rem = p.size],
             pc' = [pc EXCEPT ![r] = "snap"],
             tradePipelineInFlight' \in BOOLEAN,
             UNCHANGED clock, BookUnchanged, GhostUnchanged
      PROVE  IInv'
  <2>1. Body(kind, p) \in Requests /\ Body(kind, p).kind = kind
        /\ Body(kind, p).size = p.size /\ p.size \in Nat
    BY PayloadsAssumption DEF Body, Requests, AllKinds, Pairs
  <2>2. frame'[r] = [frame[r] EXCEPT !.rem = p.size] /\ frame[r] \in Frame
    BY <1>1, <1>3 DEF TypeOK
  <2>3. /\ frame'[r] \in Frame /\ frame'[r].rem = p.size
        /\ frame'[r].slot = frame[r].slot /\ frame'[r].done = frame[r].done
        /\ frame'[r].fills = frame[r].fills
    BY <2>1, <2>2 DEF Frame
  <2>4. TypeOK'
    <3>1. frame' \in [Req -> Frame]
      BY <1>1, <1>3, <2>3 DEF TypeOK
    <3>2. pc' \in [Req -> PC] /\ req' \in [Req -> Requests \cup {NoRequest, RunAll}]
      BY <1>1, <1>3, <2>1 DEF TypeOK, PC, Awaits
    <3> QED BY <1>1, <1>3, <3>1, <3>2 DEF TypeOK, BookUnchanged, GhostUnchanged
  <2>5. frame[r].slot = <<>> /\ frame[r].done = 0
    BY <1>1, <1>3 DEF HandlersFit, Fits
  <2>6. Fits(pc'[r], req'[r], frame'[r])
    BY <1>1, <1>3, <2>1, <2>3, <2>5 DEF TypeOK, HandlersFit, Fits, Awaits
  <2>7. \A q \in Req \ {r} : Fits(pc'[q], req'[q], frame'[q])
    BY <1>1, <1>3 DEF TypeOK, HandlersFit
  <2> QED BY <2>4, <2>6, <2>7 DEF IInv, HandlersFit
<1>4. CASE Submit(r)
  BY <1>3, <1>4 DEF Submit
<1>5. CASE RestOnly(r)
  BY <1>1, <1>3, <1>5 DEF RestOnly, TypeOK
<1>6. CASE RunAllStart(r)
  <2>1. TypeOK'
    BY <1>1, <1>6 DEF RunAllStart, BookUnchanged, GhostUnchanged, TypeOK, PC,
       Awaits
  <2>2. HandlersFit'
    BY <1>1, <1>6 DEF RunAllStart, TypeOK, HandlersFit, Fits, Awaits
  <2> QED BY <2>1, <2>2 DEF IInv
<1> QED BY <1>2, <1>4, <1>5, <1>6 DEF Arrive

\* The actions that read or write the book but run no pipeline.
LEMMA BookStepIInv ==
  ASSUME IInv, NEW r \in Req,
         \/ RunAllEnd(r) \/ OpenFile(r) \/ FileWritten(r) \/ Snapshot(r)
         \/ Match(r) \/ NoMatch(r) \/ Rollback(r) \/ Stamp(r) \/ Add(r)
  PROVE  IInv'
<1>1. TypeOK /\ HandlersFit /\ Fits(pc[r], req[r], frame[r])
  BY DEF IInv, HandlersFit
<1>2. frame[r] \in Frame /\ pc[r] \in PC
  BY <1>1 DEF TypeOK
<1>3. CASE RunAllEnd(r)
  <2>1. PICK code \in {"ok", "error"} : Goto(r, code, frame[r])
    BY <1>3 DEF RunAllEnd
  <2>2. code \in PC \ {"new"} /\ code \notin Awaits
    BY <2>1 DEF PC, Replies, Awaits
  <2> QED BY <1>1, <1>2, <1>3, <2>1, <2>2, GotoKeeps
          DEF RunAllEnd, BookUnchanged, GhostUnchanged, TypeOK, IInv
<1>4. CASE OpenFile(r)
  <2>1. TypeOK'
    BY <1>1, <1>4, EmptySeq DEF OpenFile, GhostUnchanged, TypeOK, PC, Awaits,
       FileStates
  <2>2. HandlersFit'
    BY <1>1, <1>4 DEF OpenFile, TypeOK, HandlersFit, Fits, Awaits
  <2> QED BY <2>1, <2>2 DEF IInv
<1>5. CASE FileWritten(r)
  <2>1. frame[r].next \in AfterWrite /\ frame[r].buf \in Seq(Order)
    BY <1>1, <1>2, <1>5 DEF FileWritten, Fits, Frame
  <2>2. frame[r].next \in PC \ {"new"}
    BY <2>1 DEF AfterWrite, PC, Awaits, Replies
  <2>3. req[r] \in Requests /\ req[r].kind \in {"submit", "rest"}
    BY <1>1, <1>5 DEF FileWritten, Fits, Awaits
  <2>4. frame[r].next \in Awaits => Fits(frame[r].next, req[r], frame[r])
    BY <1>1, <1>5, <2>1, <2>3 DEF FileWritten, Fits, AfterWrite, Awaits
  <2>5. book' \in Seq(Order) /\ file' \in FileStates
    BY <1>5, <2>1, EmptySeq DEF FileWritten, Land, FileStates
  <2> QED BY <1>1, <1>2, <1>5, <2>2, <2>4, <2>5, GotoKeeps
          DEF FileWritten, GhostUnchanged, TypeOK, IInv
<1>6. CASE Snapshot(r)
  <2> DEFINE f == [frame[r] EXCEPT !.snap = book]
  <2>1. /\ f \in Frame /\ f.rem = frame[r].rem /\ f.done = frame[r].done
        /\ f.slot = frame[r].slot /\ f.fills = frame[r].fills
    BY <1>1, <1>2 DEF Frame, TypeOK
  <2>2. Fits("match", req[r], f)
    <3> HIDE DEF f
    <3> QED BY <1>1, <1>6, <2>1 DEF Snapshot, Fits, Awaits
  <2>3. "match" \in PC \ {"new"} /\ Goto(r, "match", f)
    BY <1>6 DEF PC, Awaits, Snapshot
  <2> HIDE DEF f
  <2> QED BY <1>1, <1>6, <2>1, <2>2, <2>3, GotoKeeps
          DEF Snapshot, BookUnchanged, GhostUnchanged, TypeOK, IInv
<1>7. CASE Match(r)
  <2>1. PICK i \in Matches(book, req[r]) :
          LET q == Smaller(req[r].size, book[i].size)
          IN  WriteStore(r, Consume(book, i, q),
                         IF req[r].kind = "submit" THEN "pipe" ELSE "rollback",
                         [frame[r] EXCEPT !.rem = @ - q,
                            !.fills = <<TakerFill(r, req[r], book[i])>>])
    BY <1>7 DEF Match
  <2> DEFINE q    == Smaller(req[r].size, book[i].size)
             fill == TakerFill(r, req[r], book[i])
             f    == [frame[r] EXCEPT !.rem = frame[r].rem - q, !.fills = <<fill>>]
             n    == IF req[r].kind = "submit" THEN "pipe" ELSE "rollback"
  <2>2. i \in DOMAIN book /\ book[i] \in Order
    BY <1>1, LenProperties, ElementOfSeq DEF Matches, Makers, Eligible, TypeOK
  <2>3. req[r] \in Requests /\ pc[r] \in Awaits \ {"cli"}
    BY <1>1, <1>7 DEF Match, Fits, Awaits
  <2>4. /\ fill \in Fill
        /\ q \in Nat /\ q <= req[r].size /\ q <= book[i].size
    BY <2>2, <2>3, TakerFillType, SmallerType DEF Requests, Order
  <2>5. Consume(book, i, q) \in Seq(Order)
    BY <1>1, <2>2, <2>4, ConsumeType, OrderResizable DEF TypeOK
  <2>6. frame[r].rem = req[r].size /\ frame[r].done = 0 /\ frame[r].slot = <<>>
    BY <1>1, <1>7 DEF Match, Fits
  <2>7. <<fill>> \in Seq(Fill) /\ Len(<<fill>>) = 1
    <3> HIDE DEF fill
    <3> QED BY <2>4
  <2>8. frame[r].rem - q \in Nat
    BY <2>3, <2>4, <2>6 DEF Requests
  <2>9. /\ f \in Frame /\ f.done = 0 /\ f.slot = <<>>
        /\ Len(f.fills) = 1 /\ n \in AfterWrite
    <3> HIDE DEF fill, q
    <3> QED BY <1>2, <2>6, <2>7, <2>8 DEF Frame, AfterWrite
  <2>10. WriteStore(r, Consume(book, i, q), n, f)
    BY <2>1
  <2> HIDE DEF f, n, fill, q
  <2>11. f.done + Len(f.slot) <= Len(f.fills)
    BY <2>9, EmptySeq
  <2>12. req' = req
    BY <1>7 DEF Match
  <2> QED BY <1>1, <1>7, <2>3, <2>5, <2>9, <2>10, <2>11, <2>12, WriteKeeps
          DEF Match, BookUnchanged, GhostUnchanged, TypeOK, IInv
<1>8. CASE NoMatch(r)
  <2>1. Fits("stamp", req[r], frame[r])
    BY <1>1, <1>8 DEF NoMatch, Fits, Awaits, Requests
  <2>2. "stamp" \in PC \ {"new"}
    BY DEF PC, Awaits
  <2> QED BY <1>1, <1>2, <1>8, <2>1, <2>2, GotoKeeps
          DEF NoMatch, BookUnchanged, GhostUnchanged, TypeOK, IInv
<1>9. CASE Rollback(r)
  <2>1. frame[r].slot = <<>> /\ frame[r].snap \in Seq(Order)
        /\ frame[r].done + Len(frame[r].slot) <= Len(frame[r].fills)
    BY <1>1, <1>2, <1>9 DEF Rollback, Fits, Frame
  <2>2. "conflict" \in AfterWrite /\ pc[r] \in Awaits \ {"cli"}
    BY <1>9 DEF AfterWrite, Rollback, Awaits
  <2> QED BY <1>1, <1>2, <1>9, <2>1, <2>2, WriteKeeps
          DEF Rollback, BookUnchanged, GhostUnchanged, TypeOK, IInv
<1>10. CASE Stamp(r)
  <2>1. PICK t \in {clock, clock + 1} :
          clock' = t /\ Goto(r, "add", [frame[r] EXCEPT !.at = t])
    BY <1>10 DEF Stamp
  <2> DEFINE f == [frame[r] EXCEPT !.at = t]
  <2>2. t \in Nat
    BY <1>1 DEF TypeOK
  <2>3. /\ f \in Frame /\ f.rem = frame[r].rem /\ f.done = frame[r].done
        /\ f.slot = frame[r].slot /\ f.fills = frame[r].fills
    BY <1>2, <2>2 DEF Frame
  <2>4. Goto(r, "add", f) /\ "add" \in PC \ {"new"}
    BY <2>1 DEF PC, Awaits
  <2> HIDE DEF f
  <2>5. Fits("add", req[r], f)
    BY <1>1, <1>10, <2>3 DEF Stamp, Fits, Awaits
  <2> QED BY <1>1, <1>10, <2>1, <2>2, <2>3, <2>4, <2>5, GotoKeeps
          DEF Stamp, BookUnchanged, GhostUnchanged, TypeOK, IInv
<1>11. CASE Add(r)
  <2>1. req[r] \in Requests /\ frame[r].rem \in Nat \ {0} /\ frame[r].at \in Nat
    BY <1>1, <1>2, <1>11 DEF Add, Fits, Awaits, Frame
  <2>2. NewOrder(r) \in Order
    <3>1. SizeStr(frame[r].rem) \in Nat
      BY <2>1, SizeStrType
    <3> QED BY <2>1, <3>1 DEF NewOrder, Order, Requests
  <2>3. Append(book, NewOrder(r)) \in Seq(Order)
    BY <1>1, <2>2, AppendProperties DEF TypeOK
  <2>4. frame[r].slot = <<>>
        /\ frame[r].done + Len(frame[r].slot) <= Len(frame[r].fills)
    BY <1>1, <1>11 DEF Add, Fits
  <2>5. /\ (IF req[r].kind = "submit" THEN "sweep" ELSE "ok") \in AfterWrite
        /\ pc[r] \in Awaits \ {"cli"}
    BY <1>11 DEF AfterWrite, Add, Awaits
  <2> QED BY <1>1, <1>2, <1>11, <2>3, <2>4, <2>5, WriteKeeps
          DEF Add, BookUnchanged, GhostUnchanged, TypeOK, IInv
<1> QED BY <1>3, <1>4, <1>5, <1>6, <1>7, <1>8, <1>9, <1>10, <1>11

\* The actions of a sweep.
LEMMA SweepStepIInv ==
  ASSUME IInv, NEW r \in Req,
         SweepStart(r) \/ SweepCross(r) \/ SweepCollected(r) \/ Pull(r)
  PROVE  IInv'
<1>1. TypeOK /\ HandlersFit /\ Fits(pc[r], req[r], frame[r])
  BY DEF IInv, HandlersFit
<1>2. frame[r] \in Frame /\ pc[r] \in PC
  BY <1>1 DEF TypeOK
<1>3. CASE SweepStart(r)
  <2> DEFINE f == [frame[r] EXCEPT !.snap = book, !.fills = <<>>, !.done = 0,
                                   !.phase = "sweep"]
  <2>1. f \in Frame /\ f.done = 0 /\ f.slot = frame[r].slot /\ f.fills = <<>>
    BY <1>1, <1>2, EmptySeq DEF Frame, TypeOK
  <2>2. Goto(r, "cross", f) /\ "cross" \in PC \ {"new"}
    BY <1>3 DEF SweepStart, PC, Awaits
  <2> HIDE DEF f
  <2>3. Fits("cross", req[r], f)
    BY <1>1, <1>3, <2>1, EmptySeq DEF SweepStart, Fits, Awaits
  <2> QED BY <1>1, <1>3, <2>1, <2>2, <2>3, GotoKeeps
          DEF SweepStart, BookUnchanged, GhostUnchanged, TypeOK, IInv
<1>4. CASE SweepCross(r)
  <2>1. PICK x \in Crosses(book, SweepPair) :
          LET fill == CrossFill(book[x[1]], book[x[2]])
          IN  WriteStore(r, Cross(book, x[1], x[2]),
                         IF ParallelSweep THEN "cross" ELSE "pipe",
                         [frame[r] EXCEPT !.fills = Append(@, fill)])
    BY <1>4 DEF SweepCross
  <2> DEFINE l    == x[1]
             s    == x[2]
             fill == CrossFill(book[l], book[s])
             f    == [frame[r] EXCEPT !.fills = Append(frame[r].fills, fill)]
             n    == IF ParallelSweep THEN "cross" ELSE "pipe"
  <2>2. /\ l \in DOMAIN book /\ s \in DOMAIN book
        /\ book[l].side = "long" /\ book[s].side = "short"
    BY DEF Crosses, Bests
  <2>3. l # s
    BY <2>2
  <2>4. book[l] \in Order /\ book[s] \in Order
    BY <1>1, <2>2, LenProperties, ElementOfSeq DEF TypeOK
  <2>5. Cross(book, l, s) \in Seq(Order)
    <3> HIDE DEF l, s
    <3> QED BY <1>1, <2>2, <2>3, CrossType, OrderResizable DEF TypeOK
  <2>6. fill \in Fill
    BY <2>4, CrossFillType
  <2>7. /\ Append(frame[r].fills, fill) \in Seq(Fill)
        /\ Len(Append(frame[r].fills, fill)) = Len(frame[r].fills) + 1
    <3>1. frame[r].fills \in Seq(Fill)
      BY <1>2 DEF Frame
    <3> HIDE DEF fill
    <3> QED BY <2>6, <3>1, AppendProperties
  <2>8. /\ f \in Frame /\ f.done = frame[r].done /\ f.slot = frame[r].slot
        /\ Len(f.fills) = Len(frame[r].fills) + 1 /\ n \in AfterWrite
    <3> HIDE DEF fill
    <3> QED BY <1>2, <2>7 DEF Frame, AfterWrite
  <2>9. WriteStore(r, Cross(book, l, s), n, f)
    BY <2>1
  <2> HIDE DEF l, s, fill, f, n
  <2>10. frame[r].slot = <<>> /\ frame[r].done <= Len(frame[r].fills)
    <3>1. frame[r].slot = <<>> /\ frame[r].done \in Nat
      BY <1>1, <1>2, <1>4 DEF SweepCross, Fits, Frame
    <3>2. frame[r].done + Len(frame[r].slot) <= Len(frame[r].fills)
      BY <1>1 DEF Fits
    <3> QED BY <3>1, <3>2
  <2>11. f.done + Len(f.slot) <= Len(f.fills) /\ Len(frame[r].fills) \in Nat
    BY <1>2, <2>8, <2>10, EmptySeq, LenProperties DEF Frame
  <2>12. pc[r] \in Awaits \ {"cli"} /\ req' = req
    BY <1>4 DEF SweepCross, Awaits
  <2> QED BY <1>1, <1>4, <2>5, <2>8, <2>9, <2>10, <2>11, <2>12, WriteKeeps
          DEF SweepCross, BookUnchanged, GhostUnchanged, TypeOK, IInv
<1>5. CASE SweepCollected(r)
  <2> DEFINE f == [frame[r] EXCEPT !.phase = "batch"]
  <2>1. f \in Frame /\ f.done = frame[r].done /\ f.slot = frame[r].slot
        /\ f.fills = frame[r].fills
    BY <1>2 DEF Frame
  <2>2. \/ Goto(r, "ok", frame[r]) \/ Goto(r, "pipe", frame[r])
        \/ Goto(r, "pull", f)
    BY <1>5 DEF SweepCollected
  <2>3. /\ {"ok", "pipe", "pull"} \subseteq PC \ {"new"}
        /\ "ok" \notin Awaits
    BY DEF PC, Awaits, Replies
  <2> HIDE DEF f
  <2>4. Fits("pipe", req[r], frame[r]) /\ Fits("pull", req[r], f)
    BY <1>1, <1>5, <2>1 DEF SweepCollected, Fits, Awaits
  <2> QED BY <1>1, <1>2, <1>5, <2>1, <2>2, <2>3, <2>4, GotoKeeps
          DEF SweepCollected, BookUnchanged, GhostUnchanged, TypeOK, IInv
<1>6. CASE Pull(r)
  <2>1. Fits("pipe", req[r], frame[r]) /\ "pipe" \in PC \ {"new"}
    BY <1>1, <1>6 DEF Pull, Fits, Awaits, PC
  <2>2. frame[r].slot = <<>> /\ frame[r].snap \in Seq(Order)
        /\ frame[r].done + Len(frame[r].slot) <= Len(frame[r].fills)
    BY <1>1, <1>2, <1>6 DEF Pull, Fits, Frame
  <2>3. "error" \in AfterWrite /\ pc[r] \in Awaits \ {"cli"} /\ req' = req
    BY <1>6 DEF AfterWrite, Pull, Awaits
  <2>4. CASE Goto(r, "pipe", frame[r])
    BY <1>1, <1>2, <1>6, <2>1, <2>3, <2>4, GotoKeeps
       DEF Pull, BookUnchanged, GhostUnchanged, TypeOK, IInv
  <2>5. CASE WriteStore(r, frame[r].snap, "error", frame[r])
    BY <1>1, <1>2, <1>6, <2>2, <2>3, <2>5, WriteKeeps
       DEF Pull, BookUnchanged, GhostUnchanged, TypeOK, IInv
  <2> QED BY <1>6, <2>4, <2>5 DEF Pull
<1> QED BY <1>3, <1>4, <1>5, <1>6

\* Setting a pipeline's slot keeps the types and the fit of all handlers.
LEMMA SetSlotKeeps ==
  ASSUME IInv, NEW r \in Req, NEW i \in DOMAIN frame[r].slot,
         NEW st \in SlotStates, pc[r] = "join", SetSlot(r, i, st),
         pc' = pc, req' = req
  PROVE  frame' \in [Req -> Frame] /\ HandlersFit'
<1>1. /\ TypeOK /\ HandlersFit /\ Fits(pc[r], req[r], frame[r])
      /\ frame[r] \in Frame
  BY DEF IInv, HandlersFit, TypeOK
<1> DEFINE s == [frame[r].slot EXCEPT ![i] = st]
           f == [frame[r] EXCEPT !.slot = s]
<1>2. s \in Seq(SlotStates) /\ Len(s) = Len(frame[r].slot)
  <2>1. frame[r].slot \in Seq(SlotStates)
    BY <1>1 DEF Frame
  <2>2. i \in 1..Len(frame[r].slot)
    BY <2>1, LenProperties
  <2> QED BY <2>1, <2>2, ExceptSeq
<1>3. frame' = [frame EXCEPT ![r] = f]
  BY DEF SetSlot
<1> HIDE DEF s
<1>4. f \in Frame /\ f.slot = s /\ f.done = frame[r].done
      /\ f.fills = frame[r].fills
  BY <1>1, <1>2 DEF Frame
<1> HIDE DEF f
<1>5. frame' \in [Req -> Frame]
  BY <1>1, <1>3, <1>4 DEF TypeOK
<1>6. Fits("join", req[r], f)
  BY <1>1, <1>2, <1>4 DEF Fits
<1>7. HandlersFit'
  BY <1>1, <1>3, <1>6 DEF TypeOK, HandlersFit
<1> QED BY <1>5, <1>7

\* The actions of pipelines.
LEMMA PipelineStepIInv ==
  ASSUME IInv, NEW r \in Req,
         PipelineStart(r) \/ Pipeline(r) \/ JoinFailed(r) \/ JoinOk(r)
  PROVE  IInv'
<1>1. TypeOK /\ HandlersFit /\ Fits(pc[r], req[r], frame[r])
  BY DEF IInv, HandlersFit
<1>2. /\ frame[r] \in Frame /\ pc[r] \in PC
      /\ frame[r].slot \in Seq(SlotStates) /\ frame[r].fills \in Seq(Fill)
      /\ frame[r].snap \in Seq(Order)
      /\ frame[r].done \in Nat /\ frame[r].rem \in Nat
      /\ Len(frame[r].slot) \in Nat /\ Len(frame[r].fills) \in Nat
      /\ frame[r].done + Len(frame[r].slot) <= Len(frame[r].fills)
  BY <1>1, LenProperties DEF TypeOK, Frame, Fits
<1>3. CASE PipelineStart(r)
  <2> DEFINE n == Smaller(PoolSize, Len(frame[r].fills) - frame[r].done)
             s == [i \in 1..n |-> "running"]
             f == [frame[r] EXCEPT !.slot = s]
  <2>1. n \in Nat /\ frame[r].done + n <= Len(frame[r].fills)
    <3> DEFINE left == Len(frame[r].fills) - frame[r].done
    <3>1. left \in Nat /\ frame[r].done + left = Len(frame[r].fills)
      BY <1>2
    <3> HIDE DEF left
    <3>2. Smaller(PoolSize, left) \in Nat /\ Smaller(PoolSize, left) <= left
      BY <3>1, PoolSizeAssumption DEF Smaller
    <3> QED BY <1>2, <3>1, <3>2 DEF left
  <2> HIDE DEF n
  <2>2. s \in Seq(SlotStates) /\ Len(s) = n
    BY <2>1 DEF SlotStates
  <2>3. Goto(r, "join", f)
    BY <1>3 DEF PipelineStart, n
  <2> HIDE DEF s
  <2>4. f \in Frame /\ f.slot = s /\ f.done = frame[r].done
        /\ f.fills = frame[r].fills
    BY <1>2, <2>2 DEF Frame
  <2> HIDE DEF f
  <2>5. Fits("join", req[r], f)
    BY <1>1, <1>3, <2>1, <2>2, <2>4 DEF PipelineStart, Fits, Awaits
  <2>6. "join" \in PC \ {"new"}
    BY DEF PC, Awaits
  <2> QED BY <1>1, <1>3, <2>3, <2>4, <2>5, <2>6, GotoKeeps
          DEF PipelineStart, BookUnchanged, GhostUnchanged, TypeOK, IInv
<1>4. CASE Pipeline(r)
  <2>1. PICK i \in DOMAIN frame[r].slot :
          \/ PipelineOk(r, i) \/ PipelineFail(r, i)
          \/ PipelineOpenFile(r, i) \/ PipelineFileWritten(r, i)
    BY <1>4 DEF Pipeline
  <2>2. CASE PipelineOk(r, i)
    <3>1. FillOf(r, i) \in Fill
      <4>1. i \in 1..Len(frame[r].slot)
        BY <1>2, LenProperties
      <4>2. /\ frame[r].done \in Nat /\ Len(frame[r].slot) \in Nat /\ Len(frame[r].fills) \in Nat
            /\ frame[r].done + Len(frame[r].slot) <= Len(frame[r].fills)
        BY <1>2, LenProperties
      <4>3. frame[r].done + i \in 1..Len(frame[r].fills)
        BY <4>1, <4>2
      <4> QED BY <1>2, <4>3, ElementOfSeq DEF FillOf
    <3>2. settled' \in [Req -> Nat]
      BY <1>1, <2>2, <3>1 DEF PipelineOk, TypeOK, Fill
    <3>3. "ok" \in SlotStates
      BY DEF SlotStates
    <3> QED BY <1>1, <2>2, <3>2, <3>3, SetSlotKeeps
            DEF PipelineOk, BookUnchanged, TypeOK, IInv
  <2>3. CASE PipelineFail(r, i)
    <3>1. "open" \in SlotStates
      BY DEF SlotStates
    <3> QED BY <1>1, <2>3, <3>1, SetSlotKeeps
            DEF PipelineFail, BookUnchanged, GhostUnchanged, TypeOK, IInv
  <2>4. CASE PipelineOpenFile(r, i)
    <3>1. /\ "land" \in SlotStates /\ "truncated" \in FileStates
          /\ <<>> \in Seq(Order)
      BY EmptySeq DEF SlotStates, FileStates
    <3> QED BY <1>1, <2>4, <3>1, SetSlotKeeps
            DEF PipelineOpenFile, GhostUnchanged, TypeOK, IInv
  <2>5. CASE PipelineFileWritten(r, i)
    <3>1. book' \in Seq(Order) /\ file' \in FileStates
      BY <1>2, <2>5, EmptySeq DEF PipelineFileWritten, Land, FileStates
    <3>2. "failed" \in SlotStates
      BY DEF SlotStates
    <3> QED BY <1>1, <2>5, <3>1, <3>2, SetSlotKeeps
            DEF PipelineFileWritten, GhostUnchanged, TypeOK, IInv
  <2> QED BY <2>1, <2>2, <2>3, <2>4, <2>5
<1>5. CASE JoinFailed(r)
  <2>1. "error" \in PC \ {"new"} /\ "error" \notin Awaits /\ "error" \in AfterWrite
    BY DEF PC, Awaits, Replies, AfterWrite
  <2>2. pc[r] \in Awaits \ {"cli"} /\ req' = req
    BY <1>5 DEF JoinFailed, Awaits
  <2>3. reconcile' \in BOOLEAN
    BY <1>1, <1>5 DEF JoinFailed, TypeOK
  <2>4. CASE WriteStore(r, frame[r].snap, "error", frame[r])
    BY <1>1, <1>2, <1>5, <2>1, <2>2, <2>3, <2>4, WriteKeeps
       DEF JoinFailed, BookUnchanged, TypeOK, IInv
  <2>5. CASE Goto(r, "error", frame[r])
    BY <1>1, <1>2, <1>5, <2>1, <2>2, <2>3, <2>5, GotoKeeps
       DEF JoinFailed, BookUnchanged, TypeOK, IInv
  <2> QED BY <1>5, <2>4, <2>5 DEF JoinFailed
<1>6. CASE JoinOk(r)
  <2> DEFINE done == frame[r].done + Len(frame[r].slot)
             f    == [frame[r] EXCEPT !.done = done, !.slot = <<>>]
             n    == IF done < Len(f.fills) THEN "pipe" ELSE AfterPipelines(r)
  <2>1. /\ f \in Frame /\ f.done = done /\ f.slot = <<>>
        /\ f.fills = frame[r].fills /\ f.rem = frame[r].rem
    <3>1. done \in Nat /\ <<>> \in Seq(SlotStates)
      BY <1>2, EmptySeq
    <3> HIDE DEF done
    <3> QED BY <1>2, <3>1 DEF Frame
  <2>2. Goto(r, n, f) /\ pc[r] = "join"
    BY <1>6 DEF JoinOk
  <2>3. frame[r].phase \in {"taker", "sweep", "batch"}
    BY <1>2 DEF Frame
  <2>4. /\ n \in {"pipe", "stamp", "sweep", "ok"}
        /\ n = "stamp" => frame[r].rem > 0
    BY <2>3 DEF AfterPipelines
  <2>5. n \in PC \ {"new"}
    BY <2>4 DEF PC, Awaits, Replies
  <2>6. done + Len(<<>>) <= Len(frame[r].fills)
    <3>1. Len(<<>>) = 0
      BY EmptySeq
    <3> QED BY <1>2, <3>1
  <2> HIDE DEF done, f, n
  <2>7. n \in Awaits => Fits(n, req[r], f)
    BY <1>1, <2>1, <2>2, <2>4, <2>6 DEF Fits, Awaits
  <2>8. req' = req
    BY <1>6 DEF JoinOk
  <2> QED BY <1>1, <1>6, <2>1, <2>2, <2>5, <2>7, <2>8, GotoKeeps
          DEF JoinOk, BookUnchanged, GhostUnchanged, TypeOK, IInv
<1> QED BY <1>3, <1>4, <1>5, <1>6

\* Hence every step keeps it, a crash included.
LEMMA NextIInv == IInv /\ [Next]_vars => IInv'
<1> SUFFICES ASSUME IInv, [Next]_vars PROVE IInv'
  OBVIOUS
<1>1. CASE UNCHANGED vars
  BY <1>1 DEF vars, IInv, TypeOK, HandlersFit, Fits
<1>2. CASE Crash
  <2>1. TypeOK /\ HandlersFit
    BY DEF IInv
  <2>2. TypeOK'
    <3>1. "dead" \in PC
      BY DEF PC, Replies
    <3>2. pc' \in [Req -> PC]
      BY <1>2, <2>1, <3>1 DEF Crash, TypeOK
    <3>3. frame' \in [Req -> Frame]
      BY <1>2, NoFrameType DEF Crash
    <3>4. /\ crashes' = crashes + 1 /\ tradePipelineInFlight' = FALSE
          /\ UNCHANGED <<book, file, clock, req, settled, reconcile>>
      BY <1>2 DEF Crash, BookUnchanged
    <3>5. crashes' \in Nat
      BY <2>1, <3>4 DEF TypeOK
    <3> QED BY <2>1, <3>2, <3>3, <3>4, <3>5 DEF TypeOK
  <2>3. HandlersFit'
    BY <1>2, <2>1, EmptySeq
       DEF Crash, TypeOK, HandlersFit, Fits, Active, NoFrame, Awaits, PC
  <2> QED BY <2>2, <2>3 DEF IInv
<1>3. ASSUME NEW r \in Req, Arrive(r) PROVE IInv'
  BY <1>3, ArriveIInv
<1>4. ASSUME NEW r \in Req, Handle(r) PROVE IInv'
  BY <1>4, BookStepIInv, SweepStepIInv, PipelineStepIInv DEF Handle
<1> QED BY <1>1, <1>2, <1>3, <1>4 DEF Next

\* Type correctness, with what each handler's place says of its locals.
THEOREM Inductive == Spec => []IInv
  BY InitIInv, NextIInv, PTL DEF Spec

\* All variables keep their types on every behaviour: no matching, sweep,
\* pipeline, torn write or crash puts a malformed order into the book.
THEOREM TypeCorrect == Spec => []TypeOK
<1>1. IInv => TypeOK
  BY DEF IInv
<1> QED BY <1>1, Inductive, PTL

-----------------------------------------------------------------------------
(* One pipeline at a time.                                                 *)

OneHolder == FlagIsExact /\ SinglePipeline

\* What any step of a handler does to the flag and to the handlers' places.
Moves(r) ==
  /\ Active(r) /\ req' = req
  /\ \/ \E n \in Awaits : /\ pc' = [pc EXCEPT ![r] = n]
                           /\ tradePipelineInFlight' = tradePipelineInFlight
     \/ \E n \in Replies : /\ pc' = [pc EXCEPT ![r] = n]
                            /\ tradePipelineInFlight' =
                                 IF req[r].kind # "rest" THEN FALSE
                                 ELSE tradePipelineInFlight
     \/ pc' = pc /\ tradePipelineInFlight' = tradePipelineInFlight

\* A handler that moves on keeps the pipeline, or replies and clears the flag.
LEMMA GotoMoves ==
  ASSUME NEW r \in Req, NEW n \in PC \ {"new"}, NEW f, Goto(r, n, f),
         Active(r), req' = req
  PROVE  Moves(r)
<1>1. CASE n \in Awaits
  <2>1. n \notin Replies
    BY <1>1 DEF Awaits, Replies
  <2> QED BY <1>1, <2>1 DEF Goto, Moves
<1>2. CASE n \in Replies
  BY <1>2 DEF Goto, Moves
<1> QED BY <1>1, <1>2 DEF PC

\* The same for every step of a handler that has been admitted.
LEMMA HandleMoves ==
  ASSUME IInv, NEW r \in Req, Handle(r)
  PROVE  Moves(r)
<1>1. Fits(pc[r], req[r], frame[r]) /\ frame[r] \in Frame
  BY DEF IInv, HandlersFit, TypeOK
<1>2. {"snap", "match", "open", "land", "rollback", "pipe", "join", "stamp",
       "add", "sweep", "cross", "pull", "cli", "ok", "error"} \subseteq PC \ {"new"}
  BY DEF PC, Awaits, Replies
<1>3. CASE \/ RunAllEnd(r) \/ Snapshot(r) \/ NoMatch(r) \/ Stamp(r)
           \/ SweepStart(r) \/ SweepCollected(r) \/ PipelineStart(r)
  <2>1. Active(r) /\ req' = req
    BY <1>3 DEF RunAllEnd, Snapshot, NoMatch, Stamp, SweepStart, SweepCollected,
       PipelineStart, Active, Awaits
  <2>2. \E n \in PC \ {"new"} : \E f : Goto(r, n, f)
    BY <1>2, <1>3 DEF RunAllEnd, Snapshot, NoMatch, Stamp, SweepStart,
       SweepCollected, PipelineStart
  <2> QED BY <2>1, <2>2, GotoMoves
<1>4. CASE Match(r) \/ Rollback(r) \/ Add(r) \/ SweepCross(r) \/ Pull(r)
           \/ JoinFailed(r)
  <2>1. Active(r) /\ req' = req
    BY <1>4 DEF Match, Rollback, Add, SweepCross, Pull, JoinFailed, Active, Awaits
  <2>2. \E n \in PC \ {"new"} : \E f : Goto(r, n, f)
    BY <1>2, <1>4 DEF Match, Rollback, Add, SweepCross, Pull, JoinFailed, WriteStore
  <2> QED BY <2>1, <2>2, GotoMoves
<1>5. CASE FileWritten(r)
  <2>1. frame[r].next \in PC \ {"new"}
    BY <1>1, <1>5 DEF FileWritten, Fits, AfterWrite, PC, Awaits, Replies
  <2>2. Active(r) /\ req' = req /\ Goto(r, frame[r].next, frame[r])
    BY <1>5 DEF FileWritten, Active, Awaits
  <2> QED BY <2>1, <2>2, GotoMoves
<1>6. CASE JoinOk(r)
  <2>1. frame[r].phase \in {"taker", "sweep", "batch"}
    BY <1>1 DEF Frame
  <2>2. AfterPipelines(r) \in PC \ {"new"}
    BY <1>2, <2>1 DEF AfterPipelines
  <2>3. Active(r) /\ req' = req
    BY <1>6 DEF JoinOk, Active, Awaits
  <2>4. \E n \in PC \ {"new"} : \E f : Goto(r, n, f)
    BY <1>2, <1>6, <2>2 DEF JoinOk
  <2> QED BY <2>3, <2>4, GotoMoves
<1>7. CASE OpenFile(r)
  BY <1>7 DEF OpenFile, Moves, Active, Awaits
<1>8. CASE Pipeline(r)
  BY <1>8 DEF Pipeline, PipelineOk, PipelineFail, PipelineOpenFile,
     PipelineFileWritten, Moves, Active, Awaits
<1> QED BY <1>3, <1>4, <1>5, <1>6, <1>7, <1>8 DEF Handle

\* Every step keeps one holder and an exact flag.
LEMMA NextOneHolder == IInv /\ OneHolder /\ [Next]_vars => OneHolder'
<1> SUFFICES ASSUME IInv, OneHolder, [Next]_vars PROVE OneHolder'
  OBVIOUS
<1>1. /\ pc \in [Req -> PC] /\ tradePipelineInFlight \in BOOLEAN
      /\ req \in [Req -> Requests \cup {NoRequest, RunAll}] /\ HandlersFit
  BY DEF IInv, TypeOK
<1>2. CASE UNCHANGED vars
  BY <1>2 DEF vars, OneHolder, FlagIsExact, SinglePipeline, Holds, Active
<1>3. CASE Crash
  <2>1. \A r \in Req : ~ Active(r)'
    BY <1>1, <1>3 DEF Crash, Active, Awaits, PC
  <2> QED BY <1>3, <2>1 DEF Crash, OneHolder, FlagIsExact, SinglePipeline, Holds
<1>4. ASSUME NEW r \in Req, Invalid(r) \/ Busy(r) PROVE OneHolder'
  <2>1. \A q \in Req : Holds(q)' = Holds(q)
    BY <1>1, <1>4 DEF Invalid, Busy, Holds, Active, Awaits
  <2>2. UNCHANGED tradePipelineInFlight
    BY <1>4 DEF Invalid, Busy
  <2> QED BY <2>1, <2>2 DEF OneHolder, FlagIsExact, SinglePipeline
<1>5. ASSUME NEW r \in Req, Submit(r) \/ RunAllStart(r) PROVE OneHolder'
  <2>1. \A q \in Req : ~ Holds(q)
    BY <1>5 DEF Submit, RunAllStart, OneHolder, FlagIsExact
  <2>2. \A q \in Req \ {r} : ~ Holds(q)'
    BY <1>1, <1>5, <2>1 DEF Submit, RunAllStart, Holds, Active
  <2>3. tradePipelineInFlight' = TRUE
    BY <1>5 DEF Submit, RunAllStart
  <2>4. Holds(r)'
    BY <1>1, <1>5 DEF Submit, RunAllStart, Holds, Active, Awaits, Body, RunAll
  <2> QED BY <2>2, <2>3, <2>4 DEF OneHolder, FlagIsExact, SinglePipeline
<1>6. ASSUME NEW r \in Req, RestOnly(r) PROVE OneHolder'
  <2>1. \A q \in Req : Holds(q)' = Holds(q)
    BY <1>1, <1>6 DEF RestOnly, Holds, Active, Awaits, Body
  <2>2. UNCHANGED tradePipelineInFlight
    BY <1>6 DEF RestOnly
  <2> QED BY <2>1, <2>2 DEF OneHolder, FlagIsExact, SinglePipeline
<1>7. ASSUME NEW r \in Req, Moves(r) PROVE OneHolder'
  <2>1. \A q \in Req \ {r} : Holds(q)' = Holds(q)
    BY <1>1, <1>7 DEF Moves, Holds, Active
  <2>2. CASE Holds(r)' = Holds(r) /\ UNCHANGED tradePipelineInFlight
    BY <2>1, <2>2 DEF OneHolder, FlagIsExact, SinglePipeline
  <2>3. CASE Holds(r) /\ ~ Holds(r)' /\ tradePipelineInFlight' = FALSE
    BY <2>1, <2>3 DEF OneHolder, FlagIsExact, SinglePipeline
  <2>4. req[r].kind \in {"submit", "rest", "runall"}
    BY <1>1, <1>7 DEF Moves, HandlersFit, Fits, Active, RunAll
  <2> QED BY <1>1, <1>7, <2>2, <2>3, <2>4 DEF Moves, Holds, Active, Awaits, Replies
<1>8. ASSUME NEW r \in Req, Handle(r) PROVE OneHolder'
  BY <1>7, <1>8, HandleMoves
<1> QED BY <1>2, <1>3, <1>4, <1>5, <1>6, <1>8 DEF Next, Arrive

\* At the start nobody holds the pipeline and the flag is clear.
LEMMA InitOneHolder == Init => OneHolder
  BY DEF Init, OneHolder, FlagIsExact, SinglePipeline, Holds, Active, Awaits

\* So there is one holder at most and an exact flag on every behaviour.
LEMMA AlwaysOneHolder == Spec => []OneHolder
  BY Inductive, InitOneHolder, NextOneHolder, PTL DEF Spec

\* "One pipeline at a time": whatever the interleaving of submits, run-alls,
\* rest-only calls, failures and crashes, two handlers never own the pipeline.
THEOREM PipelinesExclude == Spec => []SinglePipeline
<1>1. OneHolder => SinglePipeline
  BY DEF OneHolder
<1> QED BY <1>1, AlwaysOneHolder, PTL

\* The flag is neither left set by a handler that has answered nor cleared
\* while one still runs.
THEOREM FlagCorrect == Spec => []FlagIsExact
<1>1. OneHolder => FlagIsExact
  BY DEF OneHolder
<1> QED BY <1>1, AlwaysOneHolder, PTL

\* So tradePipelineInFlight is a lock.
THEOREM FlagLocks == Spec => []FlagIsALock
<1>1. SinglePipeline /\ FlagIsExact => FlagIsALock
  BY DEF FlagIsALock
<1> QED BY <1>1, PipelinesExclude, FlagCorrect, PTL

-----------------------------------------------------------------------------
(* Executions within limits.  The invariant: every copy of an order, in the *)
(* file or in a handler's locals, still has the terms its request brought,  *)
(* and where sizeStr writes sizes as they are, something of it is left.     *)

Trader(x) == x.kind \in {"submit", "rest"}

TrueOrders ==
  {o \in Order :
     LET x == req[o.id]
     IN  /\ Trader(x) /\ o.pair = x.pair /\ o.side = x.side /\ o.price = x.price
         /\ Grain = 1 => o.size > 0}

TrueFills ==
  {f \in Fill :
     LET x == req[f.long]
         y == req[f.short]
     IN  /\ Trader(x) /\ Trader(y) /\ x.pair = y.pair
         /\ x.side = "long" /\ y.side = "short"
         /\ y.price <= f.price /\ f.price <= x.price}

TrueFrame(f) == /\ f.snap \in Seq(TrueOrders) /\ f.buf \in Seq(TrueOrders)
                /\ f.fills \in Seq(TrueFills)

TrueTerms ==
  book \in Seq(TrueOrders) /\ \A r \in Req : TrueFrame(frame[r])

\* Filling an order in part leaves its terms those of its request.
LEMMA TrueOrdersResizable == Resizable(TrueOrders)
<1>1. ASSUME NEW o \in TrueOrders, NEW q \in Nat \ {0} PROVE [o EXCEPT !.size = SizeStr(q)] \in TrueOrders
  <2>1. PICK n \in Nat : n = SizeStr(q) /\ (Grain = 1 => n > 0)
    BY SizeStrType, SizeStrIs
  <2> QED BY <2>1 DEF TrueOrders, Order
<1> QED BY <1>1 DEF Resizable, TrueOrders

\* Empty locals hold no order and no execution, hence only true ones.
LEMMA NoFrameTrue == TrueFrame(NoFrame)
  BY EmptySeq DEF TrueFrame, NoFrame

\* The empty book holds true orders only.
LEMMA InitTrueTerms == Init => TrueTerms
  BY NoFrameTrue, EmptySeq DEF Init, TrueTerms

\* An execution of a taker against a maker it may hit has true terms.
LEMMA TakerFillTrue ==
  ASSUME NEW b \in Seq(TrueOrders), NEW r \in Req, req[r] \in Requests,
         Trader(req[r]), NEW i \in Matches(b, req[r])
  PROVE  TakerFill(r, req[r], b[i]) \in TrueFills
<1>1. /\ i \in DOMAIN b /\ b[i].pair = req[r].pair
      /\ b[i].side = Opposite(req[r].side)
      /\ ~ Better(b[i].side, req[r].price, b[i].price)
  BY DEF Matches, Makers, Eligible
<1>2. b[i] \in TrueOrders
  BY <1>1, LenProperties, ElementOfSeq
<1>3. TakerFill(r, req[r], b[i]) \in Fill
  BY <1>2, TakerFillType DEF TrueOrders
<1>4. /\ b[i].id \in Req /\ Trader(req[b[i].id])
      /\ req[b[i].id].pair = req[r].pair
      /\ req[b[i].id].side = b[i].side /\ req[b[i].id].price = b[i].price
      /\ b[i].price \in Nat /\ req[r].price \in Nat
  BY <1>1, <1>2 DEF TrueOrders, Order, Requests
<1>5. CASE req[r].side = "long"
  <2>1. b[i].side = "short" /\ b[i].price <= req[r].price
    BY <1>1, <1>4, <1>5 DEF Opposite, Better
  <2> QED BY <1>3, <1>4, <1>5, <2>1 DEF TrueFills, TakerFill
<1>6. CASE req[r].side = "short"
  <2>1. b[i].side = "long" /\ req[r].price <= b[i].price
    BY <1>1, <1>4, <1>6 DEF Opposite, Better
  <2> QED BY <1>3, <1>4, <1>6, <2>1 DEF TrueFills, TakerFill
<1> QED BY <1>5, <1>6 DEF Requests, Sides

\* So has the execution of a resting cross, at the ask's price.
LEMMA CrossFillTrue ==
  ASSUME NEW b \in Seq(TrueOrders), NEW x \in Crosses(b, SweepPair)
  PROVE  CrossFill(b[x[1]], b[x[2]]) \in TrueFills
<1>1. /\ x[1] \in DOMAIN b /\ x[2] \in DOMAIN b
      /\ b[x[1]].side = "long" /\ b[x[2]].side = "short"
      /\ b[x[1]].pair = b[x[2]].pair /\ b[x[1]].price >= b[x[2]].price
  BY DEF Crosses, Bests
<1>2. b[x[1]] \in TrueOrders /\ b[x[2]] \in TrueOrders
  BY <1>1, LenProperties, ElementOfSeq
<1>3. CrossFill(b[x[1]], b[x[2]]) \in Fill
  BY <1>2, CrossFillType DEF TrueOrders
<1> DEFINE l == b[x[1]]
           s == b[x[2]]
           f == CrossFill(l, s)
<1>4. l \in Order /\ s \in Order /\ f.long = l.id /\ f.short = s.id /\ f.price = s.price
  BY <1>2 DEF TrueOrders, CrossFill
<1>5. /\ Trader(req[l.id]) /\ l.pair = req[l.id].pair /\ l.side = req[l.id].side /\ l.price = req[l.id].price
      /\ Trader(req[s.id]) /\ s.pair = req[s.id].pair /\ s.side = req[s.id].side /\ s.price = req[s.id].price
  BY <1>2 DEF TrueOrders
<1>6. s.price <= l.price /\ s.price <= s.price
  <2>1. l.price \in Nat /\ s.price \in Nat
    BY <1>4 DEF Order
  <2> QED BY <1>1, <2>1
<1>7. l.pair = s.pair /\ l.side = "long" /\ s.side = "short"
  BY <1>1
<1> HIDE DEF l, s, f
<1>8. f \in Fill
  BY <1>3 DEF f, l, s
<1>9. f \in TrueFills
  BY <1>4, <1>5, <1>6, <1>7, <1>8 DEF TrueFills
<1> QED BY <1>9 DEF f, l, s

\* Moving on, or starting a write, with true locals leaves true locals.
LEMMA GotoTrue ==
  ASSUME NEW r \in Req, frame \in [Req -> Frame], NEW n, NEW f,
         TrueFrame(f), Goto(r, n, f)
  PROVE  TrueFrame(frame'[r]) /\ \A q \in Req \ {r} : frame'[q] = frame[q]
  BY NoFrameTrue DEF Goto

\* Starting to write a book of true orders keeps the locals true.
LEMMA WriteTrue ==
  ASSUME NEW r \in Req, frame \in [Req -> Frame], NEW n, NEW f \in Frame,
         TrueFrame(f), NEW b \in Seq(TrueOrders), WriteStore(r, b, n, f)
  PROVE  TrueFrame(frame'[r]) /\ \A q \in Req \ {r} : frame'[q] = frame[q]
<1>1. TrueFrame([f EXCEPT !.buf = b, !.next = n])
  BY DEF TrueFrame, Frame
<1> QED BY <1>1, GotoTrue DEF WriteStore

\* A handler's step leaves true orders in the file and true locals.
LEMMA HandleTrue ==
  ASSUME IInv, TrueTerms, NEW r \in Req, Handle(r)
  PROVE  /\ req' = req
         /\ book' \in Seq(TrueOrders)
         /\ TrueFrame(frame'[r]) /\ \A q \in Req \ {r} : frame'[q] = frame[q]
<1>1. /\ Fits(pc[r], req[r], frame[r]) /\ frame[r] \in Frame
      /\ frame \in [Req -> Frame] /\ TrueFrame(frame[r])
      /\ book \in Seq(TrueOrders)
  BY DEF IInv, HandlersFit, TypeOK, TrueTerms
<1>2. /\ frame[r].snap \in Seq(TrueOrders) /\ frame[r].buf \in Seq(TrueOrders)
      /\ frame[r].fills \in Seq(TrueFills)
      /\ <<>> \in Seq(TrueOrders) /\ <<>> \in Seq(TrueFills)
  BY <1>1, EmptySeq DEF TrueFrame
<1>3. CASE \/ RunAllEnd(r) \/ NoMatch(r) \/ FileWritten(r)
  BY <1>1, <1>2, <1>3, GotoTrue
     DEF RunAllEnd, NoMatch, FileWritten, Land, BookUnchanged
<1>4. CASE Snapshot(r) \/ Stamp(r) \/ SweepStart(r) \/ SweepCollected(r)
           \/ PipelineStart(r) \/ JoinOk(r)
  <2>1. PICK n, f : Goto(r, n, f) /\ TrueFrame(f)
    <3>1. TrueFrame([frame[r] EXCEPT !.snap = book])
      BY <1>1, <1>2 DEF TrueFrame, Frame
    <3>2. \A t : TrueFrame([frame[r] EXCEPT !.at = t])
      BY <1>1, <1>2 DEF TrueFrame, Frame
    <3>3. TrueFrame([frame[r] EXCEPT !.snap = book, !.fills = <<>>, !.done = 0,
                                     !.phase = "sweep"])
      BY <1>1, <1>2 DEF TrueFrame, Frame
    <3>4. TrueFrame([frame[r] EXCEPT !.phase = "batch"])
      BY <1>1, <1>2 DEF TrueFrame, Frame
    <3>5. \A s : TrueFrame([frame[r] EXCEPT !.slot = s])
      BY <1>1, <1>2 DEF TrueFrame, Frame
    <3>6. \A d : TrueFrame([frame[r] EXCEPT !.done = d, !.slot = <<>>])
      BY <1>1, <1>2 DEF TrueFrame, Frame
    <3> QED BY <1>1, <1>4, <3>1, <3>2, <3>3, <3>4, <3>5, <3>6
            DEF Snapshot, Stamp, SweepStart, SweepCollected, PipelineStart, JoinOk
  <2>2. book' = book /\ req' = req
    BY <1>4 DEF Snapshot, Stamp, SweepStart, SweepCollected, PipelineStart,
       JoinOk, BookUnchanged
  <2> QED BY <1>1, <2>1, <2>2, GotoTrue
<1>5. CASE OpenFile(r)
  BY <1>1, <1>2, <1>5 DEF OpenFile
<1>6. CASE Rollback(r) \/ Pull(r) \/ JoinFailed(r)
  BY <1>1, <1>2, <1>6, GotoTrue, WriteTrue
     DEF Rollback, Pull, JoinFailed, BookUnchanged
<1>7. CASE Match(r)
  <2>1. PICK i \in Matches(book, req[r]) :
          LET q == Smaller(req[r].size, book[i].size)
          IN  WriteStore(r, Consume(book, i, q),
                         IF req[r].kind = "submit" THEN "pipe" ELSE "rollback",
                         [frame[r] EXCEPT !.rem = @ - q,
                            !.fills = <<TakerFill(r, req[r], book[i])>>])
    BY <1>7 DEF Match
  <2> DEFINE q    == Smaller(req[r].size, book[i].size)
             fill == TakerFill(r, req[r], book[i])
             f    == [frame[r] EXCEPT !.rem = frame[r].rem - q, !.fills = <<fill>>]
             n    == IF req[r].kind = "submit" THEN "pipe" ELSE "rollback"
  <2>2. req[r] \in Requests /\ Trader(req[r]) /\ frame[r].rem = req[r].size
    BY <1>1, <1>7 DEF Match, Fits, Awaits, Trader
  <2>3. i \in DOMAIN book /\ book[i] \in TrueOrders /\ book[i] \in Order
    BY <1>1, LenProperties, ElementOfSeq DEF Matches, Makers, Eligible, TrueOrders
  <2>4. fill \in TrueFills
    BY <1>1, <2>2, TakerFillTrue
  <2>5. q \in Nat /\ q <= book[i].size /\ q <= req[r].size
    BY <2>2, <2>3, SmallerType DEF Requests, Order
  <2>6. Consume(book, i, q) \in Seq(TrueOrders)
    BY <1>1, <2>3, <2>5, ConsumeType, TrueOrdersResizable
  <2>7. <<fill>> \in Seq(TrueFills) /\ <<fill>> \in Seq(Fill)
    <3> HIDE DEF fill
    <3> QED BY <2>4 DEF TrueFills
  <2>8. frame[r].rem - q \in Nat
    BY <2>2, <2>5 DEF Requests
  <2>9. f \in Frame /\ TrueFrame(f)
    <3> HIDE DEF fill, q
    <3> QED BY <1>1, <1>2, <2>7, <2>8 DEF TrueFrame, Frame
  <2>10. WriteStore(r, Consume(book, i, q), n, f)
    BY <2>1
  <2>11. book' = book /\ req' = req
    BY <1>7 DEF Match, BookUnchanged
  <2> HIDE DEF fill, f, n, q
  <2> QED BY <1>1, <2>6, <2>9, <2>10, <2>11, WriteTrue
<1>8. CASE Add(r)
  <2>1. /\ req[r] \in Requests /\ Trader(req[r])
        /\ frame[r].rem \in Nat \ {0} /\ frame[r].at \in Nat
    BY <1>1, <1>8 DEF Add, Fits, Awaits, Frame, Trader
  <2>2. NewOrder(r) \in TrueOrders
    <3>1. SizeStr(frame[r].rem) \in Nat /\ (Grain = 1 => SizeStr(frame[r].rem) > 0)
      BY <2>1, SizeStrType, SizeStrIs
    <3> QED BY <2>1, <3>1 DEF NewOrder, TrueOrders, Order, Requests
  <2>3. Append(book, NewOrder(r)) \in Seq(TrueOrders)
    BY <1>1, <2>2, AppendProperties
  <2> QED BY <1>1, <1>8, <2>3, WriteTrue DEF Add, BookUnchanged
<1>9. CASE SweepCross(r)
  <2>1. PICK x \in Crosses(book, SweepPair) :
          LET fill == CrossFill(book[x[1]], book[x[2]])
          IN  WriteStore(r, Cross(book, x[1], x[2]),
                         IF ParallelSweep THEN "cross" ELSE "pipe",
                         [frame[r] EXCEPT !.fills = Append(@, fill)])
    BY <1>9 DEF SweepCross
  <2> DEFINE l    == x[1]
             s    == x[2]
             fill == CrossFill(book[l], book[s])
             f    == [frame[r] EXCEPT !.fills = Append(frame[r].fills, fill)]
             n    == IF ParallelSweep THEN "cross" ELSE "pipe"
  <2>2. l \in DOMAIN book /\ s \in DOMAIN book /\ l # s
    BY DEF Crosses, Bests
  <2>3. Cross(book, l, s) \in Seq(TrueOrders)
    <3> HIDE DEF l, s
    <3> QED BY <1>1, <2>2, CrossType, TrueOrdersResizable
  <2>4. fill \in TrueFills
    BY <1>1, CrossFillTrue
  <2>5. /\ Append(frame[r].fills, fill) \in Seq(TrueFills)
        /\ Append(frame[r].fills, fill) \in Seq(Fill)
    <3>1. frame[r].fills \in Seq(Fill)
      BY <1>1 DEF Frame
    <3>2. fill \in Fill
      BY <2>4 DEF TrueFills
    <3> HIDE DEF fill
    <3> QED BY <1>2, <2>4, <3>1, <3>2, AppendProperties
  <2>6. f \in Frame /\ TrueFrame(f)
    <3> HIDE DEF fill
    <3> QED BY <1>1, <1>2, <2>5 DEF TrueFrame, Frame
  <2>7. WriteStore(r, Cross(book, l, s), n, f)
    BY <2>1
  <2>8. book' = book /\ req' = req
    BY <1>9 DEF SweepCross, BookUnchanged
  <2> HIDE DEF l, s, fill, f, n
  <2> QED BY <1>1, <2>3, <2>6, <2>7, <2>8, WriteTrue
<1>10. CASE Pipeline(r)
  <2>1. PICK i \in DOMAIN frame[r].slot :
          \/ PipelineOk(r, i) \/ PipelineFail(r, i)
          \/ PipelineOpenFile(r, i) \/ PipelineFileWritten(r, i)
    BY <1>10 DEF Pipeline
  <2>2. PICK st : SetSlot(r, i, st)
    BY <2>1 DEF PipelineOk, PipelineFail, PipelineOpenFile, PipelineFileWritten
  <2>3. req' = req /\ book' \in Seq(TrueOrders)
    BY <1>1, <1>2, <2>1 DEF PipelineOk, PipelineFail, PipelineOpenFile,
       PipelineFileWritten, BookUnchanged, Land
  <2>4. TrueFrame(frame'[r]) /\ \A q \in Req \ {r} : frame'[q] = frame[q]
    BY <1>1, <1>2, <2>2 DEF SetSlot, TrueFrame, Frame
  <2> QED BY <2>3, <2>4
<1> QED BY <1>3, <1>4, <1>5, <1>6, <1>7, <1>8, <1>9, <1>10 DEF Handle

\* Every step keeps the orders and the executions true to their requests.
LEMMA NextTrueTerms == IInv /\ TrueTerms /\ [Next]_vars => TrueTerms'
<1> SUFFICES ASSUME IInv, TrueTerms, [Next]_vars PROVE TrueTerms'
  OBVIOUS
<1>1. /\ TypeOK /\ HandlersFit /\ req \in [Req -> Requests \cup {NoRequest, RunAll}]
      /\ frame \in [Req -> Frame]
  BY DEF IInv, TypeOK
<1>2. CASE UNCHANGED vars
  BY <1>2 DEF vars, TrueTerms, TrueFrame, TrueOrders, TrueFills
<1>3. CASE Crash
  <2>1. TrueOrders' = TrueOrders /\ TrueFills' = TrueFills
    BY <1>3 DEF Crash, TrueOrders, TrueFills
  <2>2. /\ book' = book
        /\ \A r \in Req : frame'[r] = NoFrame
    BY <1>3 DEF Crash, BookUnchanged
  <2> QED BY <2>1, <2>2, NoFrameTrue DEF TrueTerms, TrueFrame
<1>4. ASSUME NEW r \in Req, Arrive(r) PROVE TrueTerms'
  <2>1. pc[r] = "new" /\ req[r] = NoRequest
    BY <1>1, <1>4 DEF Arrive, Invalid, Busy, Submit, RestOnly, RunAllStart,
       HandlersFit, Fits
  <2>2. \A q \in Req \ {r} : req'[q] = req[q]
    BY <1>1, <1>4 DEF Arrive, Invalid, Busy, Submit, RestOnly, RunAllStart
  <2>3. \A q \in Req : Trader(req[q]) => req'[q] = req[q]
    BY <2>1, <2>2 DEF Trader, NoRequest
  <2>4. TrueOrders \subseteq TrueOrders'
    BY <2>3 DEF TrueOrders, Order
  <2>5. TrueFills \subseteq TrueFills'
    BY <2>3 DEF TrueFills, Fill
  <2>6. Seq(TrueOrders) \subseteq Seq(TrueOrders') /\ Seq(TrueFills) \subseteq Seq(TrueFills')
    BY <2>4, <2>5, SeqMonotonic
  <2>7. book' = book
    BY <1>4 DEF Arrive, Invalid, Busy, Submit, RestOnly, RunAllStart, BookUnchanged
  <2>8. \A q \in Req : /\ frame'[q].snap = frame[q].snap
                       /\ frame'[q].buf = frame[q].buf
                       /\ frame'[q].fills = frame[q].fills
    <3>1. \/ frame' = frame
          \/ \E n : frame' = [frame EXCEPT ![r] = [frame[r] EXCEPT !.rem = n]]
      BY <1>4 DEF Arrive, Invalid, Busy, Submit, RestOnly, RunAllStart
    <3>2. ASSUME NEW f \in Frame, NEW n
          PROVE  /\ [f EXCEPT !.rem = n].snap = f.snap
                 /\ [f EXCEPT !.rem = n].buf = f.buf
                 /\ [f EXCEPT !.rem = n].fills = f.fills
      BY DEF Frame
    <3>3. CASE frame' = frame
      BY <3>3
    <3>4. ASSUME NEW n, frame' = [frame EXCEPT ![r] = [frame[r] EXCEPT !.rem = n]]
          PROVE  \A q \in Req : /\ frame'[q].snap = frame[q].snap
                                /\ frame'[q].buf = frame[q].buf
                                /\ frame'[q].fills = frame[q].fills
      <4>1. \A q \in Req \ {r} : frame'[q] = frame[q]
        BY <1>1, <3>4
      <4>2. frame'[r] = [frame[r] EXCEPT !.rem = n] /\ frame[r] \in Frame
        BY <1>1, <3>4
      <4> DEFINE g == [frame[r] EXCEPT !.rem = n]
      <4>3. g.snap = frame[r].snap /\ g.buf = frame[r].buf /\ g.fills = frame[r].fills
        BY <3>2, <4>2
      <4> HIDE DEF g
      <4>4. frame'[r] = g
        BY <4>2 DEF g
      <4> QED BY <4>1, <4>3, <4>4
    <3> QED BY <3>1, <3>3, <3>4
  <2> QED BY <2>6, <2>7, <2>8 DEF TrueTerms, TrueFrame
<1>5. ASSUME NEW r \in Req, Handle(r) PROVE TrueTerms'
  <2>1. /\ req' = req
        /\ book' \in Seq(TrueOrders)
        /\ TrueFrame(frame'[r]) /\ \A q \in Req \ {r} : frame'[q] = frame[q]
    BY <1>5, HandleTrue
  <2>2. TrueOrders' = TrueOrders /\ TrueFills' = TrueFills
    BY <2>1 DEF TrueOrders, TrueFills
  <2> QED BY <2>1, <2>2 DEF TrueTerms, TrueFrame
<1> QED BY <1>2, <1>3, <1>4, <1>5 DEF Next

\* No order ever trades outside its limit or its pair: not as a taker, not in
\* a sweep, not through a torn file, a stale snapshot or overlapping handlers.
THEOREM ExecutionsWithinLimits == Spec => []FillsWithinLimits
<1>1. ASSUME IInv, TrueTerms PROVE FillsWithinLimits
  <2> SUFFICES ASSUME NEW r \in Req, NEW k \in DOMAIN frame[r].fills
               PROVE  frame[r].fills[k] \in TrueFills
    BY DEF FillsWithinLimits, TrueFills
  <2>1. frame[r].fills \in Seq(TrueFills)
    BY <1>1 DEF TrueTerms, TrueFrame
  <2> QED BY <2>1, LenProperties, ElementOfSeq
<1> QED BY <1>1, Inductive, InitTrueTerms, NextTrueTerms, PTL DEF Spec

-----------------------------------------------------------------------------
(* What an order has: executed, about to be executed, and resting.  No      *)
(* rest-only calls, and sizes that sizeStr writes as they are.  The         *)
(* invariant says of each book that may become the next one, the file, the  *)
(* store being written and the snapshot, how much of every order it holds,  *)
(* given what the pipelines that run or wait are about to settle: up to the *)
(* point where a batch has both settled and restored something.             *)

Plain == Grain = 1 /\ Kinds \subseteq {"submit", "runall"}
Sequential == Plain /\ ~ ParallelSweep

\* What the answers given so far depend on, and what it is now.
Views == [pc : [Req -> PC], req : [Req -> Requests \cup {NoRequest, RunAll}], clock : Nat, crashes : Nat]
Now == [pc |-> pc, req |-> req, clock |-> clock, crashes |-> crashes]

Placed(q, v) == v.pc[q] # "new" /\ v.req[q].kind = "submit"
Answered(q, v) == v.pc[q] \in {"ok", "error"} /\ v.req[q].kind = "submit"
Out(b, q) == \A i \in DOMAIN b : b[i].id # q

\* Of q's order d[q] has been dealt with, and the rest of its n rests in b: nothing of it is lost or created.
Whole(b, d, q, n) ==
  \/ \E i \in DOMAIN b : b[i].id = q /\ d[q] + b[i].size = n
  \/ Out(b, q) /\ d[q] = n

\* An untouched order is not behind a younger one.
Fifo(b, v) ==
  \A i, j \in DOMAIN b : i < j /\ b[j].size = v.req[b[j].id].size => b[i].at <= b[j].at

\* Once each, within their sizes, and in order.
Good(b, d, v) ==
  /\ b \in Seq(Order)
  /\ \A i, j \in DOMAIN b : b[i].id = b[j].id => i = j
  /\ \A i \in DOMAIN b :
       /\ Placed(b[i].id, v) /\ b[i].at <= v.clock
       /\ d[b[i].id] + b[i].size <= v.req[b[i].id].size
  /\ Fifo(b, v)

Within(d, v) == \A q \in Req : d[q] > 0 => Placed(q, v) /\ d[q] <= v.req[q].size

\* Every answer is true, as long as there is no crash.
Correct(b, d, q, v) ==
  Whole(b, d, q, v.req[q].size) \/ (v.pc[q] = "error" /\ Out(b, q) /\ d[q] = 0)
AllCorrect(b, d, v) == v.crashes = 0 => \A q \in Req : Answered(q, v) => Correct(b, d, q, v)

Sound(b, d, v) == Good(b, d, v) /\ Within(d, v) /\ AllCorrect(b, d, v)

\* Book c is book b after a match, which deals with e instead of d: place k of c is place m[k] of b.  What an order has lost
\* in size it has gained in d, an order that loses its place is no longer untouched, and nothing else gains but taker t.
Moved(b, c, m, d, e) ==
  /\ m \in [1..Len(c) -> 1..Len(b)]
  /\ \A k, j \in 1..Len(c) : m[k] = m[j] => k = j
  /\ \A k \in 1..Len(c) : /\ c[k].id = b[m[k]].id /\ c[k].at = b[m[k]].at /\ c[k].size <= b[m[k]].size
                          /\ e[c[k].id] + c[k].size = d[c[k].id] + b[m[k]].size
  /\ \A k, j \in 1..Len(c) : k < j => m[k] < m[j] \/ c[j].size < b[m[j]].size
  /\ \A i \in 1..Len(b) : (\E k \in 1..Len(c) : m[k] = i) \/ e[b[i].id] = d[b[i].id] + b[i].size
Cut(b, c, d, e, T) ==
  /\ b \in Seq(Order) /\ c \in Seq(Order) /\ d \in [Req -> Nat] /\ e \in [Req -> Nat]
  /\ \A q \in Req \ T : Out(b, q) => e[q] = d[q]
  /\ \E m : Moved(b, c, m, d, e)

\* What a place of a book holds.
LEMMA PlaceIs ==
  ASSUME NEW b \in Seq(Order)
  PROVE  /\ DOMAIN b = 1..Len(b) /\ Len(b) \in Nat
         /\ \A i \in DOMAIN b : /\ b[i] \in Order /\ b[i].id \in Req /\ b[i].size \in Nat /\ b[i].at \in Nat
<1>1. DOMAIN b = 1..Len(b) /\ Len(b) \in Nat
  BY LenProperties
<1>2. \A i \in DOMAIN b : b[i] \in Order
  BY <1>1, ElementOfSeq
<1> QED BY <1>1, <1>2 DEF Order

\* What a match leaves whole: every order but the taker's.
LEMMA CutWhole ==
  ASSUME NEW b, NEW c, NEW d, NEW e, NEW T, Cut(b, c, d, e, T),
         \A i, j \in DOMAIN b : b[i].id = b[j].id => i = j,
         NEW q \in Req \ T
  PROVE  /\ Out(b, q) => Out(c, q) /\ e[q] = d[q]
         /\ \A n : Whole(b, d, q, n) => Whole(c, e, q, n)
<1>1. PICK m : Moved(b, c, m, d, e)
  BY DEF Cut
<1>2. DOMAIN b = 1..Len(b) /\ DOMAIN c = 1..Len(c)
  BY PlaceIs DEF Cut
<1>3. \A k \in 1..Len(c) : m[k] \in 1..Len(b) /\ c[k].id = b[m[k]].id
  BY <1>1 DEF Moved
<1>4. Out(b, q) => Out(c, q) /\ e[q] = d[q]
  <2>1. Out(b, q) => Out(c, q)
    BY <1>2, <1>3 DEF Out
  <2>2. Out(b, q) => e[q] = d[q]
    BY DEF Cut
  <2> QED BY <2>1, <2>2
<1>5. ASSUME NEW n, Whole(b, d, q, n) PROVE Whole(c, e, q, n)
  <2>1. CASE Out(b, q) /\ d[q] = n
    BY <1>4, <2>1 DEF Whole
  <2>2. CASE \E i \in DOMAIN b : b[i].id = q /\ d[q] + b[i].size = n
    <3>1. PICK i \in 1..Len(b) : b[i].id = q /\ d[q] + b[i].size = n
      BY <1>2, <2>2
    <3>2. CASE \E k \in 1..Len(c) : m[k] = i
      <4>1. PICK k \in 1..Len(c) : m[k] = i
        BY <3>2
      <4>2. c[k].id = q /\ e[q] + c[k].size = d[q] + b[i].size
        BY <1>1, <3>1, <4>1 DEF Moved
      <4> QED BY <1>2, <3>1, <4>2 DEF Whole
    <3>3. CASE ~ \E k \in 1..Len(c) : m[k] = i
      <4>1. e[q] = n
        BY <1>1, <3>1, <3>3 DEF Moved
      <4>2. Out(c, q)
        BY <1>2, <1>3, <3>1, <3>3 DEF Out
      <4> QED BY <4>1, <4>2 DEF Whole
    <3> QED BY <3>2, <3>3
  <2> QED BY <1>5, <2>1, <2>2 DEF Whole
<1> QED BY <1>4, <1>5

\* A match leaves a sound book sound, if the taker gets no more than its size.
LEMMA CutSound ==
  ASSUME NEW v \in Views, NEW b, NEW c, NEW d, NEW e, NEW T, Cut(b, c, d, e, T), Sound(b, d, v),
         \A q \in T : q \in Req => Placed(q, v) /\ ~ Answered(q, v) /\ e[q] <= v.req[q].size
  PROVE  Sound(c, e, v)
<1>1. PICK m : Moved(b, c, m, d, e)
  BY DEF Cut
<1>2. /\ DOMAIN b = 1..Len(b) /\ DOMAIN c = 1..Len(c) /\ Len(b) \in Nat /\ Len(c) \in Nat
      /\ \A i \in 1..Len(b) : b[i].id \in Req /\ b[i].size \in Nat /\ b[i].at \in Nat
      /\ \A i \in 1..Len(c) : c[i].id \in Req /\ c[i].size \in Nat /\ c[i].at \in Nat
      /\ d \in [Req -> Nat] /\ e \in [Req -> Nat]
  BY PlaceIs DEF Cut
<1>3. \A k \in 1..Len(c) : m[k] \in 1..Len(b) /\ c[k].id = b[m[k]].id
  BY <1>1 DEF Moved
<1>4. /\ \A i, j \in 1..Len(b) : b[i].id = b[j].id => i = j
      /\ \A i \in 1..Len(b) : /\ Placed(b[i].id, v) /\ b[i].at <= v.clock
                              /\ d[b[i].id] + b[i].size <= v.req[b[i].id].size
      /\ \A i, j \in 1..Len(b) : i < j /\ b[j].size = v.req[b[j].id].size => b[i].at <= b[j].at
      /\ Within(d, v) /\ AllCorrect(b, d, v)
  BY <1>2 DEF Sound, Good, Fifo
<1>5. ASSUME NEW i \in 1..Len(b) PROVE v.req[b[i].id].size \in Nat
  <2>1. v.req[b[i].id] \in Requests \cup {NoRequest, RunAll} /\ v.req[b[i].id].kind = "submit"
    BY <1>2, <1>4 DEF Views, Placed
  <2> QED BY <2>1 DEF Requests, NoRequest, RunAll
<1>6. Good(c, e, v)
  <2>1. ASSUME NEW i \in 1..Len(c), NEW j \in 1..Len(c), c[i].id = c[j].id PROVE i = j
    <3>1. m[i] = m[j]
      BY <1>3, <1>4, <2>1
    <3> QED BY <1>1, <3>1 DEF Moved
  <2>2. ASSUME NEW k \in 1..Len(c)
        PROVE  Placed(c[k].id, v) /\ c[k].at <= v.clock /\ e[c[k].id] + c[k].size <= v.req[c[k].id].size
    BY <1>1, <1>3, <1>4 DEF Moved
  <2>3. ASSUME NEW k \in 1..Len(c), NEW j \in 1..Len(c), k < j, c[j].size = v.req[c[j].id].size
        PROVE  c[k].at <= c[j].at
    <3>1. PICK x \in 1..Len(b), y \in 1..Len(b) : x = m[k] /\ y = m[j]
      BY <1>3
    <3>2. /\ c[k].at = b[x].at /\ c[j].at = b[y].at /\ c[j].id = b[y].id /\ c[j].size <= b[y].size
          /\ x < y \/ c[j].size < b[y].size
      BY <1>1, <2>3, <3>1 DEF Moved
    <3>3. PICK n \in Nat, s \in Nat, t \in Nat, g \in Nat :
            n = v.req[b[y].id].size /\ s = b[y].size /\ t = c[j].size /\ g = d[b[y].id]
      BY <1>2, <1>5
    <3>4. g + s <= n /\ t = n /\ t <= s
      BY <1>4, <2>3, <3>2, <3>3
    <3>5. s = n /\ ~ (t < s)
      BY <3>4
    <3> QED BY <1>4, <3>2, <3>3, <3>5
  <2>4. c \in Seq(Order) /\ Fifo(c, v)
    BY <1>2, <2>3 DEF Fifo, Cut
  <2> QED BY <1>2, <2>1, <2>2, <2>4 DEF Good
<1>7. Within(e, v)
  <2> SUFFICES ASSUME NEW q \in Req, e[q] > 0 PROVE Placed(q, v) /\ e[q] <= v.req[q].size
    BY DEF Within
  <2>1. CASE q \in T
    BY <2>1
  <2>2. CASE q \notin T /\ Out(b, q)
    <3>1. e[q] = d[q]
      BY <2>2 DEF Cut
    <3> QED BY <1>4, <3>1 DEF Within
  <2>3. CASE ~ Out(b, q)
    <3>1. PICK i \in 1..Len(b) : b[i].id = q
      BY <1>2, <2>3 DEF Out
    <3>2. PICK n \in Nat, s \in Nat, g \in Nat, h \in Nat : n = v.req[q].size /\ s = b[i].size /\ g = d[q] /\ h = e[q]
      BY <1>2, <1>5, <3>1
    <3>3. g + s <= n
      BY <1>4, <3>1, <3>2
    <3>4. CASE \E k \in 1..Len(c) : m[k] = i
      <4>1. PICK k \in 1..Len(c) : m[k] = i
        BY <3>4
      <4>2. PICK t \in Nat : t = c[k].size
        BY <1>2
      <4>3. h + t = g + s
        BY <1>1, <3>1, <3>2, <4>1, <4>2 DEF Moved
      <4>4. h <= n
        BY <3>3, <4>3
      <4> QED BY <1>4, <3>1, <3>2, <4>4
    <3>5. CASE ~ \E k \in 1..Len(c) : m[k] = i
      <4>1. h = g + s
        BY <1>1, <3>1, <3>2, <3>5 DEF Moved
      <4> QED BY <1>4, <3>1, <3>2, <3>3, <4>1
    <3> QED BY <3>4, <3>5
  <2> QED BY <2>1, <2>2, <2>3
<1>8. AllCorrect(c, e, v)
  <2> SUFFICES ASSUME v.crashes = 0, NEW q \in Req, Answered(q, v) PROVE Correct(c, e, q, v)
    BY DEF AllCorrect
  <2>1. q \in Req \ T /\ Correct(b, d, q, v)
    BY <1>4 DEF AllCorrect
  <2>2. /\ Out(b, q) => Out(c, q) /\ e[q] = d[q]
        /\ \A n : Whole(b, d, q, n) => Whole(c, e, q, n)
    BY <1>2, <1>4, <2>1, CutWhole
  <2> QED BY <2>1, <2>2 DEF Correct
<1> QED BY <1>6, <1>7, <1>8 DEF Sound

\* What d becomes when execution f is dealt with, too.
With(d, f) ==
  [q \in Req |-> d[q] + (IF q = f.long THEN f.qty ELSE 0) + (IF q = f.short THEN f.qty ELSE 0)]

\* Both sides of an execution get its quantity.
LEMMA WithIs ==
  ASSUME NEW d \in [Req -> Nat], NEW f \in Fill, f.long # f.short
  PROVE  /\ With(d, f) \in [Req -> Nat] /\ f.qty \in Nat
         /\ \A q \in Req : With(d, f)[q] = IF q \in {f.long, f.short} THEN d[q] + f.qty ELSE d[q]
<1>1. f.qty \in Nat /\ \A q \in Req : d[q] \in Nat
  BY DEF Fill
<1>2. \A q \in Req : With(d, f)[q] = IF q \in {f.long, f.short} THEN d[q] + f.qty ELSE d[q]
  BY <1>1 DEF With
<1>3. With(d, f) \in [Req -> Nat]
  BY <1>1 DEF With
<1> QED BY <1>1, <1>2, <1>3

\* A match of taker r with maker b[i] cuts the book.
LEMMA ConsumeCut ==
  ASSUME Grain = 1, NEW b \in Seq(Order), NEW i \in DOMAIN b, NEW r \in Req, Out(b, r),
         \A j, k \in DOMAIN b : b[j].id = b[k].id => j = k,
         NEW d \in [Req -> Nat], NEW f \in Fill, f.qty <= b[i].size,
         \/ f.long = r /\ f.short = b[i].id
         \/ f.long = b[i].id /\ f.short = r
  PROVE  /\ Cut(b, Consume(b, i, f.qty), d, With(d, f), {r})
         /\ Out(Consume(b, i, f.qty), r)
<1> DEFINE c == Consume(b, i, f.qty)
           e == With(d, f)
<1>1. /\ DOMAIN b = 1..Len(b) /\ Len(b) \in Nat /\ i \in 1..Len(b)
      /\ \A k \in 1..Len(b) : b[k] \in Order /\ b[k].id \in Req /\ b[k].size \in Nat /\ b[k].at \in Nat
  BY PlaceIs
<1>2. f.long # f.short
  BY <1>1 DEF Out
<1>3. /\ e \in [Req -> Nat] /\ f.qty \in Nat
      /\ \A q \in Req : e[q] = IF q \in {r, b[i].id} THEN d[q] + f.qty ELSE d[q]
  BY <1>2, WithIs
<1> HIDE DEF e
<1>4. ASSUME NEW q \in Req \ {r}, Out(b, q) PROVE e[q] = d[q]
  BY <1>1, <1>3, <1>4 DEF Out
<1>5. \A k \in 1..Len(b) \ {i} : b[k].id \notin {r, b[i].id}
  BY <1>1 DEF Out
<1>6. CASE f.qty = b[i].size
  <2>1. /\ c \in Seq(Order) /\ Len(c) = Len(b) - 1
        /\ \A k \in 1..Len(b) - 1 : c[k] = IF k < i THEN b[k] ELSE b[k + 1]
    <3>1. c = RemoveAt(b, i)
      BY <1>6 DEF Consume
    <3> HIDE DEF c
    <3> QED BY <1>1, <3>1, RemoveAtIs
  <2> DEFINE m == [k \in 1..Len(c) |-> IF k < i THEN k ELSE k + 1]
  <2> HIDE DEF c
  <2>2. \A k \in 1..Len(c) : /\ m[k] \in 1..Len(b) /\ m[k] # i /\ c[k] = b[m[k]]
                             /\ m[k] = IF k < i THEN k ELSE k + 1
    BY <1>1, <2>1
  <2>3. m \in [1..Len(c) -> 1..Len(b)]
    BY <1>1, <2>1
  <2>4. \A k, j \in 1..Len(c) : /\ m[k] = m[j] => k = j
                                /\ k < j => m[k] < m[j]
    BY <1>1, <2>1, <2>2
  <2>5. ASSUME NEW k \in 1..Len(b) PROVE (\E j \in 1..Len(c) : m[j] = k) \/ k = i
    <3>1. CASE k < i
      <4>1. k \in 1..Len(c)
        BY <1>1, <2>1, <3>1
      <4> QED BY <2>2, <3>1, <4>1
    <3>2. CASE k > i
      <4>1. k - 1 \in 1..Len(c) /\ ~ (k - 1 < i) /\ (k - 1) + 1 = k
        BY <1>1, <2>1, <3>2
      <4> QED BY <2>2, <4>1
    <3> QED BY <1>1, <3>1, <3>2
  <2> HIDE DEF m
  <2>6. ASSUME NEW k \in 1..Len(c)
        PROVE  /\ c[k].id = b[m[k]].id /\ c[k].at = b[m[k]].at /\ c[k].size <= b[m[k]].size
               /\ e[c[k].id] + c[k].size = d[c[k].id] + b[m[k]].size
    <3>1. PICK x \in 1..Len(b) : x = m[k] /\ x # i /\ c[k] = b[x]
      BY <2>2
    <3>2. e[b[x].id] = d[b[x].id]
      BY <1>1, <1>3, <1>5, <3>1
    <3>3. b[x].size <= b[x].size
      BY <1>1
    <3> QED BY <3>1, <3>2, <3>3
  <2>7. e[b[i].id] = d[b[i].id] + b[i].size
    BY <1>1, <1>3, <1>6
  <2>8. Moved(b, c, m, d, e)
    BY <2>3, <2>4, <2>5, <2>6, <2>7 DEF Moved
  <2>9. DOMAIN c = 1..Len(c)
    BY <2>1, PlaceIs
  <2>10. Out(c, r)
    BY <1>1, <2>2, <2>9 DEF Out
  <2> QED BY <1>3, <1>4, <2>1, <2>8, <2>10 DEF Cut, c, e
<1>7. CASE f.qty # b[i].size
  <2> DEFINE o == [b[i] EXCEPT !.size = b[i].size - f.qty]
  <2>1. b[i].size - f.qty \in Nat /\ SizeStr(b[i].size - f.qty) = b[i].size - f.qty
    <3>1. b[i].size - f.qty \in Nat
      BY <1>1, <1>3
    <3> QED BY <3>1, SizeStrIs
  <2>2. o \in Order /\ o.id = b[i].id /\ o.at = b[i].at /\ o.size = b[i].size - f.qty
    BY <1>1, <2>1 DEF Order
  <2>3. c = [b EXCEPT ![i] = o]
    BY <1>7, <2>1 DEF Consume
  <2> HIDE DEF o, c
  <2>4. c \in Seq(Order) /\ Len(c) = Len(b) /\ c[i] = o /\ \A k \in 1..Len(b) \ {i} : c[k] = b[k]
    BY <1>1, <2>2, <2>3, ExceptSeq
  <2> DEFINE m == [k \in 1..Len(c) |-> k]
  <2>5. \A k \in 1..Len(c) : m[k] = k
    OBVIOUS
  <2>6. m \in [1..Len(c) -> 1..Len(b)]
    BY <2>4
  <2> HIDE DEF m
  <2>7. ASSUME NEW k \in 1..Len(c)
        PROVE  /\ c[k].id = b[k].id /\ c[k].at = b[k].at /\ c[k].size <= b[k].size
               /\ e[c[k].id] + c[k].size = d[c[k].id] + b[k].size
    <3>1. CASE k = i
      <4>1. e[b[i].id] = d[b[i].id] + f.qty /\ d[b[i].id] \in Nat
        BY <1>1, <1>3
      <4>2. PICK s \in Nat, q \in Nat, g \in Nat : s = b[i].size /\ q = f.qty /\ g = d[b[i].id]
        BY <1>1, <1>3, <4>1
      <4>3. q <= s
        BY <1>3, <4>2
      <4>5. s - q <= s /\ (g + q) + (s - q) = g + s
        OBVIOUS
      <4> QED BY <2>2, <2>4, <3>1, <4>1, <4>2, <4>3, <4>5
    <3>2. CASE k # i
      <4>1. c[k] = b[k] /\ e[c[k].id] = d[c[k].id]
        BY <1>1, <1>3, <1>5, <2>4, <3>2
      <4> QED BY <1>1, <2>4, <4>1
    <3> QED BY <3>1, <3>2
  <2>8. Moved(b, c, m, d, e)
    BY <2>4, <2>5, <2>6, <2>7 DEF Moved
  <2>9. DOMAIN c = 1..Len(c)
    BY <2>4, PlaceIs
  <2>10. Out(c, r)
    BY <1>1, <2>4, <2>7, <2>9 DEF Out
  <2> QED BY <1>3, <1>4, <2>4, <2>8, <2>10 DEF Cut, c, e
<1> QED BY <1>6, <1>7

\* The place, in the list, of place k of the list without places x < y.
Skip(x, y, k) == IF k < x THEN k ELSE IF k + 1 < y THEN k + 1 ELSE k + 2

Skips(n, x, y) ==
  /\ n - 2 \in Nat
  /\ \A k \in 1..n - 2 : Skip(x, y, k) \in 1..n /\ Skip(x, y, k) # x /\ Skip(x, y, k) # y
  /\ \A j, k \in 1..n - 2 : j < k => Skip(x, y, j) < Skip(x, y, k)
  /\ \A i \in 1..n : i # x /\ i # y => \E k \in 1..n - 2 : Skip(x, y, k) = i

\* Skip counts the other places, in order.
LEMMA SkipIs ==
  ASSUME NEW n \in Nat, NEW x \in 1..n, NEW y \in 1..n, x < y
  PROVE  Skips(n, x, y)
<1>1. n - 2 \in Nat
  OBVIOUS
<1>2. \A k \in 1..n - 2 : Skip(x, y, k) \in 1..n /\ Skip(x, y, k) # x /\ Skip(x, y, k) # y
  BY DEF Skip
<1>3. \A j, k \in 1..n - 2 : j < k => Skip(x, y, j) < Skip(x, y, k)
  BY DEF Skip
<1>4. ASSUME NEW i \in 1..n, i # x, i # y PROVE \E k \in 1..n - 2 : Skip(x, y, k) = i
  <2>1. CASE i < x
    <3>1. i \in 1..n - 2 /\ Skip(x, y, i) = i
      BY <2>1 DEF Skip
    <3> QED BY <3>1
  <2>2. CASE i > x /\ i < y
    <3>1. i - 1 \in 1..n - 2 /\ Skip(x, y, i - 1) = i
      BY <2>2 DEF Skip
    <3> QED BY <3>1
  <2>3. CASE i > y
    <3>1. i - 2 \in 1..n - 2 /\ Skip(x, y, i - 2) = i
      BY <2>3 DEF Skip
    <3> QED BY <3>1
  <2> QED BY <1>4, <2>1, <2>2, <2>3
<1> QED BY <1>1, <1>2, <1>3, <1>4 DEF Skips

\* The list without two places.
LEMMA TwoOut ==
  ASSUME NEW S, NEW b \in Seq(S), NEW x \in 1..Len(b), NEW y \in 1..Len(b), x < y
  PROVE  LET c == RemoveAt(RemoveAt(b, y), x)
         IN  /\ c \in Seq(S) /\ Len(c) = Len(b) - 2
             /\ \A k \in 1..Len(b) - 2 : c[k] = b[Skip(x, y, k)]
<1> DEFINE a == RemoveAt(b, y)
           c == RemoveAt(a, x)
<1>0. Len(b) \in Nat
  BY LenProperties
<1>1. /\ a \in Seq(S) /\ Len(a) = Len(b) - 1
      /\ \A k \in 1..Len(b) - 1 : a[k] = IF k < y THEN b[k] ELSE b[k + 1]
  BY RemoveAtIs
<1> HIDE DEF a
<1>2. x \in 1..Len(a) /\ Len(a) - 1 = Len(b) - 2
  BY <1>0, <1>1
<1>3. /\ c \in Seq(S) /\ Len(c) = Len(a) - 1
      /\ \A k \in 1..Len(a) - 1 : c[k] = IF k < x THEN a[k] ELSE a[k + 1]
  BY <1>1, <1>2, RemoveAtIs
<1> HIDE DEF c
<1>4. ASSUME NEW k \in 1..Len(b) - 2 PROVE c[k] = b[Skip(x, y, k)]
  <2>1. CASE k < x
    <3>1. k \in 1..Len(b) - 1 /\ k < y
      BY <1>0, <2>1
    <3> QED BY <1>1, <1>2, <1>3, <2>1, <3>1 DEF Skip
  <2>2. CASE ~ (k < x)
    <3>1. k + 1 \in 1..Len(b) - 1 /\ (k + 1) + 1 = k + 2
      BY <1>0
    <3>2. c[k] = a[k + 1]
      BY <1>2, <1>3, <2>2
    <3> QED BY <1>1, <2>2, <3>1, <3>2 DEF Skip
  <2> QED BY <2>1, <2>2
<1> QED BY <1>2, <1>3, <1>4 DEF c, a

\* Both orders of a cross leave their places x < y, and what is left of the larger, if anything, is put behind the others.
CrossOf(b, c, x, y, l, s) ==
  LET n == Len(b) - 2
      Pushed(big, small) == /\ Len(c) = n + 1 /\ c[n + 1] \in Order
                            /\ c[n + 1].id = b[big].id /\ c[n + 1].at = b[big].at
                            /\ c[n + 1].size = b[big].size - b[small].size
  IN  /\ c \in Seq(Order)
      /\ \A k \in 1..n : c[k] = b[Skip(x, y, k)]
      /\ b[l].size = b[s].size => Len(c) = n
      /\ b[l].size > b[s].size => Pushed(l, s)
      /\ b[s].size > b[l].size => Pushed(s, l)

\* What Rest leaves of an order.
LEMMA RestIs ==
  ASSUME Grain = 1, NEW o \in Order, NEW q \in Nat
  PROVE  /\ o.size > q => \E z \in Order : /\ Rest(o, q) = <<z>>
                                           /\ z.id = o.id /\ z.at = o.at /\ z.size = o.size - q
         /\ ~ (o.size > q) => Rest(o, q) = <<>>
<1>1. o.size \in Nat
  BY DEF Order
<1>2. ASSUME o.size > q
      PROVE  \E z \in Order : Rest(o, q) = <<z>> /\ z.id = o.id /\ z.at = o.at /\ z.size = o.size - q
  <2>1. o.size - q \in Nat
    BY <1>1, <1>2
  <2>2. SizeStr(o.size - q) = o.size - q
    BY <2>1, SizeStrIs
  <2> DEFINE z == [o EXCEPT !.size = o.size - q]
  <2>3. z \in Order /\ z.id = o.id /\ z.at = o.at /\ z.size = o.size - q
    BY <2>1 DEF Order
  <2>4. Rest(o, q) = <<z>>
    BY <1>2, <2>2 DEF Rest
  <2> HIDE DEF z
  <2> QED BY <2>3, <2>4
<1> QED BY <1>2 DEF Rest

\* So does Cross.
LEMMA CrossIs ==
  ASSUME Grain = 1, NEW b \in Seq(Order), NEW l \in 1..Len(b), NEW s \in 1..Len(b), l # s
  PROVE  CrossOf(b, Cross(b, l, s), IF l < s THEN l ELSE s, IF l < s THEN s ELSE l, l, s)
<1> DEFINE x == IF l < s THEN l ELSE s
           y == IF l < s THEN s ELSE l
           q == Smaller(b[l].size, b[s].size)
           others == RemoveAt(RemoveAt(b, y), x)
           n == Len(b) - 2
           c == Cross(b, l, s)
<1>1. /\ Len(b) \in Nat /\ b[l] \in Order /\ b[s] \in Order
      /\ b[l].size \in Nat /\ b[s].size \in Nat
  BY PlaceIs
<1>2. x \in 1..Len(b) /\ y \in 1..Len(b) /\ x < y
  BY <1>1
<1>3. c = others \o Rest(b[l], q) \o Rest(b[s], q)
  <2>1. CASE l < s
    BY <2>1 DEF Cross
  <2>2. CASE ~ (l < s)
    BY <2>2 DEF Cross
  <2> QED BY <2>1, <2>2
<1> HIDE DEF x, y, c
<1>4. /\ others \in Seq(Order) /\ Len(others) = n /\ n \in Nat
      /\ \A k \in 1..n : others[k] = b[Skip(x, y, k)]
  <2>1. n \in Nat
    BY <1>1, <1>2
  <2> QED BY <1>2, <2>1, TwoOut
<1> HIDE DEF others
<1>5. q \in Nat /\ (b[l].size > b[s].size => q = b[s].size) /\ (b[s].size >= b[l].size => q = b[l].size)
  BY <1>1 DEF Smaller
<1> HIDE DEF q, n
<1>6. others \o <<>> = others
  BY <1>4, ConcatEmptySeq
<1>7. ASSUME NEW z \in Order
      PROVE  /\ others \o <<z>> \in Seq(Order) /\ Len(others \o <<z>>) = n + 1
             /\ \A k \in 1..n : (others \o <<z>>)[k] = others[k]
             /\ (others \o <<z>>)[n + 1] = z
             /\ (others \o <<z>>) \o <<>> = others \o <<z>>
  <2>1. <<z>> \in Seq(Order) /\ Len(<<z>>) = 1 /\ <<z>>[1] = z
    OBVIOUS
  <2>2. /\ others \o <<z>> \in Seq(Order) /\ Len(others \o <<z>>) = Len(others) + Len(<<z>>)
        /\ \A k \in 1..Len(others) + Len(<<z>>) :
             (others \o <<z>>)[k] = IF k <= Len(others) THEN others[k] ELSE <<z>>[k - Len(others)]
    BY <1>4, <2>1, ConcatProperties
  <2>3. (others \o <<z>>) \o <<>> = others \o <<z>>
    BY <2>2, ConcatEmptySeq
  <2>4. /\ \A k \in 1..n : k \in 1..n + 1 /\ k <= n
        /\ n + 1 \in 1..n + 1 /\ ~ (n + 1 <= n) /\ (n + 1) - n = 1
    BY <1>4
  <2> QED BY <1>4, <2>1, <2>2, <2>3, <2>4
<1>8. CASE b[l].size = b[s].size
  <2>1. Rest(b[l], q) = <<>> /\ Rest(b[s], q) = <<>>
    BY <1>1, <1>5, <1>8, RestIs
  <2>2. c = others
    BY <1>3, <1>6, <2>1
  <2> QED BY <1>1, <1>4, <1>8, <2>2 DEF CrossOf, x, y, c, n
<1>9. CASE b[l].size > b[s].size
  <2>1. Rest(b[s], q) = <<>>
    BY <1>1, <1>5, <1>9, RestIs
  <2>2. PICK z \in Order : Rest(b[l], q) = <<z>> /\ z.id = b[l].id /\ z.at = b[l].at /\ z.size = b[l].size - b[s].size
    BY <1>1, <1>5, <1>9, RestIs
  <2>3. c = others \o <<z>>
    BY <1>3, <1>7, <2>1, <2>2
  <2> QED BY <1>1, <1>4, <1>7, <1>9, <2>2, <2>3 DEF CrossOf, x, y, c, n
<1>10. CASE b[s].size > b[l].size
  <2>1. Rest(b[l], q) = <<>>
    BY <1>1, <1>5, <1>10, RestIs
  <2>2. PICK z \in Order : Rest(b[s], q) = <<z>> /\ z.id = b[s].id /\ z.at = b[s].at /\ z.size = b[s].size - b[l].size
    BY <1>1, <1>5, <1>10, RestIs
  <2>3. c = others \o <<z>>
    BY <1>3, <1>6, <2>1, <2>2
  <2> QED BY <1>1, <1>4, <1>7, <1>10, <2>2, <2>3 DEF CrossOf, x, y, c, n
<1> QED BY <1>1, <1>8, <1>9, <1>10

\* A cross of b[l] and b[s] cuts the book.
LEMMA CrossCut ==
  ASSUME Grain = 1, NEW b \in Seq(Order), NEW l \in DOMAIN b, NEW s \in DOMAIN b, l # s,
         \A j, k \in DOMAIN b : b[j].id = b[k].id => j = k,
         NEW d \in [Req -> Nat], NEW f \in Fill,
         f.long = b[l].id, f.short = b[s].id, f.qty = Smaller(b[l].size, b[s].size),
         b[l].size > 0, b[s].size > 0
  PROVE  Cut(b, Cross(b, l, s), d, With(d, f), {})
<1> DEFINE c == Cross(b, l, s)
           e == With(d, f)
           x == IF l < s THEN l ELSE s
           y == IF l < s THEN s ELSE l
           n == Len(b) - 2
           big == IF b[l].size > b[s].size THEN l ELSE s
           m == [k \in 1..Len(c) |-> IF k <= n THEN Skip(x, y, k) ELSE big]
<1>1. /\ DOMAIN b = 1..Len(b) /\ Len(b) \in Nat /\ l \in 1..Len(b) /\ s \in 1..Len(b)
      /\ \A k \in 1..Len(b) : b[k] \in Order /\ b[k].id \in Req /\ b[k].size \in Nat /\ b[k].at \in Nat
  BY PlaceIs
<1>2. f.long # f.short
  OBVIOUS
<1>3. /\ e \in [Req -> Nat] /\ f.qty \in Nat
      /\ \A q \in Req : e[q] = IF q \in {b[l].id, b[s].id} THEN d[q] + f.qty ELSE d[q]
  BY <1>2, WithIs
<1> HIDE DEF e
<1>4. x \in 1..Len(b) /\ y \in 1..Len(b) /\ x < y /\ {x, y} = {l, s}
  BY <1>1
<1>5. CrossOf(b, c, x, y, l, s)
  BY <1>1, CrossIs
<1>6. /\ big \in {l, s}
      /\ b[l].size > b[s].size => big = l
      /\ b[s].size > b[l].size => big = s
  BY <1>1
<1> HIDE DEF c, x, y, big
<1>7. /\ n \in Nat
      /\ \A k \in 1..n : Skip(x, y, k) \in 1..Len(b) /\ Skip(x, y, k) # x /\ Skip(x, y, k) # y
      /\ \A j, k \in 1..n : j < k => Skip(x, y, j) < Skip(x, y, k)
      /\ \A i \in 1..Len(b) : i # x /\ i # y => \E k \in 1..n : Skip(x, y, k) = i
  <2>1. Skips(Len(b), x, y)
    BY <1>1, <1>4, SkipIs
  <2> QED BY <2>1 DEF Skips, n
<1> HIDE DEF n
<1>8. /\ c \in Seq(Order) /\ \A k \in 1..n : c[k] = b[Skip(x, y, k)]
      /\ b[l].size = b[s].size => Len(c) = n
      /\ b[l].size # b[s].size =>
           /\ Len(c) = n + 1 /\ c[n + 1].id = b[big].id /\ c[n + 1].at = b[big].at
           /\ c[n + 1].size = b[big].size - f.qty /\ c[n + 1].size < b[big].size
  <2>1. b[l].size \in Nat /\ b[s].size \in Nat
    BY <1>1
  <2>2. CASE b[l].size = b[s].size
    BY <1>5, <2>2 DEF CrossOf, n
  <2>3. CASE b[l].size > b[s].size
    <3>1. f.qty = b[s].size /\ big = l
      BY <1>6, <2>1, <2>3 DEF Smaller
    <3>2. Len(c) = n + 1 /\ c[n + 1].id = b[l].id /\ c[n + 1].at = b[l].at /\ c[n + 1].size = b[l].size - b[s].size
      BY <1>5, <2>3 DEF CrossOf, n
    <3> QED BY <1>5, <2>1, <2>3, <3>1, <3>2 DEF CrossOf, n
  <2>4. CASE b[s].size > b[l].size
    <3>1. f.qty = b[l].size /\ big = s
      BY <1>6, <2>1, <2>4 DEF Smaller
    <3>2. Len(c) = n + 1 /\ c[n + 1].id = b[s].id /\ c[n + 1].at = b[s].at /\ c[n + 1].size = b[s].size - b[l].size
      BY <1>5, <2>4 DEF CrossOf, n
    <3> QED BY <1>5, <2>1, <2>4, <3>1, <3>2 DEF CrossOf, n
  <2> QED BY <2>1, <2>2, <2>3, <2>4
<1>9. /\ DOMAIN c = 1..Len(c) /\ Len(c) \in {n, n + 1}
      /\ (Len(c) = n + 1 <=> b[l].size # b[s].size)
  <2>1. DOMAIN c = 1..Len(c)
    BY <1>8, PlaceIs
  <2>2. n # n + 1
    BY <1>7
  <2> QED BY <1>8, <2>1, <2>2
<1>length. n \in Nat /\ Len(c) \in {n, n + 1}
  BY <1>7, <1>9
<1>10. \A k \in 1..Len(c) : /\ m[k] = IF k <= n THEN Skip(x, y, k) ELSE big
                            /\ k <= n => k \in 1..n
                            /\ k <= n \/ k = n + 1
  <2> SUFFICES ASSUME NEW k \in 1..Len(c)
               PROVE  (k <= n => k \in 1..n) /\ (k <= n \/ k = n + 1)
    OBVIOUS
  <2>1. k \in Nat /\ k >= 1 /\ (k <= n \/ k <= n + 1)
    BY <1>length
  <2> QED BY <1>length, <2>1
<1>11. m \in [1..Len(c) -> 1..Len(b)]
  <2>1. \A k \in 1..Len(c) : (IF k <= n THEN Skip(x, y, k) ELSE big) \in 1..Len(b)
    BY <1>1, <1>6, <1>7, <1>10
  <2> QED BY <2>1
<1> HIDE DEF m
<1>12. \A k \in 1..n : b[Skip(x, y, k)].id \notin {b[l].id, b[s].id}
  <2> SUFFICES ASSUME NEW k \in 1..n PROVE b[Skip(x, y, k)].id # b[l].id /\ b[Skip(x, y, k)].id # b[s].id
    OBVIOUS
  <2>1. PICK i \in 1..Len(b) : i = Skip(x, y, k) /\ i \notin {l, s}
    BY <1>4, <1>7
  <2> QED BY <1>1, <2>1
<1>13. ASSUME NEW k \in 1..Len(c), NEW j \in 1..Len(c), k < j PROVE k \in 1..n
  <2>1. k \in Nat /\ j \in Nat /\ k >= 1 /\ (j <= n \/ j = n + 1)
    BY <1>length
  <2> QED BY <1>13, <1>length, <2>1
<1>14. ASSUME NEW k \in 1..Len(c)
       PROVE  /\ c[k].id = b[m[k]].id /\ c[k].at = b[m[k]].at /\ c[k].size <= b[m[k]].size
              /\ e[c[k].id] + c[k].size = d[c[k].id] + b[m[k]].size
              /\ k > n => c[k].size < b[m[k]].size /\ m[k] \in {l, s}
  <2>1. CASE k <= n
    <3>1. PICK i \in 1..Len(b) : i = Skip(x, y, k) /\ i = m[k] /\ c[k] = b[i]
      BY <1>7, <1>8, <1>10, <2>1
    <3>2. e[b[i].id] = d[b[i].id]
      BY <1>1, <1>3, <1>10, <1>12, <2>1, <3>1
    <3>3. b[i].size \in Nat /\ ~ (k > n)
      BY <1>1, <1>7, <2>1
    <3> QED BY <3>1, <3>2, <3>3
  <2>2. CASE ~ (k <= n)
    <3>1. k = n + 1 /\ m[k] = big /\ b[l].size # b[s].size
      BY <1>9, <1>10, <2>2
    <3>2. PICK i \in {l, s} : i = big
      BY <1>6
    <3>3. i \in 1..Len(b) /\ e[b[i].id] = d[b[i].id] + f.qty /\ d[b[i].id] \in Nat /\ b[i].size \in Nat
      BY <1>1, <1>3, <3>2
    <3>4. PICK u \in Nat, w \in Nat, g \in Nat : u = b[i].size /\ w = f.qty /\ g = d[b[i].id]
      BY <1>3, <3>3
    <3>5. c[k].id = b[i].id /\ c[k].at = b[i].at /\ c[k].size = u - w /\ u - w < u
      BY <1>8, <3>1, <3>2, <3>4
    <3>6. u - w <= u /\ (g + w) + (u - w) = g + u
      BY <3>4, <3>5
    <3> QED BY <3>1, <3>2, <3>3, <3>4, <3>5, <3>6
  <2> QED BY <2>1, <2>2
<1>15. ASSUME NEW k \in 1..Len(c), NEW j \in 1..Len(c), k < j PROVE m[k] # m[j] /\ (m[k] < m[j] \/ c[j].size < b[m[j]].size)
  <2>1. k \in 1..n /\ m[k] = Skip(x, y, k)
    BY <1>7, <1>10, <1>13, <1>15
  <2>2. CASE j <= n
    <3>1. j \in 1..n /\ m[j] = Skip(x, y, j)
      BY <1>10, <2>2
    <3>2. Skip(x, y, k) < Skip(x, y, j) /\ Skip(x, y, k) \in 1..Len(b) /\ Skip(x, y, j) \in 1..Len(b)
      BY <1>7, <1>15, <2>1, <3>1
    <3>3. \A u, w \in Nat : u < w => u # w
      OBVIOUS
    <3> QED BY <1>1, <2>1, <3>1, <3>2, <3>3
  <2>3. CASE ~ (j <= n)
    <3>1. j > n
      BY <1>7, <2>3
    <3>2. Skip(x, y, k) \notin {l, s}
      BY <1>4, <1>7, <2>1
    <3> QED BY <1>14, <2>1, <3>1, <3>2
  <2> QED BY <2>2, <2>3
<1>16. ASSUME NEW k \in 1..Len(c), NEW j \in 1..Len(c), m[k] = m[j] PROVE k = j
  <2>1. ~ (k < j) /\ ~ (j < k)
    BY <1>15, <1>16
  <2>2. Len(c) \in Nat
    BY <1>length
  <2>3. k \in Nat /\ j \in Nat
    BY <2>2
  <2> QED BY <2>1, <2>3
<1>17. ASSUME NEW i \in 1..Len(b) PROVE (\E k \in 1..Len(c) : m[k] = i) \/ e[b[i].id] = d[b[i].id] + b[i].size
  <2>1. CASE i \notin {l, s}
    <3>1. PICK k \in 1..n : Skip(x, y, k) = i
      BY <1>4, <1>7, <2>1
    <3>2. k \in 1..Len(c) /\ k <= n
      BY <1>length
    <3>3. m[k] = Skip(x, y, k)
      BY <1>10, <3>2
    <3> QED BY <3>1, <3>2, <3>3
  <2>2. CASE i \in {l, s} /\ i = big /\ b[l].size # b[s].size
    <3>1. n + 1 \in 1..Len(c) /\ ~ (n + 1 <= n)
      <4>1. Len(c) = n + 1
        BY <1>9, <2>2
      <4> QED BY <1>length, <4>1
    <3>2. m[n + 1] = big
      BY <1>10, <3>1
    <3> QED BY <2>2, <3>1, <3>2
  <2>3. CASE i \in {l, s} /\ ~ (i = big /\ b[l].size # b[s].size)
    <3>1. f.qty = b[i].size
      <4>1. b[l].size \in Nat /\ b[s].size \in Nat
        BY <1>1
      <4> QED BY <1>6, <2>3, <4>1 DEF Smaller
    <3> QED BY <1>1, <1>3, <2>3, <3>1
  <2> QED BY <2>1, <2>2, <2>3
<1>18. Moved(b, c, m, d, e)
  BY <1>11, <1>14, <1>15, <1>16, <1>17 DEF Moved
<1>19. ASSUME NEW q \in Req, Out(b, q) PROVE e[q] = d[q]
  BY <1>1, <1>3, <1>19 DEF Out
<1> QED BY <1>3, <1>8, <1>18, <1>19 DEF Cut, c, e

-----------------------------------------------------------------------------
(* What the handler of a submit knows at each of its places.               *)

\* Before its own order is added: what is to rest and what was dealt with make its size.  During the sweep: it is as
\* whole as any other.
TakerSound(b, d, r, rem, v) == Sound(b, d, v) /\ Out(b, r) /\ d[r] + rem = v.req[r].size
SweepSound(b, d, r, v) == Sound(b, d, v) /\ Whole(b, d, r, v.req[r].size)

\* f is the handler's frame, b a book, d what is dealt with once b is the book.
Truth(f, b, d, r, v) ==
  IF f.phase = "taker" THEN TakerSound(b, d, r, f.rem, v) ELSE SweepSound(b, d, r, v)

\* What may be restored.
Restorable(f, d, r, v) ==
  IF f.phase = "taker" THEN Sound(f.snap, d, v) /\ Out(f.snap, r) /\ d[r] = 0 ELSE SweepSound(f.snap, d, r, v)

OneFill(f) == f.phase \in {"taker", "sweep"} /\ Len(f.fills) = 1 /\ f.done = 0
Collects(f) == f.phase = "sweep" /\ f.done = 0 /\ (ParallelSweep \/ f.fills = <<>>)

\* The executions whose pipelines have not gone through, and what d becomes when they are dealt with, too.
Share(z, q) == (IF q = z.long THEN z.qty ELSE 0) + (IF q = z.short THEN z.qty ELSE 0)
Owed(z, U, q) == SumFunction([k \in U |-> Share(z[k], q)])
Due(z, d, U) == [q \in Req |-> d[q] + Owed(z, U, q)]
Pending(f) ==
  {k \in 1..Len(f.fills) :
     k > f.done /\ ~ (k - f.done \in DOMAIN f.slot /\ f.slot[k - f.done] = "ok")}
About(f, d) == Due(f.fills, d, Pending(f))

\* No pipeline of the chunk has failed, and none of the sweep has succeeded.
Unfailed(f) == \A i \in DOMAIN f.slot : f.slot[i] \in {"running", "ok"}
Unsettled(f) == f.done = 0 /\ \A i \in DOMAIN f.slot : f.slot[i] # "ok"

\* With b the book, s the state of its file and d what has been settled.
Stage(r, f, b, s, d, v) ==
  LET p == v.pc[r] IN
  /\ p \in Awaits \ {"rollback", "cli"}
  /\ f.phase = "batch" => ParallelSweep
  /\ p \in {"snap", "match"} => f.phase = "taker" /\ f.fills = <<>> /\ TakerSound(b, d, r, f.rem, v)
  /\ p = "match" => f.snap = b
  /\ p \in {"open", "land"} =>
       \/ /\ (f.next = "pipe" /\ OneFill(f)) \/ (f.next = "cross" /\ Collects(f))
          /\ Truth(f, f.buf, About(f, d), r, v) /\ Restorable(f, d, r, v)
       \/ f.next \in {"sweep", "error"} /\ SweepSound(f.buf, d, r, v)
  /\ p = "land" => s = "truncated"
  /\ p = "cross" => Collects(f)
  /\ p = "pull" => f.phase = "batch" /\ f.done = 0
  /\ p = "pipe" => OneFill(f) \/ f.phase = "batch"
  /\ p \in {"cross", "pull", "pipe"} =>
       Truth(f, b, About(f, d), r, v) /\ (f.done = 0 => Restorable(f, d, r, v))
  /\ p = "join" =>
       /\ \/ f.phase = "batch"
          \/ /\ OneFill(f) /\ Len(f.slot) = 1
             /\ f.slot[1] = "land" => s = "truncated"
             /\ f.slot[1] = "failed" => b = f.snap
       /\ Unfailed(f) => Truth(f, b, About(f, d), r, v)
       /\ Unsettled(f) => Restorable(f, d, r, v)
  /\ p \in {"stamp", "add"} => TakerSound(b, d, r, f.rem, v)
  /\ p = "add" => f.at = v.clock
  /\ p = "sweep" => SweepSound(b, d, r, v)

Submits(r) == Active(r) /\ req[r].kind = "submit"

Accounted ==
  /\ \A r \in Req : req[r].kind \in {"none", "submit", "runall"}
  /\ Good(book, settled, Now) /\ Within(settled, Now)
  /\ (\A r \in Req : ~ Submits(r)) => AllCorrect(book, settled, Now)
  /\ \A r \in Req : Submits(r) => Stage(r, frame[r], book, file, settled, Now)

\* The log has asked for nothing, and nothing has happened that it is going to ask for: no batch has settled one
\* execution and restored the book for another.  In parallel sweeps: nor has the API crashed.
Undivided(r) == pc[r] = "join" /\ frame[r].phase = "batch" => Unfailed(frame[r]) \/ Unsettled(frame[r])
Trusted == ~ reconcile /\ (ParallelSweep => crashes = 0 /\ \A r \in Req : Undivided(r))

VenueInv == Trusted => Accounted

\* What executions owe an order, with one more or less of them.
LEMMA OwedIs ==
  ASSUME NEW z \in Seq(Fill), NEW U \in SUBSET (1..Len(z)), NEW q
  PROVE  /\ Owed(z, U, q) \in Nat
         /\ U = {} => Owed(z, U, q) = 0
         /\ \A k \in U : Share(z[k], q) \in Nat /\ Owed(z, U, q) = Share(z[k], q) + Owed(z, U \ {k}, q)
<1> DEFINE f == [k \in U |-> Share(z[k], q)]
<1>1. IsFiniteSet(U)
  <2>1. IsFiniteSet(1..Len(z))
    BY LenProperties, FS_Interval
  <2> QED BY <2>1, FS_Subset
<1>2. ASSUME NEW k \in U PROVE Share(z[k], q) \in Nat
  <2>1. z[k] \in Fill
    BY ElementOfSeq
  <2>2. z[k].qty \in Nat
    BY <2>1 DEF Fill
  <2> QED BY <2>2 DEF Share
<1>3. f \in [U -> Nat] /\ f \in [U -> Int]
  BY <1>2
<1>4. Owed(z, U, q) = SumFunction(f)
  BY DEF Owed
<1>5. ASSUME NEW k \in U PROVE Owed(z, U \ {k}, q) = SumFunction([y \in U \ {k} |-> f[y]])
  <2>1. [y \in U \ {k} |-> f[y]] = [y \in U \ {k} |-> Share(z[y], q)]
    OBVIOUS
  <2> QED BY <2>1 DEF Owed
<1>6. \A k \in U : f[k] = Share(z[k], q)
  OBVIOUS
<1> HIDE DEF f
<1>7. SumFunction(f) \in Nat
  BY <1>1, <1>3, SumOfNats
<1>8. U = {} => SumFunction(f) = 0
  BY <1>1, <1>3, SumWithout
<1>9. \A k \in U : SumFunction(f) = f[k] + SumFunction([y \in U \ {k} |-> f[y]])
  BY <1>1, <1>3, SumWithout
<1> QED BY <1>2, <1>4, <1>5, <1>6, <1>7, <1>8, <1>9

\* What is dealt with once they are, too.
LEMMA DueIs ==
  ASSUME NEW z \in Seq(Fill), NEW d \in [Req -> Nat], NEW U \in SUBSET (1..Len(z))
  PROVE  /\ Due(z, d, U) \in [Req -> Nat]
         /\ \A q \in Req : d[q] <= Due(z, d, U)[q]
         /\ U = {} => Due(z, d, U) = d
<1>1. \A q \in Req : d[q] \in Nat /\ Owed(z, U, q) \in Nat /\ Due(z, d, U)[q] = d[q] + Owed(z, U, q)
  BY OwedIs DEF Due
<1>2. Due(z, d, U) \in [Req -> Nat]
  <2>1. \A q \in Req : d[q] + Owed(z, U, q) \in Nat
    BY <1>1
  <2> QED BY <2>1 DEF Due
<1>3. ASSUME NEW q \in Req PROVE d[q] <= Due(z, d, U)[q]
  <2>1. \A m, n \in Nat : m <= m + n
    OBVIOUS
  <2> QED BY <1>1, <2>1
<1>4. ASSUME U = {} PROVE Due(z, d, U) = d
  <2>1. \A q \in Req : d[q] + Owed(z, U, q) = d[q]
    <3>1. \A q : Owed(z, U, q) = 0
      BY <1>4, OwedIs
    <3>2. \A m \in Nat : m + 0 = m
      OBVIOUS
    <3> QED BY <1>1, <3>1, <3>2
  <2>2. Due(z, d, U) = [q \in Req |-> d[q]]
    BY <2>1 DEF Due
  <2>3. [q \in Req |-> d[q]] = d
    OBVIOUS
  <2> QED BY <2>2, <2>3
<1> QED BY <1>2, <1>3, <1>4

\* An execution that goes through is settled and no longer owed.
LEMMA DueLess ==
  ASSUME NEW z \in Seq(Fill), NEW d \in [Req -> Nat], NEW U \in SUBSET (1..Len(z)), NEW k \in U
  PROVE  /\ Due(z, With(d, z[k]), U \ {k}) = Due(z, d, U)
         /\ With(Due(z, d, U \ {k}), z[k]) = Due(z, d, U)
<1> DEFINE V == U \ {k}
           e == With(d, z[k])
           h == Due(z, d, V)
<1>1. z[k] \in Fill
  BY ElementOfSeq
<1>2. z[k].qty \in Nat
  BY <1>1 DEF Fill
<1>3. ASSUME NEW q \in Req, NEW g, NEW n \in Nat, g[q] = n PROVE With(g, z[k])[q] = n + Share(z[k], q)
  BY <1>2, <1>3 DEF With, Share
<1>4. ASSUME NEW q \in Req
      PROVE  e[q] + Owed(z, V, q) = d[q] + Owed(z, U, q) /\ With(h, z[k])[q] = d[q] + Owed(z, U, q)
  <2>1. V \in SUBSET (1..Len(z))
    OBVIOUS
  <2>2. PICK s \in Nat, o \in Nat, m \in Nat : s = Share(z[k], q) /\ o = Owed(z, V, q) /\ m = d[q]
    BY <2>1, OwedIs
  <2>3. Owed(z, U, q) = s + o
    BY <2>2, OwedIs
  <2>4. e[q] = m + s
    BY <1>3, <2>2
  <2>5. h[q] = m + o
    BY <2>2 DEF Due
  <2>6. With(h, z[k])[q] = (m + o) + s
    <3> HIDE DEF h
    <3> QED BY <1>3, <2>2, <2>5
  <2>7. (m + s) + o = m + (s + o) /\ (m + o) + s = m + (s + o)
    OBVIOUS
  <2> HIDE DEF e, h, V
  <2> QED BY <2>2, <2>3, <2>4, <2>6, <2>7
<1>5. Due(z, e, V) = Due(z, d, U)
  <2> HIDE DEF e, V
  <2> QED BY <1>4 DEF Due
<1>6. With(h, z[k]) = Due(z, d, U)
  <2>1. With(h, z[k]) = [q \in Req |-> With(h, z[k])[q]]
    BY DEF With
  <2>2. Due(z, d, U) = [q \in Req |-> d[q] + Owed(z, U, q)]
    BY DEF Due
  <2> HIDE DEF h
  <2> QED BY <1>4, <2>1, <2>2
<1> QED BY <1>5, <1>6

\* One more execution is found.
LEMMA DueAppend ==
  ASSUME NEW z \in Seq(Fill), NEW x \in Fill, NEW d \in [Req -> Nat]
  PROVE  Due(Append(z, x), d, 1..Len(z) + 1) = With(Due(z, d, 1..Len(z)), x)
<1> DEFINE y == Append(z, x)
           n == Len(z)
<1>1. n \in Nat /\ y \in Seq(Fill) /\ Len(y) = n + 1 /\ y[n + 1] = x /\ \A k \in 1..n : y[k] = z[k]
  BY AppendIs
<1> HIDE DEF y, n
<1>2. n + 1 \in 1..n + 1 /\ (1..n + 1) \ {n + 1} = 1..n /\ 1..n + 1 \in SUBSET (1..Len(y))
  BY <1>1
<1>3. With(Due(y, d, 1..n), y[n + 1]) = Due(y, d, 1..n + 1)
  <2>1. PICK U \in SUBSET (1..Len(y)) : U = 1..n + 1
    BY <1>2
  <2>2. n + 1 \in U /\ U \ {n + 1} = 1..n
    BY <1>2, <2>1
  <2>3. With(Due(y, d, U \ {n + 1}), y[n + 1]) = Due(y, d, U)
    BY <1>1, <2>2, DueLess
  <2> QED BY <2>1, <2>2, <2>3
<1>4. \A q : [k \in 1..n |-> Share(y[k], q)] = [k \in 1..n |-> Share(z[k], q)]
  BY <1>1
<1>5. Due(y, d, 1..n) = Due(z, d, 1..n)
  BY <1>4 DEF Due, Owed
<1> QED BY <1>1, <1>3, <1>5 DEF y, n

\* The order that is added makes its handler's request as whole as the others.
LEMMA AddSound ==
  ASSUME NEW v \in Views, NEW r \in Req, Placed(r, v), ~ Answered(r, v), NEW d \in [Req -> Nat],
         NEW o \in Order, o.id = r, o.at = v.clock, NEW b, TakerSound(b, d, r, o.size, v)
  PROVE  SweepSound(Append(b, o), d, r, v)
<1> DEFINE c == Append(b, o)
           n == Len(b)
<1>1. /\ Good(b, d, v) /\ Within(d, v) /\ AllCorrect(b, d, v) /\ Out(b, r) /\ d[r] + o.size = v.req[r].size
      /\ b \in Seq(Order)
  BY DEF TakerSound, Sound, Good
<1>2. /\ DOMAIN b = 1..n /\ n \in Nat
      /\ \A i \in 1..n : b[i].id \in Req /\ b[i].id # r /\ b[i].size \in Nat /\ b[i].at \in Nat
  BY <1>1, PlaceIs DEF Out
<1>3. /\ c \in Seq(Order) /\ Len(c) = n + 1 /\ \A i \in 1..n : c[i] = b[i]
      /\ c[n + 1] = o
  BY <1>1, AppendIs
<1>4. DOMAIN c = 1..n + 1
  BY <1>3, PlaceIs
<1> HIDE DEF c, n
<1>5. \A i \in 1..n + 1 : i \in 1..n \/ i = n + 1
  BY <1>2
<1>6. Good(c, d, v)
  <2>1. ASSUME NEW i \in 1..n + 1, NEW j \in 1..n + 1, c[i].id = c[j].id PROVE i = j
    <3>1. c[n + 1].id = r /\ \A k \in 1..n : c[k].id = b[k].id /\ c[k].id # r
      BY <1>2, <1>3
    <3>2. \A k, l \in 1..n : b[k].id = b[l].id => k = l
      BY <1>1, <1>2 DEF Good
    <3> QED BY <1>5, <2>1, <3>1, <3>2
  <2>2. ASSUME NEW i \in 1..n + 1
        PROVE  Placed(c[i].id, v) /\ c[i].at <= v.clock /\ d[c[i].id] + c[i].size <= v.req[c[i].id].size
    <3>1. CASE i \in 1..n
      BY <1>1, <1>2, <1>3, <3>1 DEF Good
    <3>2. CASE i = n + 1
      <4>1. d[r] \in Nat /\ o.size \in Nat /\ o.at \in Nat
        BY DEF Order
      <4>2. d[r] + o.size <= d[r] + o.size /\ o.at <= o.at
        BY <4>1
      <4> QED BY <1>1, <1>3, <3>2, <4>2
    <3> QED BY <1>5, <3>1, <3>2
  <2>3. ASSUME NEW i \in 1..n + 1, NEW j \in 1..n + 1, i < j, c[j].size = v.req[c[j].id].size
        PROVE  c[i].at <= c[j].at
    <3>1. i \in 1..n
      BY <1>2, <2>3
    <3>2. CASE j \in 1..n
      BY <1>1, <1>2, <1>3, <2>3, <3>1, <3>2 DEF Good, Fifo
    <3>3. CASE j = n + 1
      BY <1>1, <1>2, <1>3, <3>1, <3>3 DEF Good
    <3> QED BY <1>5, <3>2, <3>3
  <2>4. Fifo(c, v)
    BY <1>4, <2>3 DEF Fifo
  <2> QED BY <1>3, <1>4, <2>1, <2>2, <2>4 DEF Good
<1>7. ASSUME NEW q \in Req \ {r}
      PROVE  (Out(b, q) => Out(c, q)) /\ \A k : Whole(b, d, q, k) => Whole(c, d, q, k)
  <2>1. Out(b, q) => Out(c, q)
    BY <1>2, <1>3, <1>4, <1>5 DEF Out
  <2>2. \A i \in 1..n : i \in 1..n + 1 /\ c[i] = b[i]
    BY <1>2, <1>3
  <2>3. ASSUME NEW k, \E i \in DOMAIN b : b[i].id = q /\ d[q] + b[i].size = k
        PROVE  \E i \in DOMAIN c : c[i].id = q /\ d[q] + c[i].size = k
    BY <1>2, <1>4, <2>2, <2>3
  <2> QED BY <2>1, <2>3 DEF Whole
<1>8. AllCorrect(c, d, v)
  BY <1>1, <1>7 DEF AllCorrect, Correct
<1>9. Whole(c, d, r, v.req[r].size)
  <2>1. n + 1 \in DOMAIN c
    BY <1>2, <1>4
  <2> QED BY <1>1, <1>3, <2>1 DEF Whole
<1> QED BY <1>1, <1>6, <1>8, <1>9 DEF SweepSound, Sound, c

\* What stays of a view when handlers move on, arrive, reply or die.
Later(v, w) ==
  /\ \A q \in Req : Placed(q, v) => Placed(q, w) /\ w.req[q] = v.req[q]
  /\ v.clock <= w.clock
  /\ w.crashes = 0 => v.crashes = 0 /\ \A q \in Req : Answered(q, v) => w.pc[q] = v.pc[q]

\* A good book stays good.
LEMMA GoodStays ==
  ASSUME NEW v \in Views, NEW w \in Views, Later(v, w), NEW b, NEW d
  PROVE  (Good(b, d, v) => Good(b, d, w)) /\ (Within(d, v) => Within(d, w))
<1> SUFFICES ASSUME Good(b, d, v) PROVE Good(b, d, w)
  BY DEF Within, Later
<1>1. Good(b, d, v) /\ b \in Seq(Order)
  BY DEF Good
<1>2. \A i \in DOMAIN b : b[i].id \in Req /\ b[i].at \in Nat
  BY <1>1, PlaceIs
<1>3. v.clock \in Nat /\ w.clock \in Nat /\ v.clock <= w.clock
  BY DEF Views, Later
<1>4. ASSUME NEW i \in DOMAIN b
      PROVE  Placed(b[i].id, w) /\ b[i].at <= w.clock /\ w.req[b[i].id] = v.req[b[i].id]
  <2>1. b[i].at <= v.clock /\ Placed(b[i].id, v)
    BY <1>1 DEF Good
  <2>2. b[i].at <= w.clock
    BY <1>2, <1>3, <2>1
  <2> QED BY <1>2, <2>1, <2>2 DEF Later
<1>5. Fifo(b, w)
  BY <1>1, <1>4 DEF Good, Fifo
<1> QED BY <1>1, <1>4, <1>5 DEF Good

\* A sound book stays sound, if it makes the new answers true.
LEMMA SoundStays ==
  ASSUME NEW v \in Views, NEW w \in Views, Later(v, w), NEW b, NEW d, Sound(b, d, v),
         \A q \in Req : w.crashes = 0 /\ Answered(q, w) => Answered(q, v) \/ Correct(b, d, q, w)
  PROVE  Sound(b, d, w)
<1>1. Good(b, d, v) /\ Within(d, v) /\ AllCorrect(b, d, v)
  BY DEF Sound
<1>2. Good(b, d, w) /\ Within(d, w)
  BY <1>1, GoodStays
<1>3. AllCorrect(b, d, w)
  <2> SUFFICES ASSUME w.crashes = 0, NEW q \in Req, Answered(q, w) PROVE Correct(b, d, q, w)
    BY DEF AllCorrect
  <2>1. CASE Answered(q, v)
    <3>1. Correct(b, d, q, v)
      BY <1>1, <2>1 DEF AllCorrect, Later
    <3>2. w.pc[q] = v.pc[q] /\ Placed(q, v)
      BY <2>1 DEF Later, Answered, Placed
    <3> QED BY <3>1, <3>2 DEF Correct, Later
  <2> QED BY <2>1
<1> QED BY <1>2, <1>3 DEF Sound

\* What is about to be dealt with is at least what has been, and exactly that if nothing is pending.
LEMMA AboutIs ==
  ASSUME NEW d \in [Req -> Nat], NEW f \in Frame
  PROVE  /\ About(f, d) \in [Req -> Nat]
         /\ \A q \in Req : d[q] <= About(f, d)[q]
         /\ Pending(f) = {} => About(f, d) = d
         /\ f.fills = <<>> => About(f, d) = d
         /\ f.slot = <<>> /\ f.done = 0 => About(f, d) = Due(f.fills, d, 1..Len(f.fills))
         /\ f.slot = <<>> /\ OneFill(f) => About(f, d) = With(d, f.fills[1])
<1>1. f.fills \in Seq(Fill) /\ Len(f.fills) \in Nat /\ f.done \in Nat
  BY LenProperties DEF Frame
<1>2. Pending(f) \in SUBSET (1..Len(f.fills))
  BY DEF Pending
<1>3. f.fills = <<>> => Pending(f) = {}
  BY DEF Pending
<1>4. f.slot = <<>> /\ f.done = 0 => Pending(f) = 1..Len(f.fills)
  BY <1>1 DEF Pending
<1>5. ASSUME f.slot = <<>>, OneFill(f) PROVE About(f, d) = With(d, f.fills[1])
  <2>1. f.done = 0 /\ Len(f.fills) = 1
    BY <1>5 DEF OneFill
  <2>2. Pending(f) = {1} /\ 1 \in 1..Len(f.fills)
    BY <1>4, <1>5, <2>1
  <2>3. PICK U \in SUBSET (1..Len(f.fills)) : U = Pending(f)
    BY <1>2
  <2>4. 1 \in U /\ U \ {1} = {} /\ {} \in SUBSET (1..Len(f.fills))
    BY <2>2, <2>3
  <2>5. With(Due(f.fills, d, U \ {1}), f.fills[1]) = Due(f.fills, d, U)
    BY <1>1, <2>4, DueLess
  <2>6. Due(f.fills, d, {}) = d
    BY <1>1, <2>4, DueIs
  <2> QED BY <2>3, <2>4, <2>5, <2>6 DEF About
<1> QED BY <1>1, <1>2, <1>3, <1>4, <1>5, DueIs DEF About

\* A book that is good for what is about to be dealt with is good for what has been.
LEMMA GoodBefore ==
  ASSUME NEW v \in Views, NEW d \in [Req -> Nat], NEW e \in [Req -> Nat], \A q \in Req : d[q] <= e[q],
         NEW b, Good(b, e, v)
  PROVE  Good(b, d, v)
<1>1. ASSUME NEW i \in DOMAIN b PROVE d[b[i].id] + b[i].size <= v.req[b[i].id].size
  <2>1. b[i].id \in Req /\ b[i].size \in Nat
    BY PlaceIs DEF Good
  <2>2. v.req[b[i].id] \in Requests
    <3>1. v.req[b[i].id] \in Requests \cup {NoRequest, RunAll} /\ v.req[b[i].id].kind = "submit"
      BY <2>1 DEF Views, Good, Placed
    <3> QED BY <3>1 DEF NoRequest, RunAll
  <2>3. PICK m \in Nat, n \in Nat, s \in Nat, t \in Nat :
          m = d[b[i].id] /\ n = e[b[i].id] /\ s = b[i].size /\ t = v.req[b[i].id].size
    BY <2>1, <2>2 DEF Requests
  <2>4. m <= n /\ n + s <= t
    BY <2>1, <2>3 DEF Good
  <2> QED BY <2>3, <2>4
<1> QED BY <1>1 DEF Good

\* What is within the sizes before is within them now.
LEMMA WithinBefore ==
  ASSUME NEW v \in Views, NEW d \in [Req -> Nat], NEW e \in [Req -> Nat], \A q \in Req : d[q] <= e[q],
         Within(e, v)
  PROVE  Within(d, v)
<1> SUFFICES ASSUME NEW q \in Req, d[q] > 0 PROVE Placed(q, v) /\ d[q] <= v.req[q].size
  BY DEF Within
<1>1. d[q] \in Nat /\ e[q] \in Nat /\ e[q] > 0
  OBVIOUS
<1>2. Placed(q, v) /\ e[q] <= v.req[q].size
  BY <1>1 DEF Within
<1>3. v.req[q].size \in Nat
  <2>1. v.req[q] \in Requests \cup {NoRequest, RunAll} /\ v.req[q].kind = "submit"
    BY <1>2 DEF Views, Placed
  <2>2. v.req[q] \in Requests
    BY <2>1 DEF NoRequest, RunAll
  <2> QED BY <2>2 DEF Requests
<1> QED BY <1>1, <1>2, <1>3

\* A taker that has nothing left to rest is whole.
LEMMA NothingToRest ==
  ASSUME NEW r \in Req, NEW v, NEW b, NEW d \in [Req -> Nat], TakerSound(b, d, r, 0, v)
  PROVE  SweepSound(b, d, r, v)
<1>1. d[r] \in Nat
  OBVIOUS
<1>2. d[r] + 0 = d[r]
  BY <1>1
<1> QED BY <1>2 DEF TakerSound, SweepSound, Whole

\* What handler r knows under v it knows under w.
Carries(r, v, w) ==
  /\ \A b, d, k : TakerSound(b, d, r, k, v) => TakerSound(b, d, r, k, w)
  /\ \A b, d : SweepSound(b, d, r, v) => SweepSound(b, d, r, w)
  /\ \A f, b, d : Truth(f, b, d, r, v) => Truth(f, b, d, r, w)
  /\ \A f, d : Restorable(f, d, r, v) => Restorable(f, d, r, w)

\* It does as long as nothing is answered.
LEMMA CarriesIs ==
  ASSUME NEW r \in Req, NEW v \in Views, NEW w \in Views, Later(v, w), w.req[r] = v.req[r],
         \A q \in Req : w.crashes = 0 /\ Answered(q, w) => Answered(q, v)
  PROVE  Carries(r, v, w)
<1>1. \A b, d : Sound(b, d, v) => Sound(b, d, w)
  BY SoundStays
<1>2. \A b, d, k : TakerSound(b, d, r, k, v) => TakerSound(b, d, r, k, w)
  BY <1>1 DEF TakerSound
<1>3. \A b, d : SweepSound(b, d, r, v) => SweepSound(b, d, r, w)
  BY <1>1 DEF SweepSound
<1>4. \A f, b, d : Truth(f, b, d, r, v) => Truth(f, b, d, r, w)
  BY <1>2, <1>3 DEF Truth
<1>5. \A f, d : Restorable(f, d, r, v) => Restorable(f, d, r, w)
  BY <1>1, <1>3 DEF Restorable
<1> QED BY <1>2, <1>3, <1>4, <1>5 DEF Carries

\* So the handler's stage stays what it is while others move.
LEMMA StageStays ==
  ASSUME NEW r \in Req, NEW v \in Views, NEW w \in Views, Later(v, w),
         w.pc[r] = v.pc[r], w.req[r] = v.req[r], w.clock = v.clock,
         \A q \in Req : w.crashes = 0 /\ Answered(q, w) => Answered(q, v),
         NEW f, NEW b, NEW s, NEW d, Stage(r, f, b, s, d, v)
  PROVE  Stage(r, f, b, s, d, w)
<1>1. Carries(r, v, w)
  BY CarriesIs
<1> QED BY <1>1 DEF Carries, Stage

\* The view is a view.
LEMMA NowIs ==
  ASSUME TypeOK
  PROVE  /\ Now \in Views /\ settled \in [Req -> Nat]
         /\ Now.pc = pc /\ Now.req = req /\ Now.clock = clock /\ Now.crashes = crashes
  BY DEF TypeOK, Now, Views

\* So is the next.
LEMMA NextIs ==
  ASSUME TypeOK'
  PROVE  /\ Now' \in Views /\ settled' \in [Req -> Nat]
         /\ Now'.pc = pc' /\ Now'.req = req' /\ Now'.clock = clock' /\ Now'.crashes = crashes'
  BY DEF TypeOK, Now, Views

\* What the steps of a submit's handler have in common: n is where it goes.
Goes(r, n) ==
  /\ req' = req /\ pc' = [pc EXCEPT ![r] = n] /\ n \in PC \ {"new"}
  /\ clock' \in {clock, clock + 1} /\ crashes' = crashes

\* Where that leaves the handlers and the answers.
Gone(r, n, v, w) ==
  /\ v \in Views /\ w \in Views /\ Later(v, w)
  /\ w.pc[r] = n /\ w.req = v.req /\ v.req[r] \in Requests /\ v.req[r].kind = "submit"
  /\ n \in Awaits => Carries(r, v, w)
  /\ \A b, d : Sound(b, d, v) /\ (n \notin Awaits => Correct(b, d, r, w)) => Sound(b, d, w)

\* A handler's step changes no answer but its own.
LEMMA GoesOn ==
  ASSUME IInv, IInv', NEW r \in Req, Submits(r), NEW n, Goes(r, n)
  PROVE  Gone(r, n, Now, Now')
<1> DEFINE v == Now
           w == Now'
<1>1. TypeOK /\ TypeOK' /\ HandlersFit
  BY DEF IInv
<1>2. /\ v \in Views /\ w \in Views
      /\ v.pc = pc /\ v.req = req /\ v.clock = clock /\ v.crashes = crashes
      /\ w.pc = pc' /\ w.req = req' /\ w.clock = clock' /\ w.crashes = crashes'
  BY <1>1, NowIs, NextIs
<1> HIDE DEF v, w
<1>3. w.req = v.req /\ w.crashes = v.crashes /\ w.pc[r] = n /\ \A q \in Req \ {r} : w.pc[q] = v.pc[q]
  BY <1>1, <1>2 DEF Goes, TypeOK
<1>4. v.clock <= w.clock
  <2>1. clock \in Nat /\ clock' \in {clock, clock + 1}
    BY <1>1 DEF TypeOK, Goes
  <2> QED BY <1>2, <2>1
<1>5. v.pc[r] \in Awaits /\ v.req[r].kind = "submit" /\ v.req[r] \in Requests
  <2>1. v.req[r] \in Requests \cup {NoRequest, RunAll}
    BY <1>2 DEF Views
  <2> QED BY <1>2, <2>1 DEF Submits, Active, NoRequest, RunAll
<1>6. ~ Answered(r, v) /\ n # "new"
  BY <1>5 DEF Answered, Awaits, Goes
<1>7. Later(v, w)
  <2>1. ASSUME NEW q \in Req, Placed(q, v) PROVE Placed(q, w)
    BY <1>3, <1>6, <2>1 DEF Placed
  <2>2. ASSUME NEW q \in Req, Answered(q, v) PROVE w.pc[q] = v.pc[q]
    BY <1>3, <1>6, <2>2
  <2> QED BY <1>3, <1>4, <2>1, <2>2 DEF Later
<1>8. \A q \in Req : Answered(q, w) => Answered(q, v) \/ (q = r /\ n \notin Awaits)
  BY <1>3 DEF Answered, Awaits
<1>9. n \in Awaits => Carries(r, v, w)
  BY <1>2, <1>3, <1>7, <1>8, CarriesIs
<1>10. ASSUME NEW b, NEW d, Sound(b, d, v), n \notin Awaits => Correct(b, d, r, w) PROVE Sound(b, d, w)
  BY <1>2, <1>7, <1>8, <1>10, SoundStays
<1> QED BY <1>2, <1>3, <1>5, <1>7, <1>9, <1>10 DEF Gone, v, w

\* What is to be shown of a handler's step.
LEMMA StepKeeps ==
  ASSUME IInv, OneHolder, Accounted, NEW r \in Req, Submits(r), NEW n, Goes(r, n),
         NEW f, f = frame'[r], NEW b, b = book', NEW s, s = file', NEW d, d = settled', NEW w, w = Now',
         Good(b, d, w), Within(d, w),
         n \in Awaits => Stage(r, f, b, s, d, w),
         n \notin Awaits => AllCorrect(b, d, w)
  PROVE  Accounted'
<1>1. TypeOK
  BY DEF IInv
<1>2. Holds(r) /\ \A q \in Req : Submits(q) => Holds(q)
  BY DEF Submits, Holds
<1>3. \A q \in Req \ {r} : ~ Submits(q)
  BY <1>2 DEF OneHolder, SinglePipeline
<1>4. ASSUME NEW q \in Req \ {r} PROVE ~ Submits(q)'
  <2>1. pc'[q] = pc[q] /\ req'[q] = req[q]
    BY <1>1 DEF Goes, TypeOK
  <2> QED BY <1>3, <2>1 DEF Submits, Active
<1>5. Submits(r)' <=> n \in Awaits
  BY <1>1 DEF Submits, Active, Goes, TypeOK
<1>6. \A q \in Req : req'[q].kind \in {"none", "submit", "runall"}
  BY DEF Accounted, Goes
<1>7. Good(book', settled', Now') /\ Within(settled', Now')
  OBVIOUS
<1>8. (\A q \in Req : ~ Submits(q)') => AllCorrect(book', settled', Now')
  BY <1>5
<1>9. \A q \in Req : Submits(q)' => Stage(q, frame'[q], book', file', settled', Now')
  BY <1>4, <1>5
<1> QED BY <1>6, <1>7, <1>8, <1>9 DEF Accounted

-----------------------------------------------------------------------------
(* The steps of a submit's handler.                                        *)

Ready(r) == Plain /\ IInv /\ IInv' /\ OneHolder /\ Trusted /\ Trusted' /\ Accounted /\ Submits(r)

\* What is known before each of them.
LEMMA ReadyIs ==
  ASSUME NEW r \in Req, Ready(r)
  PROVE  /\ Stage(r, frame[r], book, file, settled, Now)
         /\ Good(book, settled, Now) /\ Within(settled, Now)
         /\ frame \in [Req -> Frame] /\ frame[r] \in Frame /\ settled \in [Req -> Nat] /\ settled' \in [Req -> Nat]
         /\ Fits(pc[r], req[r], frame[r]) /\ req[r] \in Requests /\ req[r].kind = "submit"
         /\ Now \in Views /\ Now.pc = pc /\ Now.req = req /\ Now.clock = clock /\ Now.crashes = crashes
         /\ Now' \in Views /\ Now'.pc = pc' /\ Now'.req = req' /\ Now'.clock = clock' /\ Now'.crashes = crashes'
<1>1. TypeOK /\ TypeOK' /\ HandlersFit
  BY DEF Ready, IInv
<1>2. /\ Now \in Views /\ Now.pc = pc /\ Now.req = req /\ Now.clock = clock /\ Now.crashes = crashes
      /\ settled \in [Req -> Nat] /\ settled' \in [Req -> Nat]
      /\ Now' \in Views /\ Now'.pc = pc' /\ Now'.req = req' /\ Now'.clock = clock' /\ Now'.crashes = crashes'
  BY <1>1, NowIs, NextIs
<1>3. Stage(r, frame[r], book, file, settled, Now) /\ Good(book, settled, Now) /\ Within(settled, Now)
  BY DEF Ready, Accounted
<1>4. req[r] \in Requests /\ req[r].kind = "submit"
  <2>1. req[r] \in Requests \cup {NoRequest, RunAll}
    BY <1>1 DEF TypeOK
  <2>2. req[r].kind = "submit"
    BY DEF Ready, Submits
  <2> QED BY <2>1, <2>2 DEF NoRequest, RunAll
<1>5. frame \in [Req -> Frame] /\ frame[r] \in Frame /\ Fits(pc[r], req[r], frame[r])
  BY <1>1 DEF TypeOK, HandlersFit
<1> QED BY <1>2, <1>3, <1>4, <1>5

\* A handler that moves on to n with locals f.
LEMMA GotoGoes ==
  ASSUME NEW r \in Req, frame \in [Req -> Frame], NEW n \in PC \ {"new"}, NEW f, Goto(r, n, f),
         req' = req, clock' \in {clock, clock + 1}, crashes' = crashes
  PROVE  Goes(r, n) /\ (n \in Awaits => frame'[r] = f)
<1>1. n \in Awaits => n \notin Replies
  BY DEF Awaits, Replies
<1> QED BY <1>1 DEF Goto, Goes

\* Before the match: the snapshot, and no maker.
LEMMA SnapshotKeeps ==
  ASSUME NEW r \in Req, Ready(r), Snapshot(r) \/ NoMatch(r)
  PROVE  Accounted'
<1>1. PICK n \in {"match", "stamp"}, f \in Frame :
        /\ Goto(r, n, f) /\ f.rem = frame[r].rem /\ f.phase = frame[r].phase /\ f.fills = frame[r].fills
        /\ n = "match" => f.snap = book
  <2>1. CASE Snapshot(r)
    <3> DEFINE g == [frame[r] EXCEPT !.snap = book]
    <3>1. book \in Seq(Order)
      BY DEF Ready, IInv, TypeOK
    <3>2. g \in Frame /\ g.rem = frame[r].rem /\ g.phase = frame[r].phase /\ g.fills = frame[r].fills /\ g.snap = book
      BY <3>1, ReadyIs DEF Frame
    <3> HIDE DEF g
    <3> QED BY <2>1, <3>2 DEF Snapshot, g
  <2>2. CASE NoMatch(r)
    BY <2>2, ReadyIs DEF NoMatch
  <2> QED BY <2>1, <2>2
<1>2. /\ pc[r] \in {"snap", "match"} /\ req' = req /\ clock' = clock /\ crashes' = crashes
      /\ book' = book /\ file' = file /\ settled' = settled
  BY DEF Snapshot, NoMatch, BookUnchanged, GhostUnchanged
<1>3. n \in PC \ {"new"} /\ n \in Awaits
  BY DEF PC, Awaits
<1>4. Goes(r, n) /\ frame'[r] = f
  BY <1>1, <1>2, <1>3, GotoGoes, ReadyIs
<1>5. PICK v, w, b, s, d : v = Now /\ w = Now' /\ b = book /\ s = file /\ d = settled
  OBVIOUS
<1>6. Gone(r, n, v, w)
  BY <1>4, <1>5, GoesOn DEF Ready
<1>7. /\ frame[r].phase = "taker" /\ frame[r].fills = <<>> /\ TakerSound(b, d, r, frame[r].rem, v)
      /\ v.pc = pc
  BY <1>2, <1>5, ReadyIs DEF Stage
<1>8. TakerSound(b, d, r, f.rem, w)
  BY <1>1, <1>3, <1>6, <1>7 DEF Gone, Carries
<1>9. Good(b, d, w) /\ Within(d, w)
  BY <1>8 DEF TakerSound, Sound
<1>10. Stage(r, f, b, s, d, w)
  BY <1>1, <1>3, <1>5, <1>6, <1>7, <1>8 DEF Gone, Stage
<1> QED BY <1>2, <1>3, <1>4, <1>5, <1>9, <1>10, StepKeeps DEF Ready

\* fs.writeFile has truncated the file.
LEMMA OpenKeeps ==
  ASSUME NEW r \in Req, Ready(r), OpenFile(r)
  PROVE  Accounted'
<1>1. /\ pc[r] = "open" /\ req' = req /\ clock' = clock /\ crashes' = crashes /\ frame' = frame
      /\ book' = <<>> /\ file' = "truncated" /\ settled' = settled /\ pc' = [pc EXCEPT ![r] = "land"]
  BY DEF OpenFile, GhostUnchanged
<1>2. "land" \in Awaits /\ "land" \in PC \ {"new"}
  BY DEF PC, Awaits
<1>3. Goes(r, "land")
  BY <1>1, <1>2 DEF Goes
<1>4. PICK v, w, d, f : v = Now /\ w = Now' /\ d = settled /\ f = frame[r]
  OBVIOUS
<1>5. Gone(r, "land", v, w)
  BY <1>3, <1>4, GoesOn DEF Ready
<1>6. Stage(r, f, book, file, d, v) /\ Within(d, v) /\ v.pc[r] = "open"
  BY <1>1, <1>4, ReadyIs
<1>7. Within(d, w)
  BY <1>5, <1>6, GoodStays DEF Gone
<1>8. Good(<<>>, d, w)
  BY EmptySeq DEF Good, Fifo
<1>9. /\ f.phase = "batch" => ParallelSweep
      /\ \/ /\ (f.next = "pipe" /\ OneFill(f)) \/ (f.next = "cross" /\ Collects(f))
            /\ Truth(f, f.buf, About(f, d), r, v) /\ Restorable(f, d, r, v)
         \/ f.next \in {"sweep", "error"} /\ SweepSound(f.buf, d, r, v)
  BY <1>6 DEF Stage
<1>10. /\ f.phase = "batch" => ParallelSweep
       /\ \/ /\ (f.next = "pipe" /\ OneFill(f)) \/ (f.next = "cross" /\ Collects(f))
             /\ Truth(f, f.buf, About(f, d), r, w) /\ Restorable(f, d, r, w)
          \/ f.next \in {"sweep", "error"} /\ SweepSound(f.buf, d, r, w)
  BY <1>2, <1>5, <1>9 DEF Gone, Carries
<1>11. Stage(r, f, <<>>, "truncated", d, w)
  BY <1>2, <1>5, <1>10 DEF Gone, Stage
<1> QED BY <1>1, <1>2, <1>3, <1>4, <1>7, <1>8, <1>11, StepKeeps DEF Ready

\* The store has been written.
LEMMA LandKeeps ==
  ASSUME NEW r \in Req, Ready(r), FileWritten(r)
  PROVE  Accounted'
<1>1. PICK v, w, d, f, s : v = Now /\ w = Now' /\ d = settled /\ f = frame[r] /\ s = file'
  OBVIOUS
<1>2. /\ pc[r] = "land" /\ req' = req /\ clock' = clock /\ crashes' = crashes
      /\ settled' = settled /\ Goto(r, f.next, f)
  BY <1>1 DEF FileWritten, GhostUnchanged
<1>3. Stage(r, f, book, file, d, v) /\ v.pc[r] = "land" /\ f \in Frame /\ d \in [Req -> Nat]
  BY <1>1, <1>2, ReadyIs
<1>4. /\ file = "truncated"
      /\ f.phase = "batch" => ParallelSweep
      /\ \/ /\ (f.next = "pipe" /\ OneFill(f)) \/ (f.next = "cross" /\ Collects(f))
            /\ Truth(f, f.buf, About(f, d), r, v) /\ Restorable(f, d, r, v)
         \/ f.next \in {"sweep", "error"} /\ SweepSound(f.buf, d, r, v)
  BY <1>3 DEF Stage
<1>5. book' = f.buf
  BY <1>1, <1>4 DEF FileWritten, Land
<1>6. PICK n \in {"pipe", "cross", "sweep", "error"} : n = f.next
  BY <1>4
<1>7. n \in PC \ {"new"} /\ (n \in Awaits <=> n # "error")
  BY DEF PC, Awaits, Replies
<1>8. Goes(r, n) /\ (n # "error" => frame'[r] = f)
  BY <1>2, <1>6, <1>7, GotoGoes, ReadyIs
<1>9. Gone(r, n, v, w)
  BY <1>1, <1>8, GoesOn DEF Ready
<1>10. Within(d, w)
  BY <1>1, <1>9, ReadyIs, GoodStays DEF Gone
<1>11. CASE n = "error"
  <2>1. SweepSound(f.buf, d, r, v)
    BY <1>4, <1>6, <1>11
  <2>2. Correct(f.buf, d, r, w)
    BY <1>9, <2>1 DEF SweepSound, Gone, Correct
  <2>3. Sound(f.buf, d, w)
    BY <1>9, <2>1, <2>2 DEF SweepSound, Gone
  <2> QED BY <1>1, <1>2, <1>5, <1>7, <1>8, <1>10, <1>11, <2>3, StepKeeps DEF Ready, Sound
<1>12. CASE n # "error"
  <2>1. /\ f.phase = "batch" => ParallelSweep
        /\ \/ /\ (n = "pipe" /\ OneFill(f)) \/ (n = "cross" /\ Collects(f))
              /\ Truth(f, f.buf, About(f, d), r, w) /\ Restorable(f, d, r, w)
           \/ n = "sweep" /\ SweepSound(f.buf, d, r, w)
    BY <1>4, <1>6, <1>7, <1>9, <1>12 DEF Gone, Carries
  <2>2. Stage(r, f, f.buf, s, d, w)
    BY <1>7, <1>9, <1>12, <2>1 DEF Gone, Stage
  <2>3. Good(f.buf, d, w)
    <3>1. CASE n = "sweep"
      BY <2>1, <3>1 DEF SweepSound, Sound
    <3>2. CASE n # "sweep"
      <4>1. Good(f.buf, About(f, d), w)
        BY <2>1, <3>2 DEF Truth, TakerSound, SweepSound, Sound
      <4> QED BY <1>3, <1>9, <4>1, AboutIs, GoodBefore DEF Gone
    <3> QED BY <3>1, <3>2
  <2> QED BY <1>1, <1>2, <1>5, <1>7, <1>8, <1>10, <1>12, <2>2, <2>3, StepKeeps DEF Ready
<1> QED BY <1>11, <1>12

\* The handler has made up a store: it is written next.
LEMMA WriteGoes ==
  ASSUME NEW r \in Req, Ready(r), NEW b \in Seq(Order), NEW n \in PC, NEW f \in Frame, WriteStore(r, b, n, f),
         req' = req, clock' = clock, crashes' = crashes, book' = book, settled' = settled
  PROVE  /\ Goes(r, "open") /\ Gone(r, "open", Now, Now')
         /\ Good(book, settled, Now') /\ Within(settled, Now')
         /\ frame'[r] \in Frame /\ frame'[r].buf = b /\ frame'[r].next = n
         /\ frame'[r].rem = f.rem /\ frame'[r].phase = f.phase /\ frame'[r].fills = f.fills
         /\ frame'[r].done = f.done /\ frame'[r].snap = f.snap /\ frame'[r].slot = f.slot
<1> DEFINE g == [f EXCEPT !.buf = b, !.next = n]
<1>1. /\ g \in Frame /\ g.buf = b /\ g.next = n /\ g.rem = f.rem /\ g.phase = f.phase /\ g.fills = f.fills
      /\ g.done = f.done /\ g.snap = f.snap /\ g.slot = f.slot
  BY DEF Frame
<1>2. Goto(r, "open", g)
  BY DEF WriteStore
<1> HIDE DEF g
<1>3. "open" \in PC \ {"new"} /\ "open" \in Awaits
  BY DEF PC, Awaits
<1>4. Goes(r, "open") /\ frame'[r] = g
  BY <1>2, <1>3, GotoGoes, ReadyIs
<1>5. PICK v, w, d : v = Now /\ w = Now' /\ d = settled
  OBVIOUS
<1>6. Gone(r, "open", v, w)
  BY <1>4, <1>5, GoesOn DEF Ready
<1>7. Good(book, d, w) /\ Within(d, w)
  BY <1>5, <1>6, ReadyIs, GoodStays DEF Gone
<1> QED BY <1>1, <1>4, <1>5, <1>6, <1>7

\* A taker is matched with a maker.
LEMMA MatchKeeps ==
  ASSUME NEW r \in Req, Ready(r), Match(r)
  PROVE  Accounted'
<1>1. PICK i \in Matches(book, req[r]) :
        LET q == Smaller(req[r].size, book[i].size)
        IN  WriteStore(r, Consume(book, i, q),
                       IF req[r].kind = "submit" THEN "pipe" ELSE "rollback",
                       [frame[r] EXCEPT !.rem = @ - q,
                          !.fills = <<TakerFill(r, req[r], book[i])>>])
  BY DEF Match
<1>2. /\ pc[r] = "match" /\ req' = req /\ clock' = clock /\ crashes' = crashes
      /\ book' = book /\ file' = file /\ settled' = settled
  BY DEF Match, BookUnchanged, GhostUnchanged
<1>3. PICK v, w, d, b, s, x, f : v = Now /\ w = Now' /\ d = settled /\ b = book /\ s = file /\ x = req[r] /\ f = frame[r]
  OBVIOUS
<1>4. /\ v \in Views /\ d \in [Req -> Nat] /\ f \in Frame /\ x \in Requests /\ x.kind = "submit" /\ v.req[r] = x
      /\ v.pc[r] = "match" /\ Stage(r, f, b, s, d, v) /\ Fits("match", x, f)
  BY <1>2, <1>3, ReadyIs
<1>5. /\ f.phase = "taker" /\ f.fills = <<>> /\ TakerSound(b, d, r, f.rem, v) /\ f.snap = b
      /\ f.rem = x.size /\ f.done = 0 /\ x.size \in Nat /\ f.slot = <<>>
  BY <1>4 DEF Stage, Fits, Requests
<1>6. /\ Sound(b, d, v) /\ Out(b, r) /\ b \in Seq(Order) /\ \A j, k \in DOMAIN b : b[j].id = b[k].id => j = k
      /\ d[r] = 0
  <2>1. Sound(b, d, v) /\ Out(b, r) /\ d[r] + x.size = x.size /\ d[r] \in Nat
    BY <1>4, <1>5 DEF TakerSound
  <2> QED BY <1>5, <2>1 DEF Sound, Good
<1>7. i \in DOMAIN b /\ b[i] \in Order /\ b[i].size \in Nat
  BY <1>3, <1>6, PlaceIs DEF Matches, Makers, Eligible
<1> DEFINE q == Smaller(x.size, b[i].size)
           z == TakerFill(r, x, b[i])
<1>8. /\ z \in Fill /\ z.qty = q /\ q \in Nat /\ q <= x.size /\ q <= b[i].size
      /\ \/ z.long = r /\ z.short = b[i].id
         \/ z.long = b[i].id /\ z.short = r
  <2>1. z \in Fill /\ q \in Nat /\ q <= x.size /\ q <= b[i].size
    BY <1>4, <1>5, <1>7, TakerFillType, SmallerType
  <2>2. z.qty = SizeStr(q)
    BY DEF TakerFill
  <2>3. SizeStr(q) = q
    BY <2>1, SizeStrIs DEF Ready, Plain
  <2>4. (z.long = r /\ z.short = b[i].id) \/ (z.long = b[i].id /\ z.short = r)
    BY DEF TakerFill
  <2> QED BY <2>1, <2>2, <2>3, <2>4
<1> DEFINE c == Consume(b, i, q)
           e == With(d, z)
           g == [f EXCEPT !.rem = f.rem - q, !.fills = <<z>>]
<1>9. WriteStore(r, c, "pipe", g)
  BY <1>1, <1>3, <1>4
<1>10. Cut(b, c, d, e, {r}) /\ Out(c, r) /\ c \in Seq(Order)
  <2> HIDE DEF z, q
  <2>1. Cut(b, Consume(b, i, z.qty), d, With(d, z), {r}) /\ Out(Consume(b, i, z.qty), r)
    BY <1>4, <1>6, <1>7, <1>8, ConsumeCut DEF Ready, Plain
  <2> QED BY <1>8, <2>1 DEF Cut
<1>11. e[r] = q
  <2>1. z.long # z.short
    BY <1>6, <1>7, <1>8 DEF Out
  <2> HIDE DEF z, q
  <2>2. e[r] = d[r] + z.qty
    BY <1>4, <1>8, <2>1, WithIs
  <2> QED BY <1>6, <1>8, <2>2
<1> HIDE DEF c, e, z, q
<1>12. Placed(r, v) /\ ~ Answered(r, v) /\ e[r] <= v.req[r].size
  BY <1>4, <1>8, <1>11 DEF Placed, Answered
<1>13. Sound(c, e, v)
  BY <1>4, <1>6, <1>10, <1>12, CutSound
<1>14. /\ g \in Frame /\ g.rem = f.rem - q /\ g.fills = <<z>> /\ g.phase = "taker" /\ g.done = 0 /\ g.snap = b
       /\ g.slot = <<>>
  <2>1. f.rem - q \in Nat /\ <<z>> \in Seq(Fill)
    BY <1>5, <1>8
  <2> QED BY <1>4, <1>5, <2>1 DEF Frame
<1>15. g.fills[1] = z /\ Len(g.fills) = 1
  BY <1>14
<1>16. TakerSound(c, e, r, g.rem, v)
  <2>1. q + (f.rem - q) = f.rem
    BY <1>5, <1>8
  <2> QED BY <1>4, <1>5, <1>10, <1>11, <1>13, <1>14, <2>1 DEF TakerSound
<1> HIDE DEF g
<1>17. PICK h : h = frame'[r]
  OBVIOUS
<1>18. "pipe" \in PC
  BY DEF PC, Awaits
<1>19. /\ Goes(r, "open") /\ Gone(r, "open", v, w) /\ Good(b, d, w) /\ Within(d, w)
       /\ h \in Frame /\ h.buf = c /\ h.next = "pipe" /\ h.rem = g.rem /\ h.phase = g.phase /\ h.fills = g.fills
       /\ h.done = g.done /\ h.snap = g.snap /\ h.slot = g.slot
  BY <1>2, <1>3, <1>9, <1>10, <1>14, <1>17, <1>18, WriteGoes
<1>20. "open" \in Awaits
  BY DEF Awaits
<1>21. TakerSound(c, e, r, g.rem, w) /\ Restorable(h, d, r, w)
  <2>1. Restorable(h, d, r, v)
    BY <1>5, <1>6, <1>14, <1>19 DEF Restorable
  <2> QED BY <1>16, <1>19, <1>20, <2>1 DEF Gone, Carries
<1>22. OneFill(h) /\ About(h, d) = e /\ Truth(h, h.buf, About(h, d), r, w)
  <2>1. OneFill(h) /\ h.slot = <<>> /\ h.fills[1] = z
    BY <1>14, <1>15, <1>19 DEF OneFill
  <2>2. About(h, d) = e
    BY <1>4, <1>19, <2>1, AboutIs DEF e
  <2> QED BY <1>14, <1>19, <1>21, <2>1, <2>2 DEF Truth
<1>23. Stage(r, h, b, s, d, w)
  BY <1>14, <1>19, <1>20, <1>21, <1>22 DEF Gone, Stage
<1> QED BY <1>2, <1>3, <1>17, <1>19, <1>20, <1>23, StepKeeps DEF Ready

\* The order is stamped.
LEMMA StampKeeps ==
  ASSUME NEW r \in Req, Ready(r), Stamp(r)
  PROVE  Accounted'
<1>1. PICK t \in {clock, clock + 1} : clock' = t /\ Goto(r, "add", [frame[r] EXCEPT !.at = t])
  BY DEF Stamp
<1>2. /\ pc[r] = "stamp" /\ req' = req /\ crashes' = crashes
      /\ book' = book /\ file' = file /\ settled' = settled
  BY DEF Stamp, BookUnchanged, GhostUnchanged
<1>3. PICK v, w, b, s, d, f : v = Now /\ w = Now' /\ b = book /\ s = file /\ d = settled /\ f = frame[r]
  OBVIOUS
<1> DEFINE g == [f EXCEPT !.at = t]
<1>4. g.at = t /\ g.rem = f.rem /\ g.phase = f.phase
  BY <1>3, ReadyIs DEF Frame
<1>5. "add" \in Awaits /\ "add" \in PC \ {"new"}
  BY DEF Awaits, PC
<1>6. Goes(r, "add") /\ frame'[r] = g
  BY <1>1, <1>2, <1>3, <1>5, GotoGoes, ReadyIs
<1> HIDE DEF g
<1>7. Gone(r, "add", v, w)
  BY <1>3, <1>6, GoesOn DEF Ready
<1>8. TakerSound(b, d, r, f.rem, v) /\ w.clock = t /\ (f.phase = "batch" => ParallelSweep)
  BY <1>1, <1>2, <1>3, ReadyIs DEF Stage
<1>9. TakerSound(b, d, r, g.rem, w)
  BY <1>4, <1>5, <1>7, <1>8 DEF Gone, Carries
<1>10. Good(b, d, w) /\ Within(d, w)
  BY <1>9 DEF TakerSound, Sound
<1>11. Stage(r, g, b, s, d, w)
  BY <1>4, <1>5, <1>7, <1>8, <1>9 DEF Gone, Stage
<1> QED BY <1>2, <1>3, <1>5, <1>6, <1>10, <1>11, StepKeeps DEF Ready

\* It is added.
LEMMA AddKeeps ==
  ASSUME NEW r \in Req, Ready(r), Add(r)
  PROVE  Accounted'
<1>1. /\ pc[r] = "add" /\ req' = req /\ clock' = clock /\ crashes' = crashes
      /\ book' = book /\ file' = file /\ settled' = settled
      /\ WriteStore(r, Append(book, NewOrder(r)), IF req[r].kind = "submit" THEN "sweep" ELSE "ok", frame[r])
  BY DEF Add, BookUnchanged, GhostUnchanged
<1>2. PICK v, w, d, b, s, x, f, o :
        /\ v = Now /\ w = Now' /\ d = settled /\ b = book /\ s = file /\ x = req[r] /\ f = frame[r]
        /\ o = NewOrder(r)
  OBVIOUS
<1>3. /\ v \in Views /\ d \in [Req -> Nat] /\ f \in Frame /\ x \in Requests /\ x.kind = "submit" /\ v.req[r] = x
      /\ v.pc[r] = "add" /\ Stage(r, f, b, s, d, v) /\ v.clock = clock
  BY <1>1, <1>2, ReadyIs
<1>4. TakerSound(b, d, r, f.rem, v) /\ f.at = v.clock /\ f.rem \in Nat /\ f.at \in Nat /\ (f.phase = "batch" => ParallelSweep)
  BY <1>3 DEF Stage, Frame
<1>5. /\ o \in Order /\ o.id = r /\ o.at = v.clock /\ o.size = f.rem
  <2>1. SizeStr(f.rem) = f.rem
    BY <1>4, SizeStrIs DEF Ready, Plain
  <2>2. o = [id |-> r, pair |-> x.pair, side |-> x.side, price |-> x.price, size |-> f.rem, at |-> f.at]
    BY <1>2, <2>1 DEF NewOrder
  <2> QED BY <1>3, <1>4, <2>2 DEF Order, Requests
<1>6. Placed(r, v) /\ ~ Answered(r, v)
  BY <1>3 DEF Placed, Answered
<1>7. SweepSound(Append(b, o), d, r, v)
  BY <1>3, <1>4, <1>5, <1>6, AddSound
<1>8. Append(b, o) \in Seq(Order)
  BY <1>7 DEF SweepSound, Sound, Good
<1>9. PICK c, h : c = Append(b, o) /\ h = frame'[r]
  OBVIOUS
<1>10. "sweep" \in PC /\ WriteStore(r, c, "sweep", f)
  BY <1>1, <1>2, <1>3, <1>9 DEF PC, Awaits
<1>11. /\ Goes(r, "open") /\ Gone(r, "open", v, w) /\ Good(b, d, w) /\ Within(d, w)
       /\ h.buf = c /\ h.next = "sweep" /\ h.phase = f.phase
  <2>1. c \in Seq(Order) /\ WriteStore(r, c, "sweep", frame[r])
    BY <1>2, <1>8, <1>9, <1>10
  <2> QED BY <1>1, <1>2, <1>3, <1>9, <1>10, <2>1, WriteGoes
<1>12. "open" \in Awaits
  BY DEF Awaits
<1>13. SweepSound(h.buf, d, r, w)
  BY <1>7, <1>9, <1>11, <1>12 DEF Gone, Carries
<1>14. Stage(r, h, b, s, d, w)
  BY <1>4, <1>11, <1>12, <1>13 DEF Gone, Stage
<1> QED BY <1>1, <1>2, <1>9, <1>11, <1>12, <1>14, StepKeeps DEF Ready

\* A sweep begins with a snapshot.
LEMMA SweepStartKeeps ==
  ASSUME NEW r \in Req, Ready(r), SweepStart(r)
  PROVE  Accounted'
<1>1. /\ pc[r] = "sweep" /\ req' = req /\ clock' = clock /\ crashes' = crashes
      /\ book' = book /\ file' = file /\ settled' = settled
      /\ Goto(r, "cross", [frame[r] EXCEPT !.snap = book, !.fills = <<>>, !.done = 0, !.phase = "sweep"])
  BY DEF SweepStart, BookUnchanged, GhostUnchanged
<1>2. PICK v, w, d, b, s, f : v = Now /\ w = Now' /\ d = settled /\ b = book /\ s = file /\ f = frame[r]
  OBVIOUS
<1> DEFINE g == [f EXCEPT !.snap = b, !.fills = <<>>, !.done = 0, !.phase = "sweep"]
<1>3. g \in Frame /\ g.snap = b /\ g.fills = <<>> /\ g.done = 0 /\ g.phase = "sweep"
  <2>1. b \in Seq(Order) /\ f \in Frame /\ <<>> \in Seq(Fill)
    BY <1>2, ReadyIs, EmptySeq DEF Good
  <2> QED BY <2>1 DEF Frame
<1>4. "cross" \in Awaits /\ "cross" \in PC \ {"new"}
  BY DEF Awaits, PC
<1>5. Goes(r, "cross") /\ frame'[r] = g
  BY <1>1, <1>2, <1>4, GotoGoes, ReadyIs
<1> HIDE DEF g
<1>6. Gone(r, "cross", v, w)
  BY <1>2, <1>5, GoesOn DEF Ready
<1>7. SweepSound(b, d, r, v)
  BY <1>1, <1>2, ReadyIs DEF Stage
<1>8. SweepSound(b, d, r, w)
  BY <1>4, <1>6, <1>7 DEF Gone, Carries
<1>9. Good(b, d, w) /\ Within(d, w)
  BY <1>8 DEF SweepSound, Sound
<1>10. Truth(g, b, About(g, d), r, w) /\ Restorable(g, d, r, w)
  <2>1. About(g, d) = d
    BY <1>2, <1>3, AboutIs, ReadyIs
  <2> QED BY <1>3, <1>8, <2>1 DEF Truth, Restorable
<1>11. Stage(r, g, b, s, d, w)
  BY <1>3, <1>4, <1>6, <1>10 DEF Gone, Stage, Collects
<1> QED BY <1>1, <1>2, <1>4, <1>5, <1>9, <1>11, StepKeeps DEF Ready

\* What is known while a sweep looks for crosses.
LEMMA CrossingIs ==
  ASSUME NEW r \in Req, Ready(r), pc[r] = "cross"
  PROVE  /\ Collects(frame[r]) /\ frame[r].slot = <<>>
         /\ About(frame[r], settled) = Due(frame[r].fills, settled, 1..Len(frame[r].fills))
         /\ About(frame[r], settled) \in [Req -> Nat]
         /\ SweepSound(book, About(frame[r], settled), r, Now) /\ SweepSound(frame[r].snap, settled, r, Now)
<1>1. /\ frame[r] \in Frame /\ settled \in [Req -> Nat] /\ Fits(pc[r], req[r], frame[r])
      /\ Now.pc = pc /\ Stage(r, frame[r], book, file, settled, Now)
  BY ReadyIs
<1>2. /\ Collects(frame[r])
      /\ Truth(frame[r], book, About(frame[r], settled), r, Now)
      /\ frame[r].done = 0 => Restorable(frame[r], settled, r, Now)
  BY <1>1 DEF Stage
<1>3. frame[r].phase = "sweep" /\ frame[r].done = 0
  BY <1>2 DEF Collects
<1>4. frame[r].slot = <<>>
  BY <1>1 DEF Fits
<1> QED BY <1>1, <1>2, <1>3, <1>4, AboutIs DEF Truth, Restorable

\* Two resting orders are crossed.
LEMMA SweepCrossKeeps ==
  ASSUME NEW r \in Req, Ready(r), SweepCross(r)
  PROVE  Accounted'
<1>1. PICK x \in Crosses(book, SweepPair) :
        LET fill == CrossFill(book[x[1]], book[x[2]])
        IN  WriteStore(r, Cross(book, x[1], x[2]),
                       IF ParallelSweep THEN "cross" ELSE "pipe",
                       [frame[r] EXCEPT !.fills = Append(@, fill)])
  BY DEF SweepCross
<1>2. /\ pc[r] = "cross" /\ req' = req /\ clock' = clock /\ crashes' = crashes
      /\ book' = book /\ file' = file /\ settled' = settled
  BY DEF SweepCross, BookUnchanged, GhostUnchanged
<1>3. PICK v, w, d, a, b, s, f, i, j :
        /\ v = Now /\ w = Now' /\ d = settled /\ b = book /\ s = file /\ f = frame[r] /\ i = x[1] /\ j = x[2]
        /\ a = About(f, d)
  OBVIOUS
<1>4. /\ v \in Views /\ d \in [Req -> Nat] /\ a \in [Req -> Nat] /\ f \in Frame /\ f.fills \in Seq(Fill)
      /\ Collects(f) /\ f.slot = <<>> /\ a = Due(f.fills, d, 1..Len(f.fills))
      /\ SweepSound(b, a, r, v) /\ SweepSound(f.snap, d, r, v)
  BY <1>2, <1>3, ReadyIs, CrossingIs DEF Frame
<1>5. f.done = 0 /\ f.phase = "sweep"
  BY <1>4 DEF Collects
<1>6. Sound(b, a, v) /\ b \in Seq(Order) /\ \A k, l \in DOMAIN b : b[k].id = b[l].id => k = l
  BY <1>4 DEF SweepSound, Sound, Good
<1>7. /\ i \in DOMAIN b /\ j \in DOMAIN b /\ i # j /\ b[i].size > 0 /\ b[j].size > 0
      /\ b[i] \in Order /\ b[j] \in Order /\ b[i].size \in Nat /\ b[j].size \in Nat
  <2>1. i \in Bests(b, SweepPair, "long") /\ j \in Bests(b, SweepPair, "short") /\ b[i].size > 0 /\ b[j].size > 0
    BY <1>3 DEF Crosses
  <2>2. i \in DOMAIN b /\ j \in DOMAIN b /\ b[i].side = "long" /\ b[j].side = "short"
    BY <2>1 DEF Bests
  <2> QED BY <1>6, <2>1, <2>2, PlaceIs
<1> DEFINE z == CrossFill(b[i], b[j])
           q == Smaller(b[i].size, b[j].size)
<1>8. z \in Fill /\ z.long = b[i].id /\ z.short = b[j].id /\ z.qty = q
  <2>1. q \in Nat
    BY <1>7, SmallerType
  <2>2. SizeStr(q) = q
    BY <2>1, SizeStrIs DEF Ready, Plain
  <2> QED BY <1>7, <2>2, CrossFillType DEF CrossFill
<1> DEFINE c == Cross(b, i, j)
           e == With(a, z)
           g == [f EXCEPT !.fills = Append(f.fills, z)]
<1>9. PICK n \in {"cross", "pipe"} :
        /\ n = (IF ParallelSweep THEN "cross" ELSE "pipe")
        /\ WriteStore(r, c, n, g)
  BY <1>1, <1>3
<1>10. Cut(b, c, a, e, {})
  <2> HIDE DEF z
  <2> QED BY <1>4, <1>6, <1>7, <1>8, CrossCut DEF Ready, Plain
<1>11. Sound(c, e, v) /\ c \in Seq(Order)
  <2> HIDE DEF c, e
  <2>1. Sound(c, e, v)
    BY <1>4, <1>6, <1>10, CutSound
  <2> QED BY <1>10, <2>1 DEF Cut
<1>12. SweepSound(c, e, r, v)
  <2> HIDE DEF c, e
  <2>1. r \in Req \ {} /\ Whole(b, a, r, v.req[r].size)
    BY <1>4 DEF SweepSound
  <2>2. Whole(c, e, r, v.req[r].size)
    BY <1>6, <1>10, <2>1, CutWhole
  <2> QED BY <1>11, <2>2 DEF SweepSound
<1> HIDE DEF c, e, z
<1>13. /\ g \in Frame /\ g.fills = Append(f.fills, z) /\ g.phase = "sweep" /\ g.done = 0 /\ g.snap = f.snap
       /\ g.slot = <<>>
  <2>1. Append(f.fills, z) \in Seq(Fill)
    BY <1>4, <1>8, AppendIs
  <2> QED BY <1>4, <1>5, <2>1 DEF Frame
<1> HIDE DEF g
<1>14. PICK h : h = frame'[r]
  OBVIOUS
<1>15. "cross" \in PC /\ "pipe" \in PC
  BY DEF PC, Awaits
<1>16. /\ Goes(r, "open") /\ Gone(r, "open", v, w) /\ Good(b, d, w) /\ Within(d, w)
       /\ h \in Frame /\ h.buf = c /\ h.next = n /\ h.phase = "sweep" /\ h.fills = Append(f.fills, z)
       /\ h.done = 0 /\ h.snap = f.snap /\ h.slot = <<>>
  BY <1>2, <1>3, <1>9, <1>11, <1>13, <1>14, <1>15, WriteGoes
<1>17. "open" \in Awaits
  BY DEF Awaits
<1>18. About(h, d) = e
  <2>1. Len(h.fills) = Len(f.fills) + 1
    BY <1>4, <1>8, <1>16, AppendIs
  <2>2. About(h, d) = Due(h.fills, d, 1..Len(f.fills) + 1)
    <3>1. d \in [Req -> Nat] /\ h \in Frame /\ h.slot = <<>> /\ h.done = 0
      BY <1>4, <1>16
    <3>2. About(h, d) = Due(h.fills, d, 1..Len(h.fills))
      BY <3>1, AboutIs
    <3> QED BY <2>1, <3>2
  <2>3. Due(Append(f.fills, z), d, 1..Len(f.fills) + 1) = With(Due(f.fills, d, 1..Len(f.fills)), z)
    BY <1>4, <1>8, DueAppend
  <2>4. e = With(a, z)
    BY DEF e
  <2> QED BY <1>4, <1>16, <2>2, <2>3, <2>4
<1>19. SweepSound(c, e, r, w) /\ SweepSound(f.snap, d, r, w)
  BY <1>4, <1>12, <1>16, <1>17 DEF Gone, Carries
<1>20. Truth(h, h.buf, About(h, d), r, w) /\ Restorable(h, d, r, w)
  BY <1>16, <1>18, <1>19 DEF Truth, Restorable
<1>21. IF n = "cross" THEN Collects(h) ELSE OneFill(h)
  <2>1. CASE ParallelSweep
    BY <1>9, <1>16, <2>1 DEF Collects
  <2>2. CASE ~ ParallelSweep
    <3>1. f.fills = <<>>
      BY <1>4, <2>2 DEF Collects
    <3>2. Len(h.fills) = 1
      BY <1>8, <1>16, <3>1
    <3> QED BY <1>9, <1>16, <2>2, <3>2 DEF OneFill
  <2> QED BY <2>1, <2>2
<1>22. Stage(r, h, b, s, d, w)
  BY <1>9, <1>16, <1>17, <1>20, <1>21 DEF Gone, Stage
<1> QED BY <1>2, <1>3, <1>14, <1>16, <1>17, <1>22, StepKeeps DEF Ready

\* No cross is left: the submit is answered, or what has been collected is settled.
LEMMA SweepOverKeeps ==
  ASSUME NEW r \in Req, Ready(r), SweepCollected(r)
  PROVE  Accounted'
<1>1. /\ pc[r] = "cross" /\ req' = req /\ clock' = clock /\ crashes' = crashes
      /\ book' = book /\ file' = file /\ settled' = settled
  BY DEF SweepCollected, BookUnchanged, GhostUnchanged
<1>2. PICK v, w, d, a, b, s, f :
        v = Now /\ w = Now' /\ d = settled /\ a = About(frame[r], d) /\ b = book /\ s = file /\ f = frame[r]
  OBVIOUS
<1>3. /\ SweepSound(b, a, r, v) /\ SweepSound(f.snap, d, r, v) /\ Collects(f) /\ f.slot = <<>>
      /\ f \in Frame /\ d \in [Req -> Nat] /\ f.fills \in Seq(Fill)
  BY <1>1, <1>2, CrossingIs, ReadyIs DEF Frame
<1>4. CASE Len(f.fills) = 0
  <2>1. Goto(r, "ok", f)
    BY <1>2, <1>4 DEF SweepCollected
  <2>2. "ok" \in PC \ {"new"} /\ "ok" \notin Awaits
    BY DEF PC, Replies, Awaits
  <2>3. Goes(r, "ok")
    BY <1>1, <2>1, <2>2, GotoGoes, ReadyIs
  <2>4. Gone(r, "ok", v, w)
    BY <1>2, <2>3, GoesOn DEF Ready
  <2>5. SweepSound(b, d, r, v)
    <3>1. f.fills = <<>>
      BY <1>3, <1>4
    <3> QED BY <1>2, <1>3, <3>1, AboutIs
  <2>6. Correct(b, d, r, w)
    BY <2>4, <2>5 DEF SweepSound, Gone, Correct
  <2>7. Sound(b, d, w)
    BY <2>4, <2>5, <2>6 DEF SweepSound, Gone
  <2> QED BY <1>1, <1>2, <2>2, <2>3, <2>7, StepKeeps DEF Ready, Sound
<1>5. CASE Len(f.fills) # 0
  <2> DEFINE many == [f EXCEPT !.phase = "batch"]
  <2>1. PICK n \in {"pipe", "pull"}, g \in Frame :
          /\ Goto(r, n, g)
          /\ g.fills = f.fills /\ g.done = f.done /\ g.slot = f.slot /\ g.snap = f.snap
          /\ \/ n = "pipe" /\ g.phase = "sweep" /\ Len(f.fills) = 1
             \/ n = "pull" /\ g.phase = "batch" /\ Len(f.fills) # 1
    <3>1. CASE Len(f.fills) = 1
      <4>1. Goto(r, "pipe", f)
        BY <1>2, <1>5, <3>1 DEF SweepCollected
      <4>2. f.phase = "sweep"
        BY <1>3 DEF Collects
      <4> QED BY <1>3, <3>1, <4>1, <4>2
    <3>2. CASE Len(f.fills) # 1
      <4>1. Goto(r, "pull", many)
        BY <1>2, <1>5, <3>2 DEF SweepCollected
      <4>2. /\ many \in Frame /\ many.fills = f.fills /\ many.done = f.done /\ many.slot = f.slot
            /\ many.snap = f.snap /\ many.phase = "batch"
        BY <1>3 DEF Frame
      <4> HIDE DEF many
      <4> QED BY <3>2, <4>1, <4>2
    <3> QED BY <3>1, <3>2
  <2>2. n \in PC \ {"new"} /\ n \in Awaits
    BY DEF PC, Awaits
  <2>3. Goes(r, n) /\ frame'[r] = g
    BY <1>1, <2>1, <2>2, GotoGoes, ReadyIs
  <2>4. Gone(r, n, v, w)
    BY <1>2, <2>3, GoesOn DEF Ready
  <2>5. SweepSound(b, a, r, w) /\ SweepSound(f.snap, d, r, w)
    BY <1>3, <2>2, <2>4 DEF Gone, Carries
  <2>6. a = About(g, d)
    BY <1>2, <2>1 DEF About, Pending
  <2>7. Truth(g, b, About(g, d), r, w) /\ Restorable(g, d, r, w)
    BY <2>1, <2>5, <2>6 DEF Truth, Restorable
  <2>8. Good(b, d, w) /\ Within(d, w)
    BY <1>2, <2>4, ReadyIs, GoodStays DEF Gone
  <2>9. /\ n = "pull" => g.phase = "batch" /\ g.done = 0
        /\ n = "pipe" => OneFill(g)
        /\ g.phase = "batch" => ParallelSweep
    <3>1. f.done = 0 /\ (ParallelSweep \/ f.fills = <<>>)
      BY <1>3 DEF Collects
    <3>2. f.fills # <<>>
      BY <1>5
    <3> QED BY <2>1, <3>1, <3>2 DEF OneFill
  <2>10. Stage(r, g, b, s, d, w)
    BY <2>1, <2>2, <2>4, <2>7, <2>9 DEF Gone, Stage
  <2> QED BY <1>1, <1>2, <2>2, <2>3, <2>8, <2>10, StepKeeps DEF Ready
<1> QED BY <1>4, <1>5

\* A sweep that has settled nothing is undone: its snapshot is written.
LEMMA UndoKeeps ==
  ASSUME NEW r \in Req, Ready(r), WriteStore(r, frame[r].snap, "error", frame[r]),
         SweepSound(frame[r].snap, settled, r, Now),
         req' = req, clock' = clock, crashes' = crashes, book' = book, file' = file, settled' = settled
  PROVE  Accounted'
<1>1. PICK v, w, d, b, s, f, h :
        v = Now /\ w = Now' /\ d = settled /\ b = book /\ s = file /\ f = frame[r] /\ h = frame'[r]
  OBVIOUS
<1>2. f \in Frame /\ SweepSound(f.snap, d, r, v) /\ (f.phase = "batch" => ParallelSweep)
  BY <1>1, ReadyIs DEF Stage
<1>3. f.snap \in Seq(Order) /\ "error" \in PC /\ "open" \in Awaits
  BY <1>2 DEF Frame, PC, Replies, Awaits
<1>4. /\ Goes(r, "open") /\ Gone(r, "open", v, w) /\ Good(b, d, w) /\ Within(d, w)
      /\ h.buf = f.snap /\ h.next = "error" /\ h.phase = f.phase
  BY <1>1, <1>2, <1>3, WriteGoes
<1>5. SweepSound(h.buf, d, r, w)
  BY <1>2, <1>3, <1>4 DEF Gone, Carries
<1>6. Stage(r, h, b, s, d, w)
  BY <1>2, <1>3, <1>4, <1>5 DEF Gone, Stage
<1> QED BY <1>1, <1>3, <1>4, <1>6, StepKeeps DEF Ready

\* The oracle is pulled for the batch, or the sweep is undone.
LEMMA PullKeeps ==
  ASSUME NEW r \in Req, Ready(r), Pull(r)
  PROVE  Accounted'
<1>1. /\ pc[r] = "pull" /\ req' = req /\ clock' = clock /\ crashes' = crashes
      /\ book' = book /\ file' = file /\ settled' = settled
  BY DEF Pull, BookUnchanged, GhostUnchanged
<1>2. PICK v, w, d, b, s, f : v = Now /\ w = Now' /\ d = settled /\ b = book /\ s = file /\ f = frame[r]
  OBVIOUS
<1>3. /\ f \in Frame /\ v.pc[r] = "pull" /\ Stage(r, f, b, s, d, v)
  BY <1>1, <1>2, ReadyIs
<1>4. /\ f.phase = "batch" /\ f.done = 0 /\ ParallelSweep
      /\ Truth(f, b, About(f, d), r, v) /\ Restorable(f, d, r, v)
  BY <1>3 DEF Stage
<1>5. CASE Goto(r, "pipe", f)
  <2>1. "pipe" \in PC \ {"new"} /\ "pipe" \in Awaits
    BY DEF PC, Awaits
  <2>2. Goes(r, "pipe") /\ frame'[r] = f
    BY <1>1, <1>5, <2>1, GotoGoes, ReadyIs
  <2>3. Gone(r, "pipe", v, w)
    BY <1>2, <2>2, GoesOn DEF Ready
  <2>4. Truth(f, b, About(f, d), r, w) /\ Restorable(f, d, r, w)
    BY <1>4, <2>1, <2>3 DEF Gone, Carries
  <2>5. Good(b, d, w) /\ Within(d, w)
    BY <1>2, <2>3, ReadyIs, GoodStays DEF Gone
  <2>6. Stage(r, f, b, s, d, w)
    BY <1>4, <2>1, <2>3, <2>4 DEF Gone, Stage
  <2> QED BY <1>1, <1>2, <2>1, <2>2, <2>5, <2>6, StepKeeps DEF Ready
<1>6. CASE WriteStore(r, f.snap, "error", f)
  <2>1. SweepSound(f.snap, d, r, v)
    BY <1>4 DEF Restorable
  <2> QED BY <1>1, <1>2, <1>4, <1>6, <2>1, UndoKeeps
<1> QED BY <1>2, <1>5, <1>6 DEF Pull

\* A pipeline or a chunk of them is started.
LEMMA PipelineStartKeeps ==
  ASSUME NEW r \in Req, Ready(r), PipelineStart(r)
  PROVE  Accounted'
<1>1. /\ pc[r] = "pipe" /\ req' = req /\ clock' = clock /\ crashes' = crashes
      /\ book' = book /\ file' = file /\ settled' = settled
  BY DEF PipelineStart, BookUnchanged, GhostUnchanged
<1>2. PICK v, w, d, b, s, f : v = Now /\ w = Now' /\ d = settled /\ b = book /\ s = file /\ f = frame[r]
  OBVIOUS
<1>3. f \in Frame /\ Stage(r, f, b, s, d, v) /\ v.pc[r] = "pipe" /\ Fits("pipe", req[r], f)
  BY <1>1, <1>2, ReadyIs
<1>4. /\ OneFill(f) \/ f.phase = "batch"
      /\ Truth(f, b, About(f, d), r, v)
      /\ f.done = 0 => Restorable(f, d, r, v)
      /\ f.phase = "batch" => ParallelSweep
      /\ f.slot = <<>> /\ f.done \in Nat /\ Len(f.fills) \in Nat
  BY <1>3, LenProperties DEF Stage, Fits, Frame
<1>5. PICK n : n = Smaller(PoolSize, Len(f.fills) - f.done)
  OBVIOUS
<1>6. n \in Int /\ (OneFill(f) => n = 1)
  <2>1. Len(f.fills) - f.done \in Int
    BY <1>4
  <2>2. OneFill(f) => Len(f.fills) - f.done = 1
    BY DEF OneFill
  <2> QED BY <1>5, <2>1, <2>2, PoolSizeAssumption DEF Smaller
<1> DEFINE z == [i \in 1..n |-> "running"]
           g == [f EXCEPT !.slot = z]
<1>7. Goto(r, "join", g)
  BY <1>2, <1>5 DEF PipelineStart
<1>8. DOMAIN z = 1..n /\ (\A i \in DOMAIN z : z[i] = "running") /\ (n = 1 => Len(z) = 1)
  BY <1>6
<1> HIDE DEF z
<1>9. /\ g.slot = z /\ g.fills = f.fills /\ g.phase = f.phase /\ g.done = f.done /\ g.rem = f.rem
      /\ g.snap = f.snap
  BY <1>3 DEF Frame
<1>10. "join" \in PC \ {"new"} /\ "join" \in Awaits
  BY DEF PC, Awaits
<1>11. Goes(r, "join") /\ frame'[r] = g
  BY <1>1, <1>7, <1>10, GotoGoes, ReadyIs
<1> HIDE DEF g
<1>12. Gone(r, "join", v, w)
  BY <1>2, <1>11, GoesOn DEF Ready
<1>13. About(g, d) = About(f, d)
  <2>1. Pending(g) = Pending(f)
    BY <1>4, <1>8, <1>9 DEF Pending
  <2> QED BY <1>9, <2>1 DEF About
<1>14. Truth(f, b, About(f, d), r, w) /\ (f.done = 0 => Restorable(f, d, r, w))
  BY <1>4, <1>10, <1>12 DEF Gone, Carries
<1>15. Truth(g, b, About(g, d), r, w) /\ (Unsettled(g) => Restorable(g, d, r, w))
  BY <1>9, <1>13, <1>14 DEF Truth, Restorable, Unsettled
<1>16. g.phase = "batch" \/ (OneFill(g) /\ Len(g.slot) = 1 /\ g.slot[1] = "running")
  <2>1. CASE OneFill(f)
    <3>1. n = 1 /\ 1 \in DOMAIN z /\ Len(z) = 1
      BY <1>6, <1>8, <2>1
    <3> QED BY <1>8, <1>9, <2>1, <3>1 DEF OneFill
  <2> QED BY <1>4, <1>9, <2>1
<1>17. Good(b, d, w) /\ Within(d, w)
  BY <1>2, <1>12, ReadyIs, GoodStays DEF Gone
<1>18. Stage(r, g, b, s, d, w)
  BY <1>4, <1>9, <1>10, <1>12, <1>15, <1>16 DEF Gone, Stage
<1> QED BY <1>1, <1>2, <1>10, <1>11, <1>17, <1>18, StepKeeps DEF Ready

\* What is known while pipelines run.
LEMMA JoinIs ==
  ASSUME NEW r \in Req, Ready(r), pc[r] = "join", NEW f, f = frame[r]
  PROVE  /\ f \in Frame /\ f.fills \in Seq(Fill) /\ f.slot \in Seq(SlotStates) /\ DOMAIN f.slot = 1..Len(f.slot)
         /\ Len(f.slot) \in Nat /\ Len(f.fills) \in Nat /\ f.done \in Nat /\ f.done + Len(f.slot) <= Len(f.fills)
         /\ f.phase = "batch" => ParallelSweep
         /\ f.phase # "batch" => /\ OneFill(f) /\ Len(f.slot) = 1
                                 /\ f.slot[1] = "land" => file = "truncated"
                                 /\ f.slot[1] = "failed" => book = f.snap
         /\ Unfailed(f) => Truth(f, book, About(f, settled), r, Now)
         /\ Unsettled(f) => Restorable(f, settled, r, Now)
         /\ Unfailed(f) \/ Unsettled(f)
<1>1. f \in Frame /\ Stage(r, f, book, file, settled, Now) /\ Now.pc[r] = "join" /\ Fits("join", req[r], f)
  BY ReadyIs
<1>2. /\ f.fills \in Seq(Fill) /\ f.slot \in Seq(SlotStates) /\ DOMAIN f.slot = 1..Len(f.slot)
      /\ Len(f.slot) \in Nat /\ Len(f.fills) \in Nat /\ f.done \in Nat
  BY <1>1, LenProperties DEF Frame
<1>3. f.done + Len(f.slot) <= Len(f.fills)
  BY <1>1 DEF Fits
<1>4. /\ f.phase = "batch" => ParallelSweep
      /\ f.phase # "batch" => /\ OneFill(f) /\ Len(f.slot) = 1
                              /\ f.slot[1] = "land" => file = "truncated"
                              /\ f.slot[1] = "failed" => book = f.snap
      /\ Unfailed(f) => Truth(f, book, About(f, settled), r, Now)
      /\ Unsettled(f) => Restorable(f, settled, r, Now)
  BY <1>1 DEF Stage
<1>5. Unfailed(f) \/ Unsettled(f)
  <2>1. CASE f.phase = "batch"
    BY <1>4, <2>1 DEF Ready, Trusted, Undivided
  <2>2. CASE f.phase # "batch"
    <3>1. f.done = 0 /\ Len(f.slot) = 1 /\ 1..1 = {1}
      BY <1>4, <2>2 DEF OneFill
    <3>2. DOMAIN f.slot = {1}
      BY <1>2, <3>1
    <3> QED BY <3>1, <3>2 DEF Unfailed, Unsettled
  <2> QED BY <2>1, <2>2
<1> QED BY <1>1, <1>2, <1>3, <1>4, <1>5

\* A pipeline's slot is set.
LEMMA SlotGoes ==
  ASSUME NEW r \in Req, Ready(r), NEW st, pc[r] = "join", NEW i \in DOMAIN frame[r].slot, SetSlot(r, i, st),
         pc' = pc, req' = req, clock' = clock, crashes' = crashes
  PROVE  /\ Goes(r, "join") /\ Gone(r, "join", Now, Now') /\ "join" \in Awaits
         /\ DOMAIN frame'[r].slot = DOMAIN frame[r].slot /\ Len(frame'[r].slot) = Len(frame[r].slot)
         /\ frame'[r].slot[i] = st /\ \A j \in DOMAIN frame[r].slot \ {i} : frame'[r].slot[j] = frame[r].slot[j]
         /\ frame'[r].fills = frame[r].fills /\ frame'[r].phase = frame[r].phase /\ frame'[r].done = frame[r].done
         /\ frame'[r].rem = frame[r].rem /\ frame'[r].snap = frame[r].snap
<1> PICK f, g : f = frame[r] /\ g = frame'[r]
  OBVIOUS
<1>1. f \in Frame /\ DOMAIN f.slot = 1..Len(f.slot) /\ Len(f.slot) \in Nat /\ i \in DOMAIN f.slot
  BY JoinIs
<1> DEFINE z == [f.slot EXCEPT ![i] = st]
           u == [f EXCEPT !.slot = z]
<1>2. g = u
  BY ReadyIs DEF SetSlot
<1>3. DOMAIN z = DOMAIN f.slot /\ z[i] = st /\ \A j \in DOMAIN f.slot \ {i} : z[j] = f.slot[j]
  BY <1>1
<1>4. Len(z) = Len(f.slot)
  <2> HIDE DEF z
  <2> QED BY <1>1, <1>3
<1> HIDE DEF z
<1>5. u.slot = z /\ u.fills = f.fills /\ u.phase = f.phase /\ u.done = f.done /\ u.rem = f.rem /\ u.snap = f.snap
  BY <1>1 DEF Frame
<1> HIDE DEF u
<1>6. "join" \in PC \ {"new"} /\ "join" \in Awaits
  BY DEF PC, Awaits
<1>7. pc \in [Req -> PC]
  BY DEF Ready, IInv, TypeOK
<1>8. Goes(r, "join")
  BY <1>6, <1>7 DEF Goes
<1>9. Gone(r, "join", Now, Now')
  BY <1>8, GoesOn DEF Ready
<1> QED BY <1>2, <1>3, <1>4, <1>5, <1>6, <1>8, <1>9

\* It succeeds: what was about to be settled is.
LEMMA PipelineOkKeeps ==
  ASSUME NEW r \in Req, Ready(r), NEW i \in DOMAIN frame[r].slot, PipelineOk(r, i)
  PROVE  Accounted'
<1>1. /\ pc[r] = "join" /\ req' = req /\ clock' = clock /\ crashes' = crashes /\ pc' = pc
      /\ book' = book /\ file' = file /\ frame[r].slot[i] = "running" /\ SetSlot(r, i, "ok")
  BY DEF PipelineOk, BookUnchanged
<1>2. PICK v, w, d, b, s, f, g, e :
        /\ v = Now /\ w = Now' /\ d = settled /\ b = book /\ s = file /\ f = frame[r] /\ g = frame'[r]
        /\ e = settled'
  OBVIOUS
<1>3. /\ f \in Frame /\ f.fills \in Seq(Fill) /\ DOMAIN f.slot = 1..Len(f.slot) /\ Len(f.slot) \in Nat
      /\ Len(f.fills) \in Nat /\ f.done \in Nat /\ f.done + Len(f.slot) <= Len(f.fills)
      /\ f.phase = "batch" => ParallelSweep
      /\ f.phase # "batch" => OneFill(f) /\ Len(f.slot) = 1
      /\ Unfailed(f) => Truth(f, b, About(f, d), r, v)
      /\ i \in 1..Len(f.slot) /\ f.slot[i] = "running" /\ d \in [Req -> Nat]
  BY <1>1, <1>2, JoinIs, ReadyIs
<1>4. /\ Goes(r, "join") /\ Gone(r, "join", v, w) /\ "join" \in Awaits
      /\ DOMAIN g.slot = DOMAIN f.slot /\ Len(g.slot) = Len(f.slot)
      /\ g.slot[i] = "ok" /\ \A j \in DOMAIN f.slot \ {i} : g.slot[j] = f.slot[j]
      /\ g.fills = f.fills /\ g.phase = f.phase /\ g.done = f.done /\ g.rem = f.rem
  BY <1>1, <1>2, SlotGoes, SMTT(30)
<1>5. Unfailed(g)
  <2>1. ~ Unsettled(g)
    BY <1>3, <1>4 DEF Unsettled
  <2>2. CASE f.phase = "batch"
    <3>1. pc'[r] = "join" /\ frame'[r].phase = "batch" /\ ParallelSweep
      BY <1>1, <1>2, <1>3, <1>4, <2>2
    <3> QED BY <1>2, <2>1, <3>1 DEF Ready, Trusted, Undivided
  <2>3. CASE f.phase # "batch"
    <3>1. DOMAIN g.slot = {1} /\ i = 1
      BY <1>3, <1>4, <2>3
    <3> QED BY <1>4, <3>1 DEF Unfailed
  <2> QED BY <2>2, <2>3
<1>6. Unfailed(f)
  BY <1>3, <1>4, <1>5 DEF Unfailed
<1> DEFINE k == f.done + i
<1>7. e = With(d, f.fills[k])
  BY <1>1, <1>2 DEF PipelineOk, FillOf, With
<1>8. k \in Pending(f) /\ Pending(g) = Pending(f) \ {k} /\ Pending(f) \in SUBSET (1..Len(f.fills))
  <2>1. k \in 1..Len(f.fills) /\ k > f.done /\ k - f.done = i
    BY <1>3
  <2>2. k \in Pending(f)
    BY <1>3, <2>1 DEF Pending
  <2>3. ASSUME NEW m \in 1..Len(f.fills) PROVE m \in Pending(g) <=> m \in Pending(f) /\ m # k
    <3>1. m - f.done = i <=> m = k
      BY <1>3
    <3>2. CASE m = k
      BY <1>3, <1>4, <2>1, <3>2 DEF Pending
    <3>3. CASE m # k
      <4>1. m - f.done \in DOMAIN f.slot => g.slot[m - f.done] = f.slot[m - f.done]
        BY <1>4, <3>1, <3>3
      <4> QED BY <1>4, <3>3, <4>1 DEF Pending
    <3> QED BY <3>2, <3>3
  <2>4. Pending(f) \in SUBSET (1..Len(f.fills)) /\ Pending(g) \in SUBSET (1..Len(f.fills))
    BY <1>4 DEF Pending
  <2> HIDE DEF k
  <2> QED BY <2>2, <2>3, <2>4
<1> HIDE DEF k
<1>9. About(g, e) = About(f, d)
  <2>1. PICK U \in SUBSET (1..Len(f.fills)) : U = Pending(f) /\ k \in U
    BY <1>8
  <2>2. Due(f.fills, With(d, f.fills[k]), U \ {k}) = Due(f.fills, d, U)
    <3>1. f.fills \in Seq(Fill) /\ d \in [Req -> Nat] /\ k \in U
      BY <1>3, <2>1
    <3> QED BY <3>1, DueLess
  <2> QED BY <1>4, <1>7, <1>8, <2>1, <2>2 DEF About
<1>10. Truth(f, b, About(f, d), r, w)
  BY <1>3, <1>4, <1>6 DEF Gone, Carries
<1>11. Truth(g, b, About(g, e), r, w)
  BY <1>4, <1>9, <1>10 DEF Truth
<1>12. /\ \A q \in Req : e[q] <= About(g, e)[q]
       /\ e \in [Req -> Nat] /\ About(g, e) \in [Req -> Nat]
  <2>1. e \in [Req -> Nat]
    BY <1>2, ReadyIs
  <2>2. Pending(g) \in SUBSET (1..Len(f.fills))
    BY <1>8
  <2> QED BY <1>3, <1>4, <2>1, <2>2, DueIs DEF About
<1>13. w \in Views /\ Good(b, About(g, e), w) /\ Within(About(g, e), w)
  BY <1>4, <1>11 DEF Truth, TakerSound, SweepSound, Sound, Gone
<1>14. Good(b, e, w) /\ Within(e, w)
  <2>1. Good(b, e, w)
    BY <1>12, <1>13, GoodBefore
  <2> QED BY <1>12, <1>13, <2>1, WithinBefore
<1>15. g.phase # "batch" => OneFill(g) /\ Len(g.slot) = 1 /\ g.slot[1] = "ok"
  BY <1>3, <1>4 DEF OneFill
<1>16. ~ Unsettled(g)
  BY <1>3, <1>4 DEF Unsettled
<1>17. Stage(r, g, b, s, e, w)
  BY <1>3, <1>4, <1>11, <1>15, <1>16 DEF Gone, Stage
<1> QED BY <1>1, <1>2, <1>4, <1>14, <1>17, StepKeeps DEF Ready

\* One fails, and its catch block restores the snapshot: step by step, as every store is written.
LEMMA PipelineFailKeeps ==
  ASSUME NEW r \in Req, Ready(r), NEW i \in DOMAIN frame[r].slot,
         PipelineFail(r, i) \/ PipelineOpenFile(r, i) \/ PipelineFileWritten(r, i)
  PROVE  Accounted'
<1>1. PICK st \in {"open", "land", "failed"} :
        /\ SetSlot(r, i, st)
        /\ \/ st = "open" /\ frame[r].slot[i] = "running" /\ book' = book
           \/ st = "land" /\ frame[r].slot[i] = "open" /\ book' = <<>> /\ file' = "truncated"
           \/ st = "failed" /\ frame[r].slot[i] = "land" /\ Land(frame[r].snap)
  BY DEF PipelineFail, PipelineOpenFile, PipelineFileWritten, BookUnchanged
<1>2. /\ pc[r] = "join" /\ req' = req /\ clock' = clock /\ crashes' = crashes /\ pc' = pc /\ settled' = settled
  BY DEF PipelineFail, PipelineOpenFile, PipelineFileWritten, GhostUnchanged
<1>3. PICK v, w, d, b, s, f, g :
        v = Now /\ w = Now' /\ d = settled /\ b = book' /\ s = file' /\ f = frame[r] /\ g = frame'[r]
  OBVIOUS
<1>4. /\ Goes(r, "join") /\ Gone(r, "join", v, w) /\ "join" \in Awaits
      /\ DOMAIN g.slot = DOMAIN f.slot /\ Len(g.slot) = Len(f.slot)
      /\ g.slot[i] = st /\ \A j \in DOMAIN f.slot \ {i} : g.slot[j] = f.slot[j]
      /\ g.fills = f.fills /\ g.phase = f.phase /\ g.done = f.done /\ g.rem = f.rem /\ g.snap = f.snap
  BY <1>1, <1>2, <1>3, SlotGoes
<1>5. /\ DOMAIN f.slot = 1..Len(f.slot) /\ i \in DOMAIN f.slot
      /\ f.phase = "batch" => ParallelSweep
      /\ f.phase # "batch" => /\ OneFill(f) /\ Len(f.slot) = 1
                              /\ f.slot[1] = "land" => file = "truncated"
      /\ Unsettled(f) => Restorable(f, d, r, v)
  BY <1>2, <1>3, JoinIs
<1>6. f.phase # "batch" => OneFill(g) /\ DOMAIN g.slot = {1} /\ i = 1
  <2>1. 1..1 = {1}
    OBVIOUS
  <2> QED BY <1>4, <1>5, <2>1 DEF OneFill
<1>7. ~ Unfailed(g)
  BY <1>1, <1>4, <1>5 DEF Unfailed
<1>8. Unsettled(g)
  <2>1. CASE f.phase = "batch"
    <3>1. pc'[r] = "join" /\ frame'[r].phase = "batch" /\ ParallelSweep
      BY <1>2, <1>3, <1>4, <1>5, <2>1
    <3> QED BY <1>3, <1>7, <3>1 DEF Ready, Trusted, Undivided
  <2>2. CASE f.phase # "batch"
    BY <1>1, <1>4, <1>6, <2>2 DEF Unsettled, OneFill
  <2> QED BY <2>1, <2>2
<1>9. Unsettled(f)
  BY <1>1, <1>3, <1>4, <1>8 DEF Unsettled
<1>10. Restorable(g, d, r, w)
  <2>1. Restorable(f, d, r, w)
    BY <1>4, <1>5, <1>9 DEF Gone, Carries
  <2> QED BY <1>4, <2>1 DEF Restorable
<1>11. /\ st = "land" => b = <<>> /\ s = "truncated"
       /\ st = "failed" => b \in {<<>>, g.snap}
       /\ st = "open" => b = book
  BY <1>1, <1>3, <1>4 DEF Land
<1>12. f.phase # "batch" => ((st = "land" => s = "truncated") /\ (st = "failed" => b = g.snap))
  BY <1>1, <1>3, <1>4, <1>5, <1>6, <1>11 DEF Land
<1>13. Good(b, d, w)
  <2>1. Good(<<>>, d, w)
    BY EmptySeq DEF Good, Fifo
  <2>2. Good(g.snap, d, w)
    BY <1>10 DEF Restorable, SweepSound, Sound
  <2>3. Good(book, d, w)
    BY <1>3, <1>4, ReadyIs, GoodStays DEF Gone
  <2> QED BY <1>11, <2>1, <2>2, <2>3
<1>14. Within(d, w)
  BY <1>3, <1>4, ReadyIs, GoodStays DEF Gone
<1>15. g.phase # "batch" => /\ OneFill(g) /\ Len(g.slot) = 1
                            /\ g.slot[1] = "land" => s = "truncated"
                            /\ g.slot[1] = "failed" => b = g.snap
  BY <1>4, <1>5, <1>6, <1>12
<1>16. Stage(r, g, b, s, d, w)
  BY <1>4, <1>5, <1>7, <1>10, <1>15 DEF Gone, Stage
<1> QED BY <1>2, <1>3, <1>4, <1>13, <1>14, <1>16, StepKeeps DEF Ready

\* All have ended and one has failed: the submit is answered and the book is the snapshot, or the batch is undone.
LEMMA JoinFailedKeeps ==
  ASSUME NEW r \in Req, Ready(r), JoinFailed(r)
  PROVE  Accounted'
<1>1. /\ pc[r] = "join" /\ req' = req /\ clock' = clock /\ crashes' = crashes
      /\ book' = book /\ file' = file /\ settled' = settled /\ "failed" \in Slots(r)
  BY DEF JoinFailed, BookUnchanged
<1>2. PICK v, w, d, b, s, f :
        v = Now /\ w = Now' /\ d = settled /\ b = book /\ s = file /\ f = frame[r]
  OBVIOUS
<1>3. PICK i \in DOMAIN f.slot : f.slot[i] = "failed"
  BY <1>1, <1>2 DEF Slots
<1>4. Restorable(f, d, r, v)
  <2>1. ~ Unfailed(f)
    BY <1>3 DEF Unfailed
  <2> QED BY <1>1, <1>2, <2>1, JoinIs
<1>5. CASE f.phase = "batch"
  <2>1. WriteStore(r, f.snap, "error", f)
    BY <1>2, <1>5 DEF JoinFailed
  <2>2. SweepSound(f.snap, d, r, v)
    BY <1>4, <1>5 DEF Restorable
  <2> QED BY <1>1, <1>2, <2>1, <2>2, UndoKeeps
<1>6. CASE f.phase # "batch"
  <2>1. Goto(r, "error", f)
    BY <1>2, <1>6 DEF JoinFailed
  <2>2. "error" \in PC \ {"new"} /\ "error" \notin Awaits
    BY DEF PC, Replies, Awaits
  <2>3. Goes(r, "error")
    BY <1>1, <2>1, <2>2, GotoGoes, ReadyIs
  <2>4. Gone(r, "error", v, w)
    BY <1>2, <2>3, GoesOn DEF Ready
  <2>5. b = f.snap
    <3>1. Len(f.slot) = 1 /\ DOMAIN f.slot = 1..Len(f.slot) /\ 1..1 = {1} /\ (f.slot[1] = "failed" => b = f.snap)
      BY <1>1, <1>2, <1>6, JoinIs
    <3>2. i = 1
      BY <3>1
    <3> QED BY <1>3, <3>1, <3>2
  <2>6. Correct(b, d, r, w)
    BY <1>4, <2>4, <2>5 DEF Restorable, SweepSound, Gone, Correct
  <2>7. Sound(b, d, w)
    BY <1>4, <2>4, <2>5, <2>6 DEF Restorable, SweepSound, Gone
  <2> QED BY <1>1, <1>2, <2>2, <2>3, <2>7, StepKeeps DEF Ready, Sound
<1> QED BY <1>5, <1>6

\* A chunk has gone through: what is pending is what is left.
LEMMA JoinedIs ==
  ASSUME NEW r \in Req, Ready(r), JoinOk(r), NEW f, f = frame[r], NEW g, g.fills = f.fills, g.slot = <<>>,
         NEW done, done = f.done + Len(f.slot), g.done = done
  PROVE  /\ Truth(f, book, About(f, settled), r, Now)
         /\ done = 0 => Restorable(f, settled, r, Now)
         /\ Pending(g) = Pending(f) /\ (~ (done < Len(f.fills)) => Pending(f) = {})
<1>1. /\ DOMAIN f.slot = 1..Len(f.slot)
      /\ Len(f.slot) \in Nat /\ Len(f.fills) \in Nat /\ f.done \in Nat
      /\ Unfailed(f) => Truth(f, book, About(f, settled), r, Now)
      /\ Unsettled(f) => Restorable(f, settled, r, Now)
  BY JoinIs DEF JoinOk
<1>2. \A i \in DOMAIN f.slot : f.slot[i] = "ok"
  BY DEF JoinOk, Ended, Slots
<1>3. Unfailed(f)
  BY <1>2 DEF Unfailed
<1>4. done = 0 => Unsettled(f)
  <2>1. done = 0 => f.done = 0 /\ 1..Len(f.slot) = {}
    BY <1>1
  <2> QED BY <1>1, <2>1 DEF Unsettled
<1>5. DOMAIN g.slot = {}
  OBVIOUS
<1>6. ASSUME NEW k \in 1..Len(f.fills) PROVE k \in Pending(f) <=> k > done
  <2>1. k > f.done => (k - f.done \in 1..Len(f.slot) <=> ~ (k > done))
    BY <1>1
  <2>2. k > done => k > f.done
    BY <1>1
  <2> QED BY <1>1, <1>2, <2>1, <2>2 DEF Pending
<1>7. ASSUME NEW k \in 1..Len(f.fills) PROVE k \in Pending(g) <=> k > done
  BY <1>5 DEF Pending
<1>8. Pending(g) = Pending(f)
  <2>1. Pending(f) \subseteq 1..Len(f.fills) /\ Pending(g) \subseteq 1..Len(f.fills)
    BY DEF Pending
  <2> QED BY <1>6, <1>7, <2>1
<1>9. ASSUME ~ (done < Len(f.fills)) PROVE Pending(f) = {}
  <2>1. Pending(f) \subseteq 1..Len(f.fills)
    BY DEF Pending
  <2>2. \A k \in 1..Len(f.fills) : ~ (k > done)
    BY <1>1, <1>9
  <2> QED BY <1>6, <2>1, <2>2
<1> QED BY <1>1, <1>3, <1>4, <1>8, <1>9

\* The next chunk is started, the remainder is stamped, a sweep begins, or the submit is answered.
LEMMA JoinOkKeeps ==
  ASSUME NEW r \in Req, Ready(r), JoinOk(r)
  PROVE  Accounted'
<1>1. /\ pc[r] = "join" /\ req' = req /\ clock' = clock /\ crashes' = crashes
      /\ book' = book /\ file' = file /\ settled' = settled
  BY DEF JoinOk, BookUnchanged, GhostUnchanged
<1>2. PICK v, w, d, b, s, f, done :
        /\ v = Now /\ w = Now' /\ d = settled /\ b = book /\ s = file /\ f = frame[r]
        /\ done = f.done + Len(f.slot)
  OBVIOUS
<1>3. /\ f \in Frame /\ f.fills \in Seq(Fill) /\ f.phase \in {"taker", "sweep", "batch"} /\ f.rem \in Nat
      /\ f.done \in Nat /\ Len(f.slot) \in Nat /\ d \in [Req -> Nat]
      /\ f.phase = "batch" => ParallelSweep
      /\ f.phase # "batch" => OneFill(f) /\ Len(f.slot) = 1
  BY <1>1, <1>2, JoinIs, ReadyIs DEF Frame
<1> DEFINE u == [f EXCEPT !.done = done, !.slot = <<>>]
<1>4. PICK g, n :
        /\ g.done = done /\ g.slot = <<>> /\ g.fills = f.fills /\ g.phase = f.phase /\ g.rem = f.rem
        /\ g.snap = f.snap /\ Goto(r, n, g) /\ n = IF done < Len(f.fills) THEN "pipe" ELSE AfterPipelines(r)
  <2>1. u.done = done /\ u.slot = <<>> /\ u.fills = f.fills /\ u.phase = f.phase /\ u.rem = f.rem /\ u.snap = f.snap
    BY <1>3 DEF Frame
  <2>2. Goto(r, IF done < Len(u.fills) THEN "pipe" ELSE AfterPipelines(r), u)
    BY <1>2 DEF JoinOk
  <2> HIDE DEF u
  <2> QED BY <2>1, <2>2
<1>5. /\ Truth(f, b, About(f, d), r, v) /\ (done = 0 => Restorable(f, d, r, v))
      /\ Pending(g) = Pending(f) /\ (~ (done < Len(f.fills)) => Pending(f) = {})
  BY <1>2, <1>4, JoinedIs
<1>6. About(g, d) = About(f, d) /\ (~ (done < Len(f.fills)) => About(f, d) = d)
  BY <1>3, <1>4, <1>5, AboutIs DEF About
<1>7. f.phase # "batch" => ~ (done < Len(f.fills))
  BY <1>2, <1>3 DEF OneFill
<1>8. \/ n = "pipe" /\ f.phase = "batch"
      \/ n = "stamp" /\ f.phase = "taker" /\ f.rem > 0 /\ About(f, d) = d
      \/ n = "sweep" /\ (f.phase = "taker" => ~ (f.rem > 0)) /\ About(f, d) = d
      \/ n = "ok" /\ f.phase # "taker" /\ About(f, d) = d
  BY <1>2, <1>3, <1>4, <1>6, <1>7 DEF AfterPipelines
<1>9. n \in PC \ {"new"} /\ (n \in Awaits <=> n # "ok")
  BY <1>8 DEF PC, Awaits, Replies
<1>10. Goes(r, n) /\ (n # "ok" => frame'[r] = g)
  BY <1>1, <1>4, <1>9, GotoGoes, ReadyIs
<1>11. Gone(r, n, v, w)
  BY <1>2, <1>10, GoesOn DEF Ready
<1>12. Within(d, w)
  BY <1>2, <1>11, ReadyIs, GoodStays DEF Gone
<1>13. Good(b, d, w)
  BY <1>2, <1>11, ReadyIs, GoodStays DEF Gone
<1>14. CASE n = "ok"
  <2>1. SweepSound(b, d, r, v)
    BY <1>5, <1>8, <1>14 DEF Truth
  <2>2. Correct(b, d, r, w)
    BY <1>11, <2>1 DEF SweepSound, Gone, Correct
  <2>3. Sound(b, d, w)
    BY <1>11, <2>1, <2>2 DEF SweepSound, Gone
  <2> QED BY <1>1, <1>2, <1>9, <1>10, <1>14, <2>3, StepKeeps DEF Ready, Sound
<1>15. CASE n = "pipe"
  <2>1. Truth(f, b, About(f, d), r, w) /\ (done = 0 => Restorable(f, d, r, w))
    BY <1>5, <1>9, <1>11, <1>15 DEF Gone, Carries
  <2>2. Truth(g, b, About(g, d), r, w) /\ (g.done = 0 => Restorable(g, d, r, w))
    BY <1>4, <1>6, <2>1 DEF Truth, Restorable
  <2>3. Stage(r, g, b, s, d, w)
    BY <1>3, <1>4, <1>8, <1>9, <1>11, <1>15, <2>2 DEF Gone, Stage
  <2> QED BY <1>1, <1>2, <1>9, <1>10, <1>12, <1>13, <1>15, <2>3, StepKeeps DEF Ready
<1>16. CASE n \in {"stamp", "sweep"}
  <2>1. Truth(f, b, d, r, w)
    BY <1>5, <1>8, <1>9, <1>11, <1>16 DEF Gone, Carries
  <2>2. IF n = "stamp" THEN TakerSound(b, d, r, g.rem, w) ELSE SweepSound(b, d, r, w)
    <3>1. CASE f.phase # "taker"
      BY <1>8, <1>16, <2>1, <3>1 DEF Truth
    <3>2. CASE n = "stamp"
      BY <1>4, <1>8, <2>1, <3>2 DEF Truth
    <3>3. CASE f.phase = "taker" /\ n = "sweep"
      <4>1. f.rem = 0
        BY <1>3, <1>8, <3>3
      <4>2. TakerSound(b, d, r, 0, w)
        BY <2>1, <3>3, <4>1 DEF Truth
      <4> QED BY <1>3, <3>3, <4>2, NothingToRest
    <3> QED BY <1>16, <3>1, <3>2, <3>3
  <2>3. Stage(r, g, b, s, d, w)
    BY <1>3, <1>4, <1>9, <1>11, <1>16, <2>2 DEF Gone, Stage
  <2> QED BY <1>1, <1>2, <1>9, <1>10, <1>12, <1>13, <1>16, <2>3, StepKeeps DEF Ready
<1> QED BY <1>8, <1>14, <1>15, <1>16

-----------------------------------------------------------------------------
(* The other steps, and the invariant.                                     *)

\* A step beside the handler of the submit, if there is one, or one that kills it.
LEMMA BesideKeeps ==
  ASSUME IInv, IInv', Accounted, Later(Now, Now'),
         book' = book, file' = file, settled' = settled, clock' = clock,
         \A q \in Req : req'[q].kind \in {"none", "submit", "runall"},
         \A q \in Req : crashes' = 0 /\ Answered(q, Now') => Answered(q, Now),
         \A q \in Req : Submits(q)' => /\ Submits(q) /\ frame'[q] = frame[q]
                                       /\ pc'[q] = pc[q] /\ req'[q] = req[q],
         crashes' = 0 /\ (\A q \in Req : ~ Submits(q)') => \A q \in Req : ~ Submits(q)
  PROVE  Accounted'
<1>1. PICK v, w, d, b, s : v = Now /\ w = Now' /\ d = settled /\ b = book /\ s = file
  OBVIOUS
<1>2. /\ v \in Views /\ v.pc = pc /\ v.req = req /\ v.clock = clock /\ v.crashes = crashes
      /\ w \in Views /\ w.pc = pc' /\ w.req = req' /\ w.clock = clock' /\ w.crashes = crashes'
  BY <1>1, NowIs, NextIs DEF IInv
<1>3. Later(v, w) /\ \A q \in Req : w.crashes = 0 /\ Answered(q, w) => Answered(q, v)
  BY <1>1, <1>2
<1>4. Good(b, d, w) /\ Within(d, w)
  BY <1>1, <1>2, <1>3, GoodStays DEF Accounted
<1>5. (\A q \in Req : ~ Submits(q)') => AllCorrect(b, d, w)
  <2>1. CASE w.crashes = 0
    <3> SUFFICES ASSUME \A q \in Req : ~ Submits(q)' PROVE AllCorrect(b, d, w)
      OBVIOUS
    <3>1. Sound(b, d, v)
      BY <1>1, <1>2, <2>1 DEF Accounted, Sound
    <3>2. Sound(b, d, w)
      BY <1>2, <1>3, <3>1, SoundStays
    <3> QED BY <3>2 DEF Sound
  <2>2. CASE w.crashes # 0
    BY <2>2 DEF AllCorrect
  <2> QED BY <2>1, <2>2
<1>6. ASSUME NEW q \in Req, Submits(q)' PROVE Stage(q, frame'[q], b, s, d, w)
  <2>1. PICK f : f = frame[q] /\ f = frame'[q]
    BY <1>6
  <2>2. Stage(q, f, b, s, d, v)
    BY <1>1, <1>6, <2>1 DEF Accounted
  <2>3. w.pc[q] = v.pc[q] /\ w.req[q] = v.req[q] /\ w.clock = v.clock
    BY <1>2, <1>6
  <2> QED BY <1>2, <1>3, <2>1, <2>2, <2>3, StageStays
<1>7. Good(book', settled', Now') /\ Within(settled', Now')
  BY <1>1, <1>4
<1>8. (\A q \in Req : ~ Submits(q)') => AllCorrect(book', settled', Now')
  BY <1>1, <1>5
<1>9. \A q \in Req : Submits(q)' => Stage(q, frame'[q], book', file', settled', Now')
  BY <1>1, <1>6
<1> QED BY <1>7, <1>8, <1>9 DEF Accounted

\* A handler that has not arrived has nothing yet.
NewIsBlank == \A r \in Req : pc[r] = "new" => frame[r] = NoFrame

\* A handler changes no locals but its own.
LEMMA OthersFrames ==
  ASSUME NEW r \in Req, Handle(r), NEW q \in Req \ {r}, frame \in [Req -> Frame]
  PROVE  frame'[q] = frame[q]
<1>1. ASSUME NEW n, NEW f, Goto(r, n, f) PROVE frame'[q] = frame[q]
  BY <1>1 DEF Goto
<1>2. ASSUME NEW b, NEW n, NEW f, WriteStore(r, b, n, f) PROVE frame'[q] = frame[q]
  BY <1>1, <1>2 DEF WriteStore
<1>3. CASE RunAllEnd(r) \/ FileWritten(r) \/ Snapshot(r) \/ NoMatch(r) \/ Stamp(r) \/ SweepStart(r)
  BY <1>1, <1>3 DEF RunAllEnd, FileWritten, Snapshot, NoMatch, Stamp, SweepStart
<1>4. CASE SweepCollected(r) \/ PipelineStart(r) \/ JoinOk(r)
  BY <1>1, <1>4 DEF SweepCollected, PipelineStart, JoinOk
<1>5. CASE Match(r) \/ Rollback(r) \/ Add(r) \/ SweepCross(r)
  BY <1>2, <1>5 DEF Match, Rollback, Add, SweepCross
<1>6. CASE Pull(r) \/ JoinFailed(r)
  BY <1>1, <1>2, <1>6 DEF Pull, JoinFailed
<1>7. CASE Pipeline(r)
  BY <1>7 DEF Pipeline, PipelineOk, PipelineFail, PipelineOpenFile, PipelineFileWritten, SetSlot
<1>8. CASE OpenFile(r)
  BY <1>8 DEF OpenFile
<1> QED BY <1>3, <1>4, <1>5, <1>6, <1>7, <1>8 DEF Handle

\* Only an arrival brings a handler anything.
LEMMA NextIsBlank == IInv /\ NewIsBlank /\ [Next]_vars => NewIsBlank'
<1> SUFFICES ASSUME IInv, NewIsBlank, [Next]_vars PROVE NewIsBlank'
  OBVIOUS
<1>1. pc \in [Req -> PC] /\ frame \in [Req -> Frame]
  BY DEF IInv, TypeOK
<1>2. CASE UNCHANGED vars
  BY <1>2 DEF vars, NewIsBlank
<1>3. CASE Crash
  BY <1>3 DEF Crash, NewIsBlank
<1>4. ASSUME NEW r \in Req, Arrive(r) PROVE NewIsBlank'
  <2>1. pc'[r] # "new" /\ \A q \in Req \ {r} : pc'[q] = pc[q] /\ frame'[q] = frame[q]
    BY <1>1, <1>4 DEF Arrive, Invalid, Busy, Submit, RestOnly, RunAllStart
  <2> QED BY <2>1 DEF NewIsBlank
<1>5. ASSUME NEW r \in Req, Handle(r) PROVE NewIsBlank'
  <2>1. Moves(r)
    BY <1>5, HandleMoves
  <2>2. pc'[r] # "new" /\ \A q \in Req \ {r} : pc'[q] = pc[q]
    BY <1>1, <2>1 DEF Moves, Active, Awaits, Replies
  <2>3. \A q \in Req \ {r} : frame'[q] = frame[q]
    BY <1>1, <1>5, OthersFrames
  <2> QED BY <2>2, <2>3 DEF NewIsBlank
<1> QED BY <1>2, <1>3, <1>4, <1>5 DEF Next

\* So it is on every behaviour.
LEMMA AlwaysBlank == Spec => []NewIsBlank
<1>1. Init => NewIsBlank
  BY DEF Init, NewIsBlank
<1> QED BY <1>1, Inductive, NextIsBlank, PTL DEF Spec

\* A submit is admitted.
LEMMA SubmitKeeps ==
  ASSUME Plain, IInv, IInv', OneHolder, NewIsBlank, Accounted, NEW r \in Req, Submit(r)
  PROVE  Accounted'
<1>1. PICK p \in Payloads : /\ req' = [req EXCEPT ![r] = Body("submit", p)]
                            /\ frame' = [frame EXCEPT ![r].rem = p.size]
  BY DEF Submit
<1>2. /\ pc[r] = "new" /\ pc' = [pc EXCEPT ![r] = "snap"] /\ clock' = clock /\ crashes' = crashes
      /\ book' = book /\ file' = file /\ settled' = settled /\ ~ tradePipelineInFlight
  BY DEF Submit, BookUnchanged, GhostUnchanged
<1>3. PICK v, w, d, b, s, g : v = Now /\ w = Now' /\ d = settled /\ b = book /\ s = file /\ g = frame'[r]
  OBVIOUS
<1>4. TypeOK /\ HandlersFit
  BY DEF IInv
<1>5. /\ v \in Views /\ v.pc = pc /\ v.req = req /\ v.clock = clock /\ v.crashes = crashes /\ d \in [Req -> Nat]
      /\ w \in Views /\ w.pc = pc' /\ w.req = req' /\ w.clock = clock' /\ w.crashes = crashes'
  BY <1>3, NowIs, NextIs DEF IInv
<1>6. /\ w.pc[r] = "snap" /\ w.req[r].kind = "submit" /\ w.req[r].size = p.size /\ p.size \in Nat
      /\ \A q \in Req \ {r} : w.pc[q] = v.pc[q] /\ w.req[q] = v.req[q]
  BY <1>1, <1>2, <1>4, <1>5, PayloadsAssumption DEF TypeOK, Body
<1>7. \A q \in Req : ~ Submits(q)
  BY <1>2 DEF OneHolder, FlagIsExact, Holds, Submits
<1>8. \A q \in Req \ {r} : ~ Submits(q)'
  BY <1>5, <1>6, <1>7 DEF Submits, Active
<1>9. ~ Placed(r, v) /\ ~ Answered(r, w) /\ ~ Answered(r, v)
  BY <1>2, <1>5, <1>6 DEF Placed, Answered
<1>10. Later(v, w)
  <2>1. v.clock <= w.clock
    BY <1>2, <1>5 DEF Views
  <2>2. \A q \in Req : Placed(q, v) => Placed(q, w) /\ w.req[q] = v.req[q]
    BY <1>6, <1>9 DEF Placed
  <2> QED BY <1>2, <1>5, <1>6, <1>9, <2>1, <2>2 DEF Later
<1>11. Sound(b, d, v)
  BY <1>3, <1>7 DEF Accounted, Sound
<1>12. Sound(b, d, w)
  <2>1. \A q \in Req : Answered(q, w) => Answered(q, v)
    BY <1>6, <1>9 DEF Answered
  <2> QED BY <1>5, <1>10, <1>11, <2>1, SoundStays
<1>13. Out(b, r) /\ d[r] = 0
  <2>1. \A i \in DOMAIN b : Placed(b[i].id, v)
    BY <1>11 DEF Sound, Good
  <2>2. ~ (d[r] > 0)
    BY <1>9, <1>11 DEF Sound, Within
  <2> QED BY <1>5, <1>9, <2>1, <2>2 DEF Out
<1>14. g.rem = p.size /\ g.phase = "taker" /\ g.fills = <<>>
  <2>1. frame[r] = NoFrame /\ frame \in [Req -> Frame]
    BY <1>2, <1>4 DEF NewIsBlank, TypeOK
  <2>2. g = [NoFrame EXCEPT !.rem = p.size]
    BY <1>1, <1>3, <2>1
  <2> QED BY <2>2 DEF NoFrame
<1>15. TakerSound(b, d, r, g.rem, w)
  <2>1. d[r] + g.rem = w.req[r].size
    BY <1>6, <1>13, <1>14
  <2> QED BY <1>12, <1>13, <2>1 DEF TakerSound
<1>16. Stage(r, g, b, s, d, w)
  BY <1>6, <1>14, <1>15 DEF Stage, Awaits
<1>17. \A q \in Req : req'[q].kind \in {"none", "submit", "runall"}
  BY <1>5, <1>6 DEF Accounted
<1>18. Good(book', settled', Now') /\ Within(settled', Now') /\ AllCorrect(book', settled', Now')
  BY <1>2, <1>3, <1>12 DEF Sound
<1>19. \A q \in Req : Submits(q)' => Stage(q, frame'[q], book', file', settled', Now')
  BY <1>2, <1>3, <1>8, <1>16
<1> QED BY <1>17, <1>18, <1>19 DEF Accounted

\* What a request that is no submit does leaves every submit as it is.
LEMMA AsideKeeps ==
  ASSUME IInv, IInv', Accounted, NEW r \in Req, req[r].kind # "submit",
         req'[r].kind \in {"none", "runall"}, pc'[r] # "new",
         \A q \in Req \ {r} : pc'[q] = pc[q] /\ req'[q] = req[q] /\ frame'[q] = frame[q],
         book' = book, file' = file, settled' = settled, clock' = clock, crashes' = crashes
  PROVE  Accounted'
<1>1. PICK v, w : v = Now /\ w = Now'
  OBVIOUS
<1>2. /\ v \in Views /\ v.pc = pc /\ v.req = req /\ v.clock = clock /\ v.crashes = crashes
      /\ w \in Views /\ w.pc = pc' /\ w.req = req' /\ w.clock = clock' /\ w.crashes = crashes'
  BY <1>1, NowIs, NextIs DEF IInv
<1>3. \A q \in Req : Answered(q, w) <=> Answered(q, v)
  BY <1>2 DEF Answered
<1>4. Later(v, w)
  <2>1. v.clock <= w.clock
    BY <1>2 DEF Views
  <2>2. \A q \in Req : Placed(q, v) => Placed(q, w) /\ w.req[q] = v.req[q]
    BY <1>2 DEF Placed
  <2>3. \A q \in Req : Answered(q, v) => w.pc[q] = v.pc[q]
    BY <1>2 DEF Answered
  <2> QED BY <1>2, <2>1, <2>2, <2>3 DEF Later
<1>5. \A q \in Req : Submits(q)' <=> Submits(q)
  BY DEF Submits, Active
<1>6. \A q \in Req : Submits(q)' => /\ Submits(q) /\ frame'[q] = frame[q]
                                    /\ pc'[q] = pc[q] /\ req'[q] = req[q]
  BY <1>5 DEF Submits
<1>7. \A q \in Req : req'[q].kind \in {"none", "submit", "runall"}
  BY DEF Accounted
<1>8. Later(Now, Now') /\ \A q \in Req : crashes' = 0 /\ Answered(q, Now') => Answered(q, Now)
  BY <1>1, <1>3, <1>4
<1>9. (\A q \in Req : ~ Submits(q)') => \A q \in Req : ~ Submits(q)
  BY <1>5
<1> QED BY <1>6, <1>7, <1>8, <1>9, BesideKeeps

\* A crash takes the handlers, and leaves the book they were about to write.
LEMMA CrashKeeps ==
  ASSUME IInv, IInv', Accounted, Crash
  PROVE  Accounted'
<1>1. PICK v, w : v = Now /\ w = Now'
  OBVIOUS
<1>2. TypeOK
  BY DEF IInv
<1>3. /\ v \in Views /\ v.pc = pc /\ v.req = req /\ v.clock = clock /\ v.crashes = crashes
      /\ w \in Views /\ w.pc = pc' /\ w.req = req' /\ w.clock = clock' /\ w.crashes = crashes'
  BY <1>1, NowIs, NextIs DEF IInv
<1>4. /\ book' = book /\ file' = file /\ settled' = settled /\ clock' = clock /\ req' = req
      /\ pc' = [q \in Req |-> IF Active(q) THEN "dead" ELSE pc[q]] /\ crashes' = crashes + 1
  BY DEF Crash, BookUnchanged
<1>5. crashes' # 0
  BY <1>2, <1>4 DEF TypeOK
<1>6. Later(v, w)
  <2>1. v.clock <= w.clock
    BY <1>3, <1>4 DEF Views
  <2>2. \A q \in Req : Placed(q, v) => Placed(q, w) /\ w.req[q] = v.req[q]
    BY <1>3, <1>4 DEF Placed
  <2> QED BY <1>3, <1>5, <2>1, <2>2 DEF Later
<1>7. \A q \in Req : ~ Submits(q)'
  BY <1>2, <1>4 DEF Submits, Active, Awaits, TypeOK
<1>8. Later(Now, Now')
  BY <1>1, <1>6
<1>9. \A q \in Req : req'[q].kind \in {"none", "submit", "runall"}
  BY <1>4 DEF Accounted
<1> QED BY <1>4, <1>5, <1>7, <1>8, <1>9, BesideKeeps

\* A request arrives.
LEMMA ArriveKeeps ==
  ASSUME Plain, IInv, IInv', OneHolder, NewIsBlank, Accounted, NEW r \in Req, Arrive(r)
  PROVE  Accounted'
<1>1. TypeOK /\ Fits(pc[r], req[r], frame[r])
  BY DEF IInv, HandlersFit
<1>2. pc[r] = "new" /\ req[r] = NoRequest
  BY <1>1 DEF Arrive, Invalid, Busy, Submit, RestOnly, RunAllStart, Fits
<1>3. req[r].kind = "none"
  BY <1>2 DEF NoRequest
<1>4. CASE Submit(r)
  BY <1>4, SubmitKeeps
<1>5. CASE RestOnly(r)
  BY <1>5 DEF RestOnly, Plain
<1>6. CASE Invalid(r) \/ Busy(r) \/ RunAllStart(r)
  <2>1. /\ book' = book /\ file' = file /\ settled' = settled /\ clock' = clock /\ crashes' = crashes
        /\ frame' = frame
    BY <1>6 DEF Invalid, Busy, RunAllStart, BookUnchanged, GhostUnchanged
  <2>2. /\ pc'[r] # "new" /\ req'[r].kind \in {"none", "runall"}
        /\ \A q \in Req \ {r} : pc'[q] = pc[q] /\ req'[q] = req[q]
    BY <1>1, <1>3, <1>6 DEF Invalid, Busy, RunAllStart, TypeOK, RunAll
  <2> QED BY <1>3, <2>1, <2>2, AsideKeeps
<1> QED BY <1>4, <1>5, <1>6 DEF Arrive

\* The handler of a submit goes on.
LEMMA SubmitGoesOn ==
  ASSUME NEW r \in Req, Ready(r), Handle(r)
  PROVE  Accounted'
<1>1. pc[r] \notin {"rollback", "cli"}
  <2>1. Stage(r, frame[r], book, file, settled, Now) /\ Now.pc = pc
    BY ReadyIs
  <2> QED BY <2>1 DEF Stage
<1>2. CASE RunAllEnd(r) \/ Rollback(r)
  BY <1>1, <1>2 DEF RunAllEnd, Rollback
<1>3. CASE Pipeline(r)
  BY <1>3, PipelineOkKeeps, PipelineFailKeeps DEF Pipeline
<1>4. CASE \/ OpenFile(r) \/ FileWritten(r) \/ Snapshot(r) \/ Match(r) \/ NoMatch(r) \/ Stamp(r) \/ Add(r)
  BY <1>4, OpenKeeps, LandKeeps, SnapshotKeeps, MatchKeeps, StampKeeps, AddKeeps
<1>5. CASE \/ SweepStart(r) \/ SweepCross(r) \/ SweepCollected(r) \/ Pull(r)
           \/ PipelineStart(r) \/ JoinFailed(r) \/ JoinOk(r)
  BY <1>5, SweepStartKeeps, SweepCrossKeeps, SweepOverKeeps, PullKeeps, PipelineStartKeeps, JoinFailedKeeps,
     JoinOkKeeps
<1> QED BY <1>2, <1>3, <1>4, <1>5 DEF Handle

\* Any handler goes on.
LEMMA HandleKeeps ==
  ASSUME Plain, IInv, IInv', OneHolder, Trusted, Trusted', Accounted, NEW r \in Req, Handle(r)
  PROVE  Accounted'
<1>1. TypeOK /\ Fits(pc[r], req[r], frame[r]) /\ Active(r) /\ req' = req
  BY HandleMoves DEF IInv, HandlersFit, Moves
<1>2. CASE req[r].kind = "submit"
  BY <1>1, <1>2, SubmitGoesOn DEF Ready, Submits
<1>3. CASE req[r].kind # "submit"
  <2>1. req[r].kind \in {"none", "runall"}
    BY <1>3 DEF Accounted
  <2>2. pc[r] = "cli" /\ req[r] = RunAll
    BY <1>1, <1>3, <2>1 DEF Fits, Active
  <2>3. RunAllEnd(r)
    BY <2>2 DEF Handle, OpenFile, FileWritten, Snapshot, Match, NoMatch, Rollback, Stamp, Add, SweepStart,
       SweepCross, SweepCollected, Pull, PipelineStart, Pipeline, PipelineOk, PipelineFail,
       PipelineOpenFile, PipelineFileWritten, JoinFailed, JoinOk
  <2>4. /\ book' = book /\ file' = file /\ settled' = settled /\ clock' = clock /\ crashes' = crashes
        /\ pc'[r] # "new" /\ \A q \in Req \ {r} : pc'[q] = pc[q] /\ frame'[q] = frame[q]
    BY <1>1, <2>3 DEF RunAllEnd, Goto, BookUnchanged, GhostUnchanged, TypeOK
  <2> QED BY <1>1, <1>3, <2>1, <2>4, AsideKeeps
<1> QED BY <1>2, <1>3

\* Every step keeps the books sound.
LEMMA NextAccounted ==
  ASSUME Plain, IInv, IInv', OneHolder, NewIsBlank, Trusted, Trusted', Accounted, [Next]_vars
  PROVE  Accounted'
<1>1. CASE UNCHANGED vars
  <2>1. /\ req' = req /\ pc' = pc /\ frame' = frame /\ book' = book /\ file' = file /\ settled' = settled
        /\ Now' = Now
    BY <1>1 DEF vars, Now
  <2> QED BY <2>1 DEF Accounted, Submits, Active
<1>2. CASE Crash
  BY <1>2, CrashKeeps
<1>3. ASSUME NEW r \in Req, Arrive(r) PROVE Accounted'
  BY <1>3, ArriveKeeps
<1>4. ASSUME NEW r \in Req, Handle(r) PROVE Accounted'
  BY <1>4, HandleKeeps
<1> QED BY <1>1, <1>2, <1>3, <1>4 DEF Next

\* The empty book is sound.
LEMMA InitAccounted == Init => Accounted
<1> SUFFICES ASSUME Init PROVE Accounted
  OBVIOUS
<1>1. PICK v, d, b : v = Now /\ d = settled /\ b = book
  OBVIOUS
<1>2. v.pc = pc /\ v.req = req /\ b = <<>> /\ \A q \in Req : d[q] = 0 /\ pc[q] = "new" /\ req[q] = NoRequest
  BY <1>1 DEF Init, Now
<1>3. b \in Seq(Order) /\ DOMAIN b = {}
  BY <1>2, EmptySeq
<1>4. Good(b, d, v)
  BY <1>3 DEF Good, Fifo
<1>5. Within(d, v) /\ AllCorrect(b, d, v)
  BY <1>2 DEF Within, AllCorrect, Answered
<1>6. \A q \in Req : ~ Submits(q) /\ req[q].kind = "none"
  BY <1>2 DEF Submits, Active, Awaits, NoRequest
<1> QED BY <1>1, <1>4, <1>5, <1>6 DEF Accounted

\* Only a failed batch makes the log ask for anything, and no handler dies by itself.
LEMMA WhoAsks ==
  ASSUME NEW r \in Req, Handle(r)
  PROVE  crashes' = crashes /\ (reconcile' = reconcile \/ JoinFailed(r))
<1>1. CASE \/ RunAllEnd(r) \/ OpenFile(r) \/ FileWritten(r) \/ Snapshot(r) \/ Match(r) \/ NoMatch(r) \/ Rollback(r)
           \/ Stamp(r) \/ Add(r)
  BY <1>1 DEF RunAllEnd, OpenFile, FileWritten, Snapshot, Match, NoMatch, Rollback, Stamp, Add, GhostUnchanged
<1>2. CASE SweepStart(r) \/ SweepCross(r) \/ SweepCollected(r) \/ Pull(r) \/ PipelineStart(r) \/ JoinOk(r)
  BY <1>2 DEF SweepStart, SweepCross, SweepCollected, Pull, PipelineStart, JoinOk, GhostUnchanged
<1>3. CASE Pipeline(r)
  BY <1>3 DEF Pipeline, PipelineOk, PipelineFail, PipelineOpenFile, PipelineFileWritten, GhostUnchanged
<1>4. CASE JoinFailed(r)
  BY <1>4 DEF JoinFailed
<1> QED BY <1>1, <1>2, <1>3, <1>4 DEF Handle

\* A batch that has both settled and failed stays so until its handler makes the log ask.
LEMMA DividedStays ==
  ASSUME IInv, NEW q \in Req, pc[q] = "join", frame[q].phase = "batch", Handle(q), ~ reconcile', Undivided(q)'
  PROVE  Undivided(q)
<1> SUFFICES Unfailed(frame[q]) \/ Unsettled(frame[q])
  BY DEF Undivided
<1>1. PICK f, g : f = frame[q] /\ g = frame'[q]
  OBVIOUS
<1>2. /\ frame \in [Req -> Frame] /\ f \in Frame /\ f.slot \in Seq(SlotStates) /\ f.done \in Nat
      /\ DOMAIN f.slot = 1..Len(f.slot)
  BY <1>1, LenProperties DEF IInv, TypeOK, Frame
<1>3. Pipeline(q) \/ JoinFailed(q) \/ JoinOk(q)
  BY DEF Handle, RunAllEnd, OpenFile, FileWritten, Snapshot, Match, NoMatch, Rollback, Stamp, Add, SweepStart,
     SweepCross, SweepCollected, Pull, PipelineStart
<1>4. CASE Pipeline(q)
  <2>1. PICK i \in DOMAIN f.slot, st \in SlotStates :
          /\ SetSlot(q, i, st) /\ pc' = pc
          /\ \/ f.slot[i] = "running" /\ st = "ok"
             \/ f.slot[i] # "ok" /\ st \in {"open", "land", "failed"}
    BY <1>1, <1>4 DEF Pipeline, PipelineOk, PipelineFail, PipelineOpenFile, PipelineFileWritten, SlotStates
  <2> DEFINE z == [f.slot EXCEPT ![i] = st]
  <2>2. g = [f EXCEPT !.slot = z]
    BY <1>1, <1>2, <2>1 DEF SetSlot
  <2>3. g.slot = z /\ g.phase = "batch" /\ g.done = f.done
    BY <1>1, <1>2, <2>2 DEF Frame
  <2>4. DOMAIN z = DOMAIN f.slot /\ z[i] = st /\ \A j \in DOMAIN f.slot \ {i} : z[j] = f.slot[j]
    BY <1>2
  <2> HIDE DEF z
  <2>5. Unfailed(g) \/ Unsettled(g)
    BY <1>1, <2>1, <2>3 DEF Undivided
  <2>6. CASE f.slot[i] = "running" /\ st = "ok"
    <3>1. ~ Unsettled(g)
      BY <2>3, <2>4, <2>6 DEF Unsettled
    <3> QED BY <1>1, <2>3, <2>4, <2>5, <2>6, <3>1 DEF Unfailed
  <2>7. CASE f.slot[i] # "ok" /\ st \in {"open", "land", "failed"}
    <3>1. ~ Unfailed(g)
      BY <2>3, <2>4, <2>7 DEF Unfailed
    <3> QED BY <1>1, <2>3, <2>4, <2>5, <2>7, <3>1 DEF Unsettled
  <2> QED BY <2>1, <2>6, <2>7
<1>5. CASE JoinFailed(q)
  <2>1. ~ (f.done > 0) /\ "ok" \notin Slots(q)
    BY <1>1, <1>5 DEF JoinFailed
  <2>2. f.done = 0
    BY <1>2, <2>1
  <2> QED BY <1>1, <2>1, <2>2 DEF Unsettled, Slots
<1>6. CASE JoinOk(q)
  BY <1>6 DEF JoinOk, Ended, Slots, Unfailed
<1> QED BY <1>3, <1>4, <1>5, <1>6

\* So what is trusted now could be trusted before.
LEMMA TrustedBefore ==
  ASSUME IInv, [Next]_vars, Trusted'
  PROVE  Trusted
<1>1. pc \in [Req -> PC] /\ frame \in [Req -> Frame] /\ crashes \in Nat /\ reconcile \in BOOLEAN
  BY DEF IInv, TypeOK
<1>2. CASE UNCHANGED vars
  BY <1>2 DEF vars, Trusted, Undivided, Unfailed, Unsettled
<1>3. CASE Crash
  <2>1. crashes' # 0 /\ reconcile' = reconcile
    BY <1>1, <1>3 DEF Crash
  <2> QED BY <2>1 DEF Trusted
<1>4. ASSUME NEW r \in Req, Arrive(r) PROVE Trusted
  <2>1. /\ reconcile' = reconcile /\ crashes' = crashes /\ pc[r] = "new"
        /\ \A q \in Req \ {r} : pc'[q] = pc[q] /\ frame'[q] = frame[q]
    BY <1>1, <1>4 DEF Arrive, Invalid, Busy, Submit, RestOnly, RunAllStart, GhostUnchanged
  <2>2. \A q \in Req : Undivided(q)' => Undivided(q)
    BY <2>1 DEF Undivided
  <2> QED BY <2>1, <2>2 DEF Trusted
<1>5. ASSUME NEW r \in Req, Handle(r) PROVE Trusted
  <2>1. crashes' = crashes /\ (reconcile' = reconcile \/ JoinFailed(r))
    BY <1>5, WhoAsks
  <2>2. ~ reconcile
    BY <1>1, <2>1 DEF Trusted, JoinFailed
  <2>3. ASSUME NEW q \in Req, Undivided(q)' PROVE Undivided(q)
    <3>1. CASE q = r
      BY <1>5, <2>3, <3>1, DividedStays DEF Undivided, Trusted
    <3>2. CASE q # r
      <4>1. frame'[q] = frame[q]
        BY <1>1, <1>5, <3>2, OthersFrames
      <4>2. Moves(r)
        BY <1>5, HandleMoves
      <4>3. pc'[q] = pc[q]
        BY <1>1, <3>2, <4>2 DEF Moves
      <4> QED BY <2>3, <4>1, <4>3 DEF Undivided
    <3> QED BY <3>1, <3>2
  <2> QED BY <2>1, <2>2, <2>3 DEF Trusted
<1> QED BY <1>2, <1>3, <1>4, <1>5 DEF Next

\* Without rest-only calls and as long as the books can be trusted, the file, the
\* store being written and the snapshot hold what they should of each order, given
\* what has been settled and what the running and waiting pipelines will settle:
\* in sequential sweeps across crashes, in parallel ones until a chunk has both
\* settled an execution and restored the book.
THEOREM VenueInductive == ASSUME Plain PROVE Spec => []VenueInv
<1>1. VenueInv /\ IInv /\ IInv' /\ OneHolder /\ NewIsBlank /\ [Next]_vars => VenueInv'
  BY TrustedBefore, NextAccounted DEF VenueInv
<1>2. Init => VenueInv
  BY InitAccounted DEF VenueInv
<1> QED BY <1>1, <1>2, Inductive, AlwaysOneHolder, AlwaysBlank, PTL DEF Spec

\* No batches, and nothing to reconcile, in sequential sweeps.
LEMMA AlwaysTrusted == ASSUME Sequential PROVE Spec => []Trusted
<1>1. Init => Trusted
  BY DEF Init, Trusted, Sequential
<1>2. Trusted /\ VenueInv /\ IInv /\ [Next]_vars => Trusted'
  <2> SUFFICES ASSUME Trusted, VenueInv, IInv, [Next]_vars PROVE reconcile' = reconcile
    BY DEF Trusted, Sequential
  <2>1. CASE UNCHANGED vars
    BY <2>1 DEF vars
  <2>2. CASE Crash
    BY <2>2 DEF Crash
  <2>3. ASSUME NEW r \in Req, Arrive(r) PROVE reconcile' = reconcile
    BY <2>3 DEF Arrive, Invalid, Busy, Submit, RestOnly, RunAllStart, GhostUnchanged
  <2>4. ASSUME NEW r \in Req, Handle(r) PROVE reconcile' = reconcile
    <3>1. CASE JoinFailed(r)
      <4>1. pc[r] = "join" /\ Fits("join", req[r], frame[r])
        BY <3>1 DEF JoinFailed, IInv, HandlersFit
      <4>2. Submits(r)
        BY <4>1 DEF Fits, Awaits, Submits, Active, VenueInv, Accounted
      <4>3. frame[r].phase # "batch"
        BY <4>2 DEF Sequential, VenueInv, Accounted, Stage
      <4> QED BY <3>1, <4>3 DEF JoinFailed
    <3> QED BY <2>4, <3>1, WhoAsks
  <2> QED BY <2>1, <2>2, <2>3, <2>4 DEF Next
<1> QED BY <1>1, <1>2, VenueInductive, Inductive, PTL DEF Spec, Sequential

\* So the books of sequential sweeps are always sound.
LEMMA AlwaysAccounted == ASSUME Sequential PROVE Spec => []Accounted
<1>1. VenueInv /\ Trusted => Accounted
  BY DEF VenueInv
<1> QED BY <1>1, VenueInductive, AlwaysTrusted, PTL DEF Sequential

\* What rests of a request, if it rests at most once.
LEMMA TotalIs ==
  ASSUME TypeOK, NEW r \in Req
  PROVE  /\ Out(book, r) => Total(r) = settled[r]
         /\ \A i \in DOMAIN book :
              book[i].id = r /\ (\A j \in DOMAIN book : book[j].id = r => j = i) =>
                Total(r) = settled[r] + book[i].size
<1> DEFINE S == {k \in DOMAIN book : book[k].id = r}
           f == [i \in S |-> book[i].size]
<1>1. book \in Seq(Order) /\ settled[r] \in Nat
  BY DEF TypeOK
<1>2. DOMAIN book = 1..Len(book) /\ Len(book) \in Nat /\ \A i \in DOMAIN book : book[i].size \in Nat
  BY <1>1, LenProperties, PlaceIs
<1>3. IsFiniteSet(S)
  <2>1. IsFiniteSet(DOMAIN book)
    BY <1>2, FS_Interval
  <2> QED BY <2>1, FS_Subset
<1>4. Total(r) = settled[r] + SumFunction(f)
  BY DEF Total
<1>5. ASSUME Out(book, r) PROVE Total(r) = settled[r]
  <2>1. S = {}
    BY <1>5 DEF Out
  <2>2. f \in [S -> Int]
    BY <1>2
  <2>3. SumFunction(f) = 0
    BY <1>3, <2>1, <2>2, SumWithout
  <2> QED BY <1>1, <1>4, <2>3
<1>6. ASSUME NEW i \in DOMAIN book, book[i].id = r, \A j \in DOMAIN book : book[j].id = r => j = i
      PROVE  Total(r) = settled[r] + book[i].size
  <2> DEFINE e == [y \in S \ {i} |-> f[y]]
  <2>1. i \in S /\ S \ {i} = {} /\ f[i] = book[i].size
    BY <1>6
  <2>2. f \in [S -> Int] /\ e \in [S \ {i} -> Int]
    BY <1>2
  <2>3. IsFiniteSet(S \ {i})
    BY <1>3, FS_RemoveElement
  <2> HIDE DEF S, f
  <2>4. SumFunction(f) = f[i] + SumFunction(e)
    BY <1>3, <2>1, <2>2, SumWithout
  <2>5. SumFunction(e) = 0
    BY <2>1, <2>2, <2>3, SumWithout
  <2>6. book[i].size \in Nat
    BY <1>2
  <2> QED BY <1>1, <1>4, <2>1, <2>4, <2>5, <2>6
<1> QED BY <1>5, <1>6

\* No order trades more than its size, and none rests twice: not by a maker that
\* is matched again, not by a restore after something has been settled, and not by
\* a crash between the file and the pipeline.
THEOREM OrdersNeverOverfilled == ASSUME Sequential PROVE Spec => []NeverOverfilled
<1>1. Accounted => NeverOverfilled
  <2> SUFFICES ASSUME Accounted PROVE NeverOverfilled
    OBVIOUS
  <2>1. Good(book, settled, Now) /\ Within(settled, Now) /\ Now.req = req
    BY DEF Accounted, Now
  <2> QED BY <2>1 DEF Good, Within, NeverOverfilled
<1> QED BY <1>1, AlwaysAccounted, PTL

\* "FIFO on tie", as far as it goes: an order nothing has been filled of is never
\* passed over for a younger one of its price, in whatever order matches, remainders,
\* sweeps and restores have rewritten the file.
THEOREM UntouchedStaysFifo == ASSUME Sequential PROVE Spec => []UntouchedIsFifo
<1>1. Accounted => UntouchedIsFifo
  <2> SUFFICES ASSUME Accounted, NEW r \in Req, NEW i \in Makers(book, req[r]), NEW j \in Eligible(book, req[r]),
                      book[i].price = book[j].price, book[j].size = req[book[j].id].size
               PROVE  book[i].at <= book[j].at
    BY DEF UntouchedIsFifo
  <2>1. Good(book, settled, Now) /\ Now.req = req
    BY DEF Accounted, Now
  <2>2. book \in Seq(Order) /\ Fifo(book, Now)
    BY <2>1 DEF Good
  <2>3. i \in DOMAIN book /\ j \in DOMAIN book
    BY DEF Makers, Eligible
  <2>4. book[i].at \in Nat /\ book[j].at \in Nat /\ book[i].price \in Nat /\ book[j].price \in Nat
    BY <2>2, <2>3, PlaceIs DEF Order
  <2>5. CASE i = j
    BY <2>4, <2>5
  <2>6. CASE i # j
    <3>1. ~ Better(book[i].side, book[i].price, book[j].price)
      BY <2>4 DEF Better
    <3>2. i < j
      BY <2>6, <3>1 DEF Makers
    <3> QED BY <2>1, <2>2, <2>3, <3>2 DEF Fifo
  <2> QED BY <2>5, <2>6
<1> QED BY <1>1, AlwaysAccounted, PTL

\* A submit whose reply was 200 is in the venue as a whole, settled or resting,
\* and one whose reply was 500 as a whole or not at all: matches, partial fills,
\* sweeps and restores neither lose nor create quantity, unless the API crashes.
THEOREM SubmitsAllOrNothing == ASSUME Plain PROVE Spec => []AllOrNothing
<1>1. IInv /\ VenueInv => AllOrNothing
  <2> SUFFICES ASSUME IInv, VenueInv, Idle, ~ reconcile, crashes = 0, NEW r \in Req, req[r].kind = "submit"
               PROVE  /\ pc[r] = "ok" => Total(r) = req[r].size
                      /\ pc[r] = "error" => Total(r) \in {0, req[r].size}
    BY DEF AllOrNothing
  <2>1. TypeOK /\ Now.req = req /\ Now.pc = pc /\ Now.crashes = crashes
    BY DEF IInv, Now
  <2>2. Good(book, settled, Now) /\ AllCorrect(book, settled, Now)
    <3>1. \A q \in Req : pc[q] # "join"
      BY DEF Idle, Active, Awaits
    <3>2. Accounted
      BY <3>1 DEF VenueInv, Trusted, Undivided
    <3> QED BY <3>2 DEF Accounted, Submits, Idle
  <2>3. Answered(r, Now) => Correct(book, settled, r, Now)
    BY <2>1, <2>2 DEF AllCorrect
  <2>4. Whole(book, settled, r, req[r].size) => Total(r) = req[r].size
    BY <2>1, <2>2, TotalIs DEF Whole, Good
  <2>5. Out(book, r) /\ settled[r] = 0 => Total(r) = 0
    BY <2>1, TotalIs
  <2>6. pc[r] \in {"ok", "error"} =>
          Whole(book, settled, r, req[r].size) \/ (pc[r] = "error" /\ Out(book, r) /\ settled[r] = 0)
    BY <2>1, <2>3 DEF Answered, Correct
  <2> QED BY <2>4, <2>5, <2>6
<1> QED BY <1>1, VenueInductive, Inductive, PTL

-----------------------------------------------------------------------------
(* What the two answers of a submit promise about the book, without         *)
(* rest-only calls, in both sweep modes: 500 leaves it as it was before the *)
(* failed match or sweep, 200 leaves it uncrossed.                          *)

\* The executions of f are of a sweep that has found no more.
Swept(f) == f.phase = "batch" \/ (f.phase = "sweep" /\ ParallelSweep)

Clean(b) == Crosses(b, SweepPair) = {}

\* A handler that writes the store goes on at n with locals f.
Writes(n, f) ==
  \/ n = "pipe" /\ OneFill(f) /\ ~ Swept(f)
  \/ n = "sweep"
  \/ n = "cross" /\ ParallelSweep /\ f.phase = "sweep" /\ f.done = 0
  \/ n = "error" /\ f.buf = f.snap

\* A handler at p with locals f, the book b and its file in state s.
Duty(p, f, b, s) ==
  /\ p \in Awaits \ {"rollback", "cli"}
  /\ p \in {"snap", "match"} => f.phase = "taker"
  /\ p \in {"open", "land"} => Writes(f.next, f)
  /\ p = "land" => s = "truncated"
  /\ p = "cross" => f.phase = "sweep" /\ f.done = 0 /\ (ParallelSweep \/ f.fills = <<>>)
  /\ p = "pull" => f.phase = "batch" /\ Clean(b)
  /\ p = "pipe" => (f.phase = "batch" \/ OneFill(f)) /\ (Swept(f) => Clean(b))
  /\ p = "join" =>
       /\ \/ f.phase = "batch"
          \/ /\ OneFill(f) /\ Len(f.slot) = 1
             /\ f.slot[1] = "land" => s = "truncated"
             /\ f.slot[1] = "failed" => b = f.snap
       /\ Swept(f) /\ (\A i \in DOMAIN f.slot : f.slot[i] \in {"running", "ok"}) => Clean(b)

Duties ==
  /\ \A r \in Req : req[r].kind # "rest"
  /\ \A r \in Req : Submits(r) => Duty(pc[r], frame[r], book, file)

\* What a step of r's handler does.
Outcome(r) ==
  /\ pc'[r] \in Awaits => Duty(pc'[r], frame'[r], book', file')
  /\ pc'[r] = "error" => book' = frame[r].snap
  /\ pc'[r] = "ok" => Clean(book')

\* It moves on.
LEMMA GotoOutcome ==
  ASSUME TypeOK, NEW r \in Req, NEW n, NEW f, Goto(r, n, f),
         n \in Awaits => Duty(n, f, book', file'),
         n = "error" => book' = frame[r].snap,
         n = "ok" => Clean(book')
  PROVE  Outcome(r)
<1>1. pc'[r] = n
  BY DEF TypeOK, Goto
<1>2. n \in Awaits => frame'[r] = f
  BY DEF TypeOK, Goto, Awaits, Replies
<1> QED BY <1>1, <1>2 DEF Outcome

\* It starts to write.
LEMMA WriteOutcome ==
  ASSUME TypeOK, NEW r \in Req, NEW b, NEW n, NEW f \in Frame, WriteStore(r, b, n, f),
         \/ n = "pipe" /\ OneFill(f) /\ ~ Swept(f)
         \/ n = "sweep"
         \/ n = "cross" /\ ParallelSweep /\ f.phase = "sweep" /\ f.done = 0
         \/ n = "error" /\ b = f.snap
  PROVE  Outcome(r)
<1> DEFINE g == [f EXCEPT !.buf = b, !.next = n]
<1>1. /\ g.buf = b /\ g.next = n /\ g.phase = f.phase /\ g.fills = f.fills
      /\ g.done = f.done /\ g.snap = f.snap
  BY DEF Frame
<1>2. Goto(r, "open", g)
  BY DEF WriteStore
<1> HIDE DEF g
<1>3. Writes(g.next, g)
  BY <1>1 DEF Writes, OneFill, Swept
<1>4. "open" \in Awaits
  BY DEF Awaits
<1>5. Duty("open", g, book', file')
  BY <1>3, <1>4 DEF Duty
<1> QED BY <1>2, <1>5, GotoOutcome

\* What is known before a step of a submit's handler.
Serves(r) == IInv /\ Duties /\ Submits(r)

\* The same, spelled out.
LEMMA ServesIs ==
  ASSUME NEW r \in Req, Serves(r)
  PROVE  /\ TypeOK /\ Fits(pc[r], req[r], frame[r]) /\ Duty(pc[r], frame[r], book, file)
         /\ frame[r] \in Frame /\ req[r] \in Requests /\ req[r].kind = "submit" /\ book \in Seq(Order)
<1>1. TypeOK /\ HandlersFit /\ req[r].kind = "submit" /\ Duty(pc[r], frame[r], book, file)
  BY DEF Serves, IInv, Duties, Submits
<1>2. req[r] \in Requests \cup {NoRequest, RunAll} /\ frame[r] \in Frame /\ book \in Seq(Order)
  BY <1>1 DEF TypeOK
<1> QED BY <1>1, <1>2 DEF HandlersFit, NoRequest, RunAll

\* Up to the match, and the new order's place in the book.
LEMMA MatchOutcome ==
  ASSUME NEW r \in Req, Serves(r), Snapshot(r) \/ NoMatch(r) \/ Stamp(r) \/ Match(r) \/ Add(r)
  PROVE  Outcome(r)
<1>1. PICK f : f = frame[r]
  OBVIOUS
<1>2. TypeOK /\ f \in Frame /\ Duty(pc[r], f, book, file) /\ Fits(pc[r], req[r], f) /\ req[r].kind = "submit"
  BY <1>1, ServesIs
<1>3. {"match", "stamp", "add"} \subseteq Awaits \ {"rollback", "cli", "error", "ok"}
  BY DEF Awaits
<1>4. CASE Snapshot(r)
  <2> DEFINE g == [f EXCEPT !.snap = book]
  <2>1. Goto(r, "match", g) /\ g.phase = f.phase /\ f.phase = "taker"
    BY <1>1, <1>2, <1>4 DEF Snapshot, Duty, Frame
  <2> HIDE DEF g
  <2>2. Duty("match", g, book', file')
    BY <1>3, <2>1 DEF Duty
  <2> QED BY <1>2, <2>1, <2>2, GotoOutcome
<1>5. CASE NoMatch(r)
  <2>1. Duty("stamp", f, book', file')
    BY <1>3 DEF Duty
  <2> QED BY <1>1, <1>2, <1>5, <2>1, GotoOutcome DEF NoMatch
<1>6. CASE Stamp(r)
  <2>1. PICK t : Goto(r, "add", [f EXCEPT !.at = t])
    BY <1>1, <1>6 DEF Stamp
  <2>2. Duty("add", [f EXCEPT !.at = t], book', file')
    BY <1>3 DEF Duty
  <2> QED BY <1>2, <2>1, <2>2, GotoOutcome
<1>7. CASE Match(r)
  <2>1. PICK i \in Matches(book, req[r]) :
          LET q == Smaller(req[r].size, book[i].size)
          IN  WriteStore(r, Consume(book, i, q), "pipe",
                         [f EXCEPT !.rem = @ - q, !.fills = <<TakerFill(r, req[r], book[i])>>])
    BY <1>1, <1>2, <1>7 DEF Match
  <2> DEFINE q == Smaller(req[r].size, book[i].size)
             z == TakerFill(r, req[r], book[i])
             g == [f EXCEPT !.rem = f.rem - q, !.fills = <<z>>]
  <2>2. pc[r] = "match" /\ req[r] \in Requests /\ book \in Seq(Order)
    BY <1>7, ServesIs DEF Match
  <2>3. f.phase = "taker" /\ f.done = 0 /\ f.rem = req[r].size
    BY <1>2, <2>2 DEF Duty, Fits
  <2>4. book[i] \in Order
    BY <2>2, PlaceIs DEF Matches, Makers, Eligible
  <2>5. z \in Fill /\ f.rem - q \in Nat
    <3>1. req[r].size \in Nat /\ book[i].size \in Nat
      BY <2>2, <2>4 DEF Requests, Order
    <3>2. q \in Nat /\ q <= req[r].size
      BY <3>1, SmallerType
    <3>3. f.rem - q \in Nat
      BY <2>3, <3>1, <3>2
    <3> QED BY <2>2, <2>4, <3>3, TakerFillType
  <2>6. WriteStore(r, Consume(book, i, q), "pipe", g)
    BY <2>1
  <2> HIDE DEF q, z
  <2>7. g \in Frame /\ g.phase = "taker" /\ g.done = 0 /\ g.fills = <<z>>
    <3>1. <<z>> \in Seq(Fill)
      BY <2>5
    <3> QED BY <1>2, <2>3, <2>5, <3>1 DEF Frame
  <2> HIDE DEF g
  <2>8. OneFill(g) /\ ~ Swept(g)
    BY <2>7 DEF OneFill, Swept
  <2> QED BY <1>2, <2>6, <2>7, <2>8, WriteOutcome
<1>8. CASE Add(r)
  BY <1>1, <1>2, <1>8, WriteOutcome DEF Add
<1> QED BY <1>4, <1>5, <1>6, <1>7, <1>8

\* Opening the file, and the bytes that land where nobody else writes.
LEMMA LandOutcome ==
  ASSUME NEW r \in Req, Serves(r), OpenFile(r) \/ FileWritten(r)
  PROVE  Outcome(r)
<1>1. PICK f : f = frame[r]
  OBVIOUS
<1>2. TypeOK /\ f \in Frame /\ Duty(pc[r], f, book, file)
  BY <1>1, ServesIs
<1>3. {"land", "pipe", "sweep", "cross"} \subseteq Awaits \ {"rollback", "cli", "error", "ok"}
  BY DEF Awaits
<1>4. CASE OpenFile(r)
  <2>1. pc[r] = "open" /\ pc'[r] = "land" /\ frame'[r] = f /\ file' = "truncated"
    BY <1>1, <1>2, <1>4 DEF OpenFile, TypeOK
  <2>2. Writes(f.next, f)
    BY <1>2, <2>1 DEF Duty
  <2>3. Duty("land", f, book', file')
    BY <1>3, <2>1, <2>2 DEF Duty
  <2> QED BY <2>1, <2>3 DEF Outcome
<1>5. CASE FileWritten(r)
  <2>1. pc[r] = "land" /\ Goto(r, f.next, f) /\ file = "truncated" /\ Writes(f.next, f)
    BY <1>1, <1>2, <1>5 DEF FileWritten, Duty
  <2>2. book' = f.buf
    BY <1>1, <1>5, <2>1 DEF FileWritten, Land
  <2>3. f.next \in Awaits => Duty(f.next, f, book', file')
    BY <1>3, <2>1 DEF Writes, Duty, OneFill
  <2>4. f.next = "error" => book' = frame[r].snap
    BY <1>1, <2>1, <2>2 DEF Writes
  <2>5. f.next # "ok"
    BY <2>1 DEF Writes
  <2> QED BY <1>2, <2>1, <2>3, <2>4, <2>5, GotoOutcome
<1> QED BY <1>4, <1>5

\* The sweep.
LEMMA SweepOutcome ==
  ASSUME NEW r \in Req, Serves(r), SweepStart(r) \/ SweepCross(r) \/ SweepCollected(r) \/ Pull(r)
  PROVE  Outcome(r)
<1>1. PICK f : f = frame[r]
  OBVIOUS
<1>2. TypeOK /\ f \in Frame /\ Duty(pc[r], f, book, file) /\ book \in Seq(Order) /\ f.fills \in Seq(Fill)
  BY <1>1, ServesIs DEF Frame
<1>3. {"cross", "pipe", "pull"} \subseteq Awaits \ {"rollback", "cli", "error", "ok"}
  BY DEF Awaits
<1>4. CASE SweepStart(r)
  <2> DEFINE g == [f EXCEPT !.snap = book, !.fills = <<>>, !.done = 0, !.phase = "sweep"]
  <2>1. Goto(r, "cross", g) /\ g.phase = "sweep" /\ g.done = 0 /\ g.fills = <<>>
    BY <1>1, <1>2, <1>4 DEF SweepStart, Frame
  <2> HIDE DEF g
  <2>2. Duty("cross", g, book', file')
    BY <1>3, <2>1 DEF Duty
  <2> QED BY <1>2, <1>3, <2>1, <2>2, GotoOutcome
<1>5. CASE SweepCross(r)
  <2>1. PICK x \in Crosses(book, SweepPair) :
          WriteStore(r, Cross(book, x[1], x[2]), IF ParallelSweep THEN "cross" ELSE "pipe",
                     [f EXCEPT !.fills = Append(@, CrossFill(book[x[1]], book[x[2]]))])
    BY <1>1, <1>5 DEF SweepCross
  <2>2. f.phase = "sweep" /\ f.done = 0 /\ (ParallelSweep \/ f.fills = <<>>)
    BY <1>2, <1>5 DEF SweepCross, Duty
  <2> DEFINE z == CrossFill(book[x[1]], book[x[2]])
             g == [f EXCEPT !.fills = Append(f.fills, z)]
  <2>3. z \in Fill
    <3>1. x[1] \in DOMAIN book /\ x[2] \in DOMAIN book
      BY DEF Crosses, Bests
    <3>2. book[x[1]] \in Order /\ book[x[2]] \in Order
      BY <1>2, <3>1, PlaceIs
    <3> QED BY <3>2, CrossFillType
  <2>4. WriteStore(r, Cross(book, x[1], x[2]), IF ParallelSweep THEN "cross" ELSE "pipe", g)
    BY <2>1
  <2> HIDE DEF z
  <2>5. g \in Frame /\ g.phase = "sweep" /\ g.done = 0 /\ g.fills = Append(f.fills, z)
    <3>1. Append(f.fills, z) \in Seq(Fill)
      BY <1>2, <2>3, AppendProperties
    <3> QED BY <1>2, <2>2, <3>1 DEF Frame
  <2> HIDE DEF g
  <2>6. CASE ParallelSweep
    BY <1>2, <2>4, <2>5, <2>6, WriteOutcome
  <2>7. CASE ~ ParallelSweep
    <3>1. Len(g.fills) = 1
      <4>1. Len(f.fills) = 0
        BY <2>2, <2>7
      <4> QED BY <1>2, <2>3, <2>5, <4>1, AppendProperties
    <3>2. OneFill(g) /\ ~ Swept(g)
      BY <2>5, <2>7, <3>1 DEF OneFill, Swept
    <3> QED BY <1>2, <2>4, <2>5, <2>7, <3>2, WriteOutcome
  <2> QED BY <2>6, <2>7
<1>6. CASE SweepCollected(r)
  <2>1. /\ pc[r] = "cross" /\ book' = book /\ Clean(book) /\ f.phase = "sweep" /\ f.done = 0
        /\ ParallelSweep \/ f.fills = <<>>
    BY <1>2, <1>6 DEF SweepCollected, BookUnchanged, Clean, Duty
  <2>2. Len(f.fills) \in Nat
    BY <1>2, LenProperties
  <2>3. CASE Len(f.fills) = 0
    <3>1. Goto(r, "ok", f)
      BY <1>1, <1>6, <2>3 DEF SweepCollected
    <3>2. "ok" \notin Awaits
      BY DEF Awaits
    <3> QED BY <1>2, <2>1, <3>1, <3>2, GotoOutcome
  <2>4. CASE Len(f.fills) = 1
    <3>1. Goto(r, "pipe", f)
      BY <1>1, <1>6, <2>4 DEF SweepCollected
    <3>2. Duty("pipe", f, book', file')
      BY <1>3, <2>1, <2>4 DEF Duty, OneFill
    <3> QED BY <1>2, <1>3, <3>1, <3>2, GotoOutcome
  <2>5. CASE Len(f.fills) \notin {0, 1}
    <3>1. Goto(r, "pull", [f EXCEPT !.phase = "batch"])
      BY <1>1, <1>6, <2>5 DEF SweepCollected
    <3>2. [f EXCEPT !.phase = "batch"].phase = "batch"
      BY <1>2 DEF Frame
    <3>3. Duty("pull", [f EXCEPT !.phase = "batch"], book', file')
      BY <1>3, <2>1, <3>2 DEF Duty
    <3> QED BY <1>2, <1>3, <3>1, <3>3, GotoOutcome
  <2> QED BY <2>3, <2>4, <2>5
<1>7. CASE Pull(r)
  <2>1. pc[r] = "pull" /\ book' = book /\ f.phase = "batch" /\ Clean(book)
    BY <1>2, <1>7 DEF Pull, BookUnchanged, Duty
  <2>2. CASE Goto(r, "pipe", f)
    <3>1. Duty("pipe", f, book', file')
      BY <1>3, <2>1 DEF Duty
    <3> QED BY <1>2, <1>3, <2>2, <3>1, GotoOutcome
  <2>3. CASE WriteStore(r, f.snap, "error", f)
    BY <1>2, <2>3, WriteOutcome
  <2> QED BY <1>1, <1>7, <2>2, <2>3 DEF Pull
<1> QED BY <1>4, <1>5, <1>6, <1>7

\* What is known while pipelines run.
LEMMA SlotsAre ==
  ASSUME NEW r \in Req, Serves(r), pc[r] = "join", NEW f, f = frame[r]
  PROVE  /\ f.slot \in Seq(SlotStates) /\ DOMAIN f.slot = 1..Len(f.slot)
         /\ f.phase # "batch" => /\ OneFill(f) /\ DOMAIN f.slot = {1}
                                 /\ f.slot[1] = "land" => file = "truncated"
                                 /\ f.slot[1] = "failed" => book = f.snap
         /\ Swept(f) /\ (\A i \in DOMAIN f.slot : f.slot[i] \in {"running", "ok"}) => Clean(book)
<1>1. f \in Frame /\ Duty("join", f, book, file)
  BY ServesIs
<1>2. f.slot \in Seq(SlotStates) /\ DOMAIN f.slot = 1..Len(f.slot)
  BY <1>1, LenProperties DEF Frame
<1>3. 1..1 = {1}
  OBVIOUS
<1>4. f.phase # "batch" => /\ OneFill(f) /\ Len(f.slot) = 1
                           /\ f.slot[1] = "land" => file = "truncated"
                           /\ f.slot[1] = "failed" => book = f.snap
  BY <1>1 DEF Duty
<1>5. Swept(f) /\ (\A i \in DOMAIN f.slot : f.slot[i] \in {"running", "ok"}) => Clean(book)
  BY <1>1 DEF Duty
<1> QED BY <1>2, <1>3, <1>4, <1>5

\* The pipelines of a chunk start, and end in any order.
LEMMA ChunkOutcome ==
  ASSUME NEW r \in Req, Serves(r), PipelineStart(r) \/ Pipeline(r)
  PROVE  Outcome(r)
<1>1. PICK f : f = frame[r]
  OBVIOUS
<1>2. TypeOK /\ f \in Frame /\ Duty(pc[r], f, book, file) /\ f.fills \in Seq(Fill)
  BY <1>1, ServesIs DEF Frame
<1>3. "join" \in Awaits \ {"rollback", "cli", "error", "ok"}
  BY DEF Awaits
<1>4. CASE PipelineStart(r)
  <2>1. pc[r] = "pipe" /\ book' = book
    BY <1>4 DEF PipelineStart, BookUnchanged
  <2>2. (f.phase = "batch" \/ OneFill(f)) /\ (Swept(f) => Clean(book))
    BY <1>2, <2>1 DEF Duty
  <2>3. PICK n : n = Smaller(PoolSize, Len(f.fills) - f.done)
    OBVIOUS
  <2>4. n \in Int /\ (OneFill(f) => n = 1)
    <3>1. Len(f.fills) - f.done \in Int
      BY <1>2, LenProperties DEF Frame
    <3>2. OneFill(f) => Len(f.fills) - f.done = 1
      BY DEF OneFill
    <3> QED BY <2>3, <3>1, <3>2, PoolSizeAssumption DEF Smaller
  <2> DEFINE z == [i \in 1..n |-> "running"]
             g == [f EXCEPT !.slot = z]
  <2>5. Goto(r, "join", g)
    BY <1>1, <1>4, <2>3 DEF PipelineStart
  <2>6. DOMAIN z = 1..n /\ (\A i \in DOMAIN z : z[i] = "running") /\ (n = 1 => Len(z) = 1)
    BY <2>4
  <2> HIDE DEF z
  <2>7. g.slot = z /\ g.phase = f.phase /\ g.fills = f.fills /\ g.done = f.done
    BY <1>2 DEF Frame
  <2> HIDE DEF g
  <2>8. g.phase = "batch" \/ (OneFill(g) /\ Len(g.slot) = 1 /\ g.slot[1] = "running")
    <3>1. CASE OneFill(f)
      <4>1. n = 1 /\ 1 \in DOMAIN z /\ Len(z) = 1
        BY <2>4, <2>6, <3>1
      <4> QED BY <2>6, <2>7, <3>1, <4>1 DEF OneFill
    <3> QED BY <2>2, <2>7, <3>1
  <2>9. Swept(g) => Clean(book')
    BY <2>1, <2>2, <2>7 DEF Swept
  <2>10. Duty("join", g, book', file')
    BY <1>3, <2>8, <2>9 DEF Duty
  <2> QED BY <1>2, <1>3, <2>5, <2>10, GotoOutcome
<1>5. CASE Pipeline(r)
  <2>1. PICK i \in DOMAIN f.slot :
          \/ PipelineOk(r, i) \/ PipelineFail(r, i)
          \/ PipelineOpenFile(r, i) \/ PipelineFileWritten(r, i)
    BY <1>1, <1>5 DEF Pipeline
  <2>2. pc[r] = "join" /\ pc'[r] = "join"
    BY <2>1 DEF PipelineOk, PipelineFail, PipelineOpenFile, PipelineFileWritten
  <2>3. PICK st \in {"ok", "open", "land", "failed"} :
          /\ frame' = [frame EXCEPT ![r].slot[i] = st]
          /\ st \in {"ok", "open"} => book' = book /\ f.slot[i] = "running"
          /\ st = "land" => file' = "truncated"
          /\ st = "failed" => f.slot[i] = "land" /\ (file = "truncated" => book' = f.snap)
    BY <1>1, <2>1 DEF PipelineOk, PipelineFail, PipelineOpenFile, PipelineFileWritten, SetSlot, BookUnchanged, Land
  <2>4. /\ f.slot \in Seq(SlotStates) /\ DOMAIN f.slot = 1..Len(f.slot)
        /\ f.phase # "batch" => /\ OneFill(f) /\ DOMAIN f.slot = {1}
                                /\ f.slot[1] = "land" => file = "truncated"
                                /\ f.slot[1] = "failed" => book = f.snap
        /\ Swept(f) /\ (\A j \in DOMAIN f.slot : f.slot[j] \in {"running", "ok"}) => Clean(book)
    BY <1>1, <2>2, SlotsAre
  <2> DEFINE z == [f.slot EXCEPT ![i] = st]
             g == [f EXCEPT !.slot = z]
  <2>5. frame'[r] = g
    BY <1>1, <1>2, <2>3 DEF TypeOK
  <2>6. DOMAIN z = DOMAIN f.slot /\ z[i] = st /\ (\A j \in DOMAIN z \ {i} : z[j] = f.slot[j])
        /\ Len(z) = Len(f.slot)
    <3>1. DOMAIN z = DOMAIN f.slot /\ z[i] = st /\ (\A j \in DOMAIN z \ {i} : z[j] = f.slot[j])
      BY <2>1
    <3>2. Len(f.slot) \in Nat /\ DOMAIN z = 1..Len(f.slot)
      BY <2>4, <3>1, LenProperties
    <3> HIDE DEF z
    <3>3. Len(z) = Len(f.slot)
      BY <3>2
    <3> QED BY <3>1, <3>3
  <2> HIDE DEF z
  <2>7. g.slot = z /\ g.phase = f.phase /\ g.fills = f.fills /\ g.done = f.done /\ g.snap = f.snap
    BY <1>2 DEF Frame
  <2> HIDE DEF g
  <2>8. ASSUME g.phase # "batch"
        PROVE  /\ OneFill(g) /\ Len(g.slot) = 1
               /\ g.slot[1] = "land" => file' = "truncated"
               /\ g.slot[1] = "failed" => book' = g.snap
    <3>1. OneFill(f) /\ i = 1 /\ z[1] = st
      BY <2>1, <2>4, <2>6, <2>7, <2>8
    <3>2. Len(z) = 1
      <4>1. 1..Len(f.slot) = {1} /\ Len(f.slot) \in Nat
        BY <2>4, <2>7, <2>8, LenProperties
      <4>2. 1 \in 1..Len(f.slot) /\ Len(f.slot) \in 1..Len(f.slot)
        BY <4>1
      <4> QED BY <2>6, <4>1, <4>2
    <3>3. st = "failed" => book' = f.snap
      BY <2>3, <2>4, <2>7, <2>8, <3>1
    <3> QED BY <2>3, <2>7, <3>1, <3>2, <3>3 DEF OneFill
  <2>9. ASSUME Swept(g), \A j \in DOMAIN g.slot : g.slot[j] \in {"running", "ok"} PROVE Clean(book')
    <3>1. st = "ok"
      BY <2>1, <2>3, <2>6, <2>7, <2>9
    <3>2. \A j \in DOMAIN f.slot : f.slot[j] \in {"running", "ok"}
      BY <2>3, <2>6, <2>7, <2>9, <3>1
    <3>3. Swept(f)
      BY <2>7, <2>9 DEF Swept
    <3> QED BY <2>3, <2>4, <3>1, <3>2, <3>3
  <2>10. Duty("join", g, book', file')
    BY <1>3, <2>8, <2>9 DEF Duty
  <2> QED BY <2>2, <2>5, <2>10 DEF Outcome
<1> QED BY <1>4, <1>5

\* The chunk has ended.
LEMMA JoinOutcome ==
  ASSUME NEW r \in Req, Serves(r), JoinFailed(r) \/ JoinOk(r)
  PROVE  Outcome(r)
<1>1. PICK f : f = frame[r]
  OBVIOUS
<1>2. TypeOK /\ f \in Frame
  BY <1>1, ServesIs
<1>3. pc[r] = "join" /\ book' = book
  BY DEF JoinFailed, JoinOk, BookUnchanged
<1>4. /\ f.slot \in Seq(SlotStates) /\ DOMAIN f.slot = 1..Len(f.slot)
      /\ f.phase # "batch" => /\ OneFill(f) /\ DOMAIN f.slot = {1}
                              /\ f.slot[1] = "failed" => book = f.snap
      /\ Swept(f) /\ (\A i \in DOMAIN f.slot : f.slot[i] \in {"running", "ok"}) => Clean(book)
  BY <1>1, <1>3, SlotsAre
<1>5. {"pipe", "stamp", "sweep"} \subseteq Awaits \ {"rollback", "cli", "error", "ok"} /\ {"ok", "error"} \cap Awaits = {}
  BY DEF Awaits
<1>6. CASE JoinFailed(r)
  <2>1. CASE f.phase = "batch"
    <3>1. WriteStore(r, f.snap, "error", f)
      BY <1>1, <1>6, <2>1 DEF JoinFailed
    <3> QED BY <1>2, <3>1, WriteOutcome
  <2>2. CASE f.phase # "batch"
    <3>1. Goto(r, "error", f) /\ "failed" \in Slots(r)
      BY <1>1, <1>6, <2>2 DEF JoinFailed
    <3>2. book = f.snap
      BY <1>1, <1>4, <2>2, <3>1 DEF Slots
    <3> QED BY <1>1, <1>2, <1>3, <1>5, <3>1, <3>2, GotoOutcome
  <2> QED BY <2>1, <2>2
<1>7. CASE JoinOk(r)
  <2>1. \A i \in DOMAIN f.slot : f.slot[i] \in {"running", "ok"}
    BY <1>1, <1>7 DEF JoinOk, Ended, Slots
  <2>2. Swept(f) => Clean(book)
    BY <1>4, <2>1
  <2> DEFINE m == f.done + Len(f.slot)
             g == [f EXCEPT !.done = m, !.slot = <<>>]
  <2>3. Goto(r, IF m < Len(g.fills) THEN "pipe" ELSE AfterPipelines(r), g)
    BY <1>1, <1>7 DEF JoinOk
  <2>4. g.phase = f.phase /\ g.fills = f.fills
    BY <1>2 DEF Frame
  <2> HIDE DEF g
  <2>5. CASE m < Len(f.fills)
    <3>1. f.phase = "batch"
      <4> SUFFICES ASSUME f.phase # "batch" PROVE FALSE
        OBVIOUS
      <4>1. Len(f.fills) = 1 /\ f.done = 0 /\ 1..Len(f.slot) = {1} /\ Len(f.slot) \in Nat
        BY <1>4, LenProperties DEF OneFill
      <4>2. 1 \in 1..Len(f.slot)
        BY <4>1
      <4> QED BY <2>5, <4>1, <4>2
    <3>2. Duty("pipe", g, book', file')
      BY <1>3, <1>5, <2>2, <2>4, <3>1 DEF Duty, Swept
    <3> QED BY <1>2, <1>5, <2>3, <2>4, <2>5, <3>2, GotoOutcome
  <2>6. CASE ~ (m < Len(f.fills))
    <3>1. Goto(r, AfterPipelines(r), g)
      BY <2>3, <2>4, <2>6
    <3>2. \/ AfterPipelines(r) \in {"stamp", "sweep"}
          \/ AfterPipelines(r) = "ok" /\ Swept(f)
      <4>1. f.phase \in {"taker", "sweep", "batch"}
        BY <1>2 DEF Frame
      <4> QED BY <1>1, <4>1 DEF AfterPipelines, Swept
    <3>3. PICK n : n = AfterPipelines(r)
      OBVIOUS
    <3>4. n \in {"stamp", "sweep"} => Duty(n, g, book', file')
      BY <1>5 DEF Duty
    <3> QED BY <1>2, <1>3, <1>5, <2>2, <3>1, <3>2, <3>3, <3>4, GotoOutcome
  <2> QED BY <2>5, <2>6
<1> QED BY <1>6, <1>7

\* Any step of a submit's handler.
LEMMA SubmitOutcome ==
  ASSUME NEW r \in Req, Serves(r), Handle(r)
  PROVE  Outcome(r)
<1>1. pc[r] \notin {"rollback", "cli"}
  <2>1. Duty(pc[r], frame[r], book, file)
    BY ServesIs
  <2> QED BY <2>1 DEF Duty
<1>2. ~ RunAllEnd(r) /\ ~ Rollback(r)
  BY <1>1 DEF RunAllEnd, Rollback
<1> QED BY <1>2, MatchOutcome, LandOutcome, SweepOutcome, ChunkOutcome, JoinOutcome DEF Handle

\* Every step leaves the handlers their duties.
LEMMA NextDuties ==
  ASSUME "rest" \notin Kinds, IInv, OneHolder, NewIsBlank, Duties, [Next]_vars
  PROVE  Duties'
<1>1. TypeOK /\ HandlersFit
  BY DEF IInv
<1>2. CASE UNCHANGED vars
  BY <1>2 DEF vars, Duties, Submits, Active
<1>3. CASE Crash
  <2>1. req' = req /\ \A r \in Req : ~ Submits(r)'
    BY <1>1, <1>3 DEF Crash, Submits, Active, Awaits, TypeOK
  <2> QED BY <2>1 DEF Duties
<1>4. ASSUME NEW r \in Req, Arrive(r) PROVE Duties'
  <2>1. pc[r] = "new" /\ book' = book /\ file' = file /\ frame[r] = NoFrame /\ ~ RestOnly(r)
    BY <1>4 DEF Arrive, Invalid, Busy, Submit, RestOnly, RunAllStart, BookUnchanged, NewIsBlank
  <2>2. \A q \in Req \ {r} : pc'[q] = pc[q] /\ req'[q] = req[q] /\ frame'[q] = frame[q]
    BY <1>1, <1>4 DEF Arrive, Invalid, Busy, Submit, RestOnly, RunAllStart, TypeOK
  <2>3. \A q \in Req \ {r} : Submits(q)' => Duty(pc'[q], frame'[q], book', file')
    BY <2>1, <2>2 DEF Duties, Submits, Active
  <2>4. CASE Submit(r)
    <3>1. PICK p \in Payloads : req' = [req EXCEPT ![r] = Body("submit", p)] /\ frame' = [frame EXCEPT ![r].rem = p.size]
      BY <2>4 DEF Submit
    <3>2. pc'[r] = "snap" /\ req'[r].kind = "submit" /\ frame'[r] = [NoFrame EXCEPT !.rem = p.size]
      BY <1>1, <2>1, <2>4, <3>1 DEF Submit, TypeOK, Body
    <3>3. frame'[r].phase = "taker"
      BY <3>2 DEF NoFrame
    <3>4. Duty("snap", frame'[r], book', file')
      BY <3>3 DEF Duty, Awaits
    <3> QED BY <2>2, <2>3, <3>2, <3>4 DEF Duties
  <2>5. CASE Invalid(r) \/ Busy(r) \/ RunAllStart(r)
    <3>1. req'[r].kind # "rest" /\ ~ Submits(r)'
      BY <1>1, <2>5 DEF Invalid, Busy, RunAllStart, Submits, Active, Awaits, TypeOK, RunAll, Duties
    <3> QED BY <2>2, <2>3, <3>1 DEF Duties
  <2> QED BY <1>4, <2>1, <2>4, <2>5 DEF Arrive
<1>5. ASSUME NEW r \in Req, Handle(r) PROVE Duties'
  <2>1. Moves(r) /\ Active(r) /\ req' = req /\ Fits(pc[r], req[r], frame[r])
    BY <1>1, <1>5, HandleMoves DEF Moves, HandlersFit
  <2>2. \A q \in Req \ {r} : pc'[q] = pc[q] /\ frame'[q] = frame[q]
    BY <1>1, <1>5, <2>1, OthersFrames DEF Moves, TypeOK
  <2>3. CASE req[r].kind = "submit"
    <3>1. Submits(r) /\ Serves(r)
      BY <2>1, <2>3 DEF Submits, Serves
    <3>2. Outcome(r)
      BY <1>5, <3>1, SubmitOutcome
    <3>3. \A q \in Req \ {r} : ~ Submits(q)
      BY <3>1 DEF OneHolder, SinglePipeline, Submits, Holds
    <3>4. \A q \in Req \ {r} : ~ Submits(q)'
      BY <2>1, <2>2, <3>3 DEF Submits, Active
    <3>5. Submits(r)' => pc'[r] \in Awaits
      BY DEF Submits, Active
    <3> QED BY <2>1, <3>2, <3>4, <3>5 DEF Duties, Outcome
  <2>4. CASE req[r].kind # "submit"
    <3>1. pc[r] = "cli"
      BY <2>1, <2>4 DEF Fits, Active, Duties
    <3>2. RunAllEnd(r)
      BY <1>5, <3>1 DEF Handle, OpenFile, FileWritten, Snapshot, Match, NoMatch, Rollback, Stamp, Add, SweepStart,
         SweepCross, SweepCollected, Pull, PipelineStart, Pipeline, PipelineOk, PipelineFail,
         PipelineOpenFile, PipelineFileWritten, JoinFailed, JoinOk
    <3>3. book' = book /\ file' = file
      BY <3>2 DEF RunAllEnd, BookUnchanged
    <3> QED BY <2>1, <2>2, <2>4, <3>3 DEF Duties, Submits, Active
  <2> QED BY <2>3, <2>4
<1> QED BY <1>2, <1>3, <1>4, <1>5 DEF Next

\* The handlers have their duties on every behaviour.
LEMMA AlwaysDuties == ASSUME "rest" \notin Kinds PROVE Spec => []Duties
<1>1. Init => Duties
  BY DEF Init, Duties, Submits, Active, Awaits, NoRequest
<1>2. Duties /\ IInv /\ OneHolder /\ NewIsBlank /\ [Next]_vars => Duties'
  BY NextDuties
<1> QED BY <1>1, <1>2, Inductive, AlwaysOneHolder, AlwaysBlank, PTL DEF Spec

\* An answer of a submit is its handler's.
LEMMA AnswerIs ==
  ASSUME IInv, Duties, [Next]_vars, NEW r \in Req, req[r].kind = "submit",
         pc'[r] \in {"ok", "error"}, pc[r] # pc'[r]
  PROVE  Outcome(r)
<1>1. TypeOK /\ HandlersFit
  BY DEF IInv
<1>2. ~ (UNCHANGED vars) /\ ~ Crash
  BY <1>1 DEF vars, Crash, TypeOK, Active
<1>3. PICK q \in Req : Arrive(q) \/ Handle(q)
  BY <1>2 DEF Next
<1>4. ~ Arrive(q)
  BY <1>1 DEF Arrive, Invalid, Busy, Submit, RestOnly, RunAllStart, TypeOK
<1>5. Moves(q)
  BY <1>3, <1>4, HandleMoves
<1>6. q = r
  BY <1>1, <1>5 DEF Moves, TypeOK
<1>7. Serves(r)
  BY <1>5, <1>6 DEF Moves, Serves, Submits
<1> QED BY <1>3, <1>4, <1>6, <1>7, SubmitOutcome

\* A submit that answers 500 leaves the book as the snapshot taken before the
\* failed match or sweep, whatever pipelines of its chunk have restored and in
\* whatever order their writes land: in both sweep modes, without rest-only calls.
THEOREM FailuresRestore == ASSUME "rest" \notin Kinds PROVE Spec => FailureRestoresBook
<1>1. IInv /\ Duties /\ [Next]_vars =>
        [\A r \in Req :
           /\ pc[r] # "error" /\ pc'[r] = "error" /\ req[r].kind = "submit"
           => book' = frame[r].snap]_vars
  BY AnswerIs DEF Outcome
<1>2. []IInv /\ []Duties /\ [][Next]_vars => FailureRestoresBook
  BY <1>1, PTL DEF FailureRestoresBook
<1> QED BY <1>2, Inductive, AlwaysDuties, PTL DEF Spec, FailureRestoresBook

\* A side of the book with an order on it has a best one, no worse than any.
LEMMA BestIs ==
  ASSUME NEW b \in Seq(Order), NEW pair, NEW side \in Sides,
         NEW k \in DOMAIN b, b[k].pair = pair, b[k].side = side
  PROVE  \E i \in Bests(b, pair, side) :
           IF side = "short" THEN b[i].price <= b[k].price ELSE b[k].price <= b[i].price
<1> DEFINE S == {i \in DOMAIN b : b[i].pair = pair /\ b[i].side = side}
           Ahead(i, j) == \/ Better(side, b[i].price, b[j].price)
                          \/ /\ b[i].price = b[j].price
                             /\ \/ b[i].at < b[j].at
                                \/ b[i].at = b[j].at /\ i < j
           R == {x \in S \X S : Ahead(x[1], x[2])}
<1>1. ASSUME NEW i \in DOMAIN b PROVE i \in Nat /\ b[i].price \in Nat /\ b[i].at \in Nat
  <2>1. b[i] \in Order /\ i \in Nat
    BY LenProperties, ElementOfSeq
  <2> QED BY <2>1 DEF Order
<1>2. ASSUME NEW x \in S, NEW y \in S PROVE <<x, y>> \in R <=> Ahead(x, y)
  OBVIOUS
<1>3. ASSUME NEW x \in S PROVE ~ Ahead(x, x)
  BY <1>1 DEF Better
<1>4. ASSUME NEW x \in S, NEW y \in S, NEW z \in S, Ahead(x, y), Ahead(y, z) PROVE Ahead(x, z)
  BY <1>1, <1>4 DEF Better
<1>5. ASSUME NEW x \in S, NEW y \in S, x # y, ~ Ahead(y, x) PROVE Ahead(x, y)
  BY <1>1, <1>5 DEF Better
<1>6. IsFiniteSet(S) /\ k \in S
  <2>1. IsFiniteSet(DOMAIN b) /\ S \in SUBSET (DOMAIN b)
    BY LenProperties, FS_Interval
  <2> QED BY <2>1, FS_Subset
<1>7. Bests(b, pair, side) = {i \in S : \A j \in S \ {i} : Ahead(i, j)}
  BY DEF Bests
<1>8. \E i \in S : \A j \in S : <<j, i>> \notin R
  <2>1. \A x \in S : <<x, x>> \notin R
    BY <1>2, <1>3
  <2>2. \A x, y, z \in S : <<x, y>> \in R /\ <<y, z>> \in R => <<x, z>> \in R
    <3> HIDE DEF Ahead, S
    <3> QED BY <1>2, <1>4
  <2> HIDE DEF R, S
  <2> QED BY <1>6, <2>1, <2>2, MinimalOf
<1>9. PICK i \in S : \A j \in S : ~ Ahead(j, i)
  BY <1>2, <1>8
<1>10. i \in Bests(b, pair, side)
  <2> HIDE DEF S, Ahead
  <2> QED BY <1>5, <1>7, <1>9
<1>11. ~ Better(side, b[k].price, b[i].price)
  BY <1>6, <1>9
<1> QED BY <1>1, <1>9, <1>10, <1>11 DEF Better

\* A book in which pickBestLongAndShort finds nothing to cross is not
\* crossed, unless an order rests with size "0".
LEMMA CleanIsUncrossed ==
  ASSUME NEW b \in Seq(Order), Clean(b), \A i \in DOMAIN b : b[i].size > 0
  PROVE  ~ Crossed(b, SweepPair)
<1> SUFFICES ASSUME NEW l \in DOMAIN b, NEW s \in DOMAIN b,
                    b[l].pair = SweepPair, b[l].side = "long",
                    b[s].pair = SweepPair, b[s].side = "short", b[l].price >= b[s].price
             PROVE  FALSE
  BY DEF Crossed
<1>1. PICK i \in Bests(b, SweepPair, "long") : b[l].price <= b[i].price
  BY BestIs DEF Sides
<1>2. PICK j \in Bests(b, SweepPair, "short") : b[j].price <= b[s].price
  BY BestIs DEF Sides
<1>3. i \in DOMAIN b /\ j \in DOMAIN b
  BY <1>1, <1>2 DEF Bests
<1>4. \A k \in DOMAIN b : b[k].price \in Nat
  <2>1. \A k \in DOMAIN b : b[k] \in Order
    BY LenProperties, ElementOfSeq
  <2> QED BY <2>1 DEF Order
<1>5. b[i].price >= b[j].price
  BY <1>1, <1>2, <1>3, <1>4
<1>6. <<i, j>> \in Crosses(b, SweepPair)
  BY <1>1, <1>2, <1>3, <1>5 DEF Crosses
<1> QED BY <1>6 DEF Clean

\* A submit that answers 200 leaves no bid at or above an ask: nothing its
\* pipelines or its own remainder did, in either sweep mode and whatever has
\* failed before; without rest-only calls, and where sizeStr writes sizes as
\* they are (an order it writes as "0" stays in the way of the sweep).
THEOREM SuccessesUncross ==
  ASSUME "rest" \notin Kinds, Grain = 1 PROVE Spec => SuccessUncrosses
<1>1. ASSUME IInv, IInv', TrueTerms', Duties, [Next]_vars, NEW r \in Req,
             pc[r] # "ok", pc'[r] = "ok", req[r].kind = "submit"
      PROVE  ~ Crossed(book', SweepPair)
  <2>1. Clean(book')
    BY <1>1, AnswerIs DEF Outcome
  <2>2. book' \in Seq(Order)
    BY <1>1 DEF IInv, TypeOK
  <2>3. \A i \in DOMAIN book' : book'[i].size > 0
    <3>1. book' \in Seq(TrueOrders')
      BY <1>1 DEF TrueTerms
    <3>2. \A i \in DOMAIN book' : book'[i] \in TrueOrders'
      BY <3>1, LenProperties, ElementOfSeq
    <3> QED BY <3>2 DEF TrueOrders
  <2> QED BY <2>1, <2>2, <2>3, CleanIsUncrossed
<1>2. IInv /\ IInv' /\ TrueTerms' /\ Duties /\ [Next]_vars =>
        [\A r \in Req :
           /\ pc[r] # "ok" /\ pc'[r] = "ok" /\ req[r].kind = "submit"
           => ~ Crossed(book', SweepPair)]_vars
  BY <1>1
<1>3. []IInv /\ []TrueTerms /\ []Duties /\ [][Next]_vars => SuccessUncrosses
  BY <1>2, PTL DEF SuccessUncrosses
<1> QED BY <1>3, Inductive, InitTrueTerms, NextTrueTerms, AlwaysDuties, PTL DEF Spec
=============================================================================
