--------------------------- MODULE ClientsProofs ---------------------------
(***************************************************************************)
(* Theorems about the clients of the API: the browser's queue, for any     *)
(* orders, whoever of them pays on L1, and any number of lost connections  *)
(* and other clients; the order terminals, for any sessions, drafts and    *)
(* failed writes; and the scripts that quote, for any orders of users, any *)
(* ladder and cap, and any number of faults.                               *)
(***************************************************************************)
EXTENDS BrowserQueue, OrderTerminal, QuoteBots, ListsAndSums, SequenceTheorems, TLAPS

-----------------------------------------------------------------------------
(***************************************************************************)
(* BrowserQueue.                                                           *)
(***************************************************************************)

FetchStates == {"new", "sent", "running", "429", "queued", "ok", "needsUserCardano", "error", "lost", "over"}

\* Once the API has taken an order its fetch is in one of these.
Gone == {"running", "ok", "needsUserCardano", "error", "lost", "over"}

PayStages == {"none", "enable", "pull", "wait1", "pulled", "anchor", "wait2", "report", "reported",
              "refused", "failed"}

\* The queue has no order twice; a flush works on what the queue began with;
\* whatever is in the queue waits, but for the head that is in flight.
QueueInv ==
  /\ queue \in Seq(Presses) /\ flight \in Seq(Presses) /\ fetched \in [Presses -> FetchStates]
  /\ \A i, j \in 1..Len(queue) : queue[i] = queue[j] => i = j
  /\ flight # <<>> => Len(flight) <= Len(queue) /\ \A i \in 1..Len(flight) : flight[i] = queue[i]
  /\ \A i \in 1..Len(queue) : fetched[queue[i]] = "queued" \/ (flight # <<>> /\ i = 1)

TakenInv ==
  /\ taken \in Seq(Presses)
  /\ \A i, j \in 1..Len(taken) : taken[i] = taken[j] => i = j
  /\ \A i \in 1..Len(taken) : fetched[taken[i]] \in Gone

\* Where a completion is tells which of its transactions are spent, seen by
\* the one it has built, and on chain.
PayInv ==
  /\ landed \subseteq spent /\ spent \subseteq Presses \X {"pull", "anchor"}
  /\ stage \in [Presses -> PayStages] /\ view \in [Presses -> SUBSET spent]
  /\ \A o \in Presses :
       /\ stage[o] # "none" => fetched[o] = "over"
       /\ stage[o] \in {"none", "enable", "pull"} => <<o, "pull">> \notin spent
       /\ stage[o] \in {"none", "enable", "pull", "wait1", "pulled", "anchor"} => <<o, "anchor">> \notin spent
       /\ stage[o] \in {"pulled", "anchor", "wait2", "report", "reported"} => <<o, "pull">> \in landed
       /\ stage[o] = "anchor" => <<o, "pull">> \in view[o]
       /\ stage[o] \in {"report", "reported"} => <<o, "anchor">> \in landed
       /\ stage[o] = "refused" => \E t \in spent : t[1] # o

TabInv == QueueInv /\ TakenInv /\ PayInv

\* The queue is empty, the tab idle.
LEMMA InitTabInv == TabInit => TabInv
<1> SUFFICES ASSUME TabInit PROVE TabInv
  OBVIOUS
<1>1. QueueInv
  BY DEF TabInit, QueueInv, FetchStates
<1>2. TakenInv
  BY DEF TabInit, TakenInv
<1>3. PayInv
  BY DEF TabInit, PayInv, PayStages
<1> QED BY <1>1, <1>2, <1>3 DEF TabInv

-----------------------------------------------------------------------------
(* What a step keeps that leaves the queue, the taken orders or the        *)
(* payments alone.                                                         *)

Waiting == \A p \in Presses : fetched[p] = "queued" => fetched'[p] = "queued"
Steady == \A p \in Presses : /\ fetched[p] \in Gone => fetched'[p] \in Gone
                             /\ fetched[p] = "over" => fetched'[p] = "over"

\* Steps that leave the queue and what is in flight.
LEMMA QueueKept ==
  ASSUME QueueInv, UNCHANGED <<queue, flight>>, fetched' \in [Presses -> FetchStates], Waiting
  PROVE  QueueInv'
<1> SUFFICES ASSUME NEW i \in 1..Len(queue)
    PROVE  fetched'[queue[i]] = "queued" \/ (flight # <<>> /\ i = 1)
  BY DEF QueueInv
<1>1. queue[i] \in Presses
  BY DEF QueueInv
<1> QED BY <1>1 DEF QueueInv, Waiting

\* Steps that leave what the API has taken.
LEMMA TakenKept ==
  ASSUME TakenInv, UNCHANGED taken, Steady
  PROVE  TakenInv'
<1>1. \A i \in 1..Len(taken) : taken[i] \in Presses
  BY DEF TakenInv
<1> QED BY <1>1 DEF TakenInv, Steady

\* Steps that leave the payment.
LEMMA PayKept ==
  ASSUME PayInv, UNCHANGED <<stage, walletVars>>, Steady
  PROVE  PayInv'
BY DEF PayInv, walletVars, Steady

\* A completion begins only once its order is answered, which is once.
LEMMA PayBegins ==
  ASSUME PayInv, UNCHANGED walletVars, Steady, NEW o \in Presses, NEW s \in {"enable", "failed"},
         fetched[o] # "over", fetched'[o] = "over", stage' = [stage EXCEPT ![o] = s]
  PROVE  PayInv'
<1>1. stage[o] = "none" /\ stage'[o] = s /\ \A p \in Presses \ {o} : stage'[p] = stage[p]
  BY DEF PayInv
<1>2. stage' \in [Presses -> PayStages]
  BY DEF PayInv, PayStages
<1>3. ASSUME NEW p \in Presses
      PROVE  /\ stage'[p] # "none" => fetched'[p] = "over"
             /\ stage'[p] \in {"none", "enable", "pull"} => <<p, "pull">> \notin spent
             /\ stage'[p] \in {"none", "enable", "pull", "wait1", "pulled", "anchor"} => <<p, "anchor">> \notin spent
             /\ stage'[p] \in {"pulled", "anchor", "wait2", "report", "reported"} => <<p, "pull">> \in landed
             /\ stage'[p] = "anchor" => <<p, "pull">> \in view[p]
             /\ stage'[p] \in {"report", "reported"} => <<p, "anchor">> \in landed
             /\ stage'[p] = "refused" => \E t \in spent : t[1] # p
  <2>1. CASE p = o
    BY <1>1, <2>1 DEF PayInv
  <2>2. CASE p # o
    BY <1>1, <2>2 DEF PayInv, Steady
  <2> QED BY <2>1, <2>2
<1> QED BY <1>2, <1>3 DEF PayInv, walletVars

-----------------------------------------------------------------------------
(* The API and the buttons.                                                *)

\* The API takes an order, or refuses it.
LEMMA ApiReceivesKeeps ==
  ASSUME TabInv, NEW o \in Presses, ApiReceives(o)
  PROVE  TabInv'
<1> USE DEF TabInv
<1>1. fetched' \in [Presses -> FetchStates] /\ Waiting /\ Steady
  BY DEF ApiReceives, QueueInv, FetchStates, Waiting, Steady, Gone
<1>2. QueueInv' /\ PayInv'
  BY <1>1, QueueKept, PayKept DEF ApiReceives
<1>3. CASE holder # "none"
  BY <1>1, <1>2, <1>3, TakenKept DEF ApiReceives
<1>4. CASE holder = "none"
  <2>1. \A i \in 1..Len(taken) : taken[i] \in Presses /\ taken[i] # o
    BY DEF ApiReceives, TakenInv, Gone
  <2>2. taken' = Append(taken, o) /\ fetched'[o] = "running"
    BY <1>4 DEF ApiReceives, QueueInv
  <2>3. TakenInv'
    <3>1. taken' \in Seq(Presses) /\ Len(taken') = Len(taken) + 1 /\ Len(taken) \in Nat
      BY <2>2 DEF TakenInv
    <3>2. \A i \in 1..Len(taken') : taken'[i] = IF i = Len(taken') THEN o ELSE taken[i]
      BY <2>2, <3>1 DEF TakenInv
    <3>3. \A i \in 1..Len(taken') : fetched'[taken'[i]] \in Gone
      BY <1>1, <2>1, <2>2, <3>1, <3>2 DEF TakenInv, Steady, Gone
    <3>4. \A i, j \in 1..Len(taken') : taken'[i] = taken'[j] => i = j
      BY <2>1, <3>1, <3>2 DEF TakenInv
    <3> QED BY <3>1, <3>3, <3>4 DEF TakenInv
  <2> QED BY <1>2, <2>3
<1> QED BY <1>3, <1>4

\* Answers, lost connections, presses of the button, and the pipelines of others.
LEMMA OthersKeep ==
  ASSUME TabInv, NEW o \in Presses,
         ApiAnswers(o) \/ ConnectionFails(o) \/ Press(o) \/ OtherBegins \/ OtherEnds
  PROVE  TabInv'
<1> USE DEF TabInv
<1>1. fetched' \in [Presses -> FetchStates] /\ Waiting /\ Steady
  <2>1. CASE ApiAnswers(o)
    BY <2>1 DEF ApiAnswers, QueueInv, FetchStates, Waiting, Steady, Gone
  <2>2. CASE ConnectionFails(o)
    BY <2>2 DEF ConnectionFails, QueueInv, FetchStates, Waiting, Steady, Gone
  <2>3. CASE Press(o)
    BY <2>3 DEF Press, QueueInv, FetchStates, Waiting, Steady, Gone
  <2>4. CASE OtherBegins \/ OtherEnds
    BY <2>4 DEF OtherBegins, OtherEnds, QueueInv, Waiting, Steady
  <2> QED BY <2>1, <2>2, <2>3, <2>4
<1>2. UNCHANGED <<queue, flight, taken, stage, walletVars>>
  BY DEF ApiAnswers, ConnectionFails, Press, OtherBegins, OtherEnds
<1> QED BY <1>1, <1>2, QueueKept, TakenKept, PayKept

-----------------------------------------------------------------------------
(* The queue.                                                              *)

\* An answered order that is not in flight is not in the queue.
LEMMA PressAnsweredKeeps ==
  ASSUME TabInv, NEW o \in Presses, PressAnswered(o)
  PROVE  TabInv'
<1> USE DEF TabInv
<1>1. fetched[o] \in {"429", "ok", "needsUserCardano", "error", "lost"}
  BY DEF PressAnswered, Answered
<1>2. CASE fetched[o] # "429"
  <2>1. fetched' = [fetched EXCEPT ![o] = "over"] /\ UNCHANGED <<queue, flight, taken, walletVars>> /\ Apply(o)
    BY <1>2 DEF PressAnswered
  <2>2. fetched' \in [Presses -> FetchStates] /\ Waiting /\ Steady /\ fetched'[o] = "over"
    BY <1>1, <2>1 DEF QueueInv, FetchStates, Waiting, Steady, Gone
  <2>3. PayInv'
    BY <1>1, <2>1, <2>2, PayKept, PayBegins DEF Apply
  <2> QED BY <2>1, <2>2, <2>3, QueueKept, TakenKept
<1>3. CASE fetched[o] = "429"
  <2> DEFINE q == Append(queue, o)
  <2>1. queue' = q /\ UNCHANGED <<stage, taken, walletVars>>
    BY <1>3 DEF PressAnswered
  <2>2. \A i \in 1..Len(queue) : queue[i] \in Presses /\ queue[i] # o
    <3> SUFFICES ASSUME NEW i \in 1..Len(queue), queue[i] = o PROVE FALSE
      BY DEF QueueInv
    <3>1. flight # <<>> /\ i = 1
      BY <1>3 DEF QueueInv
    <3>2. Head(flight) = queue[1]
      BY <3>1, EmptySeq DEF QueueInv
    <3> QED BY <3>1, <3>2 DEF PressAnswered, Direct
  <2>3. q \in Seq(Presses) /\ Len(q) = Len(queue) + 1 /\ Len(queue) \in Nat
    BY DEF QueueInv
  <2>4. \A i \in 1..Len(q) : q[i] = IF i = Len(q) THEN o ELSE queue[i]
    BY <2>3 DEF QueueInv
  <2>5. \A i, j \in 1..Len(q) : q[i] = q[j] => i = j
    <3> SUFFICES ASSUME NEW i \in 1..Len(q), NEW j \in 1..Len(q), q[i] = q[j] PROVE i = j
      OBVIOUS
    <3>1. \A k \in 1..Len(q) : k # Len(q) => k \in 1..Len(queue)
      BY <2>3
    <3> HIDE DEF q
    <3> QED BY <2>2, <2>4, <3>1 DEF QueueInv
  <2>6. CASE flight # <<>>
    <3>1. flight' = flight /\ fetched' = [fetched EXCEPT ![o] = "queued"]
      BY <1>3, <2>6 DEF PressAnswered
    <3>2. fetched' \in [Presses -> FetchStates] /\ Steady
      BY <1>3, <3>1 DEF QueueInv, FetchStates, Steady, Gone
    <3>3. \A i \in 1..Len(q) : fetched'[q[i]] = "queued" \/ i = 1
      BY <2>2, <2>3, <2>4, <3>1 DEF QueueInv
    <3>4. Len(flight) <= Len(q) /\ \A i \in 1..Len(flight) : flight[i] = q[i]
      BY <2>3, <2>4, <2>6, LenProperties DEF QueueInv
    <3>5. QueueInv'
      <4> HIDE DEF q
      <4> QED BY <2>1, <2>3, <2>5, <2>6, <3>1, <3>2, <3>3, <3>4 DEF QueueInv
    <3> QED BY <2>1, <3>2, <3>5, TakenKept, PayKept
  <2>7. CASE flight = <<>>
    <3>1. flight' = q /\ fetched' = [fetched EXCEPT ![o] = "queued", ![Head(q)] = "sent"]
      BY <1>3, <2>7 DEF PressAnswered
    <3>2. Head(q) = q[1] /\ 1 \in 1..Len(q) /\ q[1] \in Presses
      BY <2>3
    <3>3. q[1] = o \/ fetched[q[1]] = "queued"
      BY <2>3, <2>4, <2>7, <3>2 DEF QueueInv
    <3>4. fetched' \in [Presses -> FetchStates] /\ Steady
      BY <1>3, <3>1, <3>2, <3>3 DEF QueueInv, FetchStates, Steady, Gone
    <3>5. \A i \in 1..Len(q) : fetched'[q[i]] = "queued" \/ i = 1
      <4> SUFFICES ASSUME NEW i \in 1..Len(q), i # 1 PROVE fetched'[q[i]] = "queued"
        OBVIOUS
      <4>1. q[i] # q[1] /\ q[i] \in Presses
        BY <2>3, <2>5, <3>2
      <4>2. q[i] = o \/ fetched[q[i]] = "queued"
        BY <2>3, <2>4, <2>7 DEF QueueInv
      <4> QED BY <3>1, <3>2, <4>1, <4>2 DEF QueueInv
    <3>6. flight' # <<>> /\ Len(q) \in Nat
      BY <2>3, <3>1
    <3>7. QueueInv'
      <4> HIDE DEF q
      <4> QED BY <2>1, <2>3, <2>5, <3>1, <3>4, <3>5, <3>6 DEF QueueInv
    <3> QED BY <2>1, <3>4, <3>7, TakenKept, PayKept
  <2> QED BY <2>6, <2>7
<1> QED BY <1>2, <1>3

\* A flush sends what is queued.
LEMMA FlushKeeps ==
  ASSUME TabInv, Flush
  PROVE  TabInv'
<1> USE DEF TabInv, Flush
<1>1. Head(queue) = queue[1] /\ Len(queue) \in Nat \ {0} /\ queue[1] \in Presses
  BY EmptySeq DEF QueueInv
<1>2. fetched[queue[1]] = "queued"
  BY <1>1 DEF QueueInv
<1>3. fetched' \in [Presses -> FetchStates] /\ Steady
  BY <1>1, <1>2 DEF QueueInv, FetchStates, Steady, Gone
<1>4. \A i \in 1..Len(queue) : fetched'[queue[i]] = "queued" \/ i = 1
  BY <1>1 DEF QueueInv
<1>5. QueueInv'
  BY <1>1, <1>3, <1>4 DEF QueueInv
<1> QED BY <1>3, <1>5, TakenKept, PayKept

\* What is behind the head that was answered waits, and is not that order.
LEMMA FlushAnsweredKeeps ==
  ASSUME TabInv, FlushAnswered
  PROVE  TabInv'
<1> USE DEF TabInv
<1> DEFINE o == Head(flight)
<1>1. /\ o = queue[1] /\ o \in Presses
      /\ Len(flight) \in Nat \ {0} /\ Len(queue) \in Nat \ {0}
      /\ \A i \in 1..Len(queue) : queue[i] \in Presses
      /\ flight # <<>> /\ flight' = <<>> /\ UNCHANGED <<taken, walletVars>>
  BY EmptySeq DEF FlushAnswered, QueueInv
<1>2. fetched[o] \in {"429", "ok", "needsUserCardano", "error", "lost"}
  BY DEF FlushAnswered, Answered
<1>3. CASE fetched[o] = "429"
  <2>1. fetched' = [fetched EXCEPT ![o] = "queued"] /\ UNCHANGED <<queue, stage>>
    BY <1>3 DEF FlushAnswered
  <2> HIDE DEF o
  <2>2. fetched' \in [Presses -> FetchStates] /\ Steady
    BY <1>1, <1>3, <2>1 DEF QueueInv, FetchStates, Steady, Gone
  <2>3. \A i \in 1..Len(queue) : fetched'[queue[i]] = "queued"
    BY <1>1, <2>1 DEF QueueInv
  <2>4. QueueInv'
    BY <1>1, <2>1, <2>2, <2>3 DEF QueueInv
  <2> QED BY <1>1, <2>1, <2>2, <2>4, TakenKept, PayKept
<1>4. CASE fetched[o] # "429"
  <2>1. fetched' = [fetched EXCEPT ![o] = "over"] /\ queue' = Tail(flight) /\ Apply(o)
    BY <1>4 DEF FlushAnswered
  <2> HIDE DEF o
  <2>2. fetched' \in [Presses -> FetchStates] /\ Steady /\ fetched'[o] = "over"
    BY <1>1, <1>2, <2>1 DEF QueueInv, FetchStates, Steady, Gone
  <2>3. /\ queue' \in Seq(Presses) /\ Len(queue') = Len(flight) - 1
        /\ \A i \in 1..Len(queue') : i + 1 \in 1..Len(queue) /\ queue'[i] = queue[i + 1]
    <3>1. /\ Tail(flight) \in Seq(Presses) /\ Len(Tail(flight)) = Len(flight) - 1
          /\ \A i \in 1..Len(Tail(flight)) : Tail(flight)[i] = flight[i + 1]
      BY <1>1, HeadTailProperties DEF QueueInv
    <3> QED BY <1>1, <2>1, <3>1 DEF QueueInv
  <2>4. \A i \in 1..Len(queue') : fetched'[queue'[i]] = "queued"
    <3> SUFFICES ASSUME NEW i \in 1..Len(queue') PROVE fetched'[queue'[i]] = "queued"
      OBVIOUS
    <3>1. i + 1 \in 1..Len(queue) /\ i + 1 # 1 /\ 1 \in 1..Len(queue) /\ queue'[i] = queue[i + 1]
      BY <1>1, <2>3
    <3>2. queue[i + 1] # o /\ fetched[queue[i + 1]] = "queued"
      BY <1>1, <3>1 DEF QueueInv
    <3> QED BY <1>1, <2>1, <3>1, <3>2 DEF QueueInv
  <2>5. \A i, j \in 1..Len(queue') : queue'[i] = queue'[j] => i = j
    <3> SUFFICES ASSUME NEW i \in 1..Len(queue'), NEW j \in 1..Len(queue'), queue'[i] = queue'[j] PROVE i = j
      OBVIOUS
    <3>1. /\ i + 1 \in 1..Len(queue) /\ j + 1 \in 1..Len(queue)
          /\ queue[i + 1] = queue[j + 1]
      BY <2>3
    <3>2. i + 1 = j + 1
      BY <3>1 DEF QueueInv
    <3>3. i \in Int /\ j \in Int
      BY <1>1, <2>3
    <3> QED BY <3>2, <3>3
  <2>6. QueueInv'
    BY <1>1, <2>2, <2>3, <2>4, <2>5 DEF QueueInv
  <2>7. PayInv'
    BY <1>1, <1>2, <2>1, <2>2, PayKept, PayBegins DEF Apply
  <2> QED BY <1>1, <2>2, <2>6, <2>7, TakenKept
<1> QED BY <1>3, <1>4

-----------------------------------------------------------------------------
(* The completions of user-paid trades.                                    *)

\* What the step of one completion has to keep: the others only see that
\* more is spent and more on chain.
Tells(o) ==
  /\ stage[o] # "none" => fetched[o] = "over"
  /\ stage[o] \in {"none", "enable", "pull"} => <<o, "pull">> \notin spent
  /\ stage[o] \in {"none", "enable", "pull", "wait1", "pulled", "anchor"} => <<o, "anchor">> \notin spent
  /\ stage[o] \in {"pulled", "anchor", "wait2", "report", "reported"} => <<o, "pull">> \in landed
  /\ stage[o] = "anchor" => <<o, "pull">> \in view[o]
  /\ stage[o] \in {"report", "reported"} => <<o, "anchor">> \in landed
  /\ stage[o] = "refused" => \E t \in spent : t[1] # o

\* A step of the payment alone.
LEMMA PayStep ==
  ASSUME TabInv, NEW o \in Presses, UNCHANGED apiVars,
         landed \subseteq landed', landed' \subseteq spent',
         spent \subseteq spent', spent' \subseteq spent \cup {<<o, "pull">>, <<o, "anchor">>},
         NEW st \in PayStages, stage' = [stage EXCEPT ![o] = st],
         NEW w \in SUBSET spent', view' = [view EXCEPT ![o] = w],
         Tells(o)'
  PROVE  TabInv'
<1> USE DEF TabInv, apiVars
<1>1. QueueInv' /\ TakenInv'
  BY DEF QueueInv, TakenInv
<1>2. ASSUME NEW p \in Presses, p # o PROVE Tells(p)'
  <2>1. stage'[p] = stage[p] /\ view'[p] = view[p] /\ fetched'[p] = fetched[p]
    BY <1>2 DEF PayInv
  <2>2. Tells(p)
    BY DEF PayInv, Tells
  <2>3. \A x : <<p, x>> \in spent' => <<p, x>> \in spent
    BY <1>2
  <2> QED BY <2>1, <2>2, <2>3 DEF Tells
<1>3. stage' \in [Presses -> PayStages] /\ view' \in [Presses -> SUBSET spent']
  BY DEF PayInv
<1>4. spent' \subseteq Presses \X {"pull", "anchor"}
  BY DEF PayInv
<1>5. \A p \in Presses : Tells(p)'
  BY <1>2
<1> QED BY <1>1, <1>3, <1>4, <1>5 DEF PayInv, Tells

\* What a payment in progress tells.
LEMMA PayTells ==
  ASSUME TabInv, NEW o \in Presses
  PROVE  /\ Tells(o) /\ landed \subseteq spent /\ view[o] \subseteq spent
         /\ \A t \in spent : t = <<o, "pull">> \/ t = <<o, "anchor">> \/ t[1] # o
         /\ view = [view EXCEPT ![o] = view[o]]
<1>1. \A t \in spent : t = <<o, "pull">> \/ t = <<o, "anchor">> \/ t[1] # o
  BY DEF TabInv, PayInv
<1> QED BY <1>1 DEF TabInv, PayInv, Tells

\* A payment is built.
LEMMA BuildKeeps ==
  ASSUME TabInv, NEW o \in Presses, Build(o, "enable", "pull") \/ Build(o, "pulled", "anchor")
  PROVE  TabInv'
<1>1. PICK st \in {"pull", "anchor"} :
        /\ stage' = [stage EXCEPT ![o] = st] /\ stage'[o] = st
        /\ st = "pull" => stage[o] = "enable"
        /\ st = "anchor" => stage[o] = "pulled"
  BY DEF Build, Stage, TabInv, PayInv
<1>2. view' = [view EXCEPT ![o] = landed] /\ view'[o] = landed /\ UNCHANGED <<apiVars, spent, landed>>
  BY DEF Build, TabInv, PayInv
<1>3. Tells(o)'
  BY <1>1, <1>2, PayTells DEF Tells, apiVars
<1>4. st \in PayStages
  BY DEF PayStages
<1> QED BY <1>1, <1>2, <1>3, <1>4, PayTells, PayStep

\* Coins that are spent, but not by the transactions this one was built on,
\* are spent by another trade: the tab's own pull has been seen.
LEMMA SubmitKeeps ==
  ASSUME TabInv, NEW o \in Presses,
         SubmitTx(o, "pull", "pull", "wait1") \/ SubmitTx(o, "anchor", "anchor", "wait2")
  PROVE  TabInv'
<1>1. CASE view[o] = spent
  <2>1. PICK tx \in {"pull", "anchor"} :
          /\ stage[o] = tx /\ spent' = spent \cup {<<o, tx>>}
          /\ stage' = [stage EXCEPT ![o] = IF tx = "pull" THEN "wait1" ELSE "wait2"]
    BY <1>1 DEF SubmitTx
  <2>2. UNCHANGED <<apiVars, view, landed>>
    BY DEF SubmitTx
  <2>3. stage'[o] = IF tx = "pull" THEN "wait1" ELSE "wait2"
    BY <2>1 DEF TabInv, PayInv
  <2>4. Tells(o)'
    BY <2>1, <2>2, <2>3, PayTells DEF Tells, apiVars
  <2>5. (IF tx = "pull" THEN "wait1" ELSE "wait2") \in PayStages
    BY DEF PayStages
  <2> QED BY <2>1, <2>2, <2>4, <2>5, PayTells, PayStep
<1>2. CASE view[o] # spent
  <2>1. stage' = [stage EXCEPT ![o] = "refused"] /\ UNCHANGED <<apiVars, spent, view, landed>>
    BY <1>2 DEF SubmitTx
  <2>2. stage'[o] = "refused" /\ stage[o] \in {"pull", "anchor"}
    BY <2>1 DEF SubmitTx, TabInv, PayInv
  <2>3. PICK t \in spent : t \notin view[o]
    BY <1>2, PayTells
  <2>4. t # <<o, "pull">> /\ t # <<o, "anchor">>
    BY <2>2, <2>3, PayTells DEF Tells
  <2>5. t[1] # o
    BY <2>4, PayTells
  <2>6. Tells(o)'
    BY <2>1, <2>2, <2>5, PayTells DEF Tells, apiVars
  <2> QED BY <2>1, <2>6, PayTells, PayStep DEF PayStages
<1> QED BY <1>1, <1>2

\* A payment is awaited, reported or given up.
LEMMA AwaitKeeps ==
  ASSUME TabInv, NEW o \in Presses,
         \/ AwaitTx(o, "wait1", "pull", "pulled") \/ AwaitTx(o, "wait2", "anchor", "report")
         \/ CompleteAnswered(o) \/ SigningFails(o)
  PROVE  TabInv'
<1>1. UNCHANGED <<apiVars, spent, view, landed>>
  BY DEF AwaitTx, CompleteAnswered, SigningFails, walletVars
<1>2. PICK st \in {"pulled", "report", "reported", "failed"} :
        /\ stage' = [stage EXCEPT ![o] = st]
        /\ stage[o] # "none"
        /\ st = "pulled" => stage[o] = "wait1" /\ <<o, "pull">> \in landed
        /\ st = "report" => stage[o] = "wait2" /\ <<o, "anchor">> \in landed
        /\ st = "reported" => stage[o] = "report"
  BY DEF AwaitTx, CompleteAnswered, SigningFails, Stage
<1>3. stage'[o] = st
  BY <1>2 DEF TabInv, PayInv
<1>4. Tells(o)'
  BY <1>1, <1>2, <1>3, PayTells DEF Tells, apiVars
<1>5. st \in PayStages
  BY DEF PayStages
<1> QED BY <1>1, <1>2, <1>4, <1>5, PayTells, PayStep

\* A payment lands in a block.
LEMMA LandsKeeps ==
  ASSUME TabInv, Lands
  PROVE  TabInv'
<1> USE DEF TabInv, Lands, apiVars
<1>1. QueueInv' /\ TakenInv'
  BY DEF QueueInv, TakenInv
<1>2. landed \subseteq landed' /\ landed' \subseteq spent /\ UNCHANGED <<stage, view, spent, fetched>>
  BY DEF PayInv
<1>3. PayInv'
  BY <1>2 DEF PayInv
<1> QED BY <1>1, <1>3

\* Every step of the tab keeps its invariant.
LEMMA NextTabInv == TabInv /\ [TabNext]_tabVars => TabInv'
<1> SUFFICES ASSUME TabInv, [TabNext]_tabVars PROVE TabInv'
  OBVIOUS
<1>1. ASSUME NEW o \in Presses, ApiReceives(o) \/ ApiAnswers(o) \/ ConnectionFails(o) \/ Press(o) \/ PressAnswered(o)
      PROVE  TabInv'
  BY <1>1, ApiReceivesKeeps, OthersKeep, PressAnsweredKeeps
<1>2. ASSUME NEW o \in Presses, Pays(o) PROVE TabInv'
  BY <1>2, BuildKeeps, SubmitKeeps, AwaitKeeps DEF Pays
<1>3. CASE OtherBegins \/ OtherEnds
  <2>1. CASE Presses # {}
    BY <1>3, <2>1, OthersKeep
  <2>2. CASE Presses = {}
    BY <1>3, <2>2 DEF OtherBegins, OtherEnds, TabInv, QueueInv, TakenInv, PayInv, walletVars
  <2> QED BY <2>1, <2>2
<1>4. CASE Flush \/ FlushAnswered
  BY <1>4, FlushKeeps, FlushAnsweredKeeps
<1>5. CASE Lands
  BY <1>5, LandsKeeps
<1>6. CASE UNCHANGED tabVars
  BY <1>6 DEF TabInv, QueueInv, TakenInv, PayInv, tabVars
<1> QED BY <1>1, <1>2, <1>3, <1>4, <1>5, <1>6 DEF TabNext

-----------------------------------------------------------------------------
\* The invariant holds of every behaviour.
THEOREM TabInductive == TabSpec => []TabInv
BY InitTabInv, NextTabInv, PTL DEF TabSpec

\* flushSubmitQueue: however requests, refusals, lost answers and the timer
\* interleave, the API takes an order at most once.
THEOREM OrdersTakenOnce == TabSpec => []TakenOnce
<1>1. TabInv => TakenOnce
  BY LenProperties DEF TabInv, TakenInv, TakenOnce
<1> QED BY <1>1, TabInductive, PTL

\* setQueue at the end of a flush drops its head, which has an answer, and what
\* was queued beside the flush; nothing else takes an order out of the queue.
THEOREM QueueLeftAnswered == TabSpec => LeavesAnswered
<1>1. ASSUME QueueInv, [TabNext]_tabVars, NEW o \in InQueue, o \in InFlight,
             \A i \in DOMAIN queue' : queue'[i] # o
      PROVE  o = Head(flight) /\ fetched[o] # "429"
  <2>1. PICK i \in 1..Len(queue) : queue[i] = o
    BY <1>1, LenProperties DEF QueueInv, InQueue
  <2>2. queue' # queue
    BY <1>1, <2>1, LenProperties DEF QueueInv
  <2>3. ~ \E p \in Presses : PressAnswered(p)
    <3> SUFFICES ASSUME NEW p \in Presses, queue' = Append(queue, p) PROVE FALSE
      BY <2>2 DEF PressAnswered
    <3>1. i \in DOMAIN queue' /\ queue'[i] = queue[i]
      BY <1>1, <2>1, AppendProperties DEF QueueInv
    <3> QED BY <1>1, <2>1, <3>1
  <2>4. FlushAnswered
    BY <1>1, <2>2, <2>3 DEF TabNext, tabVars, ApiReceives, ApiAnswers, ConnectionFails, Press, Pays, Build,
       SubmitTx, AwaitTx, CompleteAnswered, SigningFails, apiVars, OtherBegins, OtherEnds, Flush, Lands
  <2>5. flight # <<>> /\ queue' = Tail(flight) /\ fetched[Head(flight)] # "429"
    BY <2>2, <2>4 DEF FlushAnswered
  <2>6. PICK k \in 1..Len(flight) : flight[k] = o
    BY <1>1, LenProperties DEF QueueInv, InFlight
  <2>7. k = 1
    <3> SUFFICES ASSUME k # 1 PROVE FALSE
      OBVIOUS
    <3>1. Len(flight) \in Nat /\ k - 1 \in 1..(Len(flight) - 1) /\ (k - 1) + 1 = k
      BY <1>1, <2>6, LenProperties DEF QueueInv
    <3>2. k - 1 \in DOMAIN Tail(flight) /\ Tail(flight)[k - 1] = flight[(k - 1) + 1]
      BY <1>1, <2>5, <3>1, HeadTailProperties, LenProperties DEF QueueInv
    <3>3. queue'[k - 1] = o /\ k - 1 \in DOMAIN queue'
      BY <2>5, <2>6, <3>1, <3>2
    <3> QED BY <1>1, <3>3
  <2> QED BY <1>1, <2>5, <2>6, <2>7, HeadTailProperties DEF QueueInv
<1>2. TabInv /\ [TabNext]_tabVars =>
        [\A o \in InQueue : \/ \E i \in DOMAIN queue' : queue'[i] = o
                            \/ o \notin InFlight
                            \/ o = Head(flight) /\ fetched[o] # "429"]_tabVars
  BY <1>1 DEF TabInv
<1>3. []TabInv /\ [][TabNext]_tabVars => LeavesAnswered
  BY <1>2, PTL DEF LeavesAnswered
<1> QED BY <1>3, TabInductive, PTL DEF TabSpec

\* The two awaitTx of submitUserPaidCardanoL1: what is reported is on chain.
THEOREM ReportsOnChain == TabSpec => []ReportedIsOnChain
<1>1. TabInv => ReportedIsOnChain
  BY DEF TabInv, PayInv, ReportedIsOnChain
<1> QED BY <1>1, TabInductive, PTL

\* A completion's transactions never conflict with each other: one that is
\* refused met those of another trade.
THEOREM RefusalsExplained == TabSpec => []RefusedTakesAnotherTrade
<1>1. TabInv => RefusedTakesAnotherTrade
  BY DEF TabInv, PayInv, RefusedTakesAnotherTrade
<1> QED BY <1>1, TabInductive, PTL

\* Payments are reported when they are on chain, and refused only for those of
\* another trade.
THEOREM PaymentsInOrder == TabSpec => []PaymentsHold
<1>1. ReportedIsOnChain /\ RefusedTakesAnotherTrade => PaymentsHold
  BY DEF PaymentsHold
<1> QED BY <1>1, ReportsOnChain, RefusalsExplained, PTL

-----------------------------------------------------------------------------
(***************************************************************************)
(* OrderTerminal.                                                          *)
(***************************************************************************)

\* A list of drafts without repetitions.
BookList(l) == l \in Seq(Drafts) /\ IsInjective(l)

\* What a session has in its book, and that it remembers all of it.
SessionBook(l, known) == BookList(l) /\ known \subseteq Drafts /\ \A k \in 1..Len(l) : l[k] \in known

Commitments == Drafts \cup Bids \cup {Nothing}

\* The book: every session's is without repetitions, and that of an open terminal is in the file, unless the terminal is
\* behind.
BookInv ==
  /\ file = Torn \/ BookList(file)
  /\ open \subseteq Sessions /\ DOMAIN records = Sessions /\ DOMAIN seen = Sessions
  /\ \A s \in Sessions : SessionBook(records[s], seen[s])
  /\ draft \in [Sessions -> Drafts \cup {Nothing}] /\ \A s \in open : draft[s] \in Drafts
  /\ \A s \in open \ behind : Valid(file) = records[s]

\* The runs: between Midnight and Cardano the process's commitment is the one Midnight has sealed.
RunInv ==
  /\ trade \in [Sessions -> {"idle", "midnight", "cardano"}]
  /\ env \in [Sessions -> Commitments] /\ sealedAs \in [Sessions -> Commitments] /\ anchoredAs \in [Sessions -> Commitments]
  /\ bid \in Bids
  /\ \A s \in Sessions : /\ trade[s] = "midnight" => anchoredAs[s] = Nothing
                         /\ trade[s] = "cardano" => sealedAs[s] = env[s]
                         /\ anchoredAs[s] \in {Nothing, sealedAs[s]}

TerminalInv == BookInv /\ RunInv

\* A file that is torn is no book: no list of records is.
LEMMA TornIsNoBook == \A l : BookList(l) => l # Torn
<1> SUFFICES ASSUME NEW l, BookList(l), l = Torn PROVE FALSE
  OBVIOUS
<1>1. l \in Seq(Drafts) /\ Len(l) = 1 /\ l[1] = "torn"
  BY DEF BookList, Torn
<1>2. l[1] \in Drafts
  BY <1>1, ElementOfSeq
<1> QED BY <1>1, <1>2, DraftsAssumption

\* A book without records is one.
LEMMA EmptyBook == SessionBook(<<>>, {}) /\ BookList(<<>>)
BY EmptySeq DEF SessionBook, BookList, IsInjective

\* A post of what the session has not seen.
LEMMA PostedBook ==
  ASSUME NEW l, NEW known, SessionBook(l, known), NEW d \in Drafts, d \notin known
  PROVE  SessionBook(Append(l, d), known \cup {d})
<1>1. l \in Seq(Drafts) /\ DOMAIN l = 1..Len(l) /\ Len(l) \in Nat
  BY LenProperties DEF SessionBook, BookList
<1>2. PICK r : r = Append(l, d)
  OBVIOUS
<1>3. /\ r \in Seq(Drafts) /\ Len(r) = Len(l) + 1 /\ DOMAIN r = 1..Len(l) + 1
      /\ \A k \in 1..Len(l) : r[k] = l[k]
      /\ r[Len(l) + 1] = d
  BY <1>1, <1>2, AppendProperties, LenProperties
<1>4. \A k \in 1..Len(l) + 1 : k \in 1..Len(l) \/ k = Len(l) + 1
  BY <1>1
<1>5. \A k \in 1..Len(l) : l[k] \in known /\ l[k] # d
  BY DEF SessionBook
<1>6. IsInjective(r)
  <2> SUFFICES ASSUME NEW j \in 1..Len(l) + 1, NEW k \in 1..Len(l) + 1, r[j] = r[k] PROVE j = k
    BY <1>3 DEF IsInjective
  <2>1. CASE j \in 1..Len(l) /\ k \in 1..Len(l)
    <3>1. IsInjective(l)
      BY DEF SessionBook, BookList
    <3>2. l[j] = l[k]
      BY <1>3, <2>1
    <3> QED BY <1>1, <2>1, <3>1, <3>2 DEF IsInjective
  <2>2. CASE j \in 1..Len(l) /\ k = Len(l) + 1
    BY <1>3, <1>5, <2>2
  <2>3. CASE j = Len(l) + 1 /\ k \in 1..Len(l)
    BY <1>3, <1>5, <2>3
  <2> QED BY <1>4, <2>1, <2>2, <2>3
<1>7. known \cup {d} \subseteq Drafts
  BY DEF SessionBook
<1>8. \A k \in 1..Len(r) : r[k] \in known \cup {d}
  BY <1>3, <1>4, <1>5
<1> QED BY <1>2, <1>3, <1>6, <1>7, <1>8 DEF SessionBook, BookList

\* The constructor's load.
LEMMA LoadedBook == (file = Torn \/ BookList(file)) => SessionBook(Valid(file), ToSet(Valid(file)))
<1> SUFFICES ASSUME file = Torn \/ BookList(file) PROVE SessionBook(Valid(file), ToSet(Valid(file)))
  OBVIOUS
<1>1. PICK l : l = Valid(file)
  OBVIOUS
<1>2. BookList(l)
  BY <1>1, EmptyBook DEF Valid
<1>3. l \in Seq(Drafts) /\ DOMAIN l = 1..Len(l) /\ \A k \in 1..Len(l) : l[k] \in Drafts
  BY <1>2, LenProperties, ElementOfSeq DEF BookList
<1>4. ToSet(l) = {l[k] : k \in 1..Len(l)}
  BY <1>3 DEF ToSet
<1> QED BY <1>1, <1>2, <1>3, <1>4 DEF SessionBook

\* The first terminal, before it has read the file.
LEMMA TerminalStarts == TerminalInit => TerminalInv
<1> SUFFICES ASSUME TerminalInit PROVE TerminalInv
  OBVIOUS
<1>1. BookInv
  BY EmptyBook DEF TerminalInit, BookInv
<1>2. RunInv
  BY DEF TerminalInit, RunInv, Commitments
<1> QED BY <1>1, <1>2 DEF TerminalInv

\* The book is written over the file.
LEMMA PersistKeeps ==
  ASSUME BookInv, NEW s \in open, NEW rs, BookList(rs), Persist(s, rs)
  PROVE  /\ file' = Torn \/ BookList(file')
         /\ \A t \in open \ behind' : IF t = s THEN Valid(file') = rs ELSE t \notin behind /\ file' = file
<1>1. rs # Torn
  BY TornIsNoBook
<1> QED BY <1>1 DEF Persist, BookInv, Valid

\* Commands that change the book.
LEMMA BookSteps == BookInv /\ [TerminalNext]_terminalVars => BookInv'
<1> SUFFICES ASSUME BookInv, [TerminalNext]_terminalVars PROVE BookInv'
  OBVIOUS
<1>1. ASSUME NEW s \in Sessions, OpenTerminal(s) PROVE BookInv'
  <2>1. /\ s \notin open /\ open' = open \cup {s} /\ UNCHANGED <<file, behind>>
        /\ records' = [records EXCEPT ![s] = Valid(file)] /\ seen' = [seen EXCEPT ![s] = ToSet(Valid(file))]
        /\ \E d \in Drafts : draft' = [draft EXCEPT ![s] = d]
    BY <1>1 DEF OpenTerminal
  <2>2. SessionBook(Valid(file), ToSet(Valid(file)))
    BY LoadedBook DEF BookInv
  <2>3. DOMAIN records' = Sessions /\ DOMAIN seen' = Sessions /\ \A t \in Sessions : SessionBook(records'[t], seen'[t])
    BY <2>1, <2>2 DEF BookInv
  <2>4. \A t \in open' \ behind' : Valid(file)' = records'[t]
    BY <2>1 DEF BookInv, Valid
  <2>5. draft' \in [Sessions -> Drafts \cup {Nothing}] /\ \A t \in open' : draft'[t] \in Drafts
    BY <2>1 DEF BookInv
  <2> QED BY <2>1, <2>3, <2>4, <2>5 DEF BookInv
<1>2. ASSUME NEW s \in Sessions, Post(s) PROVE BookInv'
  <2>1. /\ s \in open /\ draft[s] \in Drafts /\ draft[s] \notin seen[s] /\ UNCHANGED <<open, draft>>
        /\ seen' = [seen EXCEPT ![s] = @ \cup {draft[s]}] /\ records' = [records EXCEPT ![s] = Append(@, draft[s])]
        /\ Persist(s, records'[s])
    BY <1>2 DEF Post, Prompt, BookInv
  <2>2. SessionBook(records'[s], seen'[s])
    <3>1. SessionBook(Append(records[s], draft[s]), seen[s] \cup {draft[s]})
      BY <2>1, PostedBook DEF BookInv
    <3> QED BY <2>1, <3>1 DEF BookInv
  <2>3. DOMAIN records' = Sessions /\ DOMAIN seen' = Sessions /\ \A t \in Sessions : SessionBook(records'[t], seen'[t])
    BY <2>1, <2>2 DEF BookInv
  <2>4. /\ file' = Torn \/ BookList(file')
        /\ \A t \in open \ behind' : IF t = s THEN Valid(file') = records'[s] ELSE t \notin behind /\ file' = file
    BY <2>1, <2>2, PersistKeeps DEF SessionBook
  <2>5. \A t \in open' \ behind' : Valid(file)' = records'[t]
    BY <2>1, <2>4 DEF BookInv, Valid
  <2> QED BY <2>1, <2>3, <2>4, <2>5 DEF BookInv
<1>3. ASSUME NEW s \in Sessions, ClearBook(s) PROVE BookInv'
  <2>1. /\ s \in open /\ UNCHANGED <<open, draft>>
        /\ seen' = [seen EXCEPT ![s] = {}] /\ records' = [records EXCEPT ![s] = <<>>] /\ Persist(s, <<>>)
    BY <1>3 DEF ClearBook, Prompt
  <2>2. /\ DOMAIN records' = Sessions /\ DOMAIN seen' = Sessions /\ records'[s] = <<>>
        /\ \A t \in Sessions : SessionBook(records'[t], seen'[t])
    BY <2>1, EmptyBook DEF BookInv
  <2>3. /\ file' = Torn \/ BookList(file')
        /\ \A t \in open \ behind' : IF t = s THEN Valid(file') = <<>> ELSE t \notin behind /\ file' = file
    BY <2>1, EmptyBook, PersistKeeps
  <2>4. \A t \in open' \ behind' : Valid(file)' = records'[t]
    BY <2>1, <2>2, <2>3 DEF BookInv, Valid
  <2> QED BY <2>1, <2>2, <2>3, <2>4 DEF BookInv
<1>4. ASSUME NEW s \in Sessions, Edit(s) PROVE BookInv'
  <2>1. s \in open /\ UNCHANGED bookVars /\ \E d \in Drafts : draft' = [draft EXCEPT ![s] = d]
    BY <1>4 DEF Edit, Prompt
  <2>2. draft' \in [Sessions -> Drafts \cup {Nothing}] /\ \A t \in open : draft'[t] \in Drafts
    BY <2>1 DEF BookInv
  <2>3. \A t \in open' \ behind' : Valid(file)' = records'[t]
    BY <2>1 DEF BookInv, bookVars, Valid
  <2> QED BY <2>1, <2>2, <2>3 DEF BookInv, bookVars
<1>5. ASSUME NEW s \in Sessions, Quit(s) \/ KilledWriting(s) PROVE BookInv'
  <2>1. /\ open' = open \ {s} /\ UNCHANGED <<records, seen, draft>>
        /\ \/ UNCHANGED file /\ behind' = behind \ {s}
           \/ file' = Torn /\ behind' = open'
    BY <1>5 DEF Quit, KilledWriting
  <2>2. \A t \in open' \ behind' : Valid(file)' = records'[t]
    BY <2>1 DEF BookInv, Valid
  <2> QED BY <2>1, <2>2 DEF BookInv
<1>6. ASSUME NEW s \in Sessions, Full(s) \/ StepMidnight(s) \/ StepCardano(s) \/ StepFails(s) PROVE BookInv'
  <2>1. UNCHANGED bookVars /\ UNCHANGED draft
    BY <1>6 DEF Full, StepMidnight, StepCardano, StepFails
  <2> QED BY <2>1 DEF BookInv, bookVars, Valid
<1>7. CASE UNCHANGED terminalVars
  BY <1>7 DEF BookInv, terminalVars, Valid
<1> QED BY <1>1, <1>2, <1>3, <1>4, <1>5, <1>6, <1>7 DEF TerminalNext

\* Everything but the commands that change the book.
LEMMA RunSteps == TerminalInv /\ [TerminalNext]_terminalVars => RunInv'
<1> SUFFICES ASSUME TerminalInv, [TerminalNext]_terminalVars PROVE RunInv'
  OBVIOUS
<1>0. /\ RunInv /\ draft \in [Sessions -> Commitments]
      /\ \A s \in Sessions : Nothing \in Commitments /\ bid \in Commitments
  BY DEF TerminalInv, BookInv, RunInv, Commitments
<1>1. ASSUME NEW s \in Sessions, OpenTerminal(s) \/ Post(s) \/ ClearBook(s) \/ Edit(s) \/ Quit(s) \/ KilledWriting(s)
      PROVE  RunInv'
  <2>1. UNCHANGED tradeVars /\ UNCHANGED bid
    BY <1>1 DEF OpenTerminal, Post, ClearBook, Edit, Quit, KilledWriting
  <2> QED BY <1>0, <2>1 DEF RunInv, tradeVars
<1>2. ASSUME NEW s \in Sessions, Full(s) PROVE RunInv'
  <2>1. /\ trade' = [trade EXCEPT ![s] = "midnight"] /\ env' = [env EXCEPT ![s] = draft[s]] /\ UNCHANGED bid
        /\ sealedAs' = [sealedAs EXCEPT ![s] = Nothing] /\ anchoredAs' = [anchoredAs EXCEPT ![s] = Nothing]
    BY <1>2 DEF Full, At
  <2> QED BY <1>0, <2>1 DEF RunInv
<1>3. ASSUME NEW s \in Sessions, StepMidnight(s) PROVE RunInv'
  <2>1. PICK c \in Commitments : env' = [env EXCEPT ![s] = c] /\ c = env'[s]
    <3>1. CASE mode = "full-pipeline"
      BY <1>0, <1>3, <3>1 DEF StepMidnight, RunInv
    <3>2. CASE mode # "full-pipeline"
      BY <1>0, <1>3, <3>2 DEF StepMidnight, RunInv
    <3> QED BY <3>1, <3>2
  <2>2. /\ trade[s] = "midnight" /\ trade' = [trade EXCEPT ![s] = "cardano"] /\ sealedAs' = [sealedAs EXCEPT ![s] = c]
        /\ UNCHANGED <<anchoredAs, bid>>
    BY <1>3, <2>1 DEF StepMidnight, At
  <2> QED BY <1>0, <2>1, <2>2 DEF RunInv
<1>4. ASSUME NEW s \in Sessions, StepCardano(s) PROVE RunInv'
  <2>1. /\ trade[s] = "cardano" /\ trade' = [trade EXCEPT ![s] = "idle"] /\ anchoredAs' = [anchoredAs EXCEPT ![s] = env[s]]
        /\ UNCHANGED <<env, sealedAs, bid>>
    BY <1>4 DEF StepCardano, At
  <2> QED BY <1>0, <2>1 DEF RunInv
<1>5. ASSUME NEW s \in Sessions, StepFails(s) PROVE RunInv'
  <2>1. trade' = [trade EXCEPT ![s] = "idle"] /\ UNCHANGED <<env, sealedAs, anchoredAs, bid>>
    BY <1>5 DEF StepFails
  <2> QED BY <1>0, <2>1 DEF RunInv
<1>6. CASE UNCHANGED terminalVars
  BY <1>0, <1>6 DEF RunInv, terminalVars
<1> QED BY <1>1, <1>2, <1>3, <1>4, <1>5, <1>6 DEF TerminalNext

\* The invariant of the terminals holds for any number of them, and any posts, clears, runs, restarts and lost writes
\* (scripts/c3perp-order-terminal.ts:240-389, scripts/local_orderbook.ts:97-158).
THEOREM TerminalInductive == TerminalSpec => []TerminalInv
<1>1. TerminalInv /\ [TerminalNext]_terminalVars => TerminalInv'
  BY BookSteps, RunSteps DEF TerminalInv
<1> QED BY <1>1, TerminalStarts, PTL DEF TerminalSpec

\* A commitment is in a session's book at most once, and what a terminal shows is what a restart would show, unless its
\* last write was lost or another terminal has written over the file or torn it (scripts/local_orderbook.ts:97-158).
THEOREM BooksSurvive == TerminalSpec => []BookSurvives
<1>1. TerminalInv => BookSurvives
  BY DEF TerminalInv, BookInv, SessionBook, BookList, BookSurvives, PostedOnce, FileTellsTheBook
<1> QED BY <1>1, TerminalInductive, PTL

\* What a run anchors on Cardano is what Midnight has sealed in that run, in either mode, whatever the run was started
\* with (scripts/trade-adausd-network.ts:136-285).
THEOREM AnchorsAreSealed == TerminalSpec => []AnchoredIsSealed
<1>1. TerminalInv => AnchoredIsSealed
  BY DEF TerminalInv, RunInv, AnchoredIsSealed
<1> QED BY <1>1, TerminalInductive, PTL

-----------------------------------------------------------------------------
(***************************************************************************)
(* QuoteBots.                                                              *)
(***************************************************************************)

Traders == {"user", "bot", "seed"}
Flags == {"free", "taker", "sweep", "batch"}

\* Orders as their remainders are kept, and as they rest.
Posts == [by : Traders, pair : {"ADA"}, side : Book!Sides, price : Nat \ {0}, size : Nat, at : {0}]
Rests == {o \in Posts : o.size > 0}

\* What a book offers to an order within its limit.
Offered(m, o) == m.side = Book!Opposite(o.side) /\ ~ Book!Better(m.side, o.price, m.price)
Offer(m, o) == IF Offered(m, o) THEN m.size ELSE 0
Offers(b, o) == SumFunction([k \in DOMAIN b |-> Offer(b[k], o)])

NotOfTheBot(b) == \A k \in DOMAIN b : b[k].by # "bot"

\* No two orders of the book cross; at most those at k and another one do.
Uncrossed(b) == \A i, j \in DOMAIN b : ~ Offered(b[j], b[i])
CrossedBy(b, k) == \A i, j \in DOMAIN b : Offered(b[j], b[i]) => k \in {i, j}

Calm(b) == NotOfTheBot(b) /\ Uncrossed(b)

\* What a sweep finds of the bot is one order at most, which crosses the book,
\* alone, and is offered all that it still wants.
Swept(b) ==
  /\ \A k, l \in DOMAIN b : b[k].by = "bot" /\ b[l].by = "bot" => k = l
  /\ \A k \in DOMAIN b : b[k].by = "bot" => CrossedBy(b, k) /\ Offers(b, b[k]) >= b[k].size

RungStates == {"skipped", "failed", "409", "resting"}

QuoteTypes ==
  /\ rungs \in Seq(RungStates) /\ status \in [Book!Sides -> Int]
  /\ resting \in Seq(Rests) /\ snap \in Seq(Rests)
  /\ flag \in Flags /\ inflight \in Posts \cup {NoOrder}
  /\ flag = "taker" => inflight # NoOrder
  /\ plan \in Rests \cup {NoOrder}
  /\ Planned => plan.by = "bot"
  /\ upset \in BOOLEAN /\ selfTrade \in BOOLEAN
  /\ status # Unread => Len(rungs) < 2 * Levels

\* Where the bot is in no trouble, nothing of it rests but what a sweep is
\* about to take, and what it is about to post, or waits for a pipeline with,
\* finds enough in the book.
Settled ==
  /\ flag \in {"free", "taker"} => Calm(resting)
  /\ flag \in {"sweep", "batch"} => Swept(resting)
  /\ flag = "taker" => /\ Calm(snap)
                       /\ inflight.by = "bot" => Offers(resting, inflight) >= inflight.size
  /\ Planned => Offers(resting, plan) >= plan.size

QuoteInv == QuoteTypes /\ SelfTradeTakesTrouble /\ (~ upset => Settled)

LEMMA OfferType ==
  ASSUME NEW m \in Rests, NEW o \in Posts
  PROVE  Offer(m, o) \in Nat /\ (Offered(m, o) => Offer(m, o) = m.size)
BY DEF Offer, Rests, Posts

\* The offers of a book, one after the other.
LEMMA OffersAre ==
  ASSUME NEW b \in Seq(Rests), NEW o \in Posts
  PROVE  /\ DOMAIN b = 1..Len(b) /\ Len(b) \in Nat /\ IsFiniteSet(DOMAIN b)
         /\ \A k \in DOMAIN b : b[k] \in Rests
         /\ [k \in DOMAIN b |-> Offer(b[k], o)] \in [1..Len(b) -> Nat]
         /\ Offers(b, o) \in Nat
<1>1. DOMAIN b = 1..Len(b) /\ Len(b) \in Nat /\ \A k \in DOMAIN b : b[k] \in Rests
  BY LenProperties, ElementOfSeq
<1>2. IsFiniteSet(1..Len(b))
  BY <1>1, FS_Interval
<1>3. PICK f : f = [k \in DOMAIN b |-> Offer(b[k], o)]
  OBVIOUS
<1>4. f \in [1..Len(b) -> Nat]
  BY <1>1, <1>3, OfferType
<1>5. SumFunction(f) \in Nat
  BY <1>2, <1>4, SumOfNats
<1> QED BY <1>1, <1>2, <1>3, <1>4, <1>5 DEF Offers

\* An order that rests adds to what others are offered.
LEMMA OffersAppend ==
  ASSUME NEW b \in Seq(Rests), NEW r \in Rests, NEW o \in Posts
  PROVE  /\ Append(b, r) \in Seq(Rests)
         /\ Offers(Append(b, r), o) = Offers(b, o) + Offer(r, o)
         /\ Offers(Append(b, r), o) >= Offers(b, o)
<1>1. PICK c : c = Append(b, r)
  OBVIOUS
<1>2. PICK n : n = Len(b)
  OBVIOUS
<1>3. /\ c \in Seq(Rests) /\ Len(c) = n + 1 /\ n \in Nat /\ DOMAIN b = 1..n /\ DOMAIN c = 1..n + 1
      /\ \A k \in 1..n : c[k] = b[k]
      /\ c[n + 1] = r
  BY <1>1, <1>2, AppendIs, LenProperties
<1>4. PICK f : f = [k \in DOMAIN c |-> Offer(c[k], o)]
  OBVIOUS
<1>5. f \in [1..n + 1 -> Nat] /\ [k \in 1..n |-> f[k]] = [k \in DOMAIN b |-> Offer(b[k], o)]
  <2>1. \A k \in 1..n + 1 : c[k] \in Rests
    BY <1>3, OffersAre
  <2>2. \A k \in 1..n + 1 : f[k] = Offer(c[k], o) /\ f[k] \in Nat
    BY <1>3, <1>4, <2>1, OfferType
  <2>3. f \in [1..n + 1 -> Nat]
    BY <1>3, <1>4, <2>2
  <2>4. \A k \in 1..n : f[k] = Offer(b[k], o)
    BY <1>3, <2>2
  <2> QED BY <1>3, <2>3, <2>4
<1>6. SumFunction(f) = Offers(b, o) + f[n + 1]
  <2>1. f \in [1..n + 1 -> Int]
    BY <1>5
  <2>2. SumFunction(f) = SumFunction([k \in 1..n |-> f[k]]) + f[n + 1]
    BY <1>3, <2>1, SumLast
  <2> QED BY <1>5, <2>2 DEF Offers
<1>7. /\ Offers(c, o) = SumFunction(f) /\ f[n + 1] \in Nat /\ Offers(b, o) \in Nat
      /\ f[n + 1] = Offer(r, o)
  <2>1. Offers(c, o) = SumFunction(f)
    BY <1>4 DEF Offers
  <2>2. f[n + 1] \in Nat
    BY <1>3, <1>5
  <2>3. f[n + 1] = Offer(r, o)
    BY <1>3, <1>4
  <2> QED BY <2>1, <2>2, <2>3, OffersAre
<1> QED BY <1>1, <1>3, <1>6, <1>7

\* sizeStr keeps what is a multiple of 1e-8.
LEMMA WholeSizes ==
  ASSUME NEW q \in Nat
  PROVE  Book!SizeStr(q) = q
<1>1. Book!SizeStr(q) = 1 * ((2 * q + 1) \div (2 * 1))
  BY DEF Book!SizeStr
<1>2. (2 * q + 1) \div 2 = q
  OBVIOUS
<1> QED BY <1>1, <1>2

\* An order with another size.
LEMMA LessIs ==
  ASSUME NEW m \in Posts, NEW z \in Nat \ {0}
  PROVE  /\ [m EXCEPT !.size = z] \in Rests /\ [m EXCEPT !.size = z].size = z
         /\ [m EXCEPT !.size = z].by = m.by /\ [m EXCEPT !.size = z].side = m.side
         /\ [m EXCEPT !.size = z].price = m.price
BY DEF Posts, Rests

\* Two orders cross, whichever of them comes to the other.
LEMMA OfferedBothWays ==
  ASSUME NEW m \in Posts, NEW o \in Posts
  PROVE  Offered(m, o) <=> Offered(o, m)
BY DEF Offered, Posts, Book!Sides, Book!Opposite, Book!Better

\* Every order of book c is one of book b, or part of one.
From(c, b) ==
  \A m \in DOMAIN c : \E k \in DOMAIN b : c[m].by = b[k].by /\ c[m].side = b[k].side /\ c[m].price = b[k].price

LEMMA CalmFrom ==
  ASSUME NEW b, NEW c, From(c, b), Calm(b)
  PROVE  Calm(c)
<1>1. NotOfTheBot(c)
  BY DEF From, Calm, NotOfTheBot
<1>2. ASSUME NEW i \in DOMAIN c, NEW j \in DOMAIN c, Offered(c[j], c[i]) PROVE FALSE
  <2>1. PICK x \in DOMAIN b : c[i].side = b[x].side /\ c[i].price = b[x].price
    BY DEF From
  <2>2. PICK y \in DOMAIN b : c[j].side = b[y].side /\ c[j].price = b[y].price
    BY DEF From
  <2>3. Offered(b[y], b[x])
    BY <1>2, <2>1, <2>2 DEF Offered
  <2> QED BY <2>3 DEF Calm, Uncrossed
<1> QED BY <1>1, <1>2 DEF Calm, Uncrossed

\* What is removed is offered no more.
LEMMA OffersRemove ==
  ASSUME NEW b \in Seq(Rests), NEW o \in Posts, NEW i \in DOMAIN b
  PROVE  /\ RemoveAt(b, i) \in Seq(Rests) /\ From(RemoveAt(b, i), b)
         /\ Offers(RemoveAt(b, i), o) = Offers(b, o) - Offer(b[i], o)
<1>1. PICK c : c = RemoveAt(b, i)
  OBVIOUS
<1>2. PICK n : n = Len(b)
  OBVIOUS
<1>3. PICK f : f = [k \in DOMAIN b |-> Offer(b[k], o)]
  OBVIOUS
<1>4. /\ DOMAIN b = 1..n /\ n \in Nat /\ f \in [1..n -> Nat] /\ f \in [1..n -> Int] /\ i \in 1..n
      /\ Offers(b, o) = SumFunction(f)
      /\ \A k \in 1..n : f[k] = Offer(b[k], o)
  <2>1. DOMAIN b = 1..n /\ n \in Nat /\ f \in [1..n -> Nat]
    BY <1>2, <1>3, OffersAre
  <2>2. Offers(b, o) = SumFunction(f)
    BY <1>3 DEF Offers
  <2>3. f \in [1..n -> Int] /\ \A k \in 1..n : f[k] = Offer(b[k], o)
    BY <1>3, <2>1
  <2> QED BY <2>1, <2>2, <2>3
<1>5. PICK m : m = n - 1
  OBVIOUS
<1>6. m \in Nat /\ m + 1 = n
  BY <1>4, <1>5
<1>7. /\ c \in Seq(Rests) /\ Len(c) = m /\ DOMAIN c = 1..m
      /\ \A k \in 1..m : c[k] = IF k < i THEN b[k] ELSE b[k + 1]
  <2>1. i \in 1..Len(b)
    BY <1>2, <1>4
  <2>2. /\ c \in Seq(Rests) /\ Len(c) = Len(b) - 1
        /\ \A k \in 1..Len(b) - 1 : c[k] = IF k < i THEN b[k] ELSE b[k + 1]
    BY <1>1, <2>1, RemoveAtIs
  <2>3. Len(c) = m /\ DOMAIN c = 1..Len(c)
    BY <1>2, <1>5, <2>2, LenProperties
  <2> QED BY <1>2, <1>5, <2>2, <2>3
<1>8. [k \in DOMAIN c |-> Offer(c[k], o)] = [k \in 1..m |-> IF k < i THEN f[k] ELSE f[k + 1]]
  <2>1. ASSUME NEW k \in 1..m PROVE Offer(c[k], o) = IF k < i THEN f[k] ELSE f[k + 1]
    BY <1>4, <1>6, <1>7
  <2> QED BY <1>7, <2>1
<1>9. SumFunction([k \in 1..m |-> IF k < i THEN f[k] ELSE f[k + 1]]) = SumFunction(f) - f[i]
  BY <1>4, <1>6, SumRemoved
<1>10. Offers(c, o) = Offers(b, o) - Offer(b[i], o)
  <2>1. Offers(c, o) = SumFunction([k \in 1..m |-> IF k < i THEN f[k] ELSE f[k + 1]])
    BY <1>8 DEF Offers
  <2> QED BY <1>4, <1>9, <2>1
<1>11. From(c, b)
  <2>1. ASSUME NEW k \in 1..m PROVE k \in 1..n /\ k + 1 \in 1..n /\ (c[k] = b[k] \/ c[k] = b[k + 1])
    BY <1>6, <1>7
  <2> QED BY <1>4, <1>7, <2>1 DEF From
<1> QED BY <1>1, <1>7, <1>10, <1>11

\* What is taken from one order is offered no more; nobody else comes in.
LEMMA OffersConsume ==
  ASSUME NEW b \in Seq(Rests), NEW o \in Posts, NEW i \in DOMAIN b, Offered(b[i], o),
         NEW q \in 1..b[i].size
  PROVE  /\ Book!Consume(b, i, q) \in Seq(Rests) /\ From(Book!Consume(b, i, q), b)
         /\ Offers(Book!Consume(b, i, q), o) = Offers(b, o) - q
<1>1. PICK c : c = Book!Consume(b, i, q)
  OBVIOUS
<1>2. PICK n : n = Len(b)
  OBVIOUS
<1>3. PICK f : f = [k \in DOMAIN b |-> Offer(b[k], o)]
  OBVIOUS
<1>4. /\ DOMAIN b = 1..n /\ n \in Nat /\ IsFiniteSet(1..n) /\ \A k \in 1..n : b[k] \in Rests
      /\ f \in [1..n -> Nat] /\ f \in [1..n -> Int] /\ Offers(b, o) = SumFunction(f) /\ i \in 1..n
      /\ \A k \in 1..n : f[k] = Offer(b[k], o)
  <2>1. /\ DOMAIN b = 1..n /\ n \in Nat /\ IsFiniteSet(1..n) /\ \A k \in 1..n : b[k] \in Rests
        /\ f \in [1..n -> Nat]
    BY <1>2, <1>3, OffersAre
  <2>2. Offers(b, o) = SumFunction(f)
    BY <1>3 DEF Offers
  <2>3. f \in [1..n -> Int] /\ \A k \in 1..n : f[k] = Offer(b[k], o)
    BY <1>3, <2>1
  <2> QED BY <2>1, <2>2, <2>3
<1>5. b[i] \in Posts /\ b[i].size \in Nat /\ q \in Nat \ {0} /\ q <= b[i].size /\ f[i] = b[i].size
  BY <1>4, OfferType DEF Rests, Posts
<1>6. CASE q = b[i].size
  <2>1. c = RemoveAt(b, i)
    BY <1>1, <1>6 DEF Book!Consume, Book!RemoveAt, RemoveAt
  <2>2. Offer(b[i], o) = q
    BY <1>4, <1>5, <1>6
  <2> QED BY <1>1, <2>1, <2>2, OffersRemove
<1>7. CASE q # b[i].size
  <2>1. PICK z : z = b[i].size - q
    OBVIOUS
  <2>2. z \in Nat \ {0}
    BY <1>5, <1>7, <2>1
  <2>3. Book!SizeStr(z) = z
    BY <2>2, WholeSizes
  <2>4. PICK r : r = [b[i] EXCEPT !.size = z]
    OBVIOUS
  <2>5. r \in Rests /\ r.size = z /\ r.by = b[i].by /\ r.side = b[i].side /\ r.price = b[i].price
    BY <1>5, <2>2, <2>4, LessIs
  <2>6. c = [b EXCEPT ![i] = r]
    BY <1>1, <1>7, <2>1, <2>3, <2>4 DEF Book!Consume
  <2>7. c \in Seq(Rests) /\ DOMAIN c = 1..n /\ c[i] = r /\ \A k \in 1..n : k # i => c[k] = b[k]
    BY <1>4, <2>5, <2>6, ExceptSeq
  <2>8. Offer(r, o) = z
    BY <2>5 DEF Offer, Offered
  <2>9. [k \in DOMAIN c |-> Offer(c[k], o)] = [f EXCEPT ![i] = z]
    BY <1>4, <2>7, <2>8
  <2>10. SumFunction([f EXCEPT ![i] = z]) = SumFunction(f) - f[i] + z
    <3>1. PICK S : S = 1..n
      OBVIOUS
    <3>2. IsFiniteSet(S) /\ f \in [S -> Int] /\ i \in S /\ z \in Int
      BY <1>4, <2>2, <3>1
    <3> QED BY <3>2, SumChanged
  <2>11. Offers(c, o) = Offers(b, o) - q
    <3>1. Offers(b, o) \in Nat
      BY OffersAre
    <3> QED BY <1>4, <1>5, <2>1, <2>9, <2>10, <3>1 DEF Offers
  <2>12. From(c, b)
    BY <1>4, <2>5, <2>7 DEF From
  <2> QED BY <1>1, <2>7, <2>11, <2>12
<1> QED BY <1>6, <1>7

\* pickMakerForTaker finds somebody as long as anything is offered.
LEMMA MatchesOffered ==
  ASSUME NEW b \in Seq(Rests), NEW o \in Posts
  PROVE  /\ \A i \in Book!Matches(b, o) : i \in DOMAIN b /\ Offered(b[i], o)
         /\ Book!Matches(b, o) = {} => Offers(b, o) = 0 /\ \A i \in DOMAIN b : ~ Offered(b[i], o)
<1>1. /\ DOMAIN b = 1..Len(b) /\ Len(b) \in Nat /\ IsFiniteSet(DOMAIN b)
      /\ \A k \in DOMAIN b : b[k] \in Rests
      /\ [k \in DOMAIN b |-> Offer(b[k], o)] \in [1..Len(b) -> Nat]
  BY OffersAre
<1>2. \A i \in Book!Matches(b, o) : i \in DOMAIN b /\ Offered(b[i], o)
  BY DEF Book!Matches, Book!Makers, Book!Eligible, Offered
<1>3. PICK E : E = Book!Eligible(b, o)
  OBVIOUS
<1>4. E = {i \in DOMAIN b : Offered(b[i], o)}
  BY <1>1, <1>3 DEF Book!Eligible, Offered, Rests, Posts
<1>5. ASSUME E # {} PROVE Book!Matches(b, o) # {}
  <2> DEFINE R == {x \in E \X E : \/ Book!Better(b[x[1]].side, b[x[1]].price, b[x[2]].price)
                                  \/ b[x[1]].price = b[x[2]].price /\ x[1] < x[2]}
  <2>1. IsFiniteSet(E) /\ E \subseteq Nat
    BY <1>1, <1>4, FS_Subset
  <2>2. PICK s : s = Book!Opposite(o.side)
    OBVIOUS
  <2>3. \A i \in E : b[i].side = s /\ b[i].price \in Nat /\ b[i].size > 0
    BY <1>1, <1>4, <2>2 DEF Offered, Rests, Posts
  <2>4. \A x, y \in E : <<x, y>> \in R <=> \/ Book!Better(s, b[x].price, b[y].price)
                                           \/ b[x].price = b[y].price /\ x < y
    BY <2>3
  <2>5. \A x \in E : <<x, x>> \notin R
    BY <2>1, <2>3, <2>4 DEF Book!Better
  <2>6. \A x, y, z \in E : <<x, y>> \in R /\ <<y, z>> \in R => <<x, z>> \in R
    <3> HIDE DEF R
    <3> QED BY <2>1, <2>3, <2>4 DEF Book!Better
  <2>7. PICK x \in E : \A y \in E : <<y, x>> \notin R
    <3> HIDE DEF R
    <3> QED BY <1>5, <2>1, <2>5, <2>6, MinimalOf
  <2>8. \A y \in E \ {x} : \/ Book!Better(s, b[x].price, b[y].price)
                           \/ b[x].price = b[y].price /\ x < y
    <3> HIDE DEF R
    <3>1. ASSUME NEW y \in E \ {x}
          PROVE  \/ Book!Better(s, b[x].price, b[y].price)
                 \/ b[x].price = b[y].price /\ x < y
      <4>1. <<y, x>> \notin R
        BY <2>7
      <4>2. ~ Book!Better(s, b[y].price, b[x].price) /\ ~ (b[y].price = b[x].price /\ y < x)
        BY <2>4, <4>1
      <4>3. x \in Nat /\ y \in Nat /\ x # y /\ b[x].price \in Nat /\ b[y].price \in Nat
        BY <2>1, <2>3
      <4> QED BY <4>2, <4>3 DEF Book!Better
    <3> QED BY <3>1
  <2>9. x \in Book!Matches(b, o)
    BY <1>3, <2>3, <2>8 DEF Book!Matches, Book!Makers
  <2> QED BY <2>9
<1>6. ASSUME E = {} PROVE Offers(b, o) = 0
  <2>1. PICK f : f = [k \in DOMAIN b |-> Offer(b[k], o)]
    OBVIOUS
  <2>2. f \in [1..Len(b) -> Int] /\ \A k \in 1..Len(b) : f[k] = 0
    BY <1>1, <1>4, <1>6, <2>1 DEF Offer
  <2>3. SumFunction(f) = 0
    BY <1>1, <2>2, SumOfZeros
  <2> QED BY <2>1, <2>3 DEF Offers
<1> QED BY <1>2, <1>4, <1>5, <1>6

\* pickBestLongAndShort finds the best of a side that is not empty.
LEMMA BestStands ==
  ASSUME NEW b \in Seq(Rests), NEW side \in Book!Sides, NEW k \in DOMAIN b, b[k].side = side
  PROVE  \E i \in Book!Bests(b, "ADA", side) :
           i \in DOMAIN b /\ b[i].side = side /\ ~ Book!Better(side, b[k].price, b[i].price)
<1> DEFINE S == {i \in DOMAIN b : b[i].pair = "ADA" /\ b[i].side = side}
           Ahead(i, j) == \/ Book!Better(side, b[i].price, b[j].price)
                          \/ /\ b[i].price = b[j].price
                             /\ \/ b[i].at < b[j].at
                                \/ b[i].at = b[j].at /\ i < j
           R == {x \in S \X S : Ahead(x[1], x[2])}
<1>0. /\ DOMAIN b = 1..Len(b) /\ Len(b) \in Nat /\ IsFiniteSet(DOMAIN b)
      /\ \A i \in DOMAIN b : b[i] \in Rests
  <2>1. DOMAIN b = 1..Len(b) /\ Len(b) \in Nat
    BY LenProperties
  <2>2. \A i \in DOMAIN b : b[i] \in Rests
    BY ElementOfSeq, <2>1
  <2>3. IsFiniteSet(DOMAIN b)
    BY <2>1, FS_Interval
  <2> QED BY <2>1, <2>2, <2>3
<1>1. ASSUME NEW i \in DOMAIN b PROVE i \in Nat /\ b[i].price \in Nat /\ b[i].at = 0 /\ b[i].pair = "ADA"
  BY <1>0 DEF Rests, Posts
<1>2. ASSUME NEW x \in S, NEW y \in S PROVE <<x, y>> \in R <=> Ahead(x, y)
  OBVIOUS
<1>3. ASSUME NEW x \in S PROVE ~ Ahead(x, x)
  BY <1>1 DEF Book!Better
<1>4. ASSUME NEW x \in S, NEW y \in S, NEW z \in S, Ahead(x, y), Ahead(y, z) PROVE Ahead(x, z)
  BY <1>1, <1>4 DEF Book!Better
<1>5. ASSUME NEW x \in S, NEW y \in S, x # y, ~ Ahead(y, x) PROVE Ahead(x, y)
  BY <1>1, <1>5 DEF Book!Better
<1>6. IsFiniteSet(S) /\ k \in S
  <2>1. S \in SUBSET (DOMAIN b) /\ k \in S
    BY <1>1
  <2> HIDE DEF S
  <2> QED BY <1>0, <2>1, FS_Subset
<1>7. Book!Bests(b, "ADA", side) = {i \in S : \A j \in S \ {i} : Ahead(i, j)}
  BY DEF Book!Bests
<1>8. \E i \in S : \A j \in S : <<j, i>> \notin R
  <2>1. \A x \in S : <<x, x>> \notin R
    BY <1>2, <1>3
  <2>2. \A x, y, z \in S : <<x, y>> \in R /\ <<y, z>> \in R => <<x, z>> \in R
    <3> HIDE DEF Ahead, S
    <3> QED BY <1>2, <1>4
  <2> HIDE DEF R, S
  <2> QED BY <1>6, <2>1, <2>2, MinimalOf
<1>9. PICK i \in S : \A j \in S : ~ Ahead(j, i)
  BY <1>2, <1>8
<1>10. i \in Book!Bests(b, "ADA", side)
  <2> HIDE DEF S, Ahead
  <2> QED BY <1>5, <1>7, <1>9
<1>11. ~ Book!Better(side, b[k].price, b[i].price)
  BY <1>6, <1>9
<1> QED BY <1>9, <1>10, <1>11

\* Where the sweep finds no cross there is none.
LEMMA SweptClean ==
  ASSUME NEW b \in Seq(Rests), Book!Crosses(b, "ADA") = {}
  PROVE  Uncrossed(b)
<1>1. \A i \in DOMAIN b : b[i] \in Rests
  BY LenProperties, ElementOfSeq
<1>2. ASSUME NEW l \in DOMAIN b, NEW s \in DOMAIN b, b[l].side = "long", b[s].side = "short",
             b[l].price >= b[s].price
      PROVE  FALSE
  <2>1. PICK i \in Book!Bests(b, "ADA", "long") :
          i \in DOMAIN b /\ b[i].side = "long" /\ ~ Book!Better("long", b[l].price, b[i].price)
    BY <1>2, BestStands DEF Book!Sides
  <2>2. PICK j \in Book!Bests(b, "ADA", "short") :
          j \in DOMAIN b /\ b[j].side = "short" /\ ~ Book!Better("short", b[s].price, b[j].price)
    BY <1>2, BestStands DEF Book!Sides
  <2>3. /\ b[l].price \in Nat /\ b[s].price \in Nat /\ b[i].price \in Nat /\ b[j].price \in Nat
        /\ b[i].size > 0 /\ b[j].size > 0
    BY <1>1, <2>1, <2>2 DEF Rests, Posts
  <2>4. b[i].price >= b[j].price
    BY <1>2, <2>1, <2>2, <2>3 DEF Book!Better
  <2>5. <<i, j>> \in Book!Crosses(b, "ADA")
    BY <2>1, <2>2, <2>3, <2>4 DEF Book!Crosses
  <2> QED BY <2>5
<1>3. ASSUME NEW i \in DOMAIN b, NEW j \in DOMAIN b, Offered(b[j], b[i]) PROVE FALSE
  <2>1. b[i] \in Posts /\ b[j] \in Posts
    BY <1>1 DEF Rests
  <2>2. CASE b[i].side = "long"
    BY <1>2, <1>3, <2>1, <2>2 DEF Offered, Posts, Book!Opposite, Book!Better
  <2>3. CASE b[i].side = "short"
    BY <1>2, <1>3, <2>1, <2>3 DEF Offered, Posts, Book!Opposite, Book!Better
  <2> QED BY <2>1, <2>2, <2>3 DEF Posts, Book!Sides
<1> QED BY <1>3 DEF Uncrossed

\* The book without two of its orders.
LEMMA WithoutTwo ==
  ASSUME NEW b \in Seq(Rests), NEW x \in DOMAIN b, NEW y \in DOMAIN b, x < y
  PROVE  LET c == RemoveAt(RemoveAt(b, y), x)
         IN  /\ c \in Seq(Rests)
             /\ \A m \in DOMAIN c : \E k \in DOMAIN b \ {x, y} : c[m] = b[k]
             /\ \A o \in Posts : Offers(c, o) = Offers(b, o) - Offer(b[x], o) - Offer(b[y], o)
<1>1. PICK a : a = RemoveAt(b, y)
  OBVIOUS
<1>2. PICK c : c = RemoveAt(a, x)
  OBVIOUS
<1>3. PICK n : n = Len(b)
  OBVIOUS
<1>4. n \in Nat /\ DOMAIN b = 1..n /\ x \in 1..n /\ y \in 1..n /\ \A k \in DOMAIN b : b[k] \in Rests
  BY <1>3, LenProperties, ElementOfSeq
<1>5. /\ a \in Seq(Rests) /\ Len(a) = n - 1 /\ DOMAIN a = 1..n - 1
      /\ \A k \in 1..n - 1 : a[k] = IF k < y THEN b[k] ELSE b[k + 1]
  <2>1. /\ a \in Seq(Rests) /\ Len(a) = n - 1
        /\ \A k \in 1..n - 1 : a[k] = IF k < y THEN b[k] ELSE b[k + 1]
    BY <1>1, <1>3, <1>4, RemoveAtIs
  <2> QED BY <2>1, LenProperties
<1>6. x \in DOMAIN a /\ a[x] = b[x]
  BY <1>4, <1>5
<1>7. /\ c \in Seq(Rests) /\ DOMAIN c = 1..n - 2
      /\ \A k \in 1..n - 2 : c[k] = IF k < x THEN a[k] ELSE a[k + 1]
  <2>1. x \in 1..Len(a) /\ Len(a) - 1 = n - 2
    BY <1>4, <1>5, <1>6
  <2>2. /\ c \in Seq(Rests) /\ Len(c) = Len(a) - 1
        /\ \A k \in 1..Len(a) - 1 : c[k] = IF k < x THEN a[k] ELSE a[k + 1]
    BY <1>2, <1>5, <2>1, RemoveAtIs
  <2>3. Len(c) = n - 2 /\ DOMAIN c = 1..Len(c)
    BY <2>1, <2>2, LenProperties
  <2> QED BY <2>1, <2>2, <2>3
<1>8. ASSUME NEW m \in DOMAIN c PROVE \E k \in DOMAIN b \ {x, y} : c[m] = b[k]
  <2>1. CASE m < x
    <3>1. m \in 1..n - 1 /\ m \in DOMAIN b \ {x, y} /\ c[m] = a[m] /\ a[m] = b[m]
      BY <1>4, <1>5, <1>7, <2>1
    <3> QED BY <3>1
  <2>2. CASE m >= x /\ m + 1 < y
    <3>1. m + 1 \in 1..n - 1 /\ m + 1 \in DOMAIN b \ {x, y} /\ c[m] = a[m + 1] /\ a[m + 1] = b[m + 1]
      BY <1>4, <1>5, <1>7, <2>2
    <3> QED BY <3>1
  <2>3. CASE m >= x /\ m + 1 >= y
    <3>1. m + 1 \in 1..n - 1 /\ m + 1 + 1 \in DOMAIN b \ {x, y} /\ c[m] = a[m + 1] /\ a[m + 1] = b[m + 1 + 1]
      BY <1>4, <1>5, <1>7, <2>3
    <3> QED BY <3>1
  <2> QED BY <1>4, <1>7, <2>1, <2>2, <2>3
<1>9. ASSUME NEW o \in Posts PROVE Offers(c, o) = Offers(b, o) - Offer(b[x], o) - Offer(b[y], o)
  <2>1. Offers(a, o) = Offers(b, o) - Offer(b[y], o)
    BY <1>1, OffersRemove
  <2>2. Offers(c, o) = Offers(a, o) - Offer(a[x], o)
    BY <1>2, <1>5, <1>6, OffersRemove
  <2>3. Offers(b, o) \in Nat /\ Offer(b[x], o) \in Nat /\ Offer(b[y], o) \in Nat
    BY <1>4, OffersAre, OfferType
  <2> QED BY <1>6, <2>1, <2>2, <2>3
<1> QED BY <1>1, <1>2, <1>7, <1>8, <1>9

\* What an order is offered depends on its limit alone.
LEMMA OffersSameLimit ==
  ASSUME NEW b, NEW o, NEW p, p.side = o.side, p.price = o.price
  PROVE  Offers(b, p) = Offers(b, o)
<1>1. \A m : Offer(m, p) = Offer(m, o)
  BY DEF Offer, Offered
<1> QED BY <1>1 DEF Offers

\* A book with one more order, at its end.
LEMMA OneMore ==
  ASSUME NEW b \in Seq(Rests), NEW r \in Rests
  PROVE  /\ Append(b, r) \in Seq(Rests) /\ DOMAIN b = 1..Len(b) /\ Len(b) \in Nat
         /\ DOMAIN Append(b, r) = DOMAIN b \cup {Len(b) + 1} /\ Len(b) + 1 \notin DOMAIN b
         /\ Append(b, r)[Len(b) + 1] = r /\ \A k \in DOMAIN b : Append(b, r)[k] = b[k]
<1>1. /\ Append(b, r) \in Seq(Rests) /\ Len(Append(b, r)) = Len(b) + 1
      /\ \A k \in 1..Len(b) : Append(b, r)[k] = b[k]
      /\ Append(b, r)[Len(b) + 1] = r
  BY AppendIs
<1>2. DOMAIN b = 1..Len(b) /\ Len(b) \in Nat /\ DOMAIN Append(b, r) = 1..Len(b) + 1
  BY <1>1, LenProperties
<1>3. 1..Len(b) + 1 = (1..Len(b)) \cup {Len(b) + 1} /\ Len(b) + 1 \notin 1..Len(b)
  BY <1>2
<1> QED BY <1>1, <1>2, <1>3

\* An order that is not the bot's comes to rest.
LEMMA OthersRest ==
  ASSUME NEW b \in Seq(Rests), NEW r \in Rests, r.by # "bot"
  PROVE  /\ NotOfTheBot(b) => NotOfTheBot(Append(b, r))
         /\ (\A k \in DOMAIN b : ~ Offered(b[k], r)) =>
               /\ Calm(b) => Calm(Append(b, r))
               /\ Swept(b) => Swept(Append(b, r))
<1>1. PICK c : c = Append(b, r)
  OBVIOUS
<1>2. PICK n : n = Len(b) + 1
  OBVIOUS
<1>3. /\ DOMAIN c = DOMAIN b \cup {n} /\ n \notin DOMAIN b /\ c[n] = r
      /\ \A k \in DOMAIN b : c[k] = b[k] /\ b[k] \in Rests
  BY <1>1, <1>2, OneMore, OffersAre, LenProperties, ElementOfSeq
<1>4. NotOfTheBot(b) => NotOfTheBot(c)
  BY <1>3 DEF NotOfTheBot
<1>5. ASSUME \A k \in DOMAIN b : ~ Offered(b[k], r),
             NEW i \in DOMAIN c, NEW j \in DOMAIN c, Offered(c[j], c[i])
      PROVE  i \in DOMAIN b /\ j \in DOMAIN b /\ Offered(b[j], b[i])
  <2>1. ~ Offered(r, r)
    BY DEF Offered, Rests, Posts, Book!Sides, Book!Opposite
  <2>2. \A k \in DOMAIN b : ~ Offered(r, b[k])
    BY <1>3, <1>5, OfferedBothWays DEF Rests
  <2> QED BY <1>3, <1>5, <2>1, <2>2
<1>6. ASSUME \A k \in DOMAIN b : ~ Offered(b[k], r), Calm(b) PROVE Calm(c)
  BY <1>4, <1>5, <1>6 DEF Calm, Uncrossed
<1>7. ASSUME \A k \in DOMAIN b : ~ Offered(b[k], r), Swept(b) PROVE Swept(c)
  <2>1. ASSUME NEW k \in DOMAIN c, c[k].by = "bot"
        PROVE  k \in DOMAIN b /\ b[k].by = "bot" /\ c[k] = b[k]
    BY <1>3, <2>1
  <2>2. ASSUME NEW k \in DOMAIN c, c[k].by = "bot"
        PROVE  CrossedBy(c, k) /\ Offers(c, c[k]) >= c[k].size
    <3>1. k \in DOMAIN b /\ c[k] = b[k] /\ CrossedBy(b, k) /\ Offers(b, b[k]) >= b[k].size
      BY <1>7, <2>1, <2>2 DEF Swept
    <3>2. CrossedBy(c, k)
      BY <1>5, <1>7, <3>1 DEF CrossedBy
    <3>3. b[k] \in Posts /\ b[k].size \in Nat
      BY <1>3, <3>1 DEF Rests, Posts
    <3>4. Offers(c, b[k]) >= Offers(b, b[k]) /\ Offers(b, b[k]) \in Nat /\ Offers(c, b[k]) \in Nat
      BY <1>1, <3>3, OffersAppend, OffersAre, OneMore
    <3> QED BY <3>1, <3>2, <3>3, <3>4
  <2>3. \A k, m \in DOMAIN c : c[k].by = "bot" /\ c[m].by = "bot" => k = m
    BY <1>7, <2>1 DEF Swept
  <2> QED BY <2>2, <2>3 DEF Swept
<1> QED BY <1>1, <1>4, <1>6, <1>7

\* What the pipeline left of the bot's order comes to rest: it crosses.
LEMMA RemainderRests ==
  ASSUME NEW b \in Seq(Rests), NEW r \in Rests, r.by = "bot", NotOfTheBot(b), Offers(b, r) >= r.size,
         Uncrossed(b)
  PROVE  Swept(Append(b, r))
<1>1. PICK c : c = Append(b, r)
  OBVIOUS
<1>2. PICK n : n = Len(b) + 1
  OBVIOUS
<1>3. /\ DOMAIN c = DOMAIN b \cup {n} /\ n \notin DOMAIN b /\ c[n] = r
      /\ \A k \in DOMAIN b : c[k] = b[k]
  BY <1>1, <1>2, OneMore
<1>4. \A k \in DOMAIN c : c[k].by = "bot" => k = n
  BY <1>3 DEF NotOfTheBot
<1>5. CrossedBy(c, n)
  BY <1>3 DEF CrossedBy, Uncrossed
<1>6. r \in Posts /\ r.size \in Nat
  BY DEF Rests, Posts
<1>7. Offers(c, r) >= Offers(b, r) /\ Offers(b, r) \in Nat /\ Offers(c, r) \in Nat
  BY <1>1, <1>6, OffersAppend, OffersAre, OneMore
<1>8. Offers(c, c[n]) >= c[n].size
  BY <1>3, <1>6, <1>7
<1> QED BY <1>1, <1>4, <1>5, <1>8 DEF Swept

\* A book that is swept, and has no cross left, is calm.
LEMMA SweptIsCalm ==
  ASSUME NEW b \in Seq(Rests), Swept(b), Uncrossed(b)
  PROVE  Calm(b)
<1>1. ASSUME NEW k \in DOMAIN b, b[k].by = "bot" PROVE FALSE
  <2>1. b[k] \in Rests /\ Offers(b, b[k]) >= b[k].size
    BY <1>1, LenProperties, ElementOfSeq DEF Swept
  <2>2. b[k] \in Posts /\ b[k].size \in Nat \ {0}
    BY <2>1 DEF Rests, Posts
  <2>3. PICK o : o = b[k]
    OBVIOUS
  <2>4. \A i \in DOMAIN b : ~ Offered(b[i], o)
    BY <1>1, <2>3 DEF Uncrossed
  <2>5. Book!Matches(b, o) = {}
    BY <2>2, <2>3, <2>4, MatchesOffered
  <2>6. Offers(b, o) = 0
    BY <2>2, <2>3, <2>5, MatchesOffered
  <2> QED BY <2>1, <2>2, <2>3, <2>6
<1> QED BY <1>1 DEF Calm, NotOfTheBot

\* Book b without its orders at l and s is c, and what is left of the larger
\* one of them, if anything, is put at the end of it.
CrossedTo(b, l, s, c) ==
  /\ \A m \in DOMAIN c : \E k \in DOMAIN b \ {l, s} : c[m] = b[k]
  /\ \A o \in Posts : Offers(c, o) = Offers(b, o) - Offer(b[l], o) - Offer(b[s], o)
  /\ \/ Book!Cross(b, l, s) = c
     \/ \E k, j \in {l, s}, z \in Nat \ {0} :
          /\ k # j /\ z = b[k].size - b[j].size
          /\ Book!Cross(b, l, s) = Append(c, [b[k] EXCEPT !.size = z])

\* matchRestingCrossOnce takes two orders of two sides that cross.
LEMMA CrossIs ==
  ASSUME NEW b \in Seq(Rests), NEW l, NEW s, <<l, s>> \in Book!Crosses(b, "ADA")
  PROVE  /\ l \in DOMAIN b /\ s \in DOMAIN b /\ l # s
         /\ Offered(b[l], b[s]) /\ Offered(b[s], b[l])
         /\ \E c \in Seq(Rests) : CrossedTo(b, l, s, c)
<1>3. /\ l \in DOMAIN b /\ s \in DOMAIN b /\ b[l].side = "long" /\ b[s].side = "short"
      /\ b[l].price >= b[s].price
  BY DEF Book!Crosses, Book!Bests
<1>4. /\ DOMAIN b = 1..Len(b) /\ Len(b) \in Nat /\ l # s
      /\ b[l] \in Posts /\ b[l].size \in Nat \ {0} /\ b[l].price \in Nat
      /\ b[s] \in Posts /\ b[s].size \in Nat \ {0} /\ b[s].price \in Nat
  <2>1. DOMAIN b = 1..Len(b) /\ Len(b) \in Nat
    BY LenProperties
  <2>2. b[l] \in Rests /\ b[s] \in Rests
    BY <1>3, <2>1, ElementOfSeq
  <2> QED BY <1>3, <2>1, <2>2 DEF Rests, Posts
<1>5. Offered(b[l], b[s]) /\ Offered(b[s], b[l])
  BY <1>3, <1>4 DEF Offered, Book!Opposite, Book!Better
<1>6. PICK c : c = IF l < s THEN RemoveAt(RemoveAt(b, s), l) ELSE RemoveAt(RemoveAt(b, l), s)
  OBVIOUS
<1>7. /\ c \in Seq(Rests) /\ \A m \in DOMAIN c : \E k \in DOMAIN b \ {l, s} : c[m] = b[k]
      /\ \A o \in Posts : Offers(c, o) = Offers(b, o) - Offer(b[l], o) - Offer(b[s], o)
  <2>1. CASE l < s
    BY <1>3, <1>6, <2>1, WithoutTwo
  <2>2. CASE ~ l < s
    <3>1. s < l
      BY <1>3, <1>4, <2>2
    <3>2. c = RemoveAt(RemoveAt(b, l), s)
      BY <1>6, <2>2
    <3>3. /\ c \in Seq(Rests) /\ \A m \in DOMAIN c : \E k \in DOMAIN b \ {s, l} : c[m] = b[k]
          /\ \A o \in Posts : Offers(c, o) = Offers(b, o) - Offer(b[s], o) - Offer(b[l], o)
      BY <1>3, <3>1, <3>2, WithoutTwo
    <3>4. \A o \in Posts : Offers(b, o) \in Nat /\ Offer(b[s], o) \in Nat /\ Offer(b[l], o) \in Nat
      <4>1. b[l] \in Rests /\ b[s] \in Rests
        BY <1>4 DEF Rests
      <4> QED BY <4>1, OffersAre, OfferType
    <3>5. \A o \in Posts : Offers(c, o) = Offers(b, o) - Offer(b[l], o) - Offer(b[s], o)
      BY <3>3, <3>4
    <3> QED BY <3>3, <3>5
  <2> QED BY <2>1, <2>2
<1>8. PICK q : q = Book!Smaller(b[l].size, b[s].size)
  OBVIOUS
<1>9. Book!Cross(b, l, s) = c \o Book!Rest(b[l], q) \o Book!Rest(b[s], q)
  BY <1>6, <1>8 DEF Book!Cross, Book!RemoveAt, RemoveAt
<1>10. ASSUME NEW k \in {l, s}, q = b[k].size PROVE Book!Rest(b[k], q) = <<>>
  BY <1>4, <1>10 DEF Book!Rest
<1>11. ASSUME NEW k \in {l, s}, NEW z \in Nat \ {0}, z = b[k].size - q, q \in Nat
       PROVE  Book!Rest(b[k], q) = <<[b[k] EXCEPT !.size = z]>> /\ [b[k] EXCEPT !.size = z] \in Rests
  <2>1. b[k] \in Posts /\ b[k].size > q
    BY <1>4, <1>11
  <2>2. Book!SizeStr(z) = z
    BY <1>11, WholeSizes
  <2>3. Book!Rest(b[k], q) = <<[b[k] EXCEPT !.size = z]>>
    BY <1>11, <2>1, <2>2 DEF Book!Rest
  <2> QED BY <1>11, <2>1, <2>3, LessIs
<1>12. \/ Book!Cross(b, l, s) = c
       \/ \E k, j \in {l, s}, z \in Nat \ {0} :
            /\ k # j /\ z = b[k].size - b[j].size
            /\ Book!Cross(b, l, s) = Append(c, [b[k] EXCEPT !.size = z])
  <2>1. CASE b[l].size = b[s].size
    <3>1. q = b[l].size /\ q = b[s].size
      BY <1>8, <2>1 DEF Book!Smaller
    <3>2. Book!Rest(b[l], q) = <<>> /\ Book!Rest(b[s], q) = <<>>
      BY <1>10, <3>1
    <3> QED BY <1>7, <1>9, <3>2, ConcatEmptySeq
  <2>2. CASE b[l].size < b[s].size
    <3>1. q = b[l].size /\ q \in Nat
      BY <1>4, <1>8, <2>2 DEF Book!Smaller
    <3>2. PICK z \in Nat \ {0} : z = b[s].size - q
      BY <1>4, <2>2, <3>1
    <3>3. Book!Rest(b[l], q) = <<>>
      BY <1>10, <3>1
    <3>4. Book!Rest(b[s], q) = <<[b[s] EXCEPT !.size = z]>> /\ [b[s] EXCEPT !.size = z] \in Rests
      BY <1>11, <3>1, <3>2
    <3>5. Book!Cross(b, l, s) = Append(c, [b[s] EXCEPT !.size = z])
      BY <1>7, <1>9, <3>3, <3>4, ConcatEmptySeq, AppendIsConcat
    <3> QED BY <1>4, <3>1, <3>2, <3>5
  <2>3. CASE b[s].size < b[l].size
    <3>1. q = b[s].size /\ q \in Nat
      BY <1>4, <1>8, <2>3 DEF Book!Smaller
    <3>2. PICK z \in Nat \ {0} : z = b[l].size - q
      BY <1>4, <2>3, <3>1
    <3>3. Book!Rest(b[s], q) = <<>>
      BY <1>10, <3>1
    <3>4. Book!Rest(b[l], q) = <<[b[l] EXCEPT !.size = z]>> /\ [b[l] EXCEPT !.size = z] \in Rests
      BY <1>11, <3>1, <3>2
    <3>6. Append(c, [b[l] EXCEPT !.size = z]) \in Seq(Rests)
      BY <1>7, <3>4, AppendIs
    <3>5. Book!Cross(b, l, s) = Append(c, [b[l] EXCEPT !.size = z])
      BY <1>7, <1>9, <3>3, <3>4, <3>6, ConcatEmptySeq, AppendIsConcat
    <3> QED BY <1>4, <3>1, <3>2, <3>5
  <2>4. b[l].size = b[s].size \/ b[l].size < b[s].size \/ b[s].size < b[l].size
    BY <1>4
  <2> QED BY <2>1, <2>2, <2>3, <2>4
<1> QED BY <1>3, <1>4, <1>5, <1>7, <1>12 DEF CrossedTo

\* A cross that the sweep takes leaves of the bot's order what is still
\* offered, or nothing; the bot has not been on both sides of it.
LEMMA CrossLeaves ==
  ASSUME NEW b \in Seq(Rests), NEW l, NEW s, <<l, s>> \in Book!Crosses(b, "ADA")
  PROVE  /\ Book!Cross(b, l, s) \in Seq(Rests)
         /\ Swept(b) => Swept(Book!Cross(b, l, s)) /\ {b[l].by, b[s].by} # {"bot"}
<1>3. PICK d : d = Book!Cross(b, l, s)
  OBVIOUS
<1>4. l \in DOMAIN b /\ s \in DOMAIN b /\ l # s /\ Offered(b[l], b[s]) /\ Offered(b[s], b[l])
  BY CrossIs
<1>0. PICK c \in Seq(Rests) : CrossedTo(b, l, s, c)
  BY CrossIs
<1>5. /\ \A m \in DOMAIN c : \E k \in DOMAIN b \ {l, s} : c[m] = b[k]
      /\ \A o \in Posts : Offers(c, o) = Offers(b, o) - Offer(b[l], o) - Offer(b[s], o)
      /\ \/ Book!Cross(b, l, s) = c
         \/ \E k, j \in {l, s}, z \in Nat \ {0} :
              /\ k # j /\ z = b[k].size - b[j].size
              /\ Book!Cross(b, l, s) = Append(c, [b[k] EXCEPT !.size = z])
  BY <1>0 DEF CrossedTo
<1>6. \A k \in DOMAIN b : b[k] \in Rests /\ b[k] \in Posts /\ b[k].size \in Nat \ {0}
  <2>1. \A k \in DOMAIN b : b[k] \in Rests
    BY LenProperties, ElementOfSeq
  <2> QED BY <2>1 DEF Rests, Posts
<1>7. Swept(b) => {b[l].by, b[s].by} # {"bot"}
  BY <1>4 DEF Swept
<1>8. Swept(b) => NotOfTheBot(c)
  <2>1. ASSUME Swept(b), NEW m \in DOMAIN c, c[m].by = "bot" PROVE FALSE
    <3>1. PICK k \in DOMAIN b \ {l, s} : c[m] = b[k]
      BY <1>5
    <3>2. CrossedBy(b, k)
      BY <2>1, <3>1 DEF Swept
    <3> QED BY <1>4, <3>1, <3>2 DEF CrossedBy
  <2> QED BY <2>1 DEF NotOfTheBot
<1>9. CASE Book!Cross(b, l, s) = c
  BY <1>3, <1>7, <1>8, <1>9 DEF Swept, NotOfTheBot
<1>10. CASE \E k, j \in {l, s}, z \in Nat \ {0} :
              /\ k # j /\ z = b[k].size - b[j].size
              /\ Book!Cross(b, l, s) = Append(c, [b[k] EXCEPT !.size = z])
  <2>1. PICK k \in {l, s}, j \in {l, s}, z \in Nat \ {0} :
          k # j /\ z = b[k].size - b[j].size /\ d = Append(c, [b[k] EXCEPT !.size = z])
    BY <1>3, <1>10
  <2>2. PICK r : r = [b[k] EXCEPT !.size = z]
    OBVIOUS
  <2>3. r \in Rests /\ r.size = z /\ r.by = b[k].by /\ r.side = b[k].side /\ r.price = b[k].price
    BY <1>4, <1>6, <2>2, LessIs
  <2>4. PICK n : n = Len(c) + 1
    OBVIOUS
  <2>5. /\ d = Append(c, r) /\ d \in Seq(Rests) /\ DOMAIN d = DOMAIN c \cup {n} /\ n \notin DOMAIN c
        /\ d[n] = r /\ \A m \in DOMAIN c : d[m] = c[m]
    BY <2>1, <2>2, <2>3, <2>4, OneMore
  <2>6. ASSUME Swept(b), r.by # "bot" PROVE Swept(d)
    <3>1. NotOfTheBot(d)
      BY <1>8, <2>3, <2>5, <2>6, OthersRest
    <3> QED BY <3>1 DEF NotOfTheBot, Swept
  <2>7. ASSUME Swept(b), r.by = "bot" PROVE Swept(d)
    <3>1. CrossedBy(b, k) /\ Offers(b, b[k]) >= b[k].size
      BY <1>4, <2>3, <2>7 DEF Swept
    <3>2. Uncrossed(c)
      <4>1. ASSUME NEW m \in DOMAIN c, NEW i \in DOMAIN c, Offered(c[i], c[m]) PROVE FALSE
        <5>1. PICK m2 \in DOMAIN b \ {l, s} : c[m] = b[m2]
          BY <1>5
        <5>2. PICK i2 \in DOMAIN b \ {l, s} : c[i] = b[i2]
          BY <1>5
        <5> QED BY <3>1, <4>1, <5>1, <5>2 DEF CrossedBy
      <4> QED BY <4>1 DEF Uncrossed
    <3>3. Offers(c, r) >= r.size
      <4>1. PICK o : o = b[k]
        OBVIOUS
      <4>2. o \in Posts /\ b[j] \in Rests /\ Offered(b[j], o) /\ ~ Offered(b[k], o)
        <5>1. ~ Offered(b[k], b[k])
          BY <1>4, <1>6 DEF Offered, Posts, Book!Sides, Book!Opposite
        <5> QED BY <1>4, <1>6, <2>1, <4>1, <5>1
      <4>3. Offer(b[k], o) = 0 /\ Offer(b[j], o) = b[j].size
        BY <4>2 DEF Offer
      <4>4. Offers(b, o) \in Nat /\ b[j].size \in Nat /\ b[k].size \in Nat
        BY <1>4, <1>6, <4>2, OffersAre
      <4>5. Offers(c, o) = Offers(b, o) - Offer(b[l], o) - Offer(b[s], o)
        BY <1>5, <4>2
      <4>6. Offers(c, o) = Offers(b, o) - b[j].size
        BY <2>1, <4>3, <4>4, <4>5
      <4>7. Offers(c, r) = Offers(c, o)
        BY <2>3, <4>1, OffersSameLimit
      <4>8. Offers(b, o) >= b[k].size /\ r.size = b[k].size - b[j].size
        BY <2>1, <2>3, <3>1, <4>1
      <4> QED BY <4>4, <4>6, <4>7, <4>8
    <3> QED BY <1>8, <2>3, <2>5, <2>7, <3>2, <3>3, RemainderRests
  <2> QED BY <1>3, <1>7, <2>5, <2>6, <2>7
<1> QED BY <1>5, <1>9, <1>10

\* Max and Min of the prices of a side that is not empty.
LEMMA BestIsBest ==
  ASSUME resting \in Seq(Rests), NEW s \in Book!Sides
  PROVE  /\ Best(s) \in Nat
         /\ Best(s) = None <=> \A k \in DOMAIN resting : resting[k].side # s
         /\ \A k \in DOMAIN resting : resting[k].side = s => ~ Book!Better(s, resting[k].price, Best(s))
         /\ Best(s) # None => \E k \in DOMAIN resting : resting[k].side = s /\ resting[k].price = Best(s)
<1>1. PICK P : P = {o.price : o \in {p \in Range(resting) : p.side = s}}
  OBVIOUS
<1>2. DOMAIN resting = 1..Len(resting) /\ Len(resting) \in Nat /\ \A k \in DOMAIN resting : resting[k] \in Rests
  BY OffersAre, LenProperties, ElementOfSeq
<1>3. P = {resting[k].price : k \in {j \in DOMAIN resting : resting[j].side = s}}
  BY <1>1 DEF Range
<1>4. P \subseteq Nat \ {0} /\ IsFiniteSet(P)
  <2>1. PICK J : J = {j \in DOMAIN resting : resting[j].side = s}
    OBVIOUS
  <2>2. IsFiniteSet(1..Len(resting))
    BY <1>2, FS_Interval
  <2>3. IsFiniteSet(J)
    BY <1>2, <2>1, <2>2, FS_Subset
  <2>4. PICK g : g = [k \in J |-> resting[k].price]
    OBVIOUS
  <2>5. g \in Surjection(J, P)
    <3>1. g \in [J -> P] /\ \A x \in P : \E k \in J : g[k] = x
      BY <1>3, <2>1, <2>4
    <3> QED BY <3>1 DEF Surjection
  <2>6. \A k \in DOMAIN resting : resting[k].price \in Nat \ {0}
    BY <1>2 DEF Rests, Posts
  <2>7. IsFiniteSet(P)
    BY <2>3, <2>5, FS_Surjection
  <2>8. P \subseteq Nat \ {0}
    BY <1>3, <2>6
  <2> QED BY <2>7, <2>8
<1>5. Best(s) = IF P = {} THEN None ELSE IF s = "long" THEN Max(P) ELSE Min(P)
  BY <1>1 DEF Best
<1>6. CASE P = {}
  <2>1. Best(s) = 0
    BY <1>5, <1>6 DEF None
  <2>2. \A k \in DOMAIN resting : resting[k].side # s
    BY <1>3, <1>6
  <2> QED BY <2>1, <2>2 DEF None
<1>0. ASSUME P # {}, Best(s) \in P
      PROVE  /\ Best(s) \in Nat /\ Best(s) # None
             /\ \E k \in DOMAIN resting : resting[k].side = s /\ resting[k].price = Best(s)
  <2>1. Best(s) \in Nat \ {0}
    BY <1>0, <1>4
  <2>2. PICK k \in {j \in DOMAIN resting : resting[j].side = s} : resting[k].price = Best(s)
    BY <1>0, <1>3
  <2> QED BY <2>1, <2>2 DEF None
<1>7. CASE P # {} /\ s = "long"
  <2>1. Max(P) \in P /\ \A x \in P : Max(P) >= x
    BY <1>4, <1>7, MaxOf
  <2>2. Best(s) \in P /\ \A x \in P : Best(s) >= x
    BY <1>5, <1>7, <2>1
  <2>3. ASSUME NEW k \in DOMAIN resting, resting[k].side = s PROVE Best(s) >= resting[k].price /\ resting[k].price \in P
    BY <1>3, <2>2, <2>3
  <2>4. ASSUME NEW k \in DOMAIN resting, resting[k].side = s PROVE ~ Book!Better(s, resting[k].price, Best(s))
    <3>1. Best(s) \in Nat /\ resting[k].price \in Nat /\ Best(s) >= resting[k].price
      BY <1>4, <2>2, <2>3, <2>4
    <3> QED BY <1>7, <3>1 DEF Book!Better
  <2> QED BY <1>0, <1>7, <2>2, <2>4
<1>8. CASE P # {} /\ s = "short"
  <2>1. Min(P) \in P /\ \A x \in P : Min(P) <= x
    BY <1>4, <1>8, LeastOf
  <2>2. Best(s) \in P /\ \A x \in P : Best(s) <= x
    BY <1>5, <1>8, <2>1
  <2>3. ASSUME NEW k \in DOMAIN resting, resting[k].side = s PROVE Best(s) <= resting[k].price /\ resting[k].price \in P
    BY <1>3, <2>2, <2>3
  <2>4. ASSUME NEW k \in DOMAIN resting, resting[k].side = s PROVE ~ Book!Better(s, resting[k].price, Best(s))
    <3>1. Best(s) \in Nat /\ resting[k].price \in Nat /\ Best(s) <= resting[k].price
      BY <1>4, <2>2, <2>3, <2>4
    <3> QED BY <1>8, <3>1 DEF Book!Better
  <2> QED BY <1>0, <1>8, <2>2, <2>4
<1> QED BY <1>6, <1>7, <1>8 DEF Book!Sides

\* priceStr writes a price, and none below 1 but as it is.
LEMMA PriceStrIs ==
  ASSUME NEW p \in Nat \ {0}
  PROVE  PriceStr(p) \in Nat \ {0}
<1>1. CASE p < One
  BY <1>1, PriceAssumption DEF PriceStr
<1>2. CASE p >= One
  <2>1. PICK d : d = (2 * p + Coarse) \div (2 * Coarse)
    OBVIOUS
  <2>2. PICK n : n = 2 * p + Coarse
    OBVIOUS
  <2>3. PICK m : m = 2 * Coarse
    OBVIOUS
  <2>4. n \in Nat /\ m \in Nat \ {0} /\ n >= m /\ p >= Coarse
    BY <1>2, <2>2, <2>3, PriceAssumption
  <2>5. n \div m \in Nat \ {0}
    <3> HIDE <2>2, <2>3
    <3> QED BY <2>4
  <2>6. d \in Nat \ {0}
    BY <2>1, <2>2, <2>3, <2>5
  <2>7. PriceStr(p) = Coarse * d
    BY <1>2, <2>1, PriceAssumption DEF PriceStr
  <2> QED BY <2>6, <2>7, PriceAssumption
<1> QED BY <1>1, <1>2, PriceAssumption

\* planFromBook: what the bot plans is offered by the level it has read, if
\* priceStr writes the price of that level as it is.
LEMMA PlanIsOffered ==
  ASSUME resting \in Seq(Rests), resting # <<>>
  PROVE  LET p == PlanFor(BookSource)
         IN  /\ p \in Rests /\ p.by = "bot"
             /\ PriceStr(Best(BookSource)) = Best(BookSource) => Offers(resting, p) >= p.size
<1>1. PICK s : s = BookSource
  OBVIOUS
<1>2. PICK p : p = PlanFor(s)
  OBVIOUS
<1>3. DOMAIN resting = 1..Len(resting) /\ Len(resting) \in Nat \ {0} /\ \A k \in DOMAIN resting : resting[k] \in Rests
  BY OffersAre, LenProperties, EmptySeq, ElementOfSeq
<1>4. s \in Book!Sides /\ Best(s) # None
  <2>1. resting[1].side \in {"long", "short"} /\ 1 \in DOMAIN resting
    BY <1>3 DEF Rests, Posts, Book!Sides
  <2>2. "long" \in Book!Sides /\ "short" \in Book!Sides
    BY DEF Book!Sides
  <2>3. Best("long") # None \/ Best("short") # None
    BY <2>1, <2>2, BestIsBest
  <2>4. CASE Best("long") # None /\ Best("short") # None
    BY <1>1, <2>2, <2>4 DEF BookSource
  <2>5. CASE ~ (Best("long") # None /\ Best("short") # None)
    BY <1>1, <2>2, <2>3, <2>5 DEF BookSource
  <2> QED BY <2>4, <2>5
<1>5. Best(s) \in Nat \ {0} /\ \A k \in DOMAIN resting : resting[k].side = s => ~ Book!Better(s, resting[k].price, Best(s))
  BY <1>4, BestIsBest DEF None
<1>6. /\ p.by = "bot" /\ p.side = Book!Opposite(s) /\ p.price = PriceStr(Best(s))
      /\ p.size = Book!Smaller(LevelSize(s), RestingCap)
      /\ p = [by |-> "bot", pair |-> "ADA", side |-> Book!Opposite(s), price |-> PriceStr(Best(s)),
              size |-> Book!Smaller(LevelSize(s), RestingCap), at |-> 0]
  BY <1>2 DEF PlanFor, Made
<1>12. ASSUME NEW k \in DOMAIN resting, resting[k].side = s
       PROVE  AtBest(s, k) <=> resting[k].price = Best(s)
  <2>1. PICK b \in DOMAIN resting : resting[b].side = s /\ resting[b].price = Best(s)
    BY <1>4, BestIsBest
  <2>2. resting[k].price \in Nat /\ ~ Book!Better(s, resting[k].price, Best(s))
    BY <1>3, <1>5, <1>12 DEF Rests, Posts
  <2>3. ASSUME AtBest(s, k) PROVE resting[k].price = Best(s)
    <3>1. ~ Book!Better(s, Best(s), resting[k].price)
      BY <2>1, <2>3 DEF AtBest
    <3> QED BY <1>5, <2>2, <3>1 DEF Book!Better
  <2>4. ASSUME resting[k].price = Best(s) PROVE AtBest(s, k)
    BY <1>5, <1>12, <2>4 DEF AtBest
  <2> QED BY <2>3, <2>4
<1>7. ASSUME PriceStr(Best(s)) = Best(s)
      PROVE  \A k \in DOMAIN resting : Offer(resting[k], p) = IF AtBest(s, k) THEN resting[k].size ELSE 0
  <2>1. Book!Opposite(p.side) = s
    BY <1>4, <1>6 DEF Book!Opposite, Book!Sides
  <2>2. ASSUME NEW k \in DOMAIN resting, resting[k].side = s
        PROVE  ~ Book!Better(s, p.price, resting[k].price) <=> resting[k].price = Best(s)
    <3>1. resting[k].price \in Nat /\ ~ Book!Better(s, resting[k].price, Best(s))
      BY <1>3, <1>5, <2>2 DEF Rests, Posts
    <3> QED BY <1>5, <1>6, <1>7, <3>1 DEF Book!Better
  <2>4. ASSUME NEW k \in DOMAIN resting, resting[k].side # s
        PROVE  Offer(resting[k], p) = 0 /\ ~ AtBest(s, k)
    BY <2>1, <2>4 DEF Offer, Offered, AtBest
  <2>5. ASSUME NEW k \in DOMAIN resting, resting[k].side = s
        PROVE  Offer(resting[k], p) = IF AtBest(s, k) THEN resting[k].size ELSE 0
    BY <1>12, <2>1, <2>2, <2>5 DEF Offer, Offered
  <2> QED BY <2>4, <2>5
<1>8. LevelSize(s) \in Nat \ {0}
  <2>1. PICK f : f = [k \in DOMAIN resting |-> IF AtBest(s, k) THEN resting[k].size ELSE 0]
    OBVIOUS
  <2>2. f \in [1..Len(resting) -> Nat] /\ IsFiniteSet(1..Len(resting))
    <3>1. \A k \in 1..Len(resting) : resting[k].size \in Nat
      BY <1>3 DEF Rests, Posts
    <3>2. \A k \in 1..Len(resting) : (IF AtBest(s, k) THEN resting[k].size ELSE 0) \in Nat
      BY <3>1, Zenon
    <3>3. f = [k \in 1..Len(resting) |-> IF AtBest(s, k) THEN resting[k].size ELSE 0]
      BY <1>3, <2>1
    <3>4. f \in [1..Len(resting) -> Nat]
      BY <3>2, <3>3, Zenon
    <3> QED BY <1>3, <3>4, FS_Interval
  <2>3. SumFunction(f) \in Nat /\ \A k \in 1..Len(resting) : f[k] <= SumFunction(f)
    BY <2>2, SumOfNats
  <2>4. PICK b \in DOMAIN resting : resting[b].side = s /\ resting[b].price = Best(s)
    BY <1>4, BestIsBest
  <2>5. b \in 1..Len(resting) /\ f[b] = resting[b].size /\ resting[b].size \in Nat \ {0}
    BY <1>3, <1>12, <2>1, <2>4 DEF Rests, Posts
  <2>6. SumFunction(f) \in Nat \ {0}
    BY <2>3, <2>5
  <2> QED BY <2>1, <2>6 DEF LevelSize
<1>9. PriceStr(Best(s)) = Best(s) => Offers(resting, p) = LevelSize(s)
  BY <1>7 DEF Offers, LevelSize
<1>10. p.size \in Nat \ {0} /\ p.size <= LevelSize(s)
  BY <1>6, <1>8, RestingCapAssumption DEF Book!Smaller
<1>11. p \in Rests
  <2>1. PriceStr(Best(s)) \in Nat \ {0}
    BY <1>5, PriceStrIs
  <2> QED BY <1>4, <1>6, <1>10, <2>1 DEF Rests, Posts, Traders, Book!Opposite, Book!Sides
<1> QED BY <1>1, <1>2, <1>6, <1>8, <1>9, <1>10, <1>11

\* What a submit leaves, in trouble and out of it.
EntersTypes(w) ==
  /\ resting' \in Seq(Rests) /\ snap' \in Seq(Rests) /\ flag' \in {"taker", "sweep"}
  /\ inflight' \in Posts \cup {NoOrder} /\ (flag' = "taker" => inflight' # NoOrder)
  /\ selfTrade' \in BOOLEAN /\ upset' \in BOOLEAN /\ (upset => upset')
  /\ w /\ ~ upset' => \A p \in Posts : Offers(resting', p) >= Offers(resting, p)

EntersCalm ==
  /\ selfTrade' <=> selfTrade
  /\ flag' = "taker" => /\ Calm(resting') /\ Calm(snap')
                        /\ inflight'.by = "bot" => Offers(resting', inflight') >= inflight'.size
  /\ flag' = "sweep" => Swept(resting')

LEMMA EntersIs ==
  ASSUME QuoteTypes, NEW o \in Rests, NEW w \in BOOLEAN, Enters(o, w)
  PROVE  /\ EntersTypes(w)
         /\ Calm(resting) /\ (o.by = "bot" => Offers(resting, o) >= o.size) => EntersCalm
<1>1. /\ resting \in Seq(Rests) /\ snap \in Seq(Rests) /\ upset \in BOOLEAN /\ selfTrade \in BOOLEAN
      /\ inflight \in Posts \cup {NoOrder}
  BY DEF QuoteTypes
<1>2. o \in Posts /\ o.size \in Nat \ {0} /\ o.by \in Traders
  BY DEF Rests, Posts
<1>3. /\ \A i \in Book!Matches(resting, o) : i \in DOMAIN resting /\ Offered(resting[i], o)
      /\ Book!Matches(resting, o) = {} => Offers(resting, o) = 0 /\ \A i \in DOMAIN resting : ~ Offered(resting[i], o)
  BY <1>1, <1>2, MatchesOffered
<1>4. Offers(resting, o) \in Nat /\ \A k \in DOMAIN resting : resting[k] \in Rests
  BY <1>1, <1>2, OffersAre
<1>5. CASE Book!Matches(resting, o) # {}
  <2>1. PICK i, q :
          /\ i \in Book!Matches(resting, o) /\ q = Book!Smaller(o.size, resting[i].size)
          /\ resting' = Book!Consume(resting, i, q) /\ snap' = resting /\ flag' = "taker"
          /\ inflight' = [o EXCEPT !.size = @ - q]
          /\ selfTrade' = (selfTrade \/ {o.by, resting[i].by} = {"bot"})
          /\ upset' = (upset \/ w)
    BY <1>5 DEF Enters
  <2>2. /\ i \in DOMAIN resting /\ Offered(resting[i], o) /\ resting[i].size \in Nat \ {0}
        /\ q \in 1..resting[i].size /\ q <= o.size /\ q \in Nat
    <3>1. i \in DOMAIN resting /\ Offered(resting[i], o)
      BY <1>3, <2>1
    <3>2. resting[i].size \in Nat \ {0}
      BY <1>4, <3>1 DEF Rests, Posts
    <3> QED BY <1>2, <2>1, <3>1, <3>2 DEF Book!Smaller
  <2>3. /\ resting' \in Seq(Rests) /\ Offers(resting', o) = Offers(resting, o) - q
        /\ From(resting', resting)
    BY <1>1, <1>2, <2>1, <2>2, OffersConsume
  <2>4. PICK p : p = inflight'
    OBVIOUS
  <2>5. /\ p \in Posts /\ p.by = o.by /\ p.side = o.side /\ p.price = o.price /\ p.size = o.size - q
        /\ p # NoOrder
    <3>1. o.size - q \in Nat
      BY <1>2, <2>2
    <3>2. p = [o EXCEPT !.size = o.size - q]
      BY <2>1, <2>4
    <3>3. p \in Posts /\ p.by = o.by /\ p.side = o.side /\ p.price = o.price /\ p.size = o.size - q
      BY <1>2, <3>1, <3>2 DEF Posts
    <3>4. p # NoOrder
      BY <1>2, <3>3 DEF NoOrder, Made, Traders
    <3> QED BY <3>3, <3>4
  <2>6. Offers(resting', p) = Offers(resting', o)
    BY <2>5, OffersSameLimit
  <2>7. EntersTypes(w)
    BY <1>1, <2>1, <2>3, <2>4, <2>5 DEF EntersTypes
  <2>8. ASSUME Calm(resting), o.by = "bot" => Offers(resting, o) >= o.size PROVE EntersCalm
    <3>1. Calm(resting') /\ Calm(snap')
      BY <2>1, <2>3, <2>8, CalmFrom
    <3>2. {o.by, resting[i].by} # {"bot"}
      BY <2>2, <2>8 DEF Calm, NotOfTheBot
    <3>3. p.by = "bot" => Offers(resting', p) >= p.size
      BY <1>2, <1>4, <2>2, <2>3, <2>5, <2>6, <2>8
    <3> QED BY <1>1, <2>1, <2>4, <3>1, <3>2, <3>3 DEF EntersCalm
  <2> QED BY <2>7, <2>8
<1>6. CASE Book!Matches(resting, o) = {}
  <2>1. /\ resting' = Append(resting, o) /\ snap' = resting' /\ flag' = "sweep"
        /\ inflight' = inflight /\ selfTrade' = selfTrade /\ upset' = upset
    BY <1>6 DEF Enters
  <2>2. resting' \in Seq(Rests) /\ \A p \in Posts : Offers(resting', p) >= Offers(resting, p)
    BY <1>1, <2>1, OffersAppend, OneMore
  <2>3. EntersTypes(w)
    BY <1>1, <2>1, <2>2 DEF EntersTypes
  <2>4. ASSUME Calm(resting), o.by = "bot" => Offers(resting, o) >= o.size PROVE EntersCalm
    <3>1. o.by # "bot"
      BY <1>2, <1>3, <1>6, <2>4
    <3>2. Calm(resting')
      BY <1>1, <1>3, <1>6, <2>1, <2>4, <3>1, OthersRest
    <3>3. Swept(resting')
      BY <3>2 DEF Calm, NotOfTheBot, Swept
    <3> QED BY <2>1, <3>3 DEF EntersCalm
  <2> QED BY <2>3, <2>4
<1> QED BY <1>5, <1>6

LEMMA QuotesStart == BotsInit => QuoteInv
<1> SUFFICES ASSUME BotsInit PROVE QuoteInv
  OBVIOUS
<1>1. /\ resting = <<>> /\ snap = <<>> /\ inflight = NoOrder /\ plan = NoOrder /\ status = Unread
      /\ upset = FALSE /\ selfTrade = FALSE /\ rungs = <<>> /\ flag = "free"
  BY DEF BotsInit
<1>2. <<>> \in Seq(Rests) /\ <<>> \in Seq(RungStates) /\ Unread \in [Book!Sides -> Int] /\ Calm(<<>>)
  BY EmptySeq DEF Unread, NotOfTheBot, Calm, Uncrossed
<1>3. QuoteTypes
  BY <1>1, <1>2 DEF QuoteTypes, Flags, Planned
<1>4. ~ Planned
  BY <1>1 DEF Planned
<1> QED BY <1>1, <1>2, <1>3, <1>4 DEF QuoteInv, Settled, SelfTradeTakesTrouble

\* A user's order comes.
LEMMA UsersKeep ==
  ASSUME QuoteInv, UserSubmits
  PROVE  QuoteInv'
<1>1. plan' = plan /\ status' = status /\ rungs' = rungs /\ flag = "free"
  BY DEF UserSubmits
<1>2. PICK o \in Rests : Enters(o, Planned) /\ o.by = "user"
  <2>1. PICK u \in UserOrders : Enters(Made("user", u.side, u.price, u.size), Planned)
    BY DEF UserSubmits
  <2>2. PICK o : o = Made("user", u.side, u.price, u.size)
    OBVIOUS
  <2>3. o \in Rests /\ o.by = "user"
    BY <2>1, <2>2, UserOrdersAssumption DEF Made, Rests, Posts, Traders
  <2> QED BY <2>1, <2>2, <2>3
<1>3. QuoteTypes /\ Planned \in BOOLEAN
  BY DEF QuoteInv, Planned
<1>4. EntersTypes(Planned) /\ (Calm(resting) => EntersCalm)
  BY <1>2, <1>3, EntersIs
<1>5. QuoteTypes' /\ (Planned' <=> Planned)
  BY <1>1, <1>3, <1>4 DEF QuoteTypes, EntersTypes, Planned, Flags, Unread
<1>6. ASSUME ~ upset' PROVE ~ selfTrade' /\ Settled'
  <2>1. ~ upset /\ Settled /\ ~ selfTrade
    BY <1>4, <1>6 DEF EntersTypes, QuoteInv, SelfTradeTakesTrouble
  <2>2. EntersCalm
    BY <1>1, <1>4, <2>1 DEF Settled
  <2>3. ASSUME Planned PROVE Offers(resting', plan) >= plan.size
    <3>1. plan \in Posts /\ plan.size \in Nat
      BY <1>3, <2>3 DEF QuoteTypes, Planned, Rests, Posts
    <3>2. Offers(resting', plan) >= Offers(resting, plan) /\ Offers(resting, plan) >= plan.size
      BY <1>4, <1>6, <2>1, <2>3, <3>1 DEF EntersTypes, Settled
    <3>3. Offers(resting, plan) \in Nat /\ Offers(resting', plan) \in Nat
      BY <1>3, <1>4, <3>1, OffersAre DEF QuoteTypes, EntersTypes
    <3> QED BY <3>1, <3>2, <3>3
  <2>4. flag' \in {"taker", "sweep"}
    BY <1>4 DEF EntersTypes
  <2> QED BY <1>1, <1>5, <2>1, <2>2, <2>3, <2>4 DEF Settled, EntersCalm
<1> QED BY <1>5, <1>6 DEF QuoteInv, SelfTradeTakesTrouble

\* A pipeline goes on, or does not.
LEMMA PipelinesKeep ==
  ASSUME QuoteInv, PipelineEnds \/ SweepCrosses \/ SweepEnds \/ PipelineFails
  PROVE  QuoteInv'
<1>1. plan' = plan /\ status' = status /\ rungs' = rungs /\ (Planned' <=> Planned)
  BY DEF PipelineEnds, SweepCrosses, SweepEnds, PipelineFails, Planned
<1>2. /\ QuoteTypes /\ resting \in Seq(Rests) /\ snap \in Seq(Rests) /\ upset \in BOOLEAN /\ selfTrade \in BOOLEAN
      /\ inflight \in Posts \cup {NoOrder} /\ SelfTradeTakesTrouble /\ (~ upset => Settled)
      /\ Planned => plan \in Posts /\ plan.size \in Nat
  BY DEF QuoteInv, QuoteTypes, Planned, Rests, Posts
<1>3. ASSUME resting' \in Seq(Rests), snap' \in Seq(Rests), flag' \in Flags \ {"taker"},
             inflight' \in Posts \cup {NoOrder}, selfTrade' \in BOOLEAN, upset' \in BOOLEAN
      PROVE  QuoteTypes'
  BY <1>1, <1>2, <1>3 DEF QuoteTypes, Unread
<1>4. CASE PipelineEnds
  <2>1. /\ flag = "taker" /\ flag' = "sweep" /\ inflight' = NoOrder /\ snap' = resting'
        /\ selfTrade' = selfTrade /\ upset' = upset
        /\ resting' = IF inflight.size > 0 THEN Append(resting, inflight) ELSE resting
    BY <1>4 DEF PipelineEnds
  <2>2. inflight \in Posts
    BY <1>2, <2>1 DEF QuoteTypes
  <2>3. CASE inflight.size > 0
    <3>1. inflight \in Rests /\ resting' = Append(resting, inflight)
      BY <2>1, <2>2, <2>3 DEF Rests
    <3>2. resting' \in Seq(Rests) /\ \A p \in Posts : Offers(resting', p) >= Offers(resting, p)
      BY <1>2, <3>1, OffersAppend, OneMore
    <3>3. ASSUME ~ upset' PROVE ~ selfTrade' /\ Settled'
      <4>1. ~ selfTrade /\ Settled
        BY <1>2, <2>1, <3>3 DEF SelfTradeTakesTrouble
      <4>2. Calm(resting) /\ (inflight.by = "bot" => Offers(resting, inflight) >= inflight.size)
        BY <2>1, <4>1 DEF Settled
      <4>3. ASSUME inflight.by = "bot" PROVE Swept(resting')
        BY <1>2, <3>1, <4>2, <4>3, RemainderRests DEF Calm
      <4>4. ASSUME inflight.by # "bot" PROVE Swept(resting')
        <5>1. NotOfTheBot(resting')
          BY <1>2, <3>1, <4>2, <4>4, OthersRest DEF Calm
        <5> QED BY <5>1 DEF NotOfTheBot, Swept
      <4>5. Swept(resting')
        BY <4>3, <4>4
      <4>6. ASSUME Planned PROVE Offers(resting', plan) >= plan.size
        <5>1. Offers(resting', plan) >= Offers(resting, plan) /\ Offers(resting, plan) >= plan.size
          BY <1>2, <3>2, <4>1, <4>6 DEF Settled
        <5>2. Offers(resting, plan) \in Nat /\ Offers(resting', plan) \in Nat
          BY <1>2, <3>2, <4>6, OffersAre
        <5> QED BY <1>2, <4>6, <5>1, <5>2
      <4> QED BY <1>1, <2>1, <4>1, <4>5, <4>6 DEF Settled
    <3>4. QuoteTypes'
      BY <1>2, <1>3, <2>1, <3>2 DEF Flags
    <3> QED BY <3>3, <3>4 DEF QuoteInv, SelfTradeTakesTrouble
  <2>4. CASE ~ inflight.size > 0
    <3>1. resting' = resting
      BY <2>1, <2>4
    <3>2. QuoteTypes'
      BY <1>2, <1>3, <2>1, <3>1 DEF Flags
    <3>3. Calm(resting) => Swept(resting)
      BY DEF Calm, NotOfTheBot, Swept
    <3>4. ~ upset' => Settled'
      BY <1>1, <1>2, <2>1, <3>1, <3>3 DEF Settled
    <3> QED BY <1>2, <2>1, <3>2, <3>4 DEF QuoteInv, SelfTradeTakesTrouble
  <2> QED BY <2>3, <2>4
<1>5. CASE SweepCrosses
  <2>1. PICK x \in Book!Crosses(resting, "ADA") :
          /\ resting' = Book!Cross(resting, x[1], x[2])
          /\ selfTrade' = (selfTrade \/ {resting[x[1]].by, resting[x[2]].by} = {"bot"})
    BY <1>5 DEF SweepCrosses
  <2>2. /\ flag \in {"sweep", "batch"} /\ flag' = "batch" /\ snap' = snap /\ inflight' = inflight
        /\ upset' = (upset \/ Planned)
    BY <1>5 DEF SweepCrosses
  <2>3. PICK l, s : l = x[1] /\ s = x[2]
    OBVIOUS
  <2>4. <<l, s>> \in Book!Crosses(resting, "ADA")
    <3>1. x = <<x[1], x[2]>>
      BY <2>1 DEF Book!Crosses
    <3> QED BY <2>1, <2>3, <3>1
  <2>5. /\ resting' \in Seq(Rests)
        /\ Swept(resting) => Swept(resting') /\ {resting[l].by, resting[s].by} # {"bot"}
    BY <1>2, <2>1, <2>3, <2>4, CrossLeaves
  <2>6. QuoteTypes'
    BY <1>2, <1>3, <2>1, <2>2, <2>5 DEF Flags, Planned
  <2>7. ASSUME ~ upset' PROVE ~ selfTrade' /\ Settled'
    <3>1. ~ upset /\ ~ Planned /\ ~ selfTrade /\ Swept(resting)
      BY <1>2, <2>2, <2>7 DEF Settled, SelfTradeTakesTrouble
    <3> QED BY <1>1, <2>1, <2>2, <2>3, <2>5, <3>1 DEF Settled
  <2> QED BY <2>6, <2>7 DEF QuoteInv, SelfTradeTakesTrouble
<1>6. CASE SweepEnds
  <2>1. /\ flag \in {"sweep", "batch"} /\ flag' = "free" /\ inflight' = NoOrder /\ snap' = snap
        /\ resting' = resting /\ selfTrade' = selfTrade /\ upset' = upset
        /\ Book!Crosses(resting, "ADA") = {}
    BY <1>6 DEF SweepEnds, Free, NoCross
  <2>2. Swept(resting) => Calm(resting)
    BY <1>2, <2>1, SweptClean, SweptIsCalm
  <2>3. QuoteTypes'
    BY <1>2, <1>3, <2>1 DEF Flags
  <2>4. ~ upset' => Settled'
    BY <1>1, <1>2, <2>1, <2>2 DEF Settled
  <2> QED BY <1>2, <2>1, <2>3, <2>4 DEF QuoteInv, SelfTradeTakesTrouble
<1>7. CASE PipelineFails
  <2>1. flag \in {"taker", "batch"}
    BY <1>7 DEF PipelineFails
  <2>2. /\ flag' = "free" /\ inflight' = NoOrder /\ snap' = snap
        /\ resting' = snap /\ selfTrade' = selfTrade /\ upset' = (upset \/ Planned \/ flag = "batch")
    BY <1>7 DEF PipelineFails, Free
  <2>3. QuoteTypes'
    BY <1>2, <1>3, <2>2 DEF Flags, Planned
  <2>4. ~ upset' => Settled'
    BY <1>1, <1>2, <2>1, <2>2 DEF Settled
  <2>5. selfTrade' => upset'
    BY <1>2, <2>2 DEF SelfTradeTakesTrouble
  <2> QED BY <2>3, <2>4, <2>5 DEF QuoteInv, SelfTradeTakesTrouble
<1> QED BY <1>4, <1>5, <1>6, <1>7

\* The bot reads, and posts what it has planned, or breaks off.
LEMMA BotKeeps ==
  ASSUME QuoteInv, BotReads \/ BotPosts \/ BotFails \/ BotLosesAnswer \/ UNCHANGED botVars
  PROVE  QuoteInv'
<1>1. CASE UNCHANGED botVars
  BY <1>1 DEF botVars, QuoteInv, QuoteTypes, Settled, Planned, SelfTradeTakesTrouble, Unread
<1>2. CASE BotLosesAnswer
  BY <1>2 DEF BotLosesAnswer, QuoteInv, QuoteTypes, Settled, Planned, SelfTradeTakesTrouble, Unread
<1>3. CASE BotFails \/ (BotPosts /\ flag # "free")
  <2>1. /\ plan' = NoOrder /\ rungs' = rungs /\ status' = status /\ resting' = resting /\ flag' = flag
        /\ inflight' = inflight /\ snap' = snap /\ selfTrade' = selfTrade /\ upset' = upset
    BY <1>3 DEF BotFails, BotPosts, bookApiVars
  <2>2. ~ Planned'
    BY <2>1 DEF Planned
  <2> QED BY <2>1, <2>2 DEF QuoteInv, QuoteTypes, Settled, SelfTradeTakesTrouble, Unread
<1>4. CASE BotPosts /\ flag = "free"
  <2>1. plan # NoOrder /\ plan' = NoOrder /\ Enters(plan, FALSE) /\ rungs' = rungs /\ status' = status
    BY <1>4 DEF BotPosts
  <2>2. QuoteTypes /\ Planned /\ plan \in Rests /\ plan.by = "bot"
    BY <2>1 DEF QuoteInv, QuoteTypes, Planned
  <2>3. EntersTypes(FALSE) /\ (Calm(resting) /\ Offers(resting, plan) >= plan.size => EntersCalm)
    BY <2>1, <2>2, EntersIs
  <2>4. QuoteTypes' /\ ~ Planned'
    BY <2>1, <2>2, <2>3 DEF QuoteTypes, EntersTypes, Planned, Flags, Unread
  <2>5. ASSUME ~ upset' PROVE ~ selfTrade' /\ Settled'
    <3>1. Settled /\ ~ selfTrade
      BY <2>3, <2>5 DEF EntersTypes, QuoteInv, SelfTradeTakesTrouble
    <3>2. EntersCalm /\ flag' \in {"taker", "sweep"}
      BY <1>4, <2>2, <2>3, <3>1 DEF Settled, EntersTypes
    <3> QED BY <2>4, <3>1, <3>2 DEF Settled, EntersCalm
  <2> QED BY <2>4, <2>5 DEF QuoteInv, SelfTradeTakesTrouble
<1>5. CASE BotReads /\ resting = <<>>
  <2>1. /\ plan' = plan /\ rungs' = rungs /\ status' = status /\ resting' = resting /\ flag' = flag
        /\ inflight' = inflight /\ snap' = snap /\ selfTrade' = selfTrade /\ upset' = upset
    BY <1>5 DEF BotReads
  <2> QED BY <2>1 DEF QuoteInv, QuoteTypes, Settled, Planned, SelfTradeTakesTrouble, Unread
<1>6. CASE BotReads /\ resting # <<>>
  <2>1. /\ plan' = PlanFor(BookSource) /\ rungs' = rungs /\ status' = status /\ resting' = resting /\ flag' = flag
        /\ inflight' = inflight /\ snap' = snap /\ selfTrade' = selfTrade
        /\ upset' = (upset \/ PriceStr(Best(BookSource)) # Best(BookSource))
    BY <1>6 DEF BotReads
  <2>2. QuoteTypes /\ resting \in Seq(Rests) /\ upset \in BOOLEAN
    BY DEF QuoteInv, QuoteTypes
  <2>3. /\ plan' \in Rests /\ plan'.by = "bot"
        /\ PriceStr(Best(BookSource)) = Best(BookSource) => Offers(resting, plan') >= plan'.size
    BY <1>6, <2>1, <2>2, PlanIsOffered
  <2>4. QuoteTypes'
    BY <2>1, <2>2, <2>3 DEF QuoteTypes, Planned, Unread
  <2>5. ~ upset' => Settled'
    BY <2>1, <2>2, <2>3 DEF QuoteInv, Settled
  <2> QED BY <2>1, <2>2, <2>4, <2>5 DEF QuoteInv, SelfTradeTakesTrouble
<1> QED BY <1>1, <1>2, <1>3, <1>4, <1>5, <1>6

\* main: the rung that is next, once the bests have been read for it.
LEMMA RungIs ==
  ASSUME QuoteInv, status # Unread
  PROVE  Rung.side \in Book!Sides /\ Rung.price \in Int
<1>1. PICK i : i = Len(rungs) + 1
  OBVIOUS
<1>2. i \in 1..2 * Levels /\ i \in Nat /\ Levels \in Nat
  BY <1>1, LenProperties, SeedAssumption DEF QuoteInv, QuoteTypes
<1>3. Rung = IF i <= Levels THEN [side |-> "long", price |-> Mark - Gap - i * Spread]
                            ELSE [side |-> "short", price |-> Mark + Gap + (i - Levels) * Spread]
  BY <1>1, <1>2 DEF Rung, Ladder
<1>4. i * Spread \in Int /\ (i - Levels) * Spread \in Int
  BY <1>2, SeedAssumption
<1> QED BY <1>2, <1>3, <1>4, SeedAssumption DEF Book!Sides

\* adjustLongForResting, adjustShortForResting: strictly inside the best price.
LEMMA AdjustedIs ==
  ASSUME NEW r, r.side \in Book!Sides, r.price \in Int, status \in [Book!Sides -> Int]
  PROVE  /\ Adjusted(r) \in Int
         /\ status[Book!Opposite(r.side)] # None =>
               /\ r.side = "long" => Adjusted(r) <= status[Book!Opposite(r.side)] - 1
               /\ r.side = "short" => Adjusted(r) >= status[Book!Opposite(r.side)] + 1
<1>1. PICK best : best = status[Book!Opposite(r.side)]
  OBVIOUS
<1>2. best \in Int
  BY <1>1 DEF Book!Opposite, Book!Sides
<1>3. Adjusted(r) = IF best = None THEN r.price
                    ELSE IF r.side = "long" THEN Min({r.price, best - 1}) ELSE Max({r.price, best + 1})
  BY <1>1 DEF Adjusted
<1>4. /\ Min({r.price, best - 1}) = IF r.price <= best - 1 THEN r.price ELSE best - 1
      /\ Max({r.price, best + 1}) = IF r.price >= best + 1 THEN r.price ELSE best + 1
  <2>1. best - 1 \in Int /\ best + 1 \in Int
    BY <1>2
  <2> QED BY <2>1, MinOfTwo, MaxOfTwo
<1> QED BY <1>1, <1>2, <1>3, <1>4

\* The seeder reads the bests, and its rung comes to rest or does not.
LEMMA SeederKeeps ==
  ASSUME QuoteInv, SeedReads \/ SeedReadFails \/ SeedPosts
  PROVE  QuoteInv'
<1>1. /\ inflight' = inflight /\ snap' = snap /\ selfTrade' = selfTrade /\ upset' = upset /\ plan' = plan
      /\ flag' = flag
  BY DEF SeedReads, SeedReadFails, SeedPosts, bookApiVars
<1>2. resting \in Seq(Rests) /\ (Planned' <=> Planned)
  BY <1>1 DEF QuoteInv, QuoteTypes, Planned
<1>3. \/ resting' = resting
      \/ \E o \in Rests : /\ o.by = "seed" /\ resting' = Append(resting, o)
                          /\ \A k \in DOMAIN resting : ~ Offered(resting[k], o)
  <2>1. CASE SeedReads \/ SeedReadFails
    BY <2>1 DEF SeedReads, SeedReadFails, bookApiVars
  <2>2. CASE SeedPosts
    <3>1. PICK o : /\ o = Made("seed", Rung.side, PriceStr(Adjusted(Rung)), SeedSize)
                   /\ \/ resting' = resting
                      \/ /\ ~ (Adjusted(Rung) <= 0) /\ Book!Matches(resting, o) = {}
                         /\ resting' = Append(resting, o)
      BY <2>2 DEF SeedPosts
    <3>2. status # Unread
      BY <2>2 DEF SeedPosts
    <3>3. Rung.side \in Book!Sides /\ Adjusted(Rung) \in Int
      BY <3>2, RungIs, AdjustedIs DEF QuoteInv, QuoteTypes
    <3>4. ASSUME ~ (Adjusted(Rung) <= 0) PROVE o \in Rests /\ o \in Posts /\ o.by = "seed"
      <4>1. PriceStr(Adjusted(Rung)) \in Nat \ {0}
        BY <3>3, <3>4, PriceStrIs
      <4> QED BY <3>1, <3>3, <4>1, SeedAssumption DEF Made, Rests, Posts, Traders
    <3>5. ASSUME ~ (Adjusted(Rung) <= 0), Book!Matches(resting, o) = {}
          PROVE  \A k \in DOMAIN resting : ~ Offered(resting[k], o)
      BY <1>2, <3>4, <3>5, MatchesOffered
    <3> QED BY <3>1, <3>4, <3>5
  <2> QED BY <2>1, <2>2
<1>4. resting' \in Seq(Rests) /\ \A p \in Posts : Offers(resting', p) >= Offers(resting, p)
  <2>1. \A p \in Posts : Offers(resting, p) \in Nat
    BY <1>2, OffersAre
  <2>2. CASE resting' = resting
    BY <1>2, <2>1, <2>2
  <2>3. CASE \E o \in Rests : resting' = Append(resting, o)
    BY <1>2, <2>3, OffersAppend, OneMore
  <2> QED BY <1>3, <2>2, <2>3
<1>5. (Calm(resting) => Calm(resting')) /\ (Swept(resting) => Swept(resting'))
  BY <1>2, <1>3, OthersRest
<1>6. rungs' \in Seq(RungStates)
  <2>1. rungs' = rungs \/ \E x \in RungStates : rungs' = Append(rungs, x)
    BY DEF SeedReads, SeedReadFails, SeedPosts, RungStates
  <2>2. rungs \in Seq(RungStates)
    BY DEF QuoteInv, QuoteTypes
  <2> QED BY <2>1, <2>2, AppendIs
<1>7. QuoteTypes'
  <2>1. status' \in [Book!Sides -> Int] /\ (status' # Unread => Len(rungs') < 2 * Levels)
    <3>1. CASE SeedReads
      <4>1. status' = [s \in Book!Sides |-> Best(s)] /\ rungs' = rungs /\ Len(rungs) < 2 * Levels
        BY <3>1 DEF SeedReads
      <4>2. \A s \in Book!Sides : Best(s) \in Int
        BY <1>2, BestIsBest
      <4> QED BY <4>1, <4>2
    <3>2. CASE SeedReadFails
      BY <3>2 DEF SeedReadFails, Unread
    <3>3. CASE SeedPosts
      BY <3>3 DEF SeedPosts, Unread
    <3> QED BY <3>1, <3>2, <3>3
  <2> QED BY <1>1, <1>2, <1>4, <1>6, <2>1 DEF QuoteInv, QuoteTypes
<1>8. ASSUME NEW p \in Posts, Offers(resting, p) >= p.size PROVE Offers(resting', p) >= p.size
  <2>1. p.size \in Nat /\ Offers(resting, p) \in Nat /\ Offers(resting', p) \in Nat
    BY <1>2, <1>4, OffersAre DEF Posts
  <2> QED BY <1>4, <1>8, <2>1
<1>9. (Planned => plan \in Posts) /\ (flag = "taker" => inflight \in Posts)
  BY DEF QuoteInv, QuoteTypes, Planned, Rests
<1>10. ~ upset => Settled'
  BY <1>1, <1>2, <1>5, <1>8, <1>9 DEF QuoteInv, Settled
<1> QED BY <1>1, <1>7, <1>10 DEF QuoteInv, SelfTradeTakesTrouble

\* The invariant holds of any users' orders, ladder, cap, rounding and faults.
THEOREM QuoteInductive == BotsSpec => []QuoteInv
<1>1. QuoteInv /\ [BotsNext]_botVars => QuoteInv'
  BY UsersKeep, PipelinesKeep, BotKeeps, SeederKeeps DEF BotsNext
<1> QED BY <1>1, QuotesStart, PTL DEF BotsSpec

\* mm-bot.ts: the bot trades with an order of its own only where somebody took
\* from the book, or a failed pipeline changed it, between its read and its
\* post, where a failed sweep put its remainder back crossed, or where priceStr
\* moved the price it had read; else nothing of it rests between two submits
\* (scripts/mm-bot.ts:206-361).
THEOREM SelfTradesTakeTrouble ==
  BotsSpec => [](SelfTradeTakesTrouble /\ (~ upset /\ flag = "free" => NotOfTheBot(resting)))
<1>1. QuoteInv => SelfTradeTakesTrouble /\ (~ upset /\ flag = "free" => NotOfTheBot(resting))
  BY DEF QuoteInv, Settled, Calm
<1> QED BY <1>1, QuoteInductive, PTL

\* seed-liquidity.ts: a rung that is adjusted to the bests of the book is
\* refused by rest-only only if they are others when it is posted, or if
\* priceStr moved its price, and SEED_REST_EPS with it
\* (scripts/seed-liquidity.ts:44-90, 140-225).
THEOREM RefusedRungsExplained == BotsSpec => SeedRefusalTakesTrouble
<1>1. ASSUME QuoteInv, [BotsNext]_botVars, Len(rungs') > Len(rungs), Last(rungs') = "409"
      PROVE  \/ \E s \in Book!Sides : status[s] # Best(s)
             \/ PriceStr(Adjusted(Rung)) # Adjusted(Rung)
  <2>1. rungs' # rungs /\ rungs \in Seq(RungStates) /\ resting \in Seq(Rests) /\ status \in [Book!Sides -> Int]
    BY <1>1 DEF QuoteInv, QuoteTypes
  <2>2. SeedReadFails \/ SeedPosts
    BY <1>1, <2>1 DEF BotsNext, botVars, UserSubmits, PipelineEnds, PipelineFails, SweepCrosses, SweepEnds, BotReads,
                      BotPosts, BotFails, BotLosesAnswer, SeedReads, bookApiVars
  <2>3. ~ \E x \in RungStates \ {"409"} : rungs' = Append(rungs, x)
    <3>1. ASSUME NEW x \in RungStates \ {"409"}, rungs' = Append(rungs, x) PROVE FALSE
      <4>1. Len(rungs') = Len(rungs) + 1 /\ rungs'[Len(rungs) + 1] = x
        BY <2>1, <3>1, AppendIs
      <4> QED BY <1>1, <4>1 DEF Last
    <3> QED BY <3>1
  <2>4. ~ SeedReadFails
    BY <2>3 DEF SeedReadFails, RungStates
  <2>5. PICK o : /\ o = Made("seed", Rung.side, PriceStr(Adjusted(Rung)), SeedSize)
                 /\ ~ (Adjusted(Rung) <= 0) /\ Book!Matches(resting, o) # {}
    BY <2>2, <2>3, <2>4 DEF SeedPosts, RungStates
  <2>6. Rung.side \in Book!Sides /\ Rung.price \in Int
    <3>1. status # Unread
      BY <2>2, <2>4 DEF SeedPosts
    <3> QED BY <1>1, <3>1, RungIs
  <2>7. PICK s : s = Book!Opposite(Rung.side)
    OBVIOUS
  <2>8. s \in Book!Sides
    BY <2>7 DEF Book!Opposite, Book!Sides
  <2>9. o \in Posts /\ o.side = Rung.side /\ o.price = PriceStr(Adjusted(Rung))
    <3>1. Adjusted(Rung) \in Nat \ {0}
      BY <2>1, <2>5, <2>6, AdjustedIs
    <3>2. PriceStr(Adjusted(Rung)) \in Nat \ {0}
      BY <3>1, PriceStrIs
    <3> QED BY <2>5, <2>6, <3>2, SeedAssumption DEF Made, Posts, Traders
  <2>10. PICK i \in DOMAIN resting : Offered(resting[i], o)
    BY <2>1, <2>5, <2>9, MatchesOffered
  <2>11. resting[i].side = s /\ ~ Book!Better(s, o.price, resting[i].price) /\ resting[i].price \in Nat
    BY <2>1, <2>7, <2>9, <2>10, OffersAre DEF Offered, Rests, Posts
  <2>12. /\ Best(s) \in Nat /\ Best(s) # None /\ ~ Book!Better(s, resting[i].price, Best(s))
    BY <2>1, <2>8, <2>10, <2>11, BestIsBest
  <2>13. ASSUME status[s] = Best(s), o.price = Adjusted(Rung) PROVE FALSE
    <3>1. /\ Adjusted(Rung) \in Int
          /\ Rung.side = "long" => Adjusted(Rung) <= Best(s) - 1
          /\ Rung.side = "short" => Adjusted(Rung) >= Best(s) + 1
      BY <2>1, <2>6, <2>7, <2>12, <2>13, AdjustedIs
    <3>2. CASE Rung.side = "long"
      <4>1. s = "short"
        BY <2>7, <3>2 DEF Book!Opposite
      <4> QED BY <2>11, <2>12, <2>13, <3>1, <3>2, <4>1 DEF Book!Better
    <3>3. CASE Rung.side = "short"
      <4>1. s = "long"
        BY <2>7, <3>3 DEF Book!Opposite
      <4> QED BY <2>11, <2>12, <2>13, <3>1, <3>3, <4>1 DEF Book!Better
    <3> QED BY <2>6, <3>2, <3>3 DEF Book!Sides
  <2> QED BY <2>8, <2>9, <2>13
<1>2. QuoteInv /\ [BotsNext]_botVars
      => [(Len(rungs') > Len(rungs) /\ Last(rungs') = "409")
          => \/ \E s \in Book!Sides : status[s] # Best(s)
             \/ PriceStr(Adjusted(Rung)) # Adjusted(Rung)]_botVars
  BY <1>1
<1>3. []QuoteInv /\ [][BotsNext]_botVars => SeedRefusalTakesTrouble
  BY <1>2, PTL DEF SeedRefusalTakesTrouble
<1> QED BY <1>3, QuoteInductive, PTL DEF BotsSpec
=============================================================================
