---------------------------- MODULE BrowserQueue ----------------------------
(***************************************************************************)
(* One browser tab of perps-web (src/App.tsx, src/userPaidCardano.ts): the *)
(* submit button, the queue of orders the API refused with 429, the timer  *)
(* that posts its head again, and the Cardano transactions that the tab    *)
(* signs for orders whose trader pays on L1.                               *)
(*                                                                         *)
(* Of the API it keeps what a tab can tell: a submit is refused while a    *)
(* pipeline runs, else it runs one and ends well or with an error; the     *)
(* connection of a fetch may fail, which does not stop the handler.  Of    *)
(* the wallet it keeps one chain of coins: a transaction is built on the   *)
(* coins that are confirmed and refused if they are spent.                 *)
(***************************************************************************)
EXTENDS Naturals, Sequences

CONSTANTS Presses,    \* orders the user submits
          UserPays,   \* those of them with "user pays Cardano"
          MaxLosses,  \* fetches that lose their connection
          MaxOthers   \* pipelines that other clients start

ASSUME UserPaysAssumption == UserPays \subseteq Presses

VARIABLES queue,     \* submitQueueRef.current
          flight,    \* q of the flush in flight, empty if none is
          fetched,   \* what the fetch of an order is at, or answered
          shown,     \* submitState
          holder,    \* whose request holds tradePipelineInFlight
          taken,     \* the orders the API took, in this order
          cuts, others,
          stage,     \* where completeUserPaidL1 is, for each order
          view,      \* the coins its transaction is built on
          spent, landed  \* transactions submitted, and those confirmed

tabVars == <<queue, flight, fetched, shown, holder, taken, cuts, others,
             stage, view, spent, landed>>
walletVars == <<view, spent, landed>>

TabInit ==
  /\ queue = <<>> /\ flight = <<>> /\ shown = "idle"
  /\ fetched = [o \in Presses |-> "new"]
  /\ holder = "none" /\ taken = <<>> /\ cuts = 0 /\ others = 0
  /\ stage = [o \in Presses |-> "none"]
  /\ view = [o \in Presses |-> {}] /\ spent = {} /\ landed = {}

-----------------------------------------------------------------------------
(* The API, as far as a tab sees it (external to the tab).                 *)

\* The guard on tradePipelineInFlight: 429, or the pipeline begins.
ApiReceives(o) ==
  /\ fetched[o] = "sent"
  /\ IF holder = "none"
       THEN /\ holder' = o /\ taken' = Append(taken, o)
            /\ fetched' = [fetched EXCEPT ![o] = "running"]
       ELSE /\ fetched' = [fetched EXCEPT ![o] = "429"]
            /\ UNCHANGED <<holder, taken>>
  /\ UNCHANGED <<queue, flight, shown, cuts, others, stage, walletVars>>

\* The handler ends: its answer reaches the fetch, if that still waits.
ApiAnswers(o) ==
  /\ holder = o /\ holder' = "none"
  /\ \E a \in {"error", IF o \in UserPays THEN "needsUserCardano" ELSE "ok"} :
       fetched' = IF fetched[o] = "running" THEN [fetched EXCEPT ![o] = a] ELSE fetched
  /\ UNCHANGED <<queue, flight, shown, taken, cuts, others, stage, walletVars>>

ConnectionFails(o) ==
  /\ cuts < MaxLosses /\ fetched[o] \in {"sent", "running"}
  /\ cuts' = cuts + 1
  /\ fetched' = [fetched EXCEPT ![o] = "lost"]
  /\ UNCHANGED <<queue, flight, shown, holder, taken, others, stage, walletVars>>

OtherBegins ==
  /\ others < MaxOthers /\ holder = "none"
  /\ others' = others + 1 /\ holder' = "other"
  /\ UNCHANGED <<queue, flight, fetched, shown, taken, cuts, stage, walletVars>>

OtherEnds ==
  /\ holder = "other" /\ holder' = "none"
  /\ UNCHANGED <<queue, flight, fetched, shown, taken, cuts, others, stage, walletVars>>

-----------------------------------------------------------------------------
(* The submit button and the queue.                                        *)

Answered(o) == fetched[o] \in {"429", "ok", "needsUserCardano", "error", "lost"}

\* The order's fetch is the button's, not the flush's.
Direct(o) == IF flight = <<>> THEN TRUE ELSE Head(flight) # o

\* onSubmit, up to the fetch.  The button is disabled while submitting.
Press(o) ==
  /\ fetched[o] = "new" /\ shown # "submitting"
  /\ shown' = "submitting" /\ fetched' = [fetched EXCEPT ![o] = "sent"]
  /\ UNCHANGED <<queue, flight, holder, taken, cuts, others, stage, walletVars>>

\* applyTradeSuccess, and the banner of the error paths.  With no wallet the
\* completion fails at once, and "submitting" is set over its "error".
Apply(o) ==
  IF fetched[o] = "needsUserCardano"
    THEN /\ \E s \in {"enable", "failed"} : stage' = [stage EXCEPT ![o] = s]
         /\ shown' = "submitting"
    ELSE UNCHANGED stage /\ shown' = IF fetched[o] = "ok" THEN "done" ELSE "error"

\* onSubmit after the fetch: 429 appends to the queue and flushes at once,
\* unless a flush is in flight.
PressAnswered(o) ==
  /\ Answered(o) /\ Direct(o)
  /\ IF fetched[o] = "429"
       THEN LET q == Append(queue, o) IN
            /\ queue' = q /\ shown' = "done" /\ UNCHANGED stage
            /\ IF flight = <<>>
                 THEN /\ flight' = q
                      /\ fetched' = [fetched EXCEPT ![o] = "queued", ![Head(q)] = "sent"]
                 ELSE /\ fetched' = [fetched EXCEPT ![o] = "queued"] /\ UNCHANGED flight
       ELSE /\ Apply(o) /\ fetched' = [fetched EXCEPT ![o] = "over"]
            /\ UNCHANGED <<queue, flight>>
  /\ UNCHANGED <<holder, taken, cuts, others, walletVars>>

\* The interval's flushSubmitQueue, up to the fetch.
Flush ==
  /\ flight = <<>> /\ queue # <<>>
  /\ flight' = queue /\ fetched' = [fetched EXCEPT ![Head(queue)] = "sent"]
  /\ UNCHANGED <<queue, shown, holder, taken, cuts, others, stage, walletVars>>

\* Defective: a failed fetch keeps its order at the head, to try again.
FlushAnsweredKeepingLost ==
  /\ flight # <<>> /\ Answered(Head(flight))
  /\ flight' = <<>>
  /\ LET o == Head(flight) IN
       IF fetched[o] \in {"429", "lost"}
         THEN fetched' = [fetched EXCEPT ![o] = "queued"] /\ UNCHANGED <<queue, shown, stage>>
         ELSE /\ queue' = Tail(flight) /\ Apply(o)
              /\ fetched' = [fetched EXCEPT ![o] = "over"]
  /\ UNCHANGED <<holder, taken, cuts, others, walletVars>>

\* Defective: the early return of a 429 leaves flushQueueInFlightRef set.
FlushAnsweredStuck ==
  /\ flight # <<>> /\ Answered(Head(flight))
  /\ LET o == Head(flight) IN
       IF fetched[o] = "429"
         THEN /\ fetched' = [fetched EXCEPT ![o] = "queued"]
              /\ UNCHANGED <<queue, flight, shown, stage>>
         ELSE /\ flight' = <<>> /\ queue' = Tail(flight) /\ Apply(o)
              /\ fetched' = [fetched EXCEPT ![o] = "over"]
  /\ UNCHANGED <<holder, taken, cuts, others, walletVars>>

\* flushSubmitQueue after the fetch: 429 leaves the queue; anything else sets
\* it to the rest of what it was when the flush began.
FlushAnswered ==
  /\ flight # <<>> /\ Answered(Head(flight))
  /\ flight' = <<>>
  /\ LET o == Head(flight) IN
       IF fetched[o] = "429"
         THEN fetched' = [fetched EXCEPT ![o] = "queued"] /\ UNCHANGED <<queue, shown, stage>>
         ELSE /\ queue' = Tail(flight) /\ Apply(o)
              /\ fetched' = [fetched EXCEPT ![o] = "over"]
  /\ UNCHANGED <<holder, taken, cuts, others, walletVars>>

-----------------------------------------------------------------------------
(* completeUserPaidL1 and submitUserPaidCardanoL1.                         *)

apiVars == <<queue, flight, fetched, holder, taken, cuts, others>>

Stage(o, from, to) == stage[o] = from /\ stage' = [stage EXCEPT ![o] = to]

\* lucid builds on the wallet's confirmed coins, and the user signs.
Build(o, from, to) ==
  /\ Stage(o, from, to) /\ view' = [view EXCEPT ![o] = landed]
  /\ UNCHANGED <<apiVars, shown, spent, landed>>

\* submit: accepted if what was confirmed then is all that is spent now.
SubmitTx(o, from, tx, to) ==
  /\ stage[o] = from
  /\ IF view[o] = spent
       THEN /\ spent' = spent \cup {<<o, tx>>} /\ stage' = [stage EXCEPT ![o] = to]
            /\ UNCHANGED shown
       ELSE /\ stage' = [stage EXCEPT ![o] = "refused"] /\ shown' = "error"
            /\ UNCHANGED spent
  /\ UNCHANGED <<apiVars, view, landed>>

\* Defective: lucid.awaitTx is not called.
AwaitTxNot(o, from, tx, to) ==
  /\ Stage(o, from, to) /\ UNCHANGED <<apiVars, shown, walletVars>>

\* lucid.awaitTx.
AwaitTx(o, from, tx, to) ==
  /\ Stage(o, from, to) /\ <<o, tx>> \in landed
  /\ UNCHANGED <<apiVars, shown, walletVars>>

Lands ==
  /\ \E t \in spent \ landed : landed' = landed \cup {t}
  /\ UNCHANGED <<apiVars, shown, stage, view, spent>>

\* POST /api/trade/user-l1-complete has been sent, and is answered.
CompleteAnswered(o) ==
  /\ Stage(o, "report", "reported")
  /\ shown' \in {"done", "error"} /\ UNCHANGED <<apiVars, walletVars>>

\* Declined access or signature, oracle-ref, blueprint or Blockfrost fails.
SigningFails(o) ==
  /\ stage[o] \in {"enable", "pull", "anchor", "wait1", "wait2"}
  /\ stage' = [stage EXCEPT ![o] = "failed"] /\ shown' = "error"
  /\ UNCHANGED <<apiVars, walletVars>>

Pays(o) ==
  \/ Build(o, "enable", "pull") \/ SubmitTx(o, "pull", "pull", "wait1")
  \/ AwaitTx(o, "wait1", "pull", "pulled")
  \/ Build(o, "pulled", "anchor") \/ SubmitTx(o, "anchor", "anchor", "wait2")
  \/ AwaitTx(o, "wait2", "anchor", "report")
  \/ CompleteAnswered(o) \/ SigningFails(o)

-----------------------------------------------------------------------------
TabNext ==
  \/ \E o \in Presses : \/ ApiReceives(o) \/ ApiAnswers(o) \/ ConnectionFails(o)
                        \/ Press(o) \/ PressAnswered(o) \/ Pays(o)
  \/ OtherBegins \/ OtherEnds \/ Flush \/ FlushAnswered \/ Lands

TabSpec == TabInit /\ [][TabNext]_tabVars

\* The timer fires, and fetches, handlers and their callbacks go on.
TabFairness ==
  /\ WF_tabVars(Flush) /\ WF_tabVars(FlushAnswered) /\ WF_tabVars(OtherEnds)
  /\ \A o \in Presses : /\ WF_tabVars(ApiReceives(o)) /\ WF_tabVars(ApiAnswers(o))
                        /\ WF_tabVars(PressAnswered(o))

-----------------------------------------------------------------------------
(* Properties.                                                             *)

InQueue == {queue[i] : i \in DOMAIN queue}
InFlight == {flight[i] : i \in DOMAIN flight}

\* App.tsx, flushSubmitQueue: whatever is lost or refused on the way, the API
\* takes an order at most once: only a refused order is ever posted again.
TakenOnce == \A i, j \in DOMAIN taken : taken[i] = taken[j] => i = j

\* App.tsx, flushSubmitQueue: an order leaves the queue answered, unless it
\* was queued while a flush was in flight (the line that overwrites the queue).
LeavesAnswered ==
  [][\A o \in InQueue : \/ \E i \in DOMAIN queue' : queue'[i] = o
                        \/ o \notin InFlight
                        \/ o = Head(flight) /\ fetched[o] # "429"]_tabVars

\* App.tsx, the interval: when other clients' pipelines end, a queued order
\* does not stay in the queue: no refusal or lost answer blocks the flush.
QueueMoves == \A o \in Presses : o \in InQueue ~> o \notin InQueue

\* The queue is served: its orders leave it, and only with an answer.
QueueIsServed == LeavesAnswered /\ QueueMoves

\* userPaidCardano.ts, the second awaitTx: user-l1-complete is posted for
\* transactions that are on chain, where the API can see both of them.
ReportedIsOnChain ==
  \A o \in Presses : stage[o] \in {"report", "reported"} => {<<o, "pull">>, <<o, "anchor">>} \subseteq landed

\* userPaidCardano.ts, the first awaitTx: the tab's own pull never makes its
\* anchor conflict: a transaction refused for spent coins takes another trade
\* of the same tab, whose completion nothing keeps from running beside it.
RefusedTakesAnotherTrade ==
  \A o \in Presses : stage[o] = "refused" => \E t \in spent : t[1] # o

\* A completion pays and reports in order, and is in nobody's way but another's.
PaymentsHold == ReportedIsOnChain /\ RefusedTakesAnotherTrade

-----------------------------------------------------------------------------
(* What a comment of the code says and the code does not do.               *)

\* App.tsx: "FIFO client queue when API returns 429": what is in the queue
\* stays there until the API has taken or answered it.
NothingQueuedIsLost == \A o \in Presses : fetched[o] = "queued" => o \in InQueue
=============================================================================
