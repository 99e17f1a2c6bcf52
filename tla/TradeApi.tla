------------------------------ MODULE TradeApi ------------------------------
(***************************************************************************)
(* The trade endpoints of perps-web/server/index.ts over the resting book  *)
(* file of restingBook.ts: POST /api/trade/submit, /api/trade/rest-only    *)
(* and /api/midnight/cli/run-all, handled by one Node.js event loop.       *)
(*                                                                         *)
(* Handlers interleave at every await: reading the book file, opening it   *)
(* for writing (which truncates it), the write landing, a pipeline ending. *)
(* What runs between two awaits is one action.  A pipeline is the whole of *)
(* runFullPipelineForBidAsk; here it only succeeds or fails (its steps are *)
(* in the modules TradePipeline and TradeIndex).                              *)
(***************************************************************************)
EXTENDS RestingBook

CONSTANTS
  Req,            \* identities of HTTP requests
  Kinds,          \* the endpoints in use: a subset of AllKinds
  Payloads,       \* the order payloads clients send
  SweepPair,      \* SWEEP_PAIR_ID, the only pair that is swept
  ParallelSweep,  \* PERPS_PARALLEL_SWEEP_MATCHES and no margin-pool mode
  PoolSize,       \* PERPS_MIDNIGHT_WORKER_POOL_SIZE
  MaxCrashes      \* bound on the crashes of the API process

AllKinds == {"submit", "rest", "runall"}

Pairs == {p.pair : p \in Payloads}

ASSUME KindsAssumption == Kinds \subseteq AllKinds
ASSUME PayloadsAssumption ==
  \A p \in Payloads :
     /\ p = [pair |-> p.pair, side |-> p.side, price |-> p.price, size |-> p.size]
     /\ p.side \in Sides /\ p.price \in Nat \ {0} /\ p.size \in Nat \ {0}
ASSUME ParallelSweepAssumption == ParallelSweep \in BOOLEAN
ASSUME PoolSizeAssumption == PoolSize \in Nat \ {0}
ASSUME MaxCrashesAssumption == MaxCrashes \in Nat

VARIABLES
  book,       \* what a read of .perps-resting-book.json returns
  file,       \* the bytes behind it: whole, truncated by open, or garbled
  tradePipelineInFlight,
  clock,      \* the wall clock behind createdAt
  pc,         \* where each handler awaits, or the reply it gave
  req,        \* the body each request brought
  frame,      \* each handler's local variables
  settled,    \* quantity of each request's order in successful pipelines
  reconcile,  \* the log asked to reconcile executions with a restored book
  crashes

vars == <<book, file, tradePipelineInFlight, clock, pc, req, frame, settled,
          reconcile, crashes>>

FileStates == {"whole", "truncated", "garbled"}
SlotStates == {"running", "open", "land", "failed", "ok"}
Replies    == {"ok", "invalid", "busy", "conflict", "error", "dead"}
Awaits     == {"snap", "match", "open", "land", "rollback", "pipe", "join",
               "stamp", "add", "sweep", "cross", "pull", "cli"}
PC         == {"new"} \cup Awaits \cup Replies

Order == [id : Req, pair : Pairs, side : Sides, price : Nat, size : Nat, at : Nat]
Fill  == [long : Req, short : Req, price : Nat, qty : Nat]
Frame == [snap  : Seq(Order),       \* snapshotResting()
          buf   : Seq(Order),       \* the store being written
          next  : PC,               \* where the handler goes on after a write
          rem   : Nat,              \* the quantity that is to rest
          at    : Nat,              \* createdAt of the order being added
          fills : Seq(Fill),        \* the executions found
          done  : Nat,              \* how many of them have gone through
          slot  : Seq(SlotStates),  \* the pipelines of the current chunk
          phase : {"taker", "sweep", "batch"}]

NoFrame == [snap |-> <<>>, buf |-> <<>>, next |-> "new", rem |-> 0, at |-> 0,
            fills |-> <<>>, done |-> 0, slot |-> <<>>, phase |-> "taker"]

Requests == [kind : AllKinds, pair : Pairs, side : Sides, price : Nat,
             size : Nat \ {0}]
NoRequest == [kind |-> "none"]
RunAll    == [kind |-> "runall"]
Body(kind, p) == [kind |-> kind, pair |-> p.pair, side |-> p.side,
                  price |-> p.price, size |-> p.size]

Active(r) == pc[r] \in Awaits

Init ==
  /\ book = <<>> /\ file = "whole"
  /\ tradePipelineInFlight = FALSE
  /\ clock = 0
  /\ pc = [r \in Req |-> "new"]
  /\ req = [r \in Req |-> NoRequest]
  /\ frame = [r \in Req |-> NoFrame]
  /\ settled = [r \in Req |-> 0]
  /\ reconcile = FALSE
  /\ crashes = 0

-----------------------------------------------------------------------------
(* How a handler moves on.                                                 *)

\* Handler r goes on at "next" with locals f; a reply of a handler that set
\* the flag runs the finally block that clears it.
Goto(r, next, f) ==
  /\ pc' = [pc EXCEPT ![r] = next]
  /\ frame' = [frame EXCEPT ![r] = IF next \in Replies THEN NoFrame ELSE f]
  /\ tradePipelineInFlight' =
       IF next \in Replies /\ req[r].kind # "rest"
       THEN FALSE ELSE tradePipelineInFlight

\* writeStore(b): the handler awaits fs.writeFile, then goes on at "next".
WriteStore(r, b, next, f) ==
  Goto(r, "open", [f EXCEPT !.buf = b, !.next = next])

\* Only the file or only the handlers change.
BookUnchanged  == UNCHANGED <<book, file>>
GhostUnchanged == UNCHANGED <<settled, reconcile, crashes>>

-----------------------------------------------------------------------------
(* Arrivals: from the parsed body to the first await.                      *)

\* A body that is not valid JSON, lacks a field or has the wrong margin.
Invalid(r) ==
  /\ pc[r] = "new"
  /\ pc' = [pc EXCEPT ![r] = "invalid"]
  /\ UNCHANGED <<tradePipelineInFlight, req, frame, clock>>
  /\ BookUnchanged /\ GhostUnchanged

\* 429: another pipeline or CLI run is in flight.
Busy(r) ==
  /\ pc[r] = "new"
  /\ Kinds \cap {"submit", "runall"} # {}
  /\ tradePipelineInFlight
  /\ pc' = [pc EXCEPT ![r] = "busy"]
  /\ UNCHANGED <<tradePipelineInFlight, req, frame, clock>>
  /\ BookUnchanged /\ GhostUnchanged

\* /api/trade/submit: the flag is tested and set without an await between.
Submit(r) ==
  /\ pc[r] = "new"
  /\ "submit" \in Kinds
  /\ ~ tradePipelineInFlight
  /\ tradePipelineInFlight' = TRUE
  /\ \E p \in Payloads :
       /\ req' = [req EXCEPT ![r] = Body("submit", p)]
       /\ frame' = [frame EXCEPT ![r].rem = p.size]
  /\ pc' = [pc EXCEPT ![r] = "snap"]
  /\ UNCHANGED clock
  /\ BookUnchanged /\ GhostUnchanged

\* /api/trade/rest-only: no test of the flag.
RestOnly(r) ==
  /\ pc[r] = "new"
  /\ "rest" \in Kinds
  /\ \E p \in Payloads :
       /\ req' = [req EXCEPT ![r] = Body("rest", p)]
       /\ frame' = [frame EXCEPT ![r].rem = p.size]
  /\ pc' = [pc EXCEPT ![r] = "snap"]
  /\ UNCHANGED <<tradePipelineInFlight, clock>>
  /\ BookUnchanged /\ GhostUnchanged

\* Defective: run-all sets the flag without testing it.
RunAllUnchecked(r) ==
  /\ pc[r] = "new"
  /\ "runall" \in Kinds
  /\ tradePipelineInFlight' = TRUE
  /\ req' = [req EXCEPT ![r] = RunAll]
  /\ pc' = [pc EXCEPT ![r] = "cli"]
  /\ UNCHANGED <<frame, clock>>
  /\ BookUnchanged /\ GhostUnchanged

\* /api/midnight/cli/run-all: the same flag around a CLI run.
RunAllStart(r) ==
  /\ pc[r] = "new"
  /\ "runall" \in Kinds
  /\ ~ tradePipelineInFlight
  /\ tradePipelineInFlight' = TRUE
  /\ req' = [req EXCEPT ![r] = RunAll]
  /\ pc' = [pc EXCEPT ![r] = "cli"]
  /\ UNCHANGED <<frame, clock>>
  /\ BookUnchanged /\ GhostUnchanged

RunAllEnd(r) ==
  /\ pc[r] = "cli"
  /\ \E code \in {"ok", "error"} : Goto(r, code, frame[r])
  /\ UNCHANGED <<req, clock>>
  /\ BookUnchanged /\ GhostUnchanged

-----------------------------------------------------------------------------
(* Writing the book file.                                                  *)

\* fs.writeFile opens the file with O_TRUNC: a read now finds no JSON and
\* readStore answers with an empty store.
OpenFile(r) ==
  /\ pc[r] = "open"
  /\ book' = <<>> /\ file' = "truncated"
  /\ pc' = [pc EXCEPT ![r] = "land"]
  /\ UNCHANGED <<tradePipelineInFlight, req, frame, clock>>
  /\ GhostUnchanged

\* The bytes of b land at offset 0.  Over other bytes that a concurrent
\* writer landed, the longer tail of those may remain: no JSON any more.
Land(b) ==
  \/ book' = b /\ file' = "whole"
  \/ /\ file = "garbled" \/ (file = "whole" /\ book # b)
     /\ book' = <<>> /\ file' = "garbled"

FileWritten(r) ==
  /\ pc[r] = "land"
  /\ Land(frame[r].buf)
  /\ Goto(r, frame[r].next, frame[r])
  /\ UNCHANGED <<req, clock>>
  /\ GhostUnchanged

-----------------------------------------------------------------------------
(* Matching the incoming order.                                            *)

\* const snap = await snapshotResting()
Snapshot(r) ==
  /\ pc[r] = "snap"
  /\ Goto(r, "match", [frame[r] EXCEPT !.snap = book])
  /\ UNCHANGED <<req, clock>>
  /\ BookUnchanged /\ GhostUnchanged

\* matchAndConsume finds a maker and persists the reduced book; rest-only
\* then writes its snapshot back and refuses the order.
Match(r) ==
  /\ pc[r] = "match"
  /\ \E i \in Matches(book, req[r]) :
       LET q == Smaller(req[r].size, book[i].size)
       IN  WriteStore(r, Consume(book, i, q),
                      IF req[r].kind = "submit" THEN "pipe" ELSE "rollback",
                      [frame[r] EXCEPT !.rem = @ - q,
                                       !.fills = <<TakerFill(r, req[r], book[i])>>])
  /\ UNCHANGED <<req, clock>>
  /\ BookUnchanged /\ GhostUnchanged

NoMatch(r) ==
  /\ pc[r] = "match"
  /\ Matches(book, req[r]) = {}
  /\ Goto(r, "stamp", frame[r])
  /\ UNCHANGED <<req, clock>>
  /\ BookUnchanged /\ GhostUnchanged

\* rest-only: restoreResting(snap), then 409.
Rollback(r) ==
  /\ pc[r] = "rollback"
  /\ WriteStore(r, frame[r].snap, "conflict", frame[r])
  /\ UNCHANGED <<req, clock>>
  /\ BookUnchanged /\ GhostUnchanged

\* addRestingFromPayload builds the order with the time of the call, which
\* may be the same millisecond as another's ...
Stamp(r) ==
  /\ pc[r] = "stamp"
  /\ \E t \in {clock, clock + 1} :
       /\ clock' = t
       /\ Goto(r, "add", [frame[r] EXCEPT !.at = t])
  /\ UNCHANGED req
  /\ BookUnchanged /\ GhostUnchanged

\* The order that is added: the body as it came, or remainderPayload.
NewOrder(r) ==
  [id |-> r, pair |-> req[r].pair, side |-> req[r].side, price |-> req[r].price,
   size |-> IF frame[r].fills = <<>> THEN frame[r].rem ELSE SizeStr(frame[r].rem),
   at |-> frame[r].at]

\* Defective: no sweep after a remainder or a new order has been added.
AddWithoutSweep(r) ==
  /\ pc[r] = "add"
  /\ WriteStore(r, Append(book, NewOrder(r)), "ok", frame[r])
  /\ UNCHANGED <<req, clock>>
  /\ BookUnchanged /\ GhostUnchanged

\* Defective: the new order is put in front, as in the trade index.
AddInFront(r) ==
  /\ pc[r] = "add"
  /\ WriteStore(r, <<NewOrder(r)>> \o book,
                IF req[r].kind = "submit" THEN "sweep" ELSE "ok", frame[r])
  /\ UNCHANGED <<req, clock>>
  /\ BookUnchanged /\ GhostUnchanged

\* ... reads the store, and writes it with the order at its end.
Add(r) ==
  /\ pc[r] = "add"
  /\ WriteStore(r, Append(book, NewOrder(r)),
                IF req[r].kind = "submit" THEN "sweep" ELSE "ok", frame[r])
  /\ UNCHANGED <<req, clock>>
  /\ BookUnchanged /\ GhostUnchanged

-----------------------------------------------------------------------------
(* sweepRestingCrosses.                                                    *)

SweepStart(r) ==
  /\ pc[r] = "sweep"
  /\ Goto(r, "cross", [frame[r] EXCEPT !.snap = book, !.fills = <<>>,
                                       !.done = 0, !.phase = "sweep"])
  /\ UNCHANGED <<req, clock>>
  /\ BookUnchanged /\ GhostUnchanged

\* One cross leaves the book: the sequential sweep runs its pipeline, the
\* parallel one collects the next.
SweepCross(r) ==
  /\ pc[r] = "cross"
  /\ \E x \in Crosses(book, SweepPair) :
       LET fill == CrossFill(book[x[1]], book[x[2]])
       IN  WriteStore(r, Cross(book, x[1], x[2]),
                      IF ParallelSweep THEN "cross" ELSE "pipe",
                      [frame[r] EXCEPT !.fills = Append(@, fill)])
  /\ UNCHANGED <<req, clock>>
  /\ BookUnchanged /\ GhostUnchanged

\* No cross is left: nothing to do, one pipeline, or a batch with one pull.
SweepCollected(r) ==
  /\ pc[r] = "cross"
  /\ Crosses(book, SweepPair) = {}
  /\ CASE Len(frame[r].fills) = 0 -> Goto(r, "ok", frame[r])
       [] Len(frame[r].fills) = 1 -> Goto(r, "pipe", frame[r])
       [] OTHER -> Goto(r, "pull", [frame[r] EXCEPT !.phase = "batch"])
  /\ UNCHANGED <<req, clock>>
  /\ BookUnchanged /\ GhostUnchanged

\* Defective: a failed pull is answered without restoring the book.
PullWithoutRestore(r) ==
  /\ pc[r] = "pull"
  /\ Goto(r, "pipe", frame[r]) \/ Goto(r, "error", frame[r])
  /\ UNCHANGED <<req, clock>>
  /\ BookUnchanged /\ GhostUnchanged

\* fetchOracleAndSubmitCharli3Pull, shared by the batch.
Pull(r) ==
  /\ pc[r] = "pull"
  /\ \/ Goto(r, "pipe", frame[r])
     \/ WriteStore(r, frame[r].snap, "error", frame[r])
  /\ UNCHANGED <<req, clock>>
  /\ BookUnchanged /\ GhostUnchanged

-----------------------------------------------------------------------------
(* Pipelines: one, or a chunk of a batch under Promise.all.                *)

PipelineStart(r) ==
  /\ pc[r] = "pipe"
  /\ LET n == Smaller(PoolSize, Len(frame[r].fills) - frame[r].done)
     IN  Goto(r, "join", [frame[r] EXCEPT !.slot = [i \in 1..n |-> "running"]])
  /\ UNCHANGED <<req, clock>>
  /\ BookUnchanged /\ GhostUnchanged

SetSlot(r, i, s) == frame' = [frame EXCEPT ![r].slot[i] = s]

FillOf(r, i) == frame[r].fills[frame[r].done + i]

PipelineOk(r, i) ==
  /\ pc[r] = "join" /\ frame[r].slot[i] = "running"
  /\ SetSlot(r, i, "ok")
  /\ LET f == FillOf(r, i)
     IN  settled' = [q \in Req |-> settled[q]
                       + (IF q = f.long THEN f.qty ELSE 0)
                       + (IF q = f.short THEN f.qty ELSE 0)]
  /\ UNCHANGED <<tradePipelineInFlight, pc, req, clock, reconcile, crashes>>
  /\ BookUnchanged

\* The catch block: restoreResting(bookSnapshot) by each failing pipeline.
PipelineFail(r, i) ==
  /\ pc[r] = "join" /\ frame[r].slot[i] = "running"
  /\ SetSlot(r, i, "open")
  /\ UNCHANGED <<tradePipelineInFlight, pc, req, clock>>
  /\ BookUnchanged /\ GhostUnchanged

PipelineOpenFile(r, i) ==
  /\ pc[r] = "join" /\ frame[r].slot[i] = "open"
  /\ SetSlot(r, i, "land")
  /\ book' = <<>> /\ file' = "truncated"
  /\ UNCHANGED <<tradePipelineInFlight, pc, req, clock>>
  /\ GhostUnchanged

PipelineFileWritten(r, i) ==
  /\ pc[r] = "join" /\ frame[r].slot[i] = "land"
  /\ SetSlot(r, i, "failed")
  /\ Land(frame[r].snap)
  /\ UNCHANGED <<tradePipelineInFlight, pc, req, clock>>
  /\ GhostUnchanged

Slots(r) == {frame[r].slot[i] : i \in DOMAIN frame[r].slot}

\* Defective: a chunk only ends when all its pipelines end alike.
EndedAlike(r) == Slots(r) \in {{"ok"}, {"failed"}}

\* Promise.all over pipelines that never reject: every one has ended.
Ended(r) == Slots(r) \subseteq {"ok", "failed"}

\* All pipelines of the chunk have ended, one of them badly: reply 500,
\* after one more restore if this is a batch.
JoinFailed(r) ==
  /\ pc[r] = "join"
  /\ Ended(r) /\ "failed" \in Slots(r)
  /\ IF frame[r].phase = "batch"
     THEN /\ WriteStore(r, frame[r].snap, "error", frame[r])
          /\ reconcile' = (reconcile \/ frame[r].done > 0 \/ "ok" \in Slots(r))
     ELSE Goto(r, "error", frame[r]) /\ UNCHANGED reconcile
  /\ UNCHANGED <<req, clock, settled, crashes>>
  /\ BookUnchanged

\* Defective: the remainder of a taker is not added to the book.
AfterDroppingRest(r) ==
  IF frame[r].phase = "taker" \/ (frame[r].phase = "sweep" /\ ~ ParallelSweep)
  THEN "sweep" ELSE "ok"

\* Where a handler goes on when its pipelines have succeeded.
AfterPipelines(r) ==
  CASE frame[r].phase = "taker" -> IF frame[r].rem > 0 THEN "stamp" ELSE "sweep"
    [] frame[r].phase = "sweep" -> IF ParallelSweep THEN "ok" ELSE "sweep"
    [] frame[r].phase = "batch" -> "ok"

JoinOk(r) ==
  LET done == frame[r].done + Len(frame[r].slot)
      f    == [frame[r] EXCEPT !.done = done, !.slot = <<>>]
  IN  /\ pc[r] = "join"
      /\ Ended(r) /\ "failed" \notin Slots(r)
      /\ Goto(r, IF done < Len(f.fills) THEN "pipe" ELSE AfterPipelines(r), f)
      /\ UNCHANGED <<req, clock>>
      /\ BookUnchanged /\ GhostUnchanged

-----------------------------------------------------------------------------

\* The API process dies and starts again: handlers and the flag are gone,
\* the file stays as it is.
Crash ==
  /\ crashes < MaxCrashes
  /\ crashes' = crashes + 1
  /\ pc' = [r \in Req |-> IF Active(r) THEN "dead" ELSE pc[r]]
  /\ frame' = [r \in Req |-> NoFrame]
  /\ tradePipelineInFlight' = FALSE
  /\ UNCHANGED <<clock, req, settled, reconcile>>
  /\ BookUnchanged

Arrive(r) ==
  Invalid(r) \/ Busy(r) \/ Submit(r) \/ RestOnly(r) \/ RunAllStart(r)

Pipeline(r) ==
  \E i \in DOMAIN frame[r].slot :
     \/ PipelineOk(r, i) \/ PipelineFail(r, i)
     \/ PipelineOpenFile(r, i) \/ PipelineFileWritten(r, i)

Handle(r) ==
  \/ RunAllEnd(r) \/ OpenFile(r) \/ FileWritten(r)
  \/ Snapshot(r) \/ Match(r) \/ NoMatch(r) \/ Rollback(r) \/ Stamp(r) \/ Add(r)
  \/ SweepStart(r) \/ SweepCross(r) \/ SweepCollected(r) \/ Pull(r)
  \/ PipelineStart(r) \/ Pipeline(r) \/ JoinFailed(r) \/ JoinOk(r)

Next == Crash \/ \E r \in Req : Arrive(r) \/ Handle(r)

Spec == Init /\ [][Next]_vars

\* Every await ends: file operations complete, a CLI run is killed after
\* PERPS_MIDNIGHT_CLI_MAX_MS, Blockfrost polls have a deadline.
Fairness == \A r \in Req : WF_vars(Handle(r))

FairSpec == Spec /\ Fairness

-----------------------------------------------------------------------------
(* Properties.                                                             *)

TypeOK ==
  /\ book \in Seq(Order)
  /\ file \in FileStates
  /\ tradePipelineInFlight \in BOOLEAN
  /\ clock \in Nat
  /\ pc \in [Req -> PC]
  /\ req \in [Req -> Requests \cup {NoRequest, RunAll}]
  /\ frame \in [Req -> Frame]
  /\ settled \in [Req -> Nat]
  /\ reconcile \in BOOLEAN
  /\ crashes \in Nat

\* Handlers that own the pipeline: submit or run-all between admission and reply.
Holds(r) == Active(r) /\ req[r].kind \in {"submit", "runall"}

\* "One pipeline at a time" (index.ts, tradePipelineInFlight): two handlers
\* never run a submit or a run-all at once, on whatever path they left.
SinglePipeline == \A q, r \in Req : Holds(q) /\ Holds(r) => q = r

\* The flag is set exactly while a handler owns the pipeline: every early
\* return, failure and crash frees it, and nothing frees it too early.
FlagIsExact == tradePipelineInFlight = (\E r \in Req : Holds(r))

\* The flag is a lock: on every path it is held by one handler, and free when
\* none runs a pipeline (index.ts:59, :816-875).
FlagIsALock == SinglePipeline /\ FlagIsExact

\* Every execution, of a taker or of a resting cross, is within the limits
\* of both orders and between orders of one pair, even when handlers overlap,
\* the file is torn or a stale snapshot has been written back.
FillsWithinLimits ==
  \A r \in Req : \A k \in DOMAIN frame[r].fills :
     LET f == frame[r].fills[k]
     IN  /\ req[f.long].side = "long" /\ req[f.short].side = "short"
         /\ req[f.long].pair = req[f.short].pair
         /\ req[f.short].price <= f.price /\ f.price <= req[f.long].price

\* No order trades more than its size: what successful pipelines settled and
\* what still rests never exceed it, and no order rests twice.  Holds for
\* submit traffic with sequential sweeps, across crashes.
NeverOverfilled ==
  /\ \A i, j \in DOMAIN book : book[i].id = book[j].id => i = j
  /\ \A i \in DOMAIN book :
        settled[book[i].id] + book[i].size <= req[book[i].id].size
  /\ \A r \in Req : settled[r] > 0 => settled[r] <= req[r].size

Idle == \A r \in Req : ~ Active(r)

\* What request r has in the venue: executed and resting quantity.
Total(r) ==
  settled[r] + SumFunction([i \in {k \in DOMAIN book : book[k].id = r} |-> book[i].size])

\* A submitted order is in the venue as a whole or not at all, and as a whole
\* if the reply was 200: matching, partial fills, sweeps and rollbacks neither
\* lose nor create quantity, unless the API has crashed or its log has asked to
\* reconcile.
AllOrNothing ==
  Idle /\ ~ reconcile /\ crashes = 0 =>
    \A r \in Req :
       /\ pc[r] = "ok" /\ req[r].kind = "submit" => Total(r) = req[r].size
       /\ pc[r] = "error" /\ req[r].kind = "submit" => Total(r) \in {0, req[r].size}

\* "FIFO on tie" (restingBook.ts), as far as it goes: an order nothing has been
\* filled of is never passed over for a younger one of its price.  (A remainder
\* of a resting cross is pushed to the end and does lose its place.)
UntouchedIsFifo ==
  \A r \in Req : pc[r] = "match" =>
    \A i \in Makers(book, req[r]), j \in Eligible(book, req[r]) :
       /\ book[i].price = book[j].price
       /\ book[j].size = req[book[j].id].size
       => book[i].at <= book[j].at

\* A submit that answers 500 leaves the book exactly as the snapshot taken
\* before the failed match or sweep, once all restores have landed.
FailureRestoresBook ==
  [][\A r \in Req :
       /\ pc[r] # "error" /\ pc'[r] = "error" /\ req[r].kind = "submit"
       => book' = frame[r].snap]_vars

\* A submit that answers 200 leaves the swept pair uncrossed: nothing its
\* pipelines or its own remainder did left a bid at or above an ask.
SuccessUncrosses ==
  [][\A r \in Req :
       /\ pc[r] # "ok" /\ pc'[r] = "ok" /\ req[r].kind = "submit"
       => ~ Crossed(book', SweepPair)]_vars

\* Every admitted request is answered, or the API has crashed: sweeps end,
\* and no failure leaves a handler or a chunk of pipelines waiting.
EveryRequestAnswered == \A r \in Req : Active(r) ~> pc[r] \in Replies

-----------------------------------------------------------------------------
(* What comments of the code say and the code does not do.                 *)

\* index.ts, rest-only: an order it has acknowledged rests or has traded,
\* "when a full pipeline may be running", and be it the only rest-only call.
RestOnlyIsKept ==
  Idle => \A r \in Req :
    /\ pc[r] = "ok" /\ req[r].kind = "rest"
    /\ \A q \in Req \ {r} : req[q].kind # "rest"
    => Total(r) = req[r].size
=============================================================================
