----------------------------- MODULE QuoteBots -----------------------------
(***************************************************************************)
(* The two scripts that trade through the API: perps-web/scripts/mm-bot.ts *)
(* reads the resting book and posts an order that takes its best level,    *)
(* and seed-liquidity.ts posts a ladder of orders that are to rest.  Both  *)
(* read the book in one request and act on it in a second one, beside the  *)
(* users who post orders of their own.                                     *)
(*                                                                         *)
(* The API is abstracted to what its handlers do to the book between two   *)
(* pipelines, with the sweep of PERPS_PARALLEL_SWEEP_MATCHES=1, which takes *)
(* all crosses off the book first; TradeApi models what overlaps inside    *)
(* them.  Prices are multiples of 1e-8, SEED_REST_EPS is one of them, and  *)
(* priceStr writes prices from One (1.0) upwards to Coarse of them (1e-6). *)
(* Orders of one price are taken in the order of the array.                *)
(***************************************************************************)
EXTENDS Integers, SequencesExt, FiniteSetsExt

CONSTANTS UserOrders,  \* what users may post: records [side, price, size]
          MaxUsers,    \* orders they post
          RestingCap,  \* MM_BOT_RESTING_SIZE
          Mark, Gap, Spread, Levels, SeedSize,  \* the oracle's mark, SEED_*
          One, Coarse, \* where priceStr begins to round, and to what
          MaxFaults    \* requests and pipelines that fail

Book == INSTANCE RestingBook WITH Grain <- 1

ASSUME UserOrdersAssumption ==
  UserOrders \subseteq [side : Book!Sides, price : Nat \ {0}, size : Nat \ {0}]
ASSUME RestingCapAssumption == RestingCap \in Nat \ {0}
ASSUME SeedAssumption ==
  Mark \in Int /\ Gap \in Int /\ Spread \in Int /\ Levels \in Nat /\ SeedSize \in Nat \ {0}
ASSUME PriceAssumption == One \in Nat /\ Coarse \in Nat \ {0} /\ One >= Coarse

None == 0  \* no best price
Unread == [s \in Book!Sides |-> -1]

Made(by, side, price, size) ==
  [by |-> by, pair |-> "ADA", side |-> side, price |-> price, size |-> size, at |-> 0]

NoOrder == Made("nobody", "long", 0, 0)

VARIABLES resting,   \* the resting book of the API
          flag,      \* tradePipelineInFlight: "free", or what its holder is at
          inflight,  \* the remainder of its order, or NoOrder
          snap,      \* the book that a failing pipeline restores
          users,     \* orders that users have posted
          tick,      \* the bot's counter, its parity
          plan,      \* what the bot is about to post
          awaited,   \* the bot waits for the answer of its POST
          rungs,     \* what became of the seeder's orders so far
          status,    \* the bests it has read for the next one
          faults,
          selfTrade, \* the bot took an order of its own
          upset      \* history: see SelfTradeTakesTrouble

botVars == <<resting, flag, inflight, snap, users, tick, plan, awaited, rungs, status,
             faults, selfTrade, upset>>
bookApiVars == <<resting, flag, inflight, snap, awaited, selfTrade, upset>>

BotsInit ==
  /\ resting = <<>> /\ flag = "free" /\ inflight = NoOrder /\ snap = <<>> /\ users = 0
  /\ tick = 0 /\ plan = NoOrder /\ awaited = FALSE /\ rungs = <<>> /\ status = Unread
  /\ faults = 0 /\ selfTrade = FALSE /\ upset = FALSE

-----------------------------------------------------------------------------
(* The API.                                                                *)

Planned == plan # NoOrder

\* A submit takes the flag: its order takes its maker, and a pipeline runs, or
\* it rests and is swept.
Enters(o, wasPlanned) ==
  \/ \E i \in Book!Matches(resting, o) :
       LET q == Book!Smaller(o.size, resting[i].size) IN
       /\ resting' = Book!Consume(resting, i, q) /\ snap' = resting
       /\ flag' = "taker" /\ inflight' = [o EXCEPT !.size = @ - q]
       /\ selfTrade' = (selfTrade \/ {o.by, resting[i].by} = {"bot"})
       /\ upset' = (upset \/ wasPlanned)
  \/ /\ Book!Matches(resting, o) = {}
     /\ resting' = Append(resting, o) /\ snap' = resting'
     /\ flag' = "sweep" /\ UNCHANGED <<inflight, selfTrade, upset>>

\* /api/trade/submit by a user; 429 while a pipeline runs changes nothing.
UserSubmits ==
  /\ users < MaxUsers /\ flag = "free"
  /\ users' = users + 1
  /\ \E u \in UserOrders : Enters(Made("user", u.side, u.price, u.size), Planned)
  /\ UNCHANGED <<tick, plan, awaited, rungs, status, faults>>

\* The taker's pipeline is through: its remainder rests, and the sweep begins.
PipelineEnds ==
  /\ flag = "taker" /\ flag' = "sweep"
  /\ resting' = IF inflight.size > 0 THEN Append(resting, inflight) ELSE resting
  /\ inflight' = NoOrder /\ snap' = resting'
  /\ UNCHANGED <<users, tick, plan, awaited, rungs, status, faults, selfTrade, upset>>

\* matchRestingCrossOnce: one cross of the book joins the batch.
SweepCrosses ==
  /\ flag \in {"sweep", "batch"} /\ flag' = "batch"
  /\ \E x \in Book!Crosses(resting, "ADA") :
       /\ resting' = Book!Cross(resting, x[1], x[2])
       /\ selfTrade' = (selfTrade \/ {resting[x[1]].by, resting[x[2]].by} = {"bot"})
  /\ upset' = (upset \/ Planned)
  /\ UNCHANGED <<inflight, snap, users, tick, plan, awaited, rungs, status, faults>>

NoCross == Book!Crosses(resting, "ADA") = {}

Free == flag' = "free" /\ inflight' = NoOrder /\ awaited' = FALSE

\* Nothing to sweep, or the pipelines of the batch are through.
SweepEnds ==
  /\ flag \in {"sweep", "batch"} /\ NoCross /\ Free
  /\ UNCHANGED <<resting, snap, users, tick, plan, rungs, status, faults, selfTrade, upset>>

\* restoreResting(snap): of a taker's pipeline the order is gone; a sweep's
\* leaves what it had taken, a remainder of the taker too, on the book again.
\* What rested meanwhile is gone.
PipelineFails ==
  /\ flag = "taker" \/ (flag = "batch" /\ NoCross)
  /\ faults < MaxFaults /\ faults' = faults + 1
  /\ resting' = snap /\ Free
  /\ upset' = (upset \/ Planned \/ flag = "batch")
  /\ UNCHANGED <<snap, users, tick, plan, rungs, status, selfTrade>>

\* GET /api/orderbook?resting=1 and /api/matching/status: best price, or none.
Best(side) ==
  LET P == {o.price : o \in {p \in Range(resting) : p.side = side}}
  IN  IF P = {} THEN None ELSE IF side = "long" THEN Max(P) ELSE Min(P)

\* Resting order k is at the best price of the side: none of it is better.
AtBest(side, k) ==
  /\ resting[k].side = side
  /\ \A j \in DOMAIN resting :
       resting[j].side = side => ~ Book!Better(side, resting[j].price, resting[k].price)

\* The size of the level at the best price, aggregated.
LevelSize(side) ==
  SumFunction([k \in DOMAIN resting |-> IF AtBest(side, k) THEN resting[k].size ELSE 0])

-----------------------------------------------------------------------------
(* mm-bot.ts                                                               *)

\* priceStr: six decimals from 1 upwards, a tie to the larger; else eight.
PriceStr(p) ==
  IF p >= One THEN Coarse * ((2 * p + Coarse) \div (2 * Coarse)) ELSE p

\* planFromBook, one side: the opposite side at its price, capped.
PlanFor(side) ==
  Made("bot", Book!Opposite(side), PriceStr(Best(side)),
       Book!Smaller(LevelSize(side), RestingCap))

\* planFromBook: bids and asks in turn when there are both.
BookSource ==
  IF Best("long") # None /\ Best("short") # None
    THEN IF tick = 0 THEN "long" ELSE "short"
    ELSE IF Best("long") # None THEN "long" ELSE "short"

\* tickOnce up to the POST; an empty book is skipped, and counted.  The loop
\* waits for the answer of its POST before it ticks again.
BotReads ==
  /\ plan = NoOrder /\ ~ awaited
  /\ IF resting = <<>>
       THEN UNCHANGED <<plan, upset>>
       ELSE /\ plan' = PlanFor(BookSource)
            /\ upset' = (upset \/ PriceStr(Best(BookSource)) # Best(BookSource))
  /\ tick' = 1 - tick
  /\ UNCHANGED <<resting, flag, inflight, snap, awaited, selfTrade, users, rungs, status, faults>>

\* tickOnce, the POST: 429, or the order meets the book.
BotPosts ==
  /\ plan # NoOrder /\ plan' = NoOrder
  /\ IF flag # "free" THEN UNCHANGED bookApiVars
                       ELSE Enters(plan, FALSE) /\ awaited' = TRUE
  /\ UNCHANGED <<users, tick, rungs, status, faults>>

\* The POST does not get through: the next tick comes (as after a failed read).
BotFails ==
  /\ faults < MaxFaults /\ faults' = faults + 1
  /\ plan # NoOrder /\ plan' = NoOrder
  /\ UNCHANGED <<bookApiVars, users, tick, rungs, status>>

\* The connection is lost while the API works on: the loop goes on beside it.
BotLosesAnswer ==
  /\ awaited /\ awaited' = FALSE
  /\ faults < MaxFaults /\ faults' = faults + 1
  /\ UNCHANGED <<resting, flag, inflight, snap, selfTrade, upset, users, tick, plan, rungs, status>>

-----------------------------------------------------------------------------
(* seed-liquidity.ts                                                       *)

\* main: the bids from the mark downwards, then the asks upwards.
Ladder ==
  [i \in 1..(2 * Levels) |->
     IF i <= Levels THEN [side |-> "long", price |-> Mark - Gap - i * Spread]
                    ELSE [side |-> "short", price |-> Mark + Gap + (i - Levels) * Spread]]

ASSUME LadderAssumption == Mark - Gap - Levels * Spread > 0

Rung == Ladder[Len(rungs) + 1]

\* Defective: the rung is put at the best price of the other side.
AdjustedToTouch(r) ==
  LET best == status[Book!Opposite(r.side)] IN
  IF best = None THEN r.price
  ELSE IF r.side = "long" THEN Min({r.price, best}) ELSE Max({r.price, best})

\* adjustLongForResting and adjustShortForResting.
Adjusted(r) ==
  LET best == status[Book!Opposite(r.side)] IN
  IF best = None THEN r.price
  ELSE IF r.side = "long" THEN Min({r.price, best - 1}) ELSE Max({r.price, best + 1})

\* GET /api/matching/status for the next rung.
SeedReads ==
  /\ Len(rungs) < 2 * Levels /\ status = Unread
  /\ status' = [s \in Book!Sides |-> Best(s)]
  /\ UNCHANGED <<bookApiVars, users, tick, plan, rungs, faults>>

SeedReadFails ==
  /\ Len(rungs) < 2 * Levels /\ status = Unread
  /\ faults < MaxFaults /\ faults' = faults + 1
  /\ rungs' = Append(rungs, "failed")
  /\ UNCHANGED <<bookApiVars, users, tick, plan, status>>

\* Skip a price that is not positive, else POST /api/trade/rest-only: 409 if
\* it would match, and no look at the flag.
SeedPosts ==
  /\ status # Unread /\ status' = Unread
  /\ LET o == Made("seed", Rung.side, PriceStr(Adjusted(Rung)), SeedSize) IN
       IF Adjusted(Rung) <= 0
         THEN rungs' = Append(rungs, "skipped") /\ UNCHANGED resting
         ELSE IF Book!Matches(resting, o) # {}
                THEN rungs' = Append(rungs, "409") /\ UNCHANGED resting
                ELSE rungs' = Append(rungs, "resting") /\ resting' = Append(resting, o)
  /\ UNCHANGED <<flag, inflight, snap, awaited, selfTrade, upset, users, tick, plan, faults>>

-----------------------------------------------------------------------------
BotsNext ==
  \/ UserSubmits \/ PipelineEnds \/ PipelineFails \/ SweepCrosses \/ SweepEnds
  \/ BotReads \/ BotPosts \/ BotFails \/ BotLosesAnswer
  \/ SeedReads \/ SeedReadFails \/ SeedPosts

BotsSpec == BotsInit /\ [][BotsNext]_botVars

\* The bot reads, and gets rid of what it has planned, for ever; the seeder
\* posts; the API goes on, and every pipeline comes to an end.
BotsFairness ==
  /\ WF_tick(plan = NoOrder /\ ~ awaited /\ tick' = 1 - tick)
  /\ WF_plan(plan # NoOrder /\ plan' = NoOrder)
  /\ WF_status(status # Unread /\ status' = Unread)
  /\ WF_botVars(PipelineEnds) /\ WF_botVars(SweepCrosses) /\ WF_botVars(SweepEnds)

-----------------------------------------------------------------------------
(* Properties.                                                             *)

\* mm-bot.ts: the bot trades with an order of its own only where somebody took
\* from the book, or a failed pipeline changed it, between its read and its
\* post; where a failed sweep put its remainder back, crossed with the maker
\* it was swept with; or where priceStr moved the price that it had read.
\* Otherwise what it posts is taken whole.
SelfTradeTakesTrouble == selfTrade => upset

\* seed-liquidity.ts: rest-only refuses a rung only if the book is no longer
\* the one the rung was adjusted to, or if priceStr moved the adjusted price,
\* and SEED_REST_EPS with it.
SeedRefusalTakesTrouble ==
  [][ (Len(rungs') > Len(rungs) /\ Last(rungs') = "409")
      => \/ \E s \in Book!Sides : status[s] # Best(s)
         \/ PriceStr(Adjusted(Rung)) # Adjusted(Rung) ]_botVars

\* mm-bot.ts, planFromBook: "alternates when both exist": when no more orders
\* come, the bot takes all that rests, of both sides, a cap at a time, unless
\* an order rests at a price that priceStr moves: the bot may then not reach it.
BookDrains ==
  <>[](\/ resting = <<>>
       \/ \E k \in DOMAIN resting : PriceStr(resting[k].price) # resting[k].price)

\* The scripts do what they are for, and what they get wrong takes trouble.
QuotesServe == []SelfTradeTakesTrouble /\ SeedRefusalTakesTrouble /\ BookDrains
=============================================================================
