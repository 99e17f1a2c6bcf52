---- MODULE LiquidationEngine ----
(***************************************************************************)
(* clearing/liquidation_engine.ts and the scan of clearing/risk_oracle.ts  *)
(* that feeds it marks, over one list of positions that a scan walks       *)
(* across awaits while positions come and go; and the funding epoch of     *)
(* clearing/funding_rate.ts over the same positions.                       *)
(***************************************************************************)
EXTENDS Integers, Sequences, SequencesExt, FiniteSetsExt

CONSTANTS
  Contracts,              \* positions: [id, side, entry, size, margin]
  Marks, Index,           \* mark prices, index price
  MaintenanceBps, WarningBps, PenaltyBps,
  FundingDampening, MaxFunding, \* FUNDING_DAMPENING_FACTOR, MAX_FUNDING_RATE in 1/10000
  Scanners,               \* calls of scanAtRiskPositions
  Shortfalls,             \* what processSocializedLoss is asked for, in 1/10000
  MaxRegistrations, MaxLiquidations, MaxEpochs \* bounds

ASSUME MarksAssumption == Marks \subseteq Nat \ {0} /\ Index \in Nat \ {0}
ASSUME ContractsAssumption ==
  /\ IsFiniteSet(Contracts)
  /\ \A c \in Contracts : c.side \in {"LONG", "SHORT"} /\ c.entry \in Nat /\ c.size \in Nat \ {0} /\ c.margin \in Nat
ASSUME BpsAssumption == PenaltyBps \in Nat /\ MaintenanceBps \in Nat /\ WarningBps \in Nat
ASSUME FundingAssumption == FundingDampening \in Nat /\ MaxFunding \in Nat
ASSUME FundAssumption ==
  Shortfalls \subseteq Nat /\ MaxRegistrations \in Nat /\ MaxLiquidations \in Nat /\ MaxEpochs \in Nat

VARIABLES
  positions,     \* the list of registered positions, contracts in order of registration
  insurance,     \* InsuranceFundState, in 1/10000
  executing,     \* calls of executeLiquidation that await the assessment: contract and mark
  scan,          \* per scanner: where it is, what it has assessed, the marks it was given, history of changes
  registrations, \* history: how often each contract was registered
  penalties,     \* history: the penalties credited, with contract and mark
  history        \* the records of funding epochs, the latest first

liquidationVars == <<positions, insurance, executing, scan, registrations, penalties, history>>

Unrealized(c, mark) == IF c.side = "LONG" THEN (mark - c.entry) * c.size ELSE (c.entry - mark) * c.size

\* marginRatio(c, mark) < bps / 10000
Below(c, mark, bps) == (c.margin + Unrealized(c, mark)) * 10000 < bps * c.size * mark
Liquidatable(c, mark) == Below(c, mark, MaintenanceBps)
AtRisk(c, mark) == Below(c, mark, MaintenanceBps + WarningBps)
Penalty(c, mark) == c.size * mark * PenaltyBps

NoScan == [step |-> "idle", at |-> 0, mark |-> 0, out |-> <<>>, stayed |-> {}, shifted |-> FALSE]

LiquidationInit ==
  /\ positions = <<>> /\ executing = <<>> /\ penalties = <<>> /\ registrations = [c \in Contracts |-> 0] /\ history = <<>>
  /\ insurance = [balance |-> 0, collected |-> 0, paid |-> 0, count |-> 0]
  /\ scan = [s \in Scanners |-> NoScan]

\* What a removal of c changes in the history of the scans that are under way.
Shifted(c) == [s \in Scanners |-> IF scan[s].step # "walk" \/ c \notin ToSet(positions) THEN scan[s]
                                  ELSE [scan[s] EXCEPT !.stayed = @ \ {c}, !.shifted = TRUE]]

\* Defective: a new position is put in front of the others.
RegisterInFront(c) ==
  /\ SumFunction(registrations) < MaxRegistrations
  /\ positions' = <<c>> \o positions
  /\ registrations' = [registrations EXCEPT ![c] = @ + 1]
  /\ UNCHANGED <<insurance, executing, scan, penalties, history>>

RegisterOpenPosition(c) ==
  /\ SumFunction(registrations) < MaxRegistrations
  /\ positions' = Append(positions, c)
  /\ registrations' = [registrations EXCEPT ![c] = @ + 1]
  /\ UNCHANGED <<insurance, executing, scan, penalties, history>>

UnregisterPosition(c) ==
  /\ c \in ToSet(positions)
  /\ positions' = RemoveFirst(positions, c)
  /\ scan' = Shifted(c)
  /\ UNCHANGED <<insurance, executing, registrations, penalties, history>>

-----------------------------------------------------------------------------
\* Defective: only the warning threshold is asked for.
ExecuteAtRisk(c, mark) ==
  /\ Len(executing) + Len(penalties) < MaxLiquidations
  /\ AtRisk(c, mark)
  /\ executing' = Append(executing, [c |-> c, mark |-> mark])
  /\ UNCHANGED <<positions, insurance, scan, registrations, penalties, history>>

\* executeLiquidation: the assessment is made at once; the credit and the removal follow when the await is over.
\* Nobody asks whether the position is registered, or still registered.
ExecuteLiquidation(c, mark) ==
  /\ Len(executing) + Len(penalties) < MaxLiquidations
  /\ Liquidatable(c, mark)
  /\ executing' = Append(executing, [c |-> c, mark |-> mark])
  /\ UNCHANGED <<positions, insurance, scan, registrations, penalties, history>>

Liquidate ==
  /\ executing # <<>>
  /\ LET c == Head(executing).c
         amount == Penalty(c, Head(executing).mark)
     IN /\ insurance' = [insurance EXCEPT !.balance = @ + amount, !.collected = @ + amount, !.count = @ + 1]
        /\ penalties' = Append(penalties, [c |-> c, mark |-> Head(executing).mark])
        /\ positions' = RemoveFirst(positions, c)
        /\ scan' = Shifted(c)
  /\ executing' = Tail(executing)
  /\ UNCHANGED <<registrations, history>>

ProcessSocializedLoss(shortfall) ==
  /\ insurance.balance >= shortfall
  /\ insurance' = [insurance EXCEPT !.balance = @ - shortfall, !.paid = @ + shortfall]
  /\ UNCHANGED <<positions, executing, scan, registrations, penalties, history>>

-----------------------------------------------------------------------------
\* scanAtRiskPositions: an iteration over the live list, one assessment between two awaits.

ScanAtRiskPositions(s, mark) ==
  /\ scan[s].step = "idle"
  /\ scan' = [scan EXCEPT ![s] = [step |-> "walk", at |-> 0, mark |-> mark, out |-> <<>>,
                                  stayed |-> ToSet(positions), shifted |-> FALSE]]
  /\ UNCHANGED <<positions, insurance, executing, registrations, penalties, history>>

Assess(s) ==
  /\ scan[s].step = "walk" /\ scan[s].at < Len(positions)
  /\ LET c == positions[scan[s].at + 1] IN
       scan' = [scan EXCEPT ![s].at = @ + 1,
                            ![s].out = IF AtRisk(c, scan[s].mark) THEN Append(@, c) ELSE @]
  /\ UNCHANGED <<positions, insurance, executing, registrations, penalties, history>>

Scanned(s) ==
  /\ scan[s].step = "walk" /\ scan[s].at >= Len(positions)
  /\ scan' = [scan EXCEPT ![s].step = "done"]
  /\ UNCHANGED <<positions, insurance, executing, registrations, penalties, history>>

-----------------------------------------------------------------------------
\* processFundingEpoch over the registered positions.  Rates are kept in 1/10000 and multiplied by the index, so that
\* the division of core/utils.ts:117 leaves no remainder.

FundingRate(mark) ==
  LET raw == (mark - Index) * FundingDampening
      cap == MaxFunding * Index
  IN IF raw > cap THEN cap ELSE IF raw < -cap THEN -cap ELSE raw

FundingPayment(c, mark) ==
  LET base == FundingRate(mark) * c.size * mark IN IF c.side = "LONG" THEN base ELSE -base

SumOver(Amount(_), list) == SumFunction([k \in DOMAIN list |-> Amount(list[k])])

ProcessFundingEpoch(mark) ==
  /\ Len(history) < MaxEpochs
  /\ LET paid(c) == Max({0, FundingPayment(c, mark)})
         received(c) == Max({0, -FundingPayment(c, mark)})
     IN history' = <<[mark |-> mark, rate |-> FundingRate(mark), among |-> positions,
                      paid |-> SumOver(paid, positions), received |-> SumOver(received, positions)]>> \o history
  /\ UNCHANGED <<positions, insurance, executing, scan, registrations, penalties>>

LiquidationNext ==
  \/ Liquidate
  \/ \E c \in Contracts : RegisterOpenPosition(c) \/ UnregisterPosition(c) \/ \E m \in Marks : ExecuteLiquidation(c, m)
  \/ \E x \in Shortfalls : ProcessSocializedLoss(x)
  \/ \E s \in Scanners : Assess(s) \/ Scanned(s) \/ \E m \in Marks : ScanAtRiskPositions(s, m)
  \/ \E m \in Marks : ProcessFundingEpoch(m)

LiquidationSpec == LiquidationInit /\ [][LiquidationNext]_liquidationVars

-----------------------------------------------------------------------------
\* Lists hold contracts, the fund holds amounts that are not negative.
LiquidationTypeOK ==
  /\ positions \in Seq(Contracts) /\ registrations \in [Contracts -> 0..MaxRegistrations]
  /\ insurance \in [balance : Nat, collected : Nat, paid : Nat, count : 0..MaxLiquidations]
  /\ executing \in Seq([c : Contracts, mark : Marks]) /\ penalties \in Seq([c : Contracts, mark : Marks])
  /\ scan \in [Scanners -> [step : {"idle", "walk", "done"}, at : Nat, mark : Marks \cup {0}, out : Seq(Contracts),
                            stayed : SUBSET Contracts, shifted : BOOLEAN]]
  /\ Len(history) <= MaxEpochs

\* The insurance fund holds what it has collected less what it has paid out, one penalty for each liquidation
\* (liquidation_engine.ts:132-137, 178-185), and takes none from a position whose margin was sufficient at its mark.
InsuranceAddsUp ==
  LET penalty(p) == Penalty(p.c, p.mark) IN
  /\ insurance.balance + insurance.paid = insurance.collected
  /\ insurance.collected = SumOver(penalty, penalties) /\ insurance.count = Len(penalties)
  /\ \A k \in DOMAIN penalties : Liquidatable(penalties[k].c, penalties[k].mark)

\* A scan that has ended reports every position at risk that was registered all the while, unless a removal in the
\* meantime has moved a position to a place the iteration had passed (liquidation_engine.ts:165).
ScanSeesWhatStayed ==
  \A s \in Scanners :
    scan[s].step = "done" /\ ~scan[s].shifted =>
      \A c \in scan[s].stayed : AtRisk(c, scan[s].mark) => c \in ToSet(scan[s].out)

Count(c, list) == Cardinality({k \in DOMAIN list : list[k] = c})

\* A scan reports a position no more often than it was registered, whatever comes and goes.
ScanSeesEachOnce ==
  \A s \in Scanners, c \in Contracts : Count(c, scan[s].out) <= registrations[c]

\* A scan across its awaits sees every position at risk, and once.
ScansAreFair == ScanSeesWhatStayed /\ ScanSeesEachOnce

\* Funding: the rate is bounded both ways, one side pays and the other receives; with equal open interest on both
\* sides, what is paid is what is received (funding_rate.ts:45-112).
FundingBalances ==
  \A k \in DOMAIN history :
    LET h == history[k]
        interest(side) == SumOver(LAMBDA c : IF c.side = side THEN c.size ELSE 0, h.among)
    IN /\ -MaxFunding * Index <= h.rate /\ h.rate <= MaxFunding * Index
       /\ h.paid - h.received = h.rate * h.mark * (interest("LONG") - interest("SHORT"))
       /\ h.paid > 0 => interest(IF h.mark > Index THEN "LONG" ELSE "SHORT") > 0

\* The money of penalties, of socialised losses and of funding adds up.
FundsAddUp == LiquidationTypeOK /\ InsuranceAddsUp /\ FundingBalances

=============================================================================
