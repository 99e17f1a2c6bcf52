---- MODULE MarginManager ----
(***************************************************************************)
(* clearing/margin_manager.ts: the margin accounts of traders.  No method  *)
(* awaits anything, so each is one action; a call that throws or returns   *)
(* false changes nothing and is no action.                                 *)
(***************************************************************************)
EXTENDS Integers, FiniteSetsExt

CONSTANTS
  Traders, Positions,
  Amounts,              \* what is deposited, withdrawn or locked
  Pnls,                 \* profit or loss of a position when it is released
  MinDepositAmount, MaxWithdrawalAmount,
  LiquidationThreshold, \* config.liquidationThreshold, in percent
  MaxBalance, MaxReleases \* bounds: balances, releases

ASSUME MarginAmountsAssumption == Amounts \subseteq Nat \ {0} /\ Pnls \subseteq Int
ASSUME MarginBoundsAssumption == MaxBalance \in Nat /\ MaxReleases \in Nat /\ LiquidationThreshold \in Nat

VARIABLES
  total, available, locked,  \* MarginAccount, per trader
  locks,                     \* per trader and position the amount last locked; 0 stands for no entry
  banked,                    \* history: deposits - withdrawals + realised profits, per trader
  relocked,                  \* history: traders that locked a position that was locked
  losses,                    \* history: traders that realised a loss greater than what they had available with the lock
  releases                   \* history: number of releases

marginVars == <<total, available, locked, locks, banked, relocked, losses, releases>>

MarginInit ==
  /\ total = [t \in Traders |-> 0] /\ available = total /\ locked = total /\ banked = total
  /\ locks = [t \in Traders |-> [p \in Positions |-> 0]]
  /\ relocked = {} /\ losses = {} /\ releases = 0

DepositMargin(t, amount) ==
  /\ amount >= MinDepositAmount /\ total[t] + amount <= MaxBalance
  /\ total' = [total EXCEPT ![t] = @ + amount]
  /\ available' = [available EXCEPT ![t] = @ + amount]
  /\ banked' = [banked EXCEPT ![t] = @ + amount]
  /\ UNCHANGED <<locked, locks, relocked, losses, releases>>

\* ratio(account) < liquidationThreshold, where the balance is b and l is locked
Breaches(b, l) == l > 0 /\ b * 100 < LiquidationThreshold * l

\* Defective: the balance before the withdrawal is tested.
WithdrawTestedLate(t, amount) ==
  /\ amount <= MaxWithdrawalAmount /\ amount <= total[t]
  /\ ~Breaches(total[t], locked[t])
  /\ total' = [total EXCEPT ![t] = @ - amount]
  /\ available' = [available EXCEPT ![t] = @ - amount]
  /\ banked' = [banked EXCEPT ![t] = @ - amount]
  /\ UNCHANGED <<locked, locks, relocked, losses, releases>>

WithdrawMargin(t, amount) ==
  /\ amount <= MaxWithdrawalAmount /\ amount <= available[t]
  /\ ~Breaches(total[t] - amount, locked[t])
  /\ total' = [total EXCEPT ![t] = @ - amount]
  /\ available' = [available EXCEPT ![t] = @ - amount]
  /\ banked' = [banked EXCEPT ![t] = @ - amount]
  /\ UNCHANGED <<locked, locks, relocked, losses, releases>>

\* The lock of a position that is locked is overwritten, yet both amounts count as locked.
LockMargin(t, amount, p) ==
  /\ available[t] >= amount
  /\ available' = [available EXCEPT ![t] = @ - amount]
  /\ locked' = [locked EXCEPT ![t] = @ + amount]
  /\ locks' = [locks EXCEPT ![t][p] = amount]
  /\ relocked' = relocked \cup (IF locks[t][p] > 0 THEN {t} ELSE {})
  /\ UNCHANGED <<total, banked, losses, releases>>

ReleaseMargin(t, p, pnl) ==
  /\ releases < MaxReleases /\ releases' = releases + 1
  /\ locks' = [locks EXCEPT ![t][p] = 0]
  /\ locked' = [locked EXCEPT ![t] = Max({0, @ - locks[t][p]})]
  /\ available' = [available EXCEPT ![t] = @ + locks[t][p] + pnl]
  /\ total' = [total EXCEPT ![t] = @ + pnl]
  /\ banked' = [banked EXCEPT ![t] = @ + pnl]
  /\ losses' = losses \cup (IF available[t] + locks[t][p] + pnl < 0 THEN {t} ELSE {})
  /\ UNCHANGED relocked

MarginNext ==
  \E t \in Traders :
    \/ \E a \in Amounts : DepositMargin(t, a) \/ WithdrawMargin(t, a) \/ \E p \in Positions : LockMargin(t, a, p)
    \/ \E p \in Positions, pnl \in Pnls : ReleaseMargin(t, p, pnl)

MarginSpec == MarginInit /\ [][MarginNext]_marginVars

-----------------------------------------------------------------------------
\* Balances are integers, locks are not negative.
MarginTypeOK ==
  /\ total \in [Traders -> Int] /\ available \in [Traders -> Int] /\ banked \in [Traders -> Int]
  /\ locked \in [Traders -> Nat] /\ locks \in [Traders -> [Positions -> Nat]]
  /\ relocked \subseteq Traders /\ losses \subseteq Traders /\ releases \in 0..MaxReleases

\* An account splits into what is available and what is locked, and holds exactly what was paid in, less what was paid
\* out, plus what was won: whatever is locked, released or locked again, no margin comes out of nothing.
BalancesAddUp ==
  \A t \in Traders : total[t] = available[t] + locked[t] /\ total[t] = banked[t]

\* The sum of the locks of t, counted in units of each.
LockSum(t) == Cardinality(UNION {{p} \X (1..locks[t][p]) : p \in Positions})

\* All that is locked can be released again, position by position; only a position locked twice leaves margin locked
\* that nothing will release (margin_manager.ts:164).
LockedIsReleasable ==
  \A t \in Traders : locked[t] >= LockSum(t) /\ (locked[t] > LockSum(t) => t \in relocked)

\* A trader has less than nothing available only after a realised loss: withdrawals and locks never overdraw.
NeverOverdrawn == \A t \in Traders : available[t] < 0 => t \in losses

\* What a trader has is neither made, lost, stuck nor spent twice.
AccountsHold == BalancesAddUp /\ LockedIsReleasable /\ NeverOverdrawn

=============================================================================
