----------------------------- MODULE MarginPool -----------------------------
(***************************************************************************)
(* The margin pool on Cardano: the flows of the server's wallet            *)
(* (src/cardano/margin_pool_flow.ts), the routes and the trade pipeline    *)
(* that call them, and the validators margin_pool.ak and margin_vault.ak.  *)
(*                                                                         *)
(* A flow reads the ledger, builds a transaction from what it has read and *)
(* submits it, with awaits in between; no two flows exclude one another.   *)
(* The node refuses a transaction whose inputs are spent, or will be by    *)
(* one in its mempool, or that a validator rejects.  Blocks take from the  *)
(* mempool in order; a transaction may be dropped from it.                 *)
(*                                                                         *)
(* The flows neither list the owner among the required signers, as the     *)
(* vault demands, nor wrap the pool's datum in Some, as the pool demands   *)
(* of an output; but an input with a wrapped datum the pool cannot read.   *)
(* The owner and admin, who is one person, may do better by hand.          *)
(***************************************************************************)
EXTENDS Integers, SequencesExt

CONSTANTS
  Calls,   \* the flows that run
  Kinds,   \* which ones: a subset of AllKinds
  Amounts  \* lovelace of a bootstrap, deposit or withdrawal

Server   == {"bootstrap", "deposit", "merge", "lock", "demo"}
ByHand   == {"handmerge", "withdraw", "refund"}
AllKinds == Server \cup ByHand

ASSUME PoolKindsAssumption == Kinds \subseteq AllKinds
ASSUME AmountsAssumption == Amounts \subseteq Nat \ {0}

VARIABLES
  ledger,    \* the unspent outputs at the two scripts
  mempool,   \* accepted transactions that are in no block yet
  chain,     \* those that are in a block
  kind,      \* what each call does
  amount,    \* its lovelace
  stage,     \* where it is
  picked,    \* the vault output it is about to merge
  seen,      \* the pool output it has read
  begun,     \* history: what was going on when it began, and who ran beside it
  refused,   \* history: calls the node refused for reasons outside the scripts
  deposited, \* history: lovelace paid to the vault
  paid       \* history: lovelace refunded or withdrawn

vars == <<ledger, mempool, chain, kind, amount, stage, picked, seen,
          begun, refused, deposited, paid>>
locals == <<kind, amount, picked, seen, begun>>
chainVars == <<ledger, chain, deposited, paid>>

Steps == {"create", "deposit", "merge", "withdraw", "refund"}

\* The datum of an output: a PoolDatum, or Some of one.
Forms == {"bare", "wrapped"}

\* An output is named by the call and the step that made it.
Output == [by : Calls, step : Steps, at : {"pool", "vault"}, form : Forms,
           lovelace : Nat, total : Nat, merges : Nat]
Vault(c, n) == [by |-> c, step |-> "deposit", at |-> "vault", form |-> "bare",
                lovelace |-> n, total |-> 0, merges |-> 0]
Pool(c, s, f, n, t, m) == [by |-> c, step |-> s, at |-> "pool", form |-> f,
                           lovelace |-> n, total |-> t, merges |-> m]

\* A transaction spends and makes script outputs; pays is the amount of a refund
\* or of the redeemer WithdrawClose; signed says whether the owner and admin is
\* among its required signers.
Tx == [by : Calls, step : Steps, ins : SUBSET Output, outs : SUBSET Output,
       pays : Nat, signed : BOOLEAN]

\* The stages of each flow, separated by awaits.
Stages(k) ==
  CASE k = "bootstrap" -> <<"new", "empty", "create", "ok">>
    [] k = "deposit"   -> <<"new", "deposit", "ok">>
    [] k = "merge"     -> <<"new", "pick", "pool", "merge", "ok">>
    [] k = "lock"      -> <<"new", "deposit", "deposited", "find", "pool", "merge", "ok">>
    [] k = "demo"      -> <<"new", "empty", "create", "created", "deposit",
                            "deposited", "pick", "pool", "merge", "ok">>
    [] k = "handmerge" -> <<"new", "pick", "pool", "merge", "ok">>
    [] k = "withdraw"  -> <<"new", "withdraw", "ok">>
    [] k = "refund"    -> <<"new", "pick", "refund", "ok">>

StageNames == Steps \cup {"new", "empty", "created", "deposited", "pick", "find",
                          "pool", "ok", "failed"}
Ended == {"new", "ok", "failed"}

Background == [beside : SUBSET Calls, queued : SUBSET Steps, single : BOOLEAN]

TypeOK ==
  /\ ledger \subseteq Output
  /\ mempool \in Seq(Tx)
  /\ chain \subseteq Calls \X Steps
  /\ kind \in [Calls -> AllKinds \cup {"none"}]
  /\ amount \in [Calls -> Nat]
  /\ stage \in [Calls -> StageNames]
  /\ picked \in [Calls -> SUBSET Output]
  /\ seen \in [Calls -> SUBSET Output]
  /\ begun \in [Calls -> Background]
  /\ refused \subseteq Calls
  /\ deposited \in Nat /\ paid \in Nat

Init ==
  /\ ledger = {} /\ mempool = <<>> /\ chain = {}
  /\ kind = [c \in Calls |-> "none"]
  /\ amount = [c \in Calls |-> 0]
  /\ stage = [c \in Calls |-> "new"]
  /\ picked = [c \in Calls |-> {}]
  /\ seen = [c \in Calls |-> {}]
  /\ begun = [c \in Calls |-> [beside |-> {}, queued |-> {}, single |-> FALSE]]
  /\ refused = {}
  /\ deposited = 0 /\ paid = 0

-----------------------------------------------------------------------------
(* The validators, and the node.                                           *)

Pools(os)  == {o \in os : o.at = "pool"}
Vaults(os) == {o \in os : o.at = "vault"}

\* Defective: the lovelace that get into the pool are not checked.
MergeAnyLovelace(p, m, o) ==
  /\ m.at = "vault" /\ m.lovelace > 0
  /\ o.merges = p.merges + 1
  /\ o.total = p.total + m.lovelace

\* Defective: the total may stay as it is.
MergeAnyTotal(p, m, o) ==
  /\ m.at = "vault" /\ m.lovelace > 0
  /\ o.merges = p.merges + 1
  /\ o.lovelace >= p.lovelace + m.lovelace

\* margin_pool.ak, MergeDeposit: p is the pool that is spent, m the vault's
\* output the redeemer names, o the continuing pool output.
MergeDeposit(p, m, o) ==
  /\ m.at = "vault" /\ m.lovelace > 0
  /\ o.merges = p.merges + 1
  /\ o.total = p.total + m.lovelace
  /\ o.lovelace >= p.lovelace + m.lovelace

\* margin_pool.ak, WithdrawClose.
WithdrawClose(p, w, o) ==
  /\ w > 0 /\ w <= p.total
  /\ o.merges = p.merges
  /\ o.total = p.total - w
  /\ o.lovelace >= p.lovelace - w

\* The vault asks for the owner among the signers.  The pool's datum is read as
\* a PoolDatum from the input, and as an Option of one from the output.
Validated(tx) ==
  /\ Vaults(tx.ins) # {} => tx.signed
  /\ \A p \in Pools(tx.ins) : p.form = "bare" /\ \E o \in Pools(tx.outs) :
       /\ o.form = "wrapped"
       /\ \/ tx.step = "merge" /\ \E m \in tx.ins \ {p} : MergeDeposit(p, m, o)
          \/ tx.step = "withdraw" /\ tx.signed /\ WithdrawClose(p, tx.pays, o)

Unspent(o) == o \in ledger /\ \A i \in DOMAIN mempool : o \notin mempool[i].ins

Acceptable(tx) == Validated(tx) /\ \A o \in tx.ins : Unspent(o)

\* Blocks take the oldest transaction of the mempool first.
Confirm ==
  LET tx == Head(mempool)
  IN  /\ mempool # <<>>
      /\ mempool' = Tail(mempool)
      /\ ledger' = (ledger \ tx.ins) \cup tx.outs
      /\ chain' = chain \cup {<<tx.by, tx.step>>}
      /\ deposited' = deposited + (IF tx.step = "deposit" THEN amount[tx.by] ELSE 0)
      /\ paid' = paid + tx.pays
      /\ UNCHANGED <<locals, stage, refused>>

Drop ==
  /\ \E i \in DOMAIN mempool : mempool' = RemoveAt(mempool, i)
  /\ UNCHANGED <<chainVars, locals, stage, refused>>

-----------------------------------------------------------------------------
(* The flows.                                                              *)

After(c) ==
  LET s == Stages(kind[c])
  IN  s[1 + CHOOSE i \in 1..Len(s) - 1 : s[i] = stage[c]]

Advance(c) == stage' = [stage EXCEPT ![c] = After(c)]

Throw(c) == stage' = [stage EXCEPT ![c] = "failed"]

OnePool == \E o \in ledger : Pools(ledger) = {o}

\* A route of /api/margin-pool, the pipeline's lock, or the admin.
Begin(c) ==
  /\ stage[c] = "new"
  /\ \E k \in Kinds, n \in Amounts :
       /\ kind' = [kind EXCEPT ![c] = k]
       /\ amount' = [amount EXCEPT ![c] = n]
       /\ stage' = [stage EXCEPT ![c] = Stages(k)[2]]
  /\ LET busy == {d \in Calls : stage[d] \notin Ended}
     IN  begun' = [d \in Calls |->
           IF d = c
           THEN [beside |-> busy, single |-> OnePool,
                 queued |-> {mempool[i].step : i \in DOMAIN mempool}]
           ELSE IF d \in busy
           THEN [begun[d] EXCEPT !.beside = @ \cup {c}]
           ELSE begun[d]]
  /\ UNCHANGED <<chainVars, mempool, picked, seen, refused>>

\* Completing, signing and submitting: the node accepts, or refuses the scripts'
\* part or the wallet's (fee inputs another transaction has taken, fees).
Submit(c, tx) ==
  /\ \/ /\ Acceptable(tx)
        /\ mempool' = Append(mempool, tx)
        /\ Advance(c)
        /\ UNCHANGED refused
     \/ /\ Throw(c)
        /\ refused' = IF Acceptable(tx) THEN refused \cup {c} ELSE refused
        /\ UNCHANGED mempool
  /\ UNCHANGED <<chainVars, locals>>

\* Defective: what is at the pool's address does not matter.
EmptyUnchecked(c) ==
  /\ stage[c] = "empty"
  /\ Advance(c)
  /\ UNCHANGED <<chainVars, locals, mempool, refused>>

\* bootstrapMarginPool: nothing may be at the pool's address.
Empty(c) ==
  /\ stage[c] = "empty"
  /\ IF Pools(ledger) = {} THEN Advance(c) ELSE Throw(c)
  /\ UNCHANGED <<chainVars, locals, mempool, refused>>

Create(c) ==
  /\ stage[c] = "create"
  /\ Submit(c, [by |-> c, step |-> "create", ins |-> {}, pays |-> 0, signed |-> FALSE,
                outs |-> {Pool(c, "create", "bare", amount[c], 0, 0)}])

\* depositMargin, depositMarginForOrder
Deposit(c) ==
  /\ stage[c] = "deposit"
  /\ Submit(c, [by |-> c, step |-> "deposit", ins |-> {}, pays |-> 0, signed |-> FALSE,
                outs |-> {Vault(c, amount[c])}])

\* lucid.awaitTx
Await(c) ==
  /\ \/ stage[c] = "created" /\ <<c, "create">> \in chain
     \/ stage[c] = "deposited" /\ <<c, "deposit">> \in chain
  /\ Advance(c)
  /\ UNCHANGED <<chainVars, locals, mempool, refused>>

Choose(c, o) ==
  /\ Advance(c)
  /\ picked' = [picked EXCEPT ![c] = {o}]
  /\ UNCHANGED <<kind, amount, seen, begun>>

\* mergeMarginIntoPool: the first by transaction hash, that is, any.
Pick(c) ==
  /\ stage[c] = "pick"
  /\ \/ \E o \in Vaults(ledger) : Choose(c, o)
     \/ Vaults(ledger) = {} /\ Throw(c) /\ UNCHANGED locals
  /\ UNCHANGED <<chainVars, mempool, refused>>

\* findMarginUtxoFromDepositTx
Find(c) ==
  /\ stage[c] = "find"
  /\ LET own == {o \in Vaults(ledger) : o.by = c}
     IN  \/ \E o \in own : Choose(c, o)
         \/ own = {} /\ Throw(c) /\ UNCHANGED locals
  /\ UNCHANGED <<chainVars, mempool, refused>>

\* mergeMarginUtxoIntoPool: there must be exactly one pool output, with the six
\* fields of a bare datum.
ReadPool(c) ==
  /\ stage[c] = "pool"
  /\ IF OnePool /\ \A o \in Pools(ledger) : o.form = "bare"
     THEN /\ seen' = [seen EXCEPT ![c] = Pools(ledger)]
          /\ Advance(c)
          /\ UNCHANGED <<kind, amount, picked, begun>>
     ELSE Throw(c) /\ UNCHANGED locals
  /\ UNCHANGED <<chainVars, mempool, refused>>

\* The pool output that is to replace p.
Merged(c, p, m) ==
  Pool(c, "merge", "bare", p.lovelace + m.lovelace, p.total + m.lovelace, p.merges + 1)

Merge(c) ==
  /\ stage[c] = "merge" /\ kind[c] \in Server
  /\ \E p \in seen[c], m \in picked[c] :
       Submit(c, [by |-> c, step |-> "merge", ins |-> {p, m}, pays |-> 0,
                  signed |-> FALSE, outs |-> {Merged(c, p, m)}])

\* By hand, the admin tries a merge of any outcome that the two outputs pay for.
MergeByHand(c) ==
  /\ stage[c] = "merge" /\ kind[c] = "handmerge"
  /\ \E p \in seen[c], m \in picked[c], f \in Forms :
       \E n \in 0..p.lovelace + m.lovelace, t \in 0..p.total + m.lovelace :
         Submit(c, [by |-> c, step |-> "merge", ins |-> {p, m}, pays |-> 0,
                    signed |-> TRUE,
                    outs |-> {Pool(c, "merge", f, n, t, p.merges + 1)}])

\* By hand, the admin tries a withdrawal.
Withdraw(c) ==
  /\ stage[c] = "withdraw"
  /\ \E p \in Pools(ledger), f \in Forms : \E n \in 0..p.lovelace, t \in 0..p.total :
       Submit(c, [by |-> c, step |-> "withdraw", ins |-> {p}, pays |-> amount[c],
                  signed |-> TRUE,
                  outs |-> {Pool(c, "withdraw", f, n, t, p.merges)}])

\* By hand, the owner takes a deposit back.
Refund(c) ==
  /\ stage[c] = "refund"
  /\ \E m \in picked[c] :
       Submit(c, [by |-> c, step |-> "refund", ins |-> {m}, pays |-> m.lovelace,
                  signed |-> TRUE, outs |-> {}])

-----------------------------------------------------------------------------

Flow(c) ==
  \/ Begin(c) \/ Empty(c) \/ Create(c) \/ Deposit(c) \/ Await(c) \/ Pick(c)
  \/ Find(c) \/ ReadPool(c) \/ Merge(c) \/ MergeByHand(c) \/ Withdraw(c) \/ Refund(c)

Next == Confirm \/ Drop \/ \E c \in Calls : Flow(c)

Spec == Init /\ [][Next]_vars

-----------------------------------------------------------------------------
(* Properties.                                                             *)

\* A pool's lovelace cover the total its datum claims, through merges built by
\* the server and what the admin builds by hand.
PoolIsBacked == \A o \in Pools(ledger) : o.lovelace >= o.total

\* "must match merge steps" (margin_types.ak): all that was ever deposited is
\* at the vault, in the total of a pool, or paid out; and every merge counts.
AccountsAreTrue ==
  /\ deposited = paid + SumFunction([o \in Vaults(ledger) |-> o.lovelace])
                      + SumFunction([o \in Pools(ledger) |-> o.total])
  /\ SumFunction([o \in Pools(ledger) |-> o.merges])
       = Cardinality({x \in chain : x[2] = "merge"})

\* "Singleton pool UTxO" (margin_types.ak), as far as the check in
\* bootstrapMarginPool carries: a second pool takes two bootstraps of which one
\* ran beside the other or began before the other's was in a block.
SecondPoolTakesARace ==
  \A c, d \in Calls :
    /\ c # d /\ <<c, "create">> \in chain /\ <<d, "create">> \in chain
    => d \in begun[c].beside \/ "create" \in begun[c].queued \cup begun[d].queued

\* Collateral that a route or a pipeline has locked, and of which no code of the
\* server takes care when a later step fails, is at the vault until its owner has
\* moved it by hand.
DepositsLeaveByHand ==
  \A c \in Calls :
    <<c, "deposit">> \in chain =>
      \/ Vault(c, amount[c]) \in ledger
      \/ \E d \in Calls : /\ kind[d] \in ByHand /\ Vault(c, amount[c]) \in picked[d]
                         /\ {<<d, "merge">>, <<d, "refund">>} \cap chain # {}

\* A pool is empty and bare until the admin has merged by hand, once; then its
\* wrapped datum keeps everybody from spending it: nothing is ever withdrawn.
PoolsTakeOneMerge ==
  /\ \A o \in Pools(ledger) :
       IF o.form = "bare" THEN o.total = 0 /\ o.merges = 0 ELSE o.merges = 1
  /\ \A c \in Calls : <<c, "withdraw">> \notin chain

\* What becomes of the pool and of collateral, whoever races with whom.
CustodyHolds == SecondPoolTakesARace /\ DepositsLeaveByHand /\ PoolsTakeOneMerge

\* "Deposit -> confirm -> merge the new margin UTxO into the pool"
\* (margin_pool_flow.ts:340): with one pool and no other flow beside it a lock
\* succeeds, unless the node refuses the wallet's part.
LockAloneSucceeds ==
  \A c \in Calls :
    kind[c] = "lock" /\ stage[c] = "failed" =>
      \/ begun[c].beside # {} \/ c \in refused
      \/ ~begun[c].single \/ "create" \in begun[c].queued
=============================================================================
