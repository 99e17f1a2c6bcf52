---- MODULE MidnightRuns ----
(***************************************************************************)
(* The command line programs of charli3perp-local-cli: processes that open *)
(* wallets derived from one mnemonic, wait for sync and DUST, deploy the   *)
(* contracts and call their circuits.  Each main() is a program of         *)
(* instructions; several processes may be under way, over the same         *)
(* wallets, wallet files and private stores.                               *)
(*                                                                         *)
(* The node, the indexer and the wallet SDK are external.  A wallet pays   *)
(* with the change of its last transaction, so that of two transactions    *)
(* built on the same state only one is included.                           *)
(***************************************************************************)
EXTENDS Integers, Sequences, SequencesExt, FiniteSetsExt, MidnightContracts

CONSTANTS
  Wallets,    \* indices of deriveKeysAt
  Genesis,    \* the wallet of GENESIS_SEED
  Envs,       \* environments: the values of C3PERP_* and of the secrets
  MaxRuns     \* bound: processes started

VARIABLES
  run,        \* one record per process
  chain,      \* per wallet the processes whose transactions of it have been included, in order
  mempool,    \* accepted transactions: run, and place in its program
  landed,     \* per run the places of its program whose transaction has been included
  onchain,    \* per run the contracts it has deployed
  night, idle, dust, \* wallets that have unshielded coins, such that are not registered for DUST, and DUST
  store,      \* private states: who has written what last
  scoped      \* whether the private state provider keeps the private states of two deployments apart

runVars == <<run, chain, mempool, landed, onchain, night, idle, dust, store, scoped>>
chainVars == <<chain, mempool, landed, onchain, night, idle, dust>>

\* A wallet pays with the change of its last transaction: its state is the number of those that have been included.
Height(w) == Len(chain[w])

-----------------------------------------------------------------------------
\* The programs.

Do(op, w) == [op |-> op, wallet |-> w, contract |-> "", circuit |-> "", to |-> {}]
Transactions(w, c) ==
  [i \in DOMAIN Circuits(c) |-> [Do("call", w) EXCEPT !.contract = c, !.circuit = Circuits(c)[i]]]
Transfer(w, to) == <<[Do("transfer", w) EXCEPT !.to = to]>>

Open(w) == <<Do("open", w)>>
OpenWithDust(w) == Open(w) \o <<Do("dust", w)>>
Segment(w, c) == OpenWithDust(w) \o Transactions(w, c)

RunAll(w) == Segment(w, "order")
DeployOrder(w) == Open(w) \o <<Transactions(w, "order")[1]>>
\* cs are the contracts of the pipeline, in order.
RunPipeline(w, cs) ==
  OpenWithDust(w) \o FlattenSeq([i \in DOMAIN cs |-> Transactions(w, cs[i])])
\* Slot k, counted from 1, works for the kth contract with the kth wallet from base.
SplitSlot(base, k, cs) == Segment(base + k - 1, cs[k])
SplitSequential(base, cs) == FlattenSeq([k \in DOMAIN cs |-> SplitSlot(base, k, cs)])
SyncDerived(ws) == FlattenSeq([i \in DOMAIN ws |-> OpenWithDust(ws[i])])
FundDerived(funder, ws) ==
  Open(funder) \o Transfer(funder, Range(ws))
    \o FlattenSeq([i \in DOMAIN ws |-> Open(ws[i]) \o <<Do("coins", ws[i]), Do("dust", ws[i])>>])
FundLocal(w) ==
  Open(Genesis) \o Open(w) \o Transfer(Genesis, {w})
    \o <<Do("coins", w), Do("register", w)>>

\* What they have in common: a wallet is opened before it is used, and the transactions of a contract follow one another,
\* from its deployment on.
Instructions ==
  [op : {"open", "dust", "coins", "register", "transfer", "call"}, wallet : Wallets,
   contract : Contracts \cup {""}, circuit : STRING, to : SUBSET Wallets]
OpensFirst(p) ==
  \A i \in DOMAIN p : p[i].op # "open" => \E j \in 1..(i - 1) : p[j].op = "open" /\ p[j].wallet = p[i].wallet
CallsInOrder(p) ==
  \A i \in DOMAIN p : p[i].op = "call" =>
    /\ p[i].contract \in Contracts
    /\ \E k \in DOMAIN Circuits(p[i].contract) :
         /\ p[i].circuit = Circuits(p[i].contract)[k]
         /\ k > 1 => i > 1 /\ p[i - 1] = [p[i] EXCEPT !.circuit = Circuits(p[i].contract)[k - 1]]
Programs == {p \in Seq(Instructions) : p # <<>> /\ OpensFirst(p) /\ CallsInOrder(p)}

-----------------------------------------------------------------------------
\* A process.

Live == {"ready", "submitted", "accruing"}
Running(r) == run[r].phase \in Live
Now(r) == run[r].program[run[r].pc]
Is(r, op, phase) == r \in DOMAIN run /\ run[r].phase = phase /\ Now(r).op = op
Calls(r) == r \in DOMAIN run /\ Now(r).op = "call"

\* Runs that have ended well and have nothing under way any more: a transfer is not waited for, nor is a registration of a
\* wallet that has DUST already (dust.ts:63-70).
Over == {q \in DOMAIN run : run[q].phase = "done" /\ \A t \in mempool : t.run # q}

Process(p, e, name) ==
  [program |-> p, env |-> e, store |-> name, pc |-> 1, phase |-> "ready", view |-> [w \in Wallets |-> 0],
   effect |-> Deployed(Blank, Blank), why |-> "", over |-> Over, rivals |-> {}]

Launch(ps) ==
  /\ Len(run) + Len(ps) <= MaxRuns
  /\ run' = run \o ps
  /\ landed' = landed \o [i \in DOMAIN ps |-> {}] /\ onchain' = onchain \o [i \in DOMAIN ps |-> {}]

Goes(r, x) == run' = [run EXCEPT ![r] = x]
\* What a process knew is gone with it.
Ended(x, phase, why) == [x EXCEPT !.phase = phase, !.why = why, !.view = [w \in Wallets |-> 0]]
\* On to the next instruction, or exit 0.
Onward(x) ==
  IF x.pc = Len(x.program) THEN Ended(x, "done", "")
  ELSE [x EXCEPT !.pc = @ + 1, !.phase = "ready"]

\* Defective: a wallet that was restored from its file is not brought up to date.
OpenFromFile(r) ==
  /\ Is(r, "open", "ready")
  /\ \E at \in 0..Height(Now(r).wallet) : Goes(r, Onward([run[r] EXCEPT !.view[Now(r).wallet] = at]))
  /\ UNCHANGED <<chainVars, store, scoped>>

\* initWalletWithSeed restores the wallet from .midnight-wallet-state, if there is a file that it can restore, or else
\* starts it from the genesis of the chain.  The file holds any earlier state: programs write it when they like, one
\* over the other.  waitForWalletSyncedWithHeartbeat then waits until the wallet has seen the chain, which it need never
\* do: there is no time limit unless MIDNIGHT_SYNC_TIMEOUT_MS sets one.
OpenWallet(r) ==
  /\ Is(r, "open", "ready")
  /\ Goes(r, Onward([run[r] EXCEPT !.view[Now(r).wallet] = Height(Now(r).wallet)]))
  /\ UNCHANGED <<chainVars, store, scoped>>

\* The funding programs wait, with no timeout, until a worker has unshielded coins.
CoinsSeen(r) ==
  /\ Is(r, "coins", "ready") /\ Now(r).wallet \in night
  /\ Goes(r, Onward(run[r]))
  /\ UNCHANGED <<chainVars, store, scoped>>

-----------------------------------------------------------------------------
\* Transactions: balanced on a state of the wallet, submitted, included, seen.

WalletOf(t) == run[t.run].program[t.pc].wallet

\* The states a wallet may have reached by now: it follows the chain.
Views(r) == run[r].view[Now(r).wallet]..Height(Now(r).wallet)

\* What happens next when the node has taken the transaction: a call is watched for, a registration must bring DUST,
\* and a transfer is not waited for.
Sent(x) ==
  CASE x.program[x.pc].op = "call" -> [x EXCEPT !.phase = "submitted"]
    [] x.program[x.pc].op \in {"dust", "register"} -> [x EXCEPT !.phase = "accruing"]
    [] x.program[x.pc].op = "transfer" -> Onward(x)

\* Who has spent, or is about to spend, what state v of wallet w would be paid with.
Spenders(w, v) == Range(SubSeq(chain[w], v + 1, Height(w))) \cup {t.run : t \in {u \in mempool : WalletOf(u) = w}}

\* The transaction of r is balanced on state v of its wallet, and the node takes it unless its inputs are spent.
Submit(r, v, effect) ==
  LET w == Now(r).wallet
      rivals == Spenders(w, v)
      x == [run[r] EXCEPT !.view[w] = v, !.effect = effect]
  IN /\ Goes(r, IF rivals = {} THEN Sent(x) ELSE [Ended(x, "failed", "refused") EXCEPT !.rivals = rivals])
     /\ mempool' = mempool \cup (IF rivals = {} THEN {[run |-> r, pc |-> run[r].pc]} ELSE {})
     /\ UNCHANGED <<chain, landed, onchain, night, idle, dust, store, scoped>>

\* ensureDustReady: there is DUST and every coin is registered, so that nothing has to be done; or a registration is
\* built; or nothing comes until the deadline.  The program for the local network does not ask for DUST.
DustReady(r) ==
  /\ \/ Is(r, "dust", "ready") /\ Now(r).wallet \in dust
     \/ Is(r, "register", "ready")
  /\ Now(r).wallet \notin idle
  /\ Goes(r, Onward(run[r]))
  /\ UNCHANGED <<chainVars, store, scoped>>

RegisterDust(r) ==
  /\ Is(r, "dust", "ready") \/ Is(r, "register", "ready")
  /\ Now(r).wallet \in idle
  /\ \E v \in Views(r) : Submit(r, v, run[r].effect)

DustTimesOut(r) ==
  /\ Is(r, "dust", "ready") /\ Now(r).wallet \notin dust \cup idle
  /\ Goes(r, Ended(run[r], "failed", "dust"))
  /\ UNCHANGED <<chainVars, store, scoped>>

\* Where a run keeps its private state of a contract, and what is there.
StateOf(r) == <<run[r].store, Now(r).wallet, Now(r).contract, IF scoped THEN r ELSE 0>>
Private(r) == {e \in Envs : <<StateOf(r), e>> \in store}

State(r, c) == {s.state : s \in {x \in onchain[r] : x.contract = c}}

\* What the transaction makes of the contract on the ledger; nothing if a circuit fails.
Effect(r) ==
  LET i == Now(r) IN
  IF i.circuit = "deploy" THEN {Constructed(i.contract, run[r].env)}
  ELSE UNION {Proved(i.circuit, s, w, run[r].env) : s \in State(r, i.contract), w \in Private(r)}

Call(r) ==
  /\ Is(r, "call", "ready") /\ Now(r).wallet \in dust /\ Effect(r) # {}
  /\ \E v \in Views(r) : \E s \in Effect(r) : Submit(r, v, s)

SendCoins(r) ==
  /\ Is(r, "transfer", "ready") /\ Now(r).wallet \in dust \cap night
  /\ \E v \in Views(r) : Submit(r, v, run[r].effect)

\* A circuit fails on the private state, or the wallet cannot pay.
CallFails(r) ==
  /\ Is(r, "call", "ready") \/ Is(r, "transfer", "ready")
  /\ \/ /\ Now(r).wallet \notin dust \/ (~Calls(r) /\ Now(r).wallet \notin night)
        /\ Goes(r, Ended(run[r], "failed", "balance"))
     \/ /\ Calls(r) /\ Effect(r) = {}
        /\ Goes(r, Ended(run[r], "failed", "mismatch"))
  /\ UNCHANGED <<chainVars, store, scoped>>

\* A block takes t.
Include(t) ==
  LET w == WalletOf(t)
      i == run[t.run].program[t.pc]
      registers == i.op \in {"dust", "register"}
      written == [contract |-> i.contract, state |-> run[t.run].effect]
  IN /\ mempool' = mempool \ {t} /\ chain' = [chain EXCEPT ![w] = Append(@, t.run)]
     /\ landed' = [landed EXCEPT ![t.run] = @ \cup {t.pc}]
     /\ onchain' = IF i.op # "call" THEN onchain
                   ELSE [onchain EXCEPT ![t.run] = {x \in @ : x.contract # i.contract} \cup {written}]
     /\ night' = night \cup i.to
     /\ idle' = (idle \cup i.to) \ (IF registers THEN {w} ELSE {})
     /\ dust' = dust \cup (IF registers THEN {w} ELSE {})
     /\ UNCHANGED <<run, store, scoped>>

\* The ttl of t ends before a block has taken it.
Expire(t) ==
  /\ mempool' = mempool \ {t}
  /\ UNCHANGED <<run, chain, landed, onchain, night, idle, dust, store, scoped>>

\* Defective: the transaction is taken to be included as soon as it is submitted.
SeenUnwatched(r) ==
  /\ Is(r, "call", "submitted")
  /\ Goes(r, Onward([run[r] EXCEPT !.view[Now(r).wallet] = @ + 1]))
  /\ UNCHANGED <<chainVars, store, scoped>>

\* Defective: the private state of a deployment is not stored.
SeenUnsaved(r) ==
  /\ Is(r, "call", "submitted") /\ run[r].pc \in landed[r]
  /\ Goes(r, Onward([run[r] EXCEPT !.view[Now(r).wallet] = @ + 1]))
  /\ UNCHANGED <<chainVars, store, scoped>>

\* watchForTxData finds the transaction; a deployment then stores the private state.
Seen(r) ==
  /\ Is(r, "call", "submitted") /\ run[r].pc \in landed[r]
  /\ Goes(r, Onward([run[r] EXCEPT !.view[Now(r).wallet] = @ + 1]))
  /\ store' = IF Now(r).circuit # "deploy" THEN store
              ELSE {x \in store : x[1] # StateOf(r)} \cup {<<StateOf(r), run[r].env>>}
  /\ UNCHANGED <<chainVars, scoped>>

\* No indexer match for any of its identifiers; the transaction may still be included.
WatchTimesOut(r) ==
  /\ Is(r, "call", "submitted") /\ run[r].pc \notin landed[r]
  /\ Goes(r, Ended(run[r], "failed", "unseen"))
  /\ UNCHANGED <<chainVars, store, scoped>>

DustAccrues(r) ==
  /\ Is(r, "dust", "accruing") \/ Is(r, "register", "accruing")
  /\ Now(r).wallet \in dust
  /\ Goes(r, Onward([run[r] EXCEPT !.view[Now(r).wallet] = Height(Now(r).wallet)]))
  /\ UNCHANGED <<chainVars, store, scoped>>

\* A process is killed, or something throws that it awaits: the proof server, the indexer, the disk.
Dies(r) ==
  /\ r \in DOMAIN run /\ Running(r) /\ Goes(r, Ended(run[r], "failed", "died"))
  /\ UNCHANGED <<chainVars, store, scoped>>

-----------------------------------------------------------------------------
RunsInit ==
  /\ run = <<>> /\ landed = <<>> /\ onchain = <<>> /\ mempool = {} /\ store = {}
  /\ chain = [w \in Wallets |-> <<>>]
  /\ night \in SUBSET Wallets /\ idle \in SUBSET night /\ dust \in SUBSET night
  /\ scoped \in BOOLEAN

Step(r) ==
  \/ OpenWallet(r) \/ CoinsSeen(r) \/ DustReady(r) \/ RegisterDust(r) \/ DustTimesOut(r) \/ DustAccrues(r)
  \/ Call(r) \/ SendCoins(r) \/ CallFails(r) \/ Seen(r) \/ WatchTimesOut(r)

Advances(r) == r \in DOMAIN run /\ Step(r)

RunsNext ==
  \/ \E r \in DOMAIN run : Advances(r) \/ Dies(r)
  \/ \E t \in mempool : Include(t) \/ Expire(t)

\* Where the code limits its wait: balancing (providers.ts:115-124) and watching (:164-168).  Everything else waits for
\* the wallet: to be synced (wait_wallet_sync.ts:109-110, dust.ts:19, :23, and providers.ts:88 before a deployment), to
\* have coins (midnight-fund-derived-wallets.ts:307) or DUST (dust.ts:65, fund-local-undeployed.ts:113).
Timed(r) == Is(r, "call", "submitted") \/ (Is(r, "call", "ready") /\ Now(r).circuit # "deploy")

\* What has a time limit goes on; nothing is assumed of the wallets' sync, nor of the network.
RunsFairness == \A r \in 1..MaxRuns : WF_runVars(Timed(r) /\ Advances(r))

-----------------------------------------------------------------------------
\* Where a process can be.
RunsTypeOK ==
  /\ \A r \in DOMAIN run :
       /\ run[r].program \in Programs
       /\ run[r].pc \in DOMAIN run[r].program /\ run[r].phase \in Live \cup {"done", "failed"}
       /\ run[r].why \in {"", "dust", "balance", "mismatch", "refused", "unseen", "died"}
       /\ \A w \in Wallets : run[r].view[w] <= Height(w)
  /\ \A t \in mempool : t.run \in DOMAIN run /\ t.pc \notin landed[t.run]
  /\ DOMAIN landed = DOMAIN run /\ DOMAIN onchain = DOMAIN run
  /\ dust \cup idle \subseteq night

\* Runs of one wallet come in each other's way only when they overlap: the transaction of a run is refused or dropped
\* only for one of a run that had not ended, or not well, or not with all it had submitted, when this one began.  A
\* wallet restored from an old file does not spend what it has spent (wallet.ts:269-311).
RefusedTakesAnOverlap ==
  \A r \in DOMAIN run : run[r].why = "refused" => \E q \in run[r].rivals : q \notin run[r].over

CallsOf(r) == {i \in DOMAIN run[r].program : run[r].program[i].op = "call"}

\* What the ledger holds of a run are the first of its transactions, each seen before the next was built, but for the
\* last: a run that fails leaves nothing out of order, and one that ends well has left nothing out.
OnChainIsAPrefix ==
  /\ RunsTypeOK
  /\ \A r \in DOMAIN run :
       /\ {i \in CallsOf(r) : i < run[r].pc} \subseteq landed[r]
       /\ landed[r] \cap CallsOf(r) \subseteq 1..run[r].pc
       /\ run[r].phase = "done" => CallsOf(r) \subseteq landed[r]

\* q may have replaced the private state that r keeps: both use one wallet and one store name, and overlap.
Intrudes(q, r) ==
  /\ q # r /\ ~scoped /\ run[q].store = run[r].store /\ run[q].env # run[r].env
  /\ q \notin run[r].over

\* Whatever runs beside it, a contract ends up with the values of the run that deployed it.  Only the aggregate, whose
\* circuit compares nothing, may take the child digests of an intruder.
TagsAreOwn ==
  \A r \in DOMAIN run : \A x \in onchain[r] :
    x.state.tag = Blank \/ x.state.tag.of = <<run[r].env, run[r].env>>
      \/ (x.contract = "aggregate" /\ \E q \in DOMAIN run : Intrudes(q, r))

\* A circuit fails on a private state only if another run has replaced it: this is what each worker has a store name of
\* its own for (midnight-parallel-cli.ts:2-3).
MismatchTakesAnIntruder ==
  \A r \in DOMAIN run : run[r].why = "mismatch" => \E q \in DOMAIN run : Intrudes(q, r)

\* Private inputs of another run get into a contract, or stop a run, only through a shared store.
OnlyIntrudersMislead == TagsAreOwn /\ MismatchTakesAnIntruder

\* A process waits for its wallet, with no time limit.
Waits(r) == r \in DOMAIN run /\ Running(r) /\ ~Timed(r)

\* Whatever the others do, every process ends, unless it waits for its wallet for ever.
RunsEnd ==
  \A r \in 1..MaxRuns : <>[]Waits(r) \/ (r \in DOMAIN run ~> (r \in DOMAIN run /\ ~Running(r)))

=============================================================================
