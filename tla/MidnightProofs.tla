--------------------------- MODULE MidnightProofs ---------------------------
(***************************************************************************)
(* Theorems about the processes of the command line programs and the jobs  *)
(* that start them, for any programs that open a wallet before they use it *)
(* and make the transactions of a contract in order, any number of         *)
(* processes, wallets, environments and jobs, and any interleaving.        *)
(***************************************************************************)
EXTENDS MidnightJobs, ListsAndSums

-----------------------------------------------------------------------------
(* The invariant.                                                          *)

Phases == Live \cup {"done", "failed"}
Whys == {"", "dust", "balance", "mismatch", "refused", "unseen", "died"}
Secrets == Envs \cup {""}
Made == {"blank", "traderPk", "l1Anchor", "legs", "match", "initial", "next", "margin", "breach", "root"}
Digests == [made : Made, of : Secrets \X Secrets]
Effects == [key : Digests, tag : Digests]
Holdings == [contract : Contracts, state : Effects]
RunRecords ==
  [program : Programs, env : Envs, store : Names, pc : Nat, phase : Phases, view : [Wallets -> Nat],
   effect : Effects, why : Whys, over : SUBSET Nat, rivals : SUBSET Nat]

Runs == 1..Len(run)
Op(r, i) == run[r].program[i].op
Mine(r) == {i \in Nat : [run |-> r, pc |-> i] \in mempool}

\* Types.
RunsAreTyped ==
  /\ run \in Seq(RunRecords)
  /\ landed \in Seq(SUBSET Nat) /\ Len(landed) = Len(run)
  /\ onchain \in Seq(SUBSET Holdings) /\ Len(onchain) = Len(run)
  /\ chain \in [Wallets -> Seq(Nat)]
  /\ mempool \subseteq [run : Runs, pc : Nat]
  /\ night \subseteq Wallets /\ idle \subseteq night /\ dust \subseteq night
  /\ scoped \in BOOLEAN

\* Where process r is in its program, and which of its transactions are out.
PlaceOK(r) ==
  /\ run[r].pc \in 1..Len(run[r].program)
  /\ \A w \in Wallets : run[r].view[w] <= Height(w)
  /\ landed[r] \subseteq 1..run[r].pc
  /\ Mine(r) \subseteq 1..run[r].pc /\ Mine(r) \cap landed[r] = {}
  /\ run[r].phase = "ready" => run[r].pc \notin landed[r] /\ run[r].pc \notin Mine(r)
  /\ \A i \in 1..Len(run[r].program) :
       Op(r, i) = "call" => /\ i < run[r].pc \/ run[r].phase = "done" => i \in landed[r]
                            /\ i \in Mine(r) => i = run[r].pc /\ run[r].phase \in {"submitted", "failed"}
  /\ \A i \in Mine(r) : Op(r, i) \in {"dust", "register"} => run[r].program[i].wallet \in night
  /\ run[r].phase = "submitted" =>
       /\ Now(r).op = "call"
       /\ run[r].pc \in landed[r] => run[r].view[Now(r).wallet] < Height(Now(r).wallet)
  /\ run[r].phase = "accruing" => Now(r).op \in {"dust", "register"}

\* Whose coins r has spent, or may take for its own.
OverlapOK(r) ==
  /\ \A q \in run[r].over : q \in Runs /\ run[q].phase = "done" /\ Mine(q) = {}
  /\ Running(r) =>
       \A i \in 1..(run[r].pc - 1) : Op(r, i) = "open" =>
         LET w == run[r].program[i].wallet IN
         \A k \in (run[r].view[w] + 1)..Height(w) : chain[w][k] \notin run[r].over
  /\ run[r].why = "refused" => \E q \in run[r].rivals : q \notin run[r].over

\* What the contracts hold.
Intruded(r) == \E q \in Runs : Intrudes(q, r)
Tagged(r, c, tag) == tag.of = <<run[r].env, run[r].env>> \/ (c = "aggregate" /\ Intruded(r))
\* Before its last circuit, a contract is as it was deployed.
EffectOK(r, x, i) ==
  /\ x.key = Constructed(i.contract, run[r].env).key
  /\ IF i.circuit \in {"deploy", "proveIntentAuthority"} THEN x.tag = Constructed(i.contract, run[r].env).tag
     ELSE Tagged(r, i.contract, x.tag)

\* The private state of a contract that r has deployed, with wallet w.
KeyOf(r, w, c) == <<run[r].store, w, c, IF scoped THEN r ELSE 0>>
StoreOK(r, w, c) ==
  /\ \E e \in Envs : <<KeyOf(r, w, c), e>> \in store
  /\ \A e \in Envs : <<KeyOf(r, w, c), e>> \in store => e = run[r].env \/ Intruded(r)

ContractsOK(r) ==
  /\ \A x \in onchain[r] : /\ x.state.key = Constructed(x.contract, run[r].env).key
                           /\ x.state.tag = Blank \/ Tagged(r, x.contract, x.state.tag)
  /\ Now(r).op = "call" =>
       /\ run[r].phase = "ready" /\ Now(r).circuit # "deploy" =>
            State(r, Now(r).contract) = {Constructed(Now(r).contract, run[r].env)}
       /\ run[r].phase = "submitted" \/ run[r].pc \in Mine(r) => EffectOK(r, run[r].effect, Now(r))
       /\ run[r].phase = "submitted" /\ run[r].pc \in landed[r] => State(r, Now(r).contract) = {run[r].effect}
  /\ \A i \in 1..(run[r].pc - 1) :
       Op(r, i) = "call" /\ run[r].program[i].circuit = "deploy" =>
         StoreOK(r, run[r].program[i].wallet, run[r].program[i].contract)
  /\ run[r].why = "mismatch" => Intruded(r)

RunsInv == RunsAreTyped /\ \A r \in Runs : PlaceOK(r) /\ OverlapOK(r) /\ ContractsOK(r)

-----------------------------------------------------------------------------
(* Programs and contracts.                                                 *)

Circuit(c, x) ==
  <<c, x>> \in {<<"order", "proveIntentAuthority">>, <<"order", "bindCardanoAnchor">>, <<"matching", "sealMatchRecord">>,
                <<"settlement", "stepSettlementDigest">>, <<"liquidation", "attestLiquidation">>,
                <<"aggregate", "mergeProofBatch">>}
SameTarget(i, j) == i.op = j.op /\ i.wallet = j.wallet /\ i.contract = j.contract

\* The circuits of a contract: deploy comes first, and all but the last leave it as it was deployed.
LEMMA CircuitsAre ==
  ASSUME NEW c \in Contracts, NEW k \in DOMAIN Circuits(c)
  PROVE  /\ k \in Nat /\ k >= 1
         /\ k = 1 => Circuits(c)[k] = "deploy"
         /\ k > 1 => /\ Circuit(c, Circuits(c)[k]) /\ k - 1 \in DOMAIN Circuits(c)
                     /\ Circuits(c)[k - 1] \in {"deploy", "proveIntentAuthority"}
         /\ Circuits(c)[k] = "proveIntentAuthority" => k = 2
<1>1. CASE c = "order"
  <2>1. Circuits(c) = <<"deploy", "proveIntentAuthority", "bindCardanoAnchor">>
    BY <1>1 DEF Circuits
  <2> QED BY <1>1, <2>1 DEF Circuit
<1>2. CASE c = "matching"
  <2>1. Circuits(c) = <<"deploy", "sealMatchRecord">>
    BY <1>2 DEF Circuits
  <2> QED BY <1>2, <2>1 DEF Circuit
<1>3. CASE c = "settlement"
  <2>1. Circuits(c) = <<"deploy", "stepSettlementDigest">>
    BY <1>3 DEF Circuits
  <2> QED BY <1>3, <2>1 DEF Circuit
<1>4. CASE c = "liquidation"
  <2>1. Circuits(c) = <<"deploy", "attestLiquidation">>
    BY <1>4 DEF Circuits
  <2> QED BY <1>4, <2>1 DEF Circuit
<1>5. CASE c = "aggregate"
  <2>1. Circuits(c) = <<"deploy", "mergeProofBatch">>
    BY <1>5 DEF Circuits
  <2> QED BY <1>5, <2>1 DEF Circuit
<1> QED BY <1>1, <1>2, <1>3, <1>4, <1>5 DEF Contracts

\* What stands before a call that is no deployment: a transaction of the same contract and wallet, that leaves the
\* contract as it was deployed.
CallFollows(p, i) ==
  /\ i - 1 \in 1..Len(p) /\ SameTarget(p[i - 1], p[i]) /\ p[i - 1].circuit \in {"deploy", "proveIntentAuthority"}
  /\ Circuit(p[i].contract, p[i].circuit)

\* A call that is no deployment follows another of its contract.
LEMMA CallsFollow ==
  ASSUME NEW p \in Programs, NEW i \in 1..Len(p), p[i].op = "call"
  PROVE  /\ p[i].contract \in Contracts
         /\ p[i].circuit # "deploy" => CallFollows(p, i)
<1>1. p \in Seq(Instructions) /\ CallsInOrder(p) /\ DOMAIN p = 1..Len(p)
  BY LenProperties DEF Programs
<1>2. p[i].contract \in Contracts
  BY <1>1 DEF CallsInOrder
<1>3. ASSUME p[i].circuit # "deploy" PROVE CallFollows(p, i)
  <2>1. PICK k \in DOMAIN Circuits(p[i].contract) :
          /\ p[i].circuit = Circuits(p[i].contract)[k]
          /\ k > 1 => i > 1 /\ p[i - 1] = [p[i] EXCEPT !.circuit = Circuits(p[i].contract)[k - 1]]
    BY <1>1 DEF CallsInOrder
  <2>2. k > 1
    BY <1>2, <1>3, <2>1, CircuitsAre
  <2>3. i - 1 \in 1..Len(p)
    BY <2>1, <2>2
  <2>4. PICK x : x = Circuits(p[i].contract)[k - 1]
    OBVIOUS
  <2>5. p[i - 1] = [p[i] EXCEPT !.circuit = x] /\ p[i] \in Instructions
    BY <1>1, <2>1, <2>2, <2>4, ElementOfSeq
  <2>6. SameTarget(p[i - 1], p[i]) /\ p[i - 1].circuit = x
    BY <2>5 DEF SameTarget, Instructions
  <2> QED BY <1>2, <2>1, <2>2, <2>3, <2>4, <2>6, CircuitsAre DEF CallFollows
<1> QED BY <1>2, <1>3

\* A contract is deployed before its circuits are called, with the same wallet.
LEMMA DeploysBefore ==
  ASSUME NEW p \in Programs, NEW i \in 1..Len(p), p[i].op = "call", p[i].circuit # "deploy"
  PROVE  \E j \in 1..(i - 1) : j \in 1..Len(p) /\ SameTarget(p[j], p[i]) /\ p[j].circuit = "deploy"
<1>1. CallFollows(p, i)
  BY CallsFollow
<1>2. CASE p[i - 1].circuit = "deploy"
  BY <1>1, <1>2 DEF CallFollows
<1>3. CASE p[i - 1].circuit = "proveIntentAuthority"
  <2>1. i - 1 \in 1..Len(p) /\ p[i - 1].op = "call" /\ SameTarget(p[i - 1], p[i])
    BY <1>1 DEF CallFollows, SameTarget
  <2>2. PICK m \in 1..Len(p) : m = i - 1
    BY <2>1
  <2>3. CallFollows(p, m) /\ p[m].circuit = "proveIntentAuthority"
    BY <1>3, <2>1, <2>2, CallsFollow
  <2>4. PICK k \in DOMAIN Circuits(p[m].contract) :
          /\ p[m].circuit = Circuits(p[m].contract)[k]
          /\ k > 1 => m > 1 /\ p[m - 1] = [p[m] EXCEPT !.circuit = Circuits(p[m].contract)[k - 1]]
    <3>1. DOMAIN p = 1..Len(p) /\ CallsInOrder(p)
      BY LenProperties DEF Programs
    <3>2. p[m].op = "call"
      BY <2>1, <2>2
    <3> QED BY <3>1, <3>2 DEF CallsInOrder
  <2>5. p[m].contract \in Contracts
    BY <2>1, <2>2, CallsFollow
  <2>6. k = 2
    BY <2>3, <2>4, <2>5, CircuitsAre
  <2>7. k - 1 \in DOMAIN Circuits(p[m].contract) /\ Circuits(p[m].contract)[k - 1] = "deploy"
    <3>1. PICK c \in Contracts : c = p[m].contract
      BY <2>5
    <3>2. k \in DOMAIN Circuits(c) /\ k > 1
      BY <2>6, <3>1
    <3>3. k - 1 \in DOMAIN Circuits(c)
      BY <3>2, CircuitsAre
    <3>4. Circuits(c)[k - 1] = "deploy"
      BY <2>6, <3>3, CircuitsAre
    <3> QED BY <3>1, <3>3, <3>4
  <2>8. p[m - 1] = [p[m] EXCEPT !.circuit = "deploy"] /\ p[m] \in Instructions
    <3>1. p \in Seq(Instructions)
      BY DEF Programs
    <3> QED BY <2>4, <2>6, <2>7, <3>1, ElementOfSeq
  <2>9. p[m - 1].circuit = "deploy" /\ SameTarget(p[m - 1], p[m])
    BY <2>8 DEF Instructions, SameTarget
  <2>10. m - 1 \in 1..(i - 1) /\ m - 1 \in 1..Len(p)
    BY <2>2, <2>3 DEF CallFollows
  <2> QED BY <2>1, <2>2, <2>9, <2>10 DEF SameTarget
<1> QED BY <1>1, <1>2, <1>3 DEF CallFollows

\* A digest, field by field.
LEMMA DigestsAre ==
  ASSUME NEW made \in Made, NEW e \in Secrets, NEW f \in Secrets
  PROVE  Digest(made, e, f) \in Digests /\ Digest(made, e, f).made = made /\ Digest(made, e, f).of = <<e, f>>
BY DEF Digest, Digests

\* The blank tag is a digest.
LEMMA BlankIs == Blank \in Digests
<1>1. "blank" \in Made /\ "" \in Secrets
  BY DEF Made, Secrets
<1> QED BY <1>1, DigestsAre DEF Blank

\* What is deployed, field by field.
LEMMA DeployedIs ==
  ASSUME NEW key \in Digests, NEW tag \in Digests
  PROVE  Deployed(key, tag) \in Effects /\ Deployed(key, tag).key = key /\ Deployed(key, tag).tag = tag
BY DEF Deployed, Effects

\* The secret of an environment makes digests.
LEMMA SecretsMake ==
  ASSUME NEW e \in Envs, NEW w \in Envs, NEW made \in Made
  PROVE  Digest(made, w, e) \in Digests /\ Digest(made, w, e).made = made /\ Digest(made, w, e).of = <<w, e>>
<1>1. e \in Secrets /\ w \in Secrets
  BY DEF Secrets
<1> QED BY <1>1, DigestsAre

\* What a deployment writes.
LEMMA ConstructedIs ==
  ASSUME NEW c \in Contracts, NEW e \in Envs
  PROVE  LET s == Constructed(c, e) IN s \in Effects /\ (s.tag = Blank \/ s.tag.of = <<e, e>>)
<1>1. \A made \in Made : Digest(made, e, e) \in Digests /\ Digest(made, e, e).of = <<e, e>>
  BY SecretsMake
<1>2. ASSUME NEW made \in Made
      PROVE  LET s == Deployed(Digest(made, e, e), Blank) IN s \in Effects /\ s.tag = Blank
  BY <1>1, BlankIs, DeployedIs
<1>3. LET s == Deployed(Blank, Digest("initial", e, e)) IN s \in Effects /\ s.tag.of = <<e, e>>
  <2>1. "initial" \in Made
    BY DEF Made
  <2> QED BY <1>1, <2>1, BlankIs, DeployedIs
<1>4. "traderPk" \in Made /\ "legs" \in Made /\ "margin" \in Made
  BY DEF Made
<1>5. CASE c = "order"
  BY <1>2, <1>4, <1>5 DEF Constructed, OrderDeployed
<1>6. CASE c = "matching"
  BY <1>2, <1>4, <1>6 DEF Constructed, MatchingDeployed
<1>7. CASE c = "liquidation"
  BY <1>2, <1>4, <1>7 DEF Constructed, LiquidationDeployed
<1>8. CASE c = "settlement"
  BY <1>3, <1>8 DEF Constructed, SettlementDeployed
<1>9. CASE c = "aggregate"
  BY <1>3, <1>9 DEF Constructed, AggregateDeployed
<1> QED BY <1>5, <1>6, <1>7, <1>8, <1>9 DEF Contracts

\* What a circuit makes of a contract that is as it was deployed from e, called from e with private state w: it goes
\* through with w = e, and with another w only where nothing is compared.
LEMMA ProvedIs ==
  ASSUME NEW c, NEW x, Circuit(c, x), NEW e \in Envs, NEW w \in Envs
  PROVE  LET s == Constructed(c, e) IN
         /\ w = e => Proved(x, s, w, e) # {}
         /\ \A y \in Proved(x, s, w, e) :
              /\ y \in Effects /\ y.key = s.key
              /\ IF x = "proveIntentAuthority" THEN y.tag = s.tag
                 ELSE y.tag.of = <<e, e>> \/ (c = "aggregate" /\ w # e)
<1> DEFINE s == Constructed(c, e)
<1>0. /\ \A made \in Made : /\ Digest(made, e, e) \in Digests /\ Digest(made, e, e).made = made /\ Digest(made, e, e).of = <<e, e>>
                            /\ Digest(made, w, e) \in Digests /\ Digest(made, w, e).of = <<w, e>>
                            /\ Digest(made, w, w) \in Digests /\ Digest(made, w, w).of = <<w, w>>
      /\ Blank \in Digests
  BY SecretsMake, BlankIs
<1>1. CASE c = "order" /\ x = "proveIntentAuthority"
  <2>1. s = Deployed(Digest("traderPk", e, e), Blank)
    BY <1>1 DEF Constructed, OrderDeployed
  <2>2. Proved(x, s, w, e) = {y \in {s} : s.key = Digest("traderPk", w, w)}
    BY <1>1 DEF Proved, ProveIntentAuthority
  <2>3. s \in Effects /\ s.key = Digest("traderPk", e, e)
    <3>1. "traderPk" \in Made
      BY DEF Made
    <3> QED BY <1>0, <2>1, <3>1, DeployedIs
  <2> QED BY <1>1, <2>2, <2>3
<1>2. CASE c = "order" /\ x = "bindCardanoAnchor"
  <2>1. s = Deployed(Digest("traderPk", e, e), Blank)
    BY <1>2 DEF Constructed, OrderDeployed
  <2>2. Proved(x, s, w, e) = {[z EXCEPT !.tag = Digest("l1Anchor", e, e)] : z \in {y \in {s} : s.key = Digest("traderPk", w, w)}}
    BY <1>2 DEF Proved, BindCardanoAnchor, ProveIntentAuthority
  <2>3. s \in Effects /\ s.key = Digest("traderPk", e, e) /\ Digest("l1Anchor", e, e) \in Digests /\ Digest("l1Anchor", e, e).of = <<e, e>>
    <3>1. "traderPk" \in Made /\ "l1Anchor" \in Made
      BY DEF Made
    <3> QED BY <1>0, <2>1, <3>1, DeployedIs
  <2>4. PICK d : d = Digest("l1Anchor", e, e)
    OBVIOUS
  <2>5. [s EXCEPT !.tag = d] \in Effects /\ [s EXCEPT !.tag = d].key = s.key /\ [s EXCEPT !.tag = d].tag = d
    BY <2>3, <2>4 DEF Effects
  <2>6. \A y \in Proved(x, s, w, e) : y = [s EXCEPT !.tag = d]
    BY <2>2, <2>4
  <2>7. w = e => Proved(x, s, w, e) # {}
    BY <2>2, <2>3
  <2> QED BY <1>2, <2>3, <2>4, <2>5, <2>6, <2>7
<1>3. CASE c = "matching" /\ x = "sealMatchRecord"
  <2>1. s = Deployed(Digest("legs", e, e), Blank)
    BY <1>3 DEF Constructed, MatchingDeployed
  <2>2. Proved(x, s, w, e) = {[z EXCEPT !.tag = Digest("match", e, e)] : z \in {y \in {s} : y.key = Digest("legs", w, w)}}
    BY <1>3 DEF Proved, SealMatchRecord
  <2>3. s \in Effects /\ s.key = Digest("legs", e, e) /\ Digest("match", e, e) \in Digests /\ Digest("match", e, e).of = <<e, e>>
    <3>1. "legs" \in Made /\ "match" \in Made
      BY DEF Made
    <3> QED BY <1>0, <2>1, <3>1, DeployedIs
  <2>4. PICK d : d = Digest("match", e, e)
    OBVIOUS
  <2>5. [s EXCEPT !.tag = d] \in Effects /\ [s EXCEPT !.tag = d].key = s.key /\ [s EXCEPT !.tag = d].tag = d
    BY <2>3, <2>4 DEF Effects
  <2>6. \A y \in Proved(x, s, w, e) : y = [s EXCEPT !.tag = d]
    BY <2>2, <2>4
  <2>7. w = e => Proved(x, s, w, e) # {}
    BY <2>2, <2>3
  <2> QED BY <1>3, <2>3, <2>4, <2>5, <2>6, <2>7
<1>4. CASE c = "settlement" /\ x = "stepSettlementDigest"
  <2>1. s = Deployed(Blank, Digest("initial", e, e))
    BY <1>4 DEF Constructed, SettlementDeployed
  <2>2. Proved(x, s, w, e) =
          {[z EXCEPT !.tag = Combined(Digest("initial", e, e), e)] :
             z \in {y \in {s} : y.tag.made = "initial" /\ Combined(y.tag, w) = Combined(Digest("initial", e, e), e)}}
    BY <1>4 DEF Proved, StepSettlementDigest
  <2>3. PICK d : d = Combined(Digest("initial", e, e), e)
    OBVIOUS
  <2>4. d \in Digests /\ d.of = <<e, e>>
    <3>1. "initial" \in Made /\ "next" \in Made
      BY DEF Made
    <3>2. Digest("initial", e, e).of[1] = e
      BY <1>0, <3>1
    <3>3. d = Digest("next", e, e)
      BY <2>3, <3>2 DEF Combined
    <3> QED BY <1>0, <3>1, <3>3
  <2>5. s \in Effects /\ s.tag = Digest("initial", e, e) /\ s.tag.made = "initial"
    <3>1. "initial" \in Made
      BY DEF Made
    <3> QED BY <1>0, <2>1, <3>1, DeployedIs
  <2>6. [s EXCEPT !.tag = d] \in Effects /\ [s EXCEPT !.tag = d].key = s.key /\ [s EXCEPT !.tag = d].tag = d
    BY <2>4, <2>5 DEF Effects
  <2>7. \A y \in Proved(x, s, w, e) : y = [s EXCEPT !.tag = d]
    BY <2>2, <2>3
  <2>8. w = e => Proved(x, s, w, e) # {}
    BY <2>2, <2>5
  <2> QED BY <1>4, <2>4, <2>6, <2>7, <2>8
<1>5. CASE c = "liquidation" /\ x = "attestLiquidation"
  <2>1. s = Deployed(Digest("margin", e, e), Blank)
    BY <1>5 DEF Constructed, LiquidationDeployed
  <2>2. Proved(x, s, w, e) = {[z EXCEPT !.tag = Digest("breach", w, e)] : z \in {y \in {s} : y.key = Digest("margin", w, w)}}
    BY <1>5 DEF Proved, AttestLiquidation
  <2>3. PICK d : d = Digest("breach", w, e)
    OBVIOUS
  <2>4. /\ s \in Effects /\ s.key = Digest("margin", e, e) /\ d \in Digests /\ d.of = <<w, e>>
        /\ Digest("margin", w, w).of = <<w, w>> /\ Digest("margin", e, e).of = <<e, e>>
    <3>1. "margin" \in Made /\ "breach" \in Made
      BY DEF Made
    <3> QED BY <1>0, <2>1, <2>3, <3>1, DeployedIs
  <2>5. [s EXCEPT !.tag = d] \in Effects /\ [s EXCEPT !.tag = d].key = s.key /\ [s EXCEPT !.tag = d].tag = d
    BY <2>4 DEF Effects
  <2>6. \A y \in Proved(x, s, w, e) : y = [s EXCEPT !.tag = d] /\ s.key = Digest("margin", w, w)
    BY <2>2, <2>3
  <2>7. s.key = Digest("margin", w, w) => w = e
    BY <2>4
  <2>8. w = e => Proved(x, s, w, e) # {}
    BY <2>2, <2>4
  <2> QED BY <1>5, <2>4, <2>5, <2>6, <2>7, <2>8
<1>6. CASE c = "aggregate" /\ x = "mergeProofBatch"
  <2>1. s = Deployed(Blank, Digest("initial", e, e))
    BY <1>6 DEF Constructed, AggregateDeployed
  <2>2. PICK d : d = Digest("root", w, w)
    OBVIOUS
  <2>3. Proved(x, s, w, e) = {[s EXCEPT !.tag = d]}
    BY <1>6, <2>2 DEF Proved, MergeProofBatch
  <2>4. s \in Effects /\ d \in Digests /\ d.of = <<w, w>>
    <3>1. "initial" \in Made /\ "root" \in Made
      BY DEF Made
    <3> QED BY <1>0, <2>1, <2>2, <3>1, DeployedIs
  <2>5. [s EXCEPT !.tag = d] \in Effects /\ [s EXCEPT !.tag = d].key = s.key /\ [s EXCEPT !.tag = d].tag = d
    BY <2>4 DEF Effects
  <2> QED BY <1>6, <2>3, <2>4, <2>5
<1> HIDE DEF s
<1>7. \/ (c = "order" /\ x \in {"proveIntentAuthority", "bindCardanoAnchor"}) \/ (c = "matching" /\ x = "sealMatchRecord")
      \/ (c = "settlement" /\ x = "stepSettlementDigest") \/ (c = "liquidation" /\ x = "attestLiquidation")
      \/ (c = "aggregate" /\ x = "mergeProofBatch")
  BY DEF Circuit
<1> USE DEF s
<1> QED BY <1>1, <1>2, <1>3, <1>4, <1>5, <1>6, <1>7

-----------------------------------------------------------------------------

\* Records of processes.
SameRun(x, y) == x.program = y.program /\ x.env = y.env /\ x.store = y.store /\ x.over = y.over

Stopped(x, y, phase, why) ==
  /\ x \in RunRecords /\ SameRun(x, y) /\ x.rivals = y.rivals /\ x.effect = y.effect /\ x.pc = y.pc
  /\ x.phase = phase /\ x.why = why /\ \A w \in Wallets : x.view[w] = 0

\* A process that ends, field by field.
LEMMA EndedIs ==
  ASSUME NEW y \in RunRecords, NEW phase \in Phases, NEW why \in Whys
  PROVE  Stopped(Ended(y, phase, why), y, phase, why)
<1> DEFINE z == [w \in Wallets |-> 0]
           x == [y EXCEPT !.phase = phase, !.why = why, !.view = z]
<1>1. z \in [Wallets -> Nat] /\ \A w \in Wallets : z[w] = 0
  OBVIOUS
<1> HIDE DEF z
<1>2. x \in RunRecords
  BY <1>1 DEF RunRecords
<1>3. /\ SameRun(x, y) /\ x.rivals = y.rivals /\ x.effect = y.effect /\ x.pc = y.pc
      /\ x.phase = phase /\ x.why = why /\ x.view = z
  BY DEF RunRecords, SameRun
<1>4. x = Ended(y, phase, why)
  BY DEF Ended, z
<1> HIDE DEF x
<1> QED BY <1>1, <1>2, <1>3, <1>4 DEF Stopped

\* Onward is to the end, or to the next instruction.
Moved(x, y) ==
  /\ x \in RunRecords /\ SameRun(x, y) /\ x.rivals = y.rivals /\ x.effect = y.effect
  /\ \/ x.phase = "done" /\ x.pc = y.pc /\ x.pc = Len(x.program) /\ x.why = "" /\ \A w \in Wallets : x.view[w] = 0
     \/ x.phase = "ready" /\ x.pc = y.pc + 1 /\ x.pc \in 1..Len(x.program) /\ x.why = y.why /\ x.view = y.view

\* A process that goes on, field by field.
LEMMA OnwardIs ==
  ASSUME NEW y \in RunRecords, y.pc \in 1..Len(y.program)
  PROVE  Moved(Onward(y), y)
<1>1. CASE y.pc = Len(y.program)
  <2>1. "done" \in Phases /\ "" \in Whys
    BY DEF Phases, Whys
  <2>2. PICK x : x = Ended(y, "done", "")
    OBVIOUS
  <2>3. Stopped(x, y, "done", "")
    BY <2>1, <2>2, EndedIs
  <2>4. Onward(y) = x
    BY <1>1, <2>2 DEF Onward
  <2> QED BY <1>1, <2>3, <2>4 DEF Moved, SameRun, Stopped
<1>2. CASE y.pc # Len(y.program)
  <2> DEFINE x == [y EXCEPT !.pc = @ + 1, !.phase = "ready"]
  <2>1. "ready" \in Phases
    BY DEF Phases, Live
  <2>2. y.program \in Seq(Instructions)
    BY DEF RunRecords, Programs
  <2>3. y.pc + 1 \in 1..Len(y.program) /\ y.pc + 1 \in Nat
    BY <1>2, <2>2, LenProperties
  <2>4. x \in RunRecords
    BY <2>1, <2>3 DEF RunRecords
  <2>5. /\ SameRun(x, y) /\ x.rivals = y.rivals /\ x.effect = y.effect
        /\ x.phase = "ready" /\ x.pc = y.pc + 1 /\ x.why = y.why /\ x.view = y.view
    BY DEF RunRecords, SameRun
  <2>6. Onward(y) = x
    BY <1>2 DEF Onward
  <2> HIDE DEF x
  <2> QED BY <2>3, <2>4, <2>5, <2>6 DEF Moved, SameRun
<1> QED BY <1>1, <1>2

\* Bringing a wallet up to date, and a phase.
LEMMA ViewIs ==
  ASSUME NEW y \in RunRecords, NEW u \in Wallets, NEW v \in Nat
  PROVE  LET x == [y EXCEPT !.view[u] = v] IN
         /\ x \in RunRecords /\ SameRun(x, y) /\ x.rivals = y.rivals /\ x.effect = y.effect /\ x.pc = y.pc
         /\ x.phase = y.phase /\ x.why = y.why
         /\ x.view[u] = v /\ \A w \in Wallets : w # u => x.view[w] = y.view[w]
<1> DEFINE z == [y.view EXCEPT ![u] = v]
           x == [y EXCEPT !.view = z]
<1>1. z \in [Wallets -> Nat] /\ z[u] = v /\ \A w \in Wallets : w # u => z[w] = y.view[w]
  BY DEF RunRecords
<1> HIDE DEF z
<1>2. x \in RunRecords
  BY <1>1 DEF RunRecords
<1>3. /\ SameRun(x, y) /\ x.rivals = y.rivals /\ x.effect = y.effect /\ x.pc = y.pc
      /\ x.phase = y.phase /\ x.why = y.why /\ x.view = z
  BY DEF RunRecords, SameRun
<1>4. x = [y EXCEPT !.view[u] = v]
  BY DEF z
<1> HIDE DEF x
<1> QED BY <1>1, <1>2, <1>3, <1>4

\* Only the effect changes.
LEMMA EffectFieldIs ==
  ASSUME NEW y \in RunRecords, NEW s \in Effects
  PROVE  LET x == [y EXCEPT !.effect = s] IN
         /\ x \in RunRecords /\ SameRun(x, y) /\ x.rivals = y.rivals /\ x.effect = s /\ x.pc = y.pc
         /\ x.phase = y.phase /\ x.why = y.why /\ x.view = y.view
BY DEF RunRecords, SameRun

\* Only the rivals change.
LEMMA RivalsFieldIs ==
  ASSUME NEW y \in RunRecords, NEW s \in SUBSET Nat
  PROVE  LET x == [y EXCEPT !.rivals = s] IN
         /\ x \in RunRecords /\ SameRun(x, y) /\ x.rivals = s /\ x.effect = y.effect /\ x.pc = y.pc
         /\ x.phase = y.phase /\ x.why = y.why /\ x.view = y.view
BY DEF RunRecords, SameRun

\* Only the phase changes.
LEMMA PhaseFieldIs ==
  ASSUME NEW y \in RunRecords, NEW s \in Phases
  PROVE  LET x == [y EXCEPT !.phase = s] IN
         /\ x \in RunRecords /\ SameRun(x, y) /\ x.rivals = y.rivals /\ x.effect = y.effect /\ x.pc = y.pc
         /\ x.phase = s /\ x.why = y.why /\ x.view = y.view
BY DEF RunRecords, SameRun

-----------------------------------------------------------------------------
(* What the steps of the others leave to a process.                        *)

RunOK(r) == PlaceOK(r) /\ OverlapOK(r) /\ ContractsOK(r)

\* The types of one process.
LEMMA RunsTyped ==
  ASSUME RunsAreTyped, NEW r \in Runs
  PROVE  /\ r \in Nat /\ Runs = DOMAIN run /\ run[r] \in RunRecords
         /\ run[r].program \in Programs /\ run[r].env \in Envs /\ run[r].store \in Names /\ run[r].pc \in Nat
         /\ run[r].phase \in Phases /\ run[r].effect \in Effects /\ run[r].why \in Whys
         /\ run[r].over \subseteq Nat /\ run[r].rivals \subseteq Nat
         /\ \A w \in Wallets : run[r].view[w] \in Nat
         /\ landed[r] \subseteq Nat /\ onchain[r] \subseteq Holdings
<1>1. Len(run) \in Nat /\ r \in 1..Len(run) /\ DOMAIN run = 1..Len(run)
  BY LenProperties DEF RunsAreTyped, Runs
<1>2. run[r] \in RunRecords
  BY <1>1, ElementOfSeq DEF RunsAreTyped
<1>3. landed[r] \in SUBSET Nat /\ onchain[r] \in SUBSET Holdings
  BY <1>1, ElementOfSeq DEF RunsAreTyped
<1> QED BY <1>1, <1>2, <1>3 DEF RunRecords, Runs

\* The types of what the chain holds of a wallet.
LEMMA ChainTyped ==
  ASSUME RunsAreTyped, NEW w \in Wallets
  PROVE  chain[w] \in Seq(Nat) /\ Height(w) \in Nat
<1>1. chain[w] \in Seq(Nat)
  BY DEF RunsAreTyped
<1> QED BY <1>1, LenProperties DEF Height

\* The types of an instruction.
LEMMA ProgramTyped ==
  ASSUME NEW p \in Programs
  PROVE  /\ p \in Seq(Instructions) /\ Len(p) \in Nat /\ Len(p) > 0 /\ DOMAIN p = 1..Len(p) /\ OpensFirst(p) /\ CallsInOrder(p)
         /\ \A i \in 1..Len(p) : p[i] \in Instructions /\ p[i].wallet \in Wallets
                /\ p[i].op \in {"open", "dust", "coins", "register", "transfer", "call"}
<1>1. p \in Seq(Instructions) /\ p # <<>> /\ OpensFirst(p) /\ CallsInOrder(p)
  BY DEF Programs
<1>2. Len(p) \in Nat /\ DOMAIN p = 1..Len(p) /\ Len(p) > 0
  BY <1>1, LenProperties, EmptySeq
<1>3. \A i \in 1..Len(p) : p[i] \in Instructions
  BY <1>1, ElementOfSeq
<1> QED BY <1>1, <1>2, <1>3 DEF Instructions

\* The instruction a process is at.
LEMMA NowIs ==
  ASSUME RunsAreTyped, NEW r \in Runs, PlaceOK(r)
  PROVE  /\ run[r].pc \in 1..Len(run[r].program) /\ Now(r) \in Instructions
         /\ Now(r).wallet \in Wallets /\ Now(r).contract \in Contracts \cup {""}
         /\ Now(r).op \in {"open", "dust", "coins", "register", "transfer", "call"}
<1>1. run[r].program \in Programs /\ run[r].pc \in 1..Len(run[r].program)
  BY RunsTyped DEF PlaceOK
<1>2. Now(r) \in Instructions
  BY <1>1, ProgramTyped DEF Now
<1> QED BY <1>1, <1>2 DEF Instructions

\* q is not moved by the step, nor is what it has out; and what the others do, they do after it has begun.
Beside(q) ==
  /\ q \in Runs /\ q \in Runs' /\ run'[q] = run[q] /\ landed'[q] = landed[q] /\ onchain'[q] = onchain[q] /\ Mine(q)' = Mine(q)
  /\ \A p \in run[q].over : p \in Runs' /\ run'[p].phase = "done" /\ Mine(p)' = {}
  /\ Intruded(q) => Intruded(q)'
  /\ night \subseteq night' /\ scoped' = scoped
  /\ \A w \in Wallets :
       /\ Height(w)' \in Nat /\ Height(w) <= Height(w)'
       /\ \A k \in 1..Height(w)' : IF k <= Height(w) THEN chain'[w][k] = chain[w][k] ELSE chain'[w][k] \notin run[q].over
  /\ \A w \in Wallets, c \in Contracts : StoreOK(q, w, c) => StoreOK(q, w, c)'

\* Whatever happens beside q, within Beside(q), leaves what is true of q.
LEMMA BesideKeeps ==
  ASSUME RunsAreTyped, NEW q \in Runs, RunOK(q), Beside(q)
  PROVE  RunOK(q)'
<1>1. PlaceOK(q)'
  <2>1. PlaceOK(q)
    BY DEF RunOK
  <2>2. \A w \in Wallets : run[q].view[w] \in Nat /\ Height(w) \in Nat /\ Height(w)' \in Nat /\ Height(w) <= Height(w)'
    <3>1. \A w \in Wallets : run[q].view[w] \in Nat
      BY RunsTyped
    <3>2. \A w \in Wallets : Height(w) \in Nat
      BY ChainTyped
    <3>3. \A w \in Wallets : Height(w)' \in Nat /\ Height(w) <= Height(w)'
      BY DEF Beside
    <3> QED BY <3>1, <3>2, <3>3
  <2>3. Now(q) = Now(q)' /\ Now(q).wallet \in Wallets
    BY <2>1, NowIs DEF Now, Beside
  <2>4. /\ run'[q] = run[q] /\ landed'[q] = landed[q] /\ Mine(q)' = Mine(q) /\ night \subseteq night'
        /\ \A i : Op(q, i)' = Op(q, i)
    BY DEF Beside, Op
  <2>5. run[q].phase = "submitted" /\ run[q].pc \in landed[q] => run[q].view[Now(q).wallet] < Height(Now(q).wallet)'
    BY <2>1, <2>2, <2>3 DEF PlaceOK
  <2>6. \A w \in Wallets : run[q].view[w] <= Height(w)'
    BY <2>1, <2>2 DEF PlaceOK
  <2>7. \A i \in Mine(q) : Op(q, i) \in {"dust", "register"} => run[q].program[i].wallet \in night'
    BY <2>1, <2>4 DEF PlaceOK
  <2> QED BY <2>1, <2>3, <2>4, <2>5, <2>6, <2>7 DEF PlaceOK
<1>2. OverlapOK(q)'
  <2>1. OverlapOK(q) /\ run'[q] = run[q]
    BY DEF RunOK, Beside
  <2>2. \A p \in run[q].over : p \in Runs' /\ run'[p].phase = "done" /\ Mine(p)' = {}
    BY DEF Beside
  <2>3. ASSUME Running(q), NEW i \in 1..(run[q].pc - 1), Op(q, i) = "open"
        PROVE  LET w == run[q].program[i].wallet IN
               \A k \in (run[q].view[w] + 1)..Len(chain'[w]) : chain'[w][k] \notin run[q].over
    <3>1. PICK w \in Wallets : w = run[q].program[i].wallet
      <4>1. run[q].program \in Programs /\ i \in 1..Len(run[q].program)
        BY RunsTyped DEF RunOK, PlaceOK
      <4> QED BY <4>1, ProgramTyped
    <3>2. \A k \in (run[q].view[w] + 1)..Height(w) : chain[w][k] \notin run[q].over
      BY <2>1, <2>3, <3>1 DEF OverlapOK
    <3>3. /\ Height(w)' \in Nat /\ Height(w) \in Nat /\ Height(w) <= Height(w)' /\ run[q].view[w] \in Nat
          /\ \A k \in 1..Height(w)' : k <= Height(w) => chain'[w][k] = chain[w][k]
          /\ \A k \in 1..Height(w)' : k > Height(w) => chain'[w][k] \notin run[q].over
      <4>1. run[q].view[w] \in Nat
        BY RunsTyped
      <4>2. Height(w) \in Nat
        BY ChainTyped
      <4>3. /\ Height(w)' \in Nat /\ Height(w) <= Height(w)'
            /\ \A k \in 1..Height(w)' :
                 IF k <= Height(w) THEN chain'[w][k] = chain[w][k] ELSE chain'[w][k] \notin run[q].over
        BY DEF Beside
      <4>4. \A k \in 1..Height(w)' : k > Height(w) => ~ (k <= Height(w))
        BY <4>2, <4>3
      <4> QED BY <4>1, <4>2, <4>3, <4>4
    <3>4. ASSUME NEW k \in (run[q].view[w] + 1)..Height(w)' PROVE chain'[w][k] \notin run[q].over
      <4>1. k \in 1..Height(w)' /\ (k <= Height(w) => k \in (run[q].view[w] + 1)..Height(w))
        BY <3>3
      <4>2. CASE k <= Height(w)
        BY <3>2, <3>3, <4>1, <4>2
      <4>3. CASE k > Height(w)
        BY <3>3, <4>1, <4>3
      <4>4. k \in Nat
        BY <4>1, <3>3
      <4> QED BY <3>3, <4>2, <4>3, <4>4
    <3> QED BY <3>1, <3>4 DEF Height
  <2> QED BY <2>1, <2>2, <2>3 DEF OverlapOK, Running, Op, Height
<1>3. ContractsOK(q)'
  <2>1. ContractsOK(q) /\ run'[q] = run[q] /\ onchain'[q] = onchain[q] /\ landed'[q] = landed[q] /\ Mine(q)' = Mine(q)
    BY DEF RunOK, Beside
  <2>2. Intruded(q) => Intruded(q)'
    BY DEF Beside
  <2>3. \A c, tag : Tagged(q, c, tag) => Tagged(q, c, tag)'
    BY <2>1, <2>2 DEF Tagged
  <2>4. \A x, i : EffectOK(q, x, i) => EffectOK(q, x, i)'
    BY <2>1, <2>3 DEF EffectOK
  <2>5. Now(q)' = Now(q) /\ (\A c : State(q, c)' = State(q, c)) /\ \A i : Op(q, i)' = Op(q, i)
    BY <2>1 DEF Now, State, Op
  <2>6. ASSUME NEW i \in 1..(run[q].pc - 1), Op(q, i) = "call", run[q].program[i].circuit = "deploy"
        PROVE  StoreOK(q, run[q].program[i].wallet, run[q].program[i].contract)'
    <3>1. run[q].program \in Programs /\ i \in 1..Len(run[q].program)
      BY RunsTyped DEF RunOK, PlaceOK
    <3>2. run[q].program[i].wallet \in Wallets /\ run[q].program[i].contract \in Contracts
      BY <2>6, <3>1, ProgramTyped, CallsFollow DEF Op
    <3>3. PICK w \in Wallets, c \in Contracts : w = run[q].program[i].wallet /\ c = run[q].program[i].contract
      BY <3>2
    <3>4. StoreOK(q, w, c)'
      BY <2>1, <2>6, <3>3 DEF ContractsOK, Beside
    <3> QED BY <2>1, <3>3, <3>4
  <2>7. \A x \in onchain[q] : /\ x.state.key = Constructed(x.contract, run[q].env).key
                              /\ x.state.tag = Blank \/ Tagged(q, x.contract, x.state.tag)'
    BY <2>1, <2>3 DEF ContractsOK
  <2>8. Now(q).op = "call" =>
          /\ run[q].phase = "ready" /\ Now(q).circuit # "deploy" =>
               State(q, Now(q).contract) = {Constructed(Now(q).contract, run[q].env)}
          /\ run[q].phase = "submitted" \/ run[q].pc \in Mine(q) => EffectOK(q, run[q].effect, Now(q))'
          /\ run[q].phase = "submitted" /\ run[q].pc \in landed[q] => State(q, Now(q).contract) = {run[q].effect}
    <3>1. PICK i, s : i = Now(q) /\ i = Now(q)' /\ s = run[q].effect /\ s = run'[q].effect
      BY <2>1, <2>5
    <3>2. EffectOK(q, s, i) => EffectOK(q, s, i)'
      BY <2>4
    <3>3. EffectOK(q, s, i)' = EffectOK(q, run[q].effect, Now(q))'
      BY <3>1
    <3> QED BY <2>1, <3>1, <3>2, <3>3 DEF ContractsOK
  <2>9. run[q].why = "mismatch" => Intruded(q)'
    BY <2>1, <2>2 DEF ContractsOK
  <2> QED BY <2>1, <2>5, <2>6, <2>7, <2>8, <2>9 DEF ContractsOK
<1> QED BY <1>1, <1>2, <1>3 DEF RunOK

\* A process moves: its record becomes x, it may send the transaction that it is at, or write its private state.
StepsTo(r, x) ==
  /\ r \in Runs /\ Running(r) /\ x \in RunRecords /\ SameRun(x, run[r]) /\ run' = [run EXCEPT ![r] = x]
  /\ UNCHANGED <<chain, landed, onchain, night, idle, dust, scoped>>
  /\ mempool' = mempool \/ mempool' = mempool \cup {[run |-> r, pc |-> run[r].pc]}
  /\ store' = store \/ store' = {y \in store : y[1] # StateOf(r)} \cup {<<StateOf(r), run[r].env>>}

\* What a step of r changes.
LEMMA StepIs ==
  ASSUME RunsAreTyped, NEW r, NEW x, StepsTo(r, x)
  PROVE  /\ RunsAreTyped' /\ Runs' = Runs /\ run'[r] = x /\ \A q \in Runs : q # r => run'[q] = run[q] /\ Mine(q)' = Mine(q)
         /\ Mine(r)' = Mine(r) \/ Mine(r)' = Mine(r) \cup {run[r].pc}
         /\ \A q \in Runs : Intruded(q)' = Intruded(q)
<1>1. /\ Runs = DOMAIN run /\ run \in Seq(RunRecords) /\ x \in RunRecords /\ r \in Runs /\ run[r].pc \in Nat
      /\ run' = [run EXCEPT ![r] = x]
  BY RunsTyped DEF StepsTo, RunsAreTyped
<1>2. run' \in Seq(RunRecords) /\ Len(run') = Len(run) /\ Runs' = Runs
  BY <1>1, ExceptSeq DEF Runs
<1>3. run'[r] = x /\ \A q \in Runs : q # r => run'[q] = run[q]
  BY <1>1
<1>4. mempool' \subseteq [run : Runs, pc : Nat] /\ mempool \subseteq [run : Runs, pc : Nat]
  BY <1>1 DEF StepsTo, RunsAreTyped
<1>5. RunsAreTyped'
  <2>1. UNCHANGED <<chain, landed, onchain, night, idle, dust, scoped>>
    BY DEF StepsTo
  <2> QED BY <1>2, <1>4, <2>1 DEF RunsAreTyped
<1>6. \A q \in Runs : q # r => Mine(q)' = Mine(q)
  BY DEF StepsTo, Mine
<1>7. Mine(r)' = Mine(r) \/ Mine(r)' = Mine(r) \cup {run[r].pc}
  <2>1. CASE mempool' = mempool
    BY <2>1 DEF Mine
  <2>2. CASE mempool' = mempool \cup {[run |-> r, pc |-> run[r].pc]}
    BY <1>1, <2>2 DEF Mine
  <2> QED BY <2>1, <2>2 DEF StepsTo
<1>8. \A q \in Runs : Intruded(q)' = Intruded(q)
  <2>1. \A q \in Runs : run'[q].store = run[q].store /\ run'[q].env = run[q].env /\ run'[q].over = run[q].over
    BY <1>3 DEF StepsTo, SameRun
  <2>2. scoped' = scoped
    BY DEF StepsTo
  <2> QED BY <1>2, <2>1, <2>2 DEF Intruded, Intrudes
<1> QED BY <1>2, <1>3, <1>5, <1>6, <1>7, <1>8

\* Nobody counts on a process that is running to be over.
LEMMA RunningIsNotOver ==
  ASSUME NEW q \in Runs, OverlapOK(q), NEW r, Running(r) \/ Mine(r) # {}
  PROVE  r \notin run[q].over
BY DEF OverlapOK, Running, Live

\* A private state is replaced by its own run, or by an intruder.
LEMMA StoreKeeps ==
  ASSUME RunsAreTyped, NEW r, NEW x, StepsTo(r, x), NEW q \in Runs, OverlapOK(q), NEW w, NEW c, StoreOK(q, w, c)
  PROVE  StoreOK(q, w, c)'
<1>1. KeyOf(q, w, c)' = KeyOf(q, w, c) /\ run'[q].env = run[q].env /\ Intruded(q)' = Intruded(q) /\ r \in Runs
      /\ run[r].env \in Envs /\ run[q].env \in Envs
  BY StepIs, RunsTyped DEF StepsTo, SameRun, KeyOf
<1>2. CASE store' = store
  BY <1>1, <1>2 DEF StoreOK
<1>3. CASE store' = {y \in store : y[1] # StateOf(r)} \cup {<<StateOf(r), run[r].env>>}
  <2>1. PICK key, mine : key = KeyOf(q, w, c) /\ mine = StateOf(r)
    OBVIOUS
  <2>2. CASE key # mine
    <3>1. \A e : <<key, e>> \in store' <=> <<key, e>> \in store
      BY <1>3, <2>1, <2>2
    <3> QED BY <1>1, <2>1, <3>1 DEF StoreOK
  <2>3. CASE key = mine
    <3>1. \A e : <<key, e>> \in store' <=> e = run[r].env
      BY <1>3, <2>1, <2>3
    <3>2. run[r].env = run[q].env \/ Intruded(q)
      <4>1. CASE q = r
        BY <4>1
      <4>2. CASE q # r
        <5>1. ~scoped /\ run[r].store = run[q].store
          BY <2>1, <2>3, <4>2 DEF KeyOf, StateOf
        <5>2. r \notin run[q].over
          BY RunningIsNotOver DEF StepsTo
        <5> QED BY <1>1, <4>2, <5>1, <5>2 DEF Intruded, Intrudes
      <4> QED BY <4>1, <4>2
    <3> QED BY <1>1, <2>1, <3>1, <3>2 DEF StoreOK
  <2> QED BY <2>2, <2>3
<1> QED BY <1>2, <1>3 DEF StepsTo

\* A step of r leaves what is true of the others.
LEMMA OthersKeep ==
  ASSUME RunsInv, NEW r, NEW x, StepsTo(r, x), NEW q \in Runs, q # r
  PROVE  RunOK(q)'
<1>1. RunsAreTyped /\ RunOK(q) /\ OverlapOK(q) /\ r \in Runs
  BY DEF RunsInv, RunOK, StepsTo
<1>2. Beside(q)
  <2>1. q \in Runs' /\ run'[q] = run[q] /\ Mine(q)' = Mine(q) /\ Intruded(q)' = Intruded(q)
    BY <1>1, StepIs
  <2>2. landed'[q] = landed[q] /\ onchain'[q] = onchain[q] /\ night' = night /\ scoped' = scoped /\ chain' = chain
    BY DEF StepsTo
  <2>3. ASSUME NEW p \in run[q].over PROVE p \in Runs' /\ run'[p].phase = "done" /\ Mine(p)' = {}
    <3>1. p \in Runs /\ run[p].phase = "done" /\ Mine(p) = {}
      BY <1>1 DEF OverlapOK
    <3>2. p # r
      BY <3>1 DEF StepsTo, Running, Live
    <3> QED BY <1>1, <3>1, <3>2, StepIs
  <2>4. \A w, c : StoreOK(q, w, c) => StoreOK(q, w, c)'
    BY <1>1, StoreKeeps
  <2>5. \A w \in Wallets : /\ Height(w)' \in Nat /\ Height(w) <= Height(w)'
            /\ \A k \in 1..Height(w)' : IF k <= Height(w) THEN chain'[w][k] = chain[w][k] ELSE chain'[w][k] \notin run[q].over
    BY <1>1, <2>2, ChainTyped DEF Height
  <2> QED BY <2>1, <2>2, <2>3, <2>4, <2>5 DEF Beside
<1> QED BY <1>1, <1>2, BesideKeeps

-----------------------------------------------------------------------------
(* A process that goes on to its next instruction, or ends.                *)

\* The record of r, with its wallets brought nearer to the chain.
Brought(y, r) ==
  /\ y \in RunRecords /\ SameRun(y, run[r]) /\ y.pc = run[r].pc /\ y.why = run[r].why /\ y.rivals = run[r].rivals
  /\ y.effect = run[r].effect /\ \A w \in Wallets : run[r].view[w] <= y.view[w] /\ y.view[w] <= Height(w)

\* What it has done before it goes on.
Done(r, y) ==
  /\ Now(r).op = "open" => y.view[Now(r).wallet] = Height(Now(r).wallet)
  /\ Now(r).op = "call" => /\ run[r].phase = "submitted" /\ run[r].pc \in landed[r]
                           /\ Now(r).circuit = "deploy" =>
                                store' = {z \in store : z[1] # StateOf(r)} \cup {<<StateOf(r), run[r].env>>}
  /\ mempool' # mempool => Now(r).op = "transfer" /\ run[r].phase = "ready"

\* No call of a process that goes on is still out.
LEMMA NoneOut ==
  ASSUME RunsInv, NEW r, NEW x, StepsTo(r, x), NEW y, Done(r, y)
  PROVE  /\ \A i \in Mine(r)' : i \in 1..run[r].pc /\ Op(r, i) # "call" /\ i \notin landed[r]
         /\ \A i \in Mine(r)' : Op(r, i) \in {"dust", "register"} => run[r].program[i].wallet \in night
<1>1. RunsAreTyped /\ PlaceOK(r) /\ r \in Runs /\ run[r].pc \in Nat /\ run[r].pc \in 1..Len(run[r].program)
  BY RunsTyped DEF RunsInv, StepsTo, PlaceOK
<1>2. Op(r, run[r].pc) = Now(r).op
  BY DEF Op, Now
<1>3. ASSUME NEW i \in Mine(r) PROVE i \in 1..run[r].pc /\ Op(r, i) # "call" /\ i \notin landed[r]
  <2>1. i \in 1..run[r].pc /\ i \notin landed[r]
    BY <1>1, <1>3 DEF PlaceOK
  <2>2. i \in 1..Len(run[r].program)
    <3>1. Len(run[r].program) \in Nat
      BY <1>1, RunsTyped, ProgramTyped
    <3> QED BY <1>1, <2>1, <3>1
  <2>3. Op(r, i) = "call" => i = run[r].pc
    BY <1>1, <2>2 DEF PlaceOK
  <2>4. Op(r, i) # "call"
    BY <1>2, <2>1, <2>3 DEF Done
  <2> QED BY <2>1, <2>4
<1>4. \A i \in Mine(r) : Op(r, i) \in {"dust", "register"} => run[r].program[i].wallet \in night
  BY <1>1 DEF PlaceOK
<1>5. CASE mempool' = mempool
  <2>1. Mine(r)' = Mine(r)
    BY <1>5 DEF Mine
  <2> QED BY <1>3, <1>4, <2>1
<1>6. CASE mempool' # mempool
  <2>1. Now(r).op = "transfer" /\ run[r].phase = "ready" /\ run[r].pc \notin landed[r]
    BY <1>1, <1>6 DEF Done, PlaceOK
  <2>2. Mine(r)' = Mine(r) \/ Mine(r)' = Mine(r) \cup {run[r].pc}
    BY <1>1, StepIs
  <2> QED BY <1>1, <1>2, <1>3, <1>4, <2>1, <2>2
<1> QED BY <1>5, <1>6

\* r goes on when the transaction that it waits for is on the ledger: its place.
LEMMA OnwardPlace ==
  ASSUME RunsInv, NEW r, NEW x, StepsTo(r, x), NEW y, Brought(y, r), Done(r, y), Moved(x, y)
  PROVE  PlaceOK(r)'
<1>1. RunsAreTyped /\ PlaceOK(r) /\ r \in Runs /\ run[r].pc \in Nat /\ run[r].pc \in 1..Len(run[r].program)
  BY RunsTyped DEF RunsInv, StepsTo, PlaceOK
<1>2. run'[r] = x /\ landed'[r] = landed[r] /\ (\A w : Height(w)' = Height(w)) /\ night' = night
  BY <1>1, StepIs DEF StepsTo, Height
<1>3. /\ x.program = run[r].program /\ Len(run[r].program) \in Nat
      /\ \/ x.phase = "done" /\ x.pc = run[r].pc /\ x.pc = Len(run[r].program) /\ \A w \in Wallets : x.view[w] = 0
         \/ x.phase = "ready" /\ x.pc = run[r].pc + 1 /\ x.pc \in 1..Len(run[r].program) /\ x.view = y.view
  BY <1>1, RunsTyped, ProgramTyped DEF Moved, Brought, SameRun
<1>4. \A i : Op(r, i)' = Op(r, i)
  BY <1>2, <1>3 DEF Op
<1>5. /\ \A i \in Mine(r)' : i \in 1..run[r].pc /\ Op(r, i) # "call" /\ i \notin landed[r]
      /\ \A i \in Mine(r)' : Op(r, i) \in {"dust", "register"} => run[r].program[i].wallet \in night
  BY NoneOut
<1>6. x.pc \in 1..Len(x.program) /\ run[r].pc <= x.pc
  BY <1>1, <1>3
<1>7. \A w \in Wallets : x.view[w] <= Height(w)
  BY <1>1, <1>3, ChainTyped DEF Brought
<1>8. landed[r] \subseteq 1..x.pc /\ Mine(r)' \subseteq 1..x.pc /\ Mine(r)' \cap landed[r] = {}
  <2>1. landed[r] \subseteq 1..run[r].pc
    BY <1>1 DEF PlaceOK
  <2>2. \A i \in 1..run[r].pc : i \in 1..x.pc
    BY <1>1, <1>6
  <2> QED BY <1>5, <2>1, <2>2
<1>9. x.phase = "ready" => x.pc \notin landed[r] /\ x.pc \notin Mine(r)'
  <2>1. run[r].pc + 1 \notin 1..run[r].pc
    BY <1>1
  <2>2. landed[r] \subseteq 1..run[r].pc
    BY <1>1 DEF PlaceOK
  <2> QED BY <1>3, <1>5, <2>1, <2>2
<1>10. ASSUME NEW i \in 1..Len(x.program), Op(r, i) = "call"
       PROVE  (i < x.pc \/ x.phase = "done" => i \in landed[r]) /\ i \notin Mine(r)'
  <2>1. i < run[r].pc => i \in landed[r]
    BY <1>1, <1>3, <1>10 DEF PlaceOK
  <2>2. i = run[r].pc => i \in landed[r]
    BY <1>10 DEF Op, Now, Done
  <2>3. i < x.pc \/ x.phase = "done" => i <= run[r].pc
    BY <1>1, <1>3
  <2> QED BY <1>1, <1>3, <1>5, <1>10, <2>1, <2>2, <2>3
<1>11. x.phase \in {"ready", "done"}
  BY <1>3
<1> QED BY <1>2, <1>3, <1>4, <1>5, <1>6, <1>7, <1>8, <1>9, <1>10, <1>11 DEF PlaceOK

\* The same: its coins.
LEMMA OnwardOverlap ==
  ASSUME RunsInv, NEW r, NEW x, StepsTo(r, x), NEW y, Brought(y, r), Done(r, y), Moved(x, y)
  PROVE  OverlapOK(r)'
<1>1. RunsAreTyped /\ PlaceOK(r) /\ OverlapOK(r) /\ r \in Runs /\ run[r].pc \in Nat /\ run[r].pc \in 1..Len(run[r].program)
  BY RunsTyped DEF RunsInv, StepsTo, PlaceOK
<1>2. run'[r] = x /\ chain' = chain /\ Runs' = Runs
  BY <1>1, StepIs DEF StepsTo
<1>3. x.program = run[r].program /\ x.over = run[r].over /\ x.rivals = run[r].rivals
  BY DEF Moved, Brought, SameRun
<1>4. ASSUME NEW q \in run[r].over PROVE q \in Runs /\ run'[q].phase = "done" /\ Mine(q)' = {}
  <2>1. q \in Runs /\ run[q].phase = "done" /\ Mine(q) = {}
    BY <1>1 DEF OverlapOK
  <2>2. q # r
    BY <2>1 DEF StepsTo, Running, Live
  <2> QED BY <1>1, <2>1, <2>2, StepIs
<1>5. ASSUME x.phase \in Live, NEW i \in 1..(x.pc - 1), Op(r, i) = "open", NEW w, w = run[r].program[i].wallet
      PROVE  \A k \in (x.view[w] + 1)..Height(w) : chain[w][k] \notin run[r].over
  <2>1. x.pc = run[r].pc + 1 /\ x.view = y.view
    BY <1>5 DEF Moved, Live, Brought
  <2>2. i \in 1..run[r].pc /\ i \in 1..Len(run[r].program) /\ w \in Wallets
    <3>1. i \in 1..run[r].pc
      BY <1>1, <2>1
    <3>2. Len(run[r].program) \in Nat
      BY <1>1, RunsTyped, ProgramTyped
    <3>3. i \in 1..Len(run[r].program)
      BY <1>1, <3>1, <3>2
    <3> QED BY <1>1, <1>5, <3>1, <3>3, RunsTyped, ProgramTyped
  <2>3. run[r].view[w] \in Nat /\ y.view[w] \in Nat /\ run[r].view[w] <= y.view[w] /\ y.view[w] <= Height(w) /\ Height(w) \in Nat
    BY <1>1, <2>2, RunsTyped, ChainTyped DEF Brought, RunRecords
  <2>4. CASE i = run[r].pc
    <3>1. y.view[w] = Height(w)
      BY <1>5, <2>4 DEF Done, Now, Op
    <3> QED BY <2>1, <2>3, <3>1
  <2>5. CASE i < run[r].pc
    <3>1. i \in 1..(run[r].pc - 1)
      BY <1>1, <2>2, <2>5
    <3>2. \A k \in (run[r].view[w] + 1)..Height(w) : chain[w][k] \notin run[r].over
      BY <1>1, <1>5, <3>1 DEF OverlapOK, StepsTo
    <3>3. \A k \in (y.view[w] + 1)..Height(w) : k \in (run[r].view[w] + 1)..Height(w)
      BY <2>3
    <3> QED BY <2>1, <3>2, <3>3
  <2> QED BY <1>1, <2>2, <2>4, <2>5
<1>6. x.why = "refused" => \E q \in x.rivals : q \notin x.over
  BY <1>1, <1>3 DEF OverlapOK, Moved, Brought
<1> QED BY <1>2, <1>3, <1>4, <1>5, <1>6 DEF OverlapOK, Running, Op, Height

\* Two effects with the same fields are the same.
LEMMA EffectsEqual ==
  ASSUME NEW s \in Effects, NEW u \in Effects, s.key = u.key, s.tag = u.tag
  PROVE  s = u
<1>1. s = [key |-> s.key, tag |-> s.tag] /\ u = [key |-> u.key, tag |-> u.tag]
  BY Zenon DEF Effects
<1> QED BY <1>1

\* The same: its contracts.
LEMMA OnwardContracts ==
  ASSUME RunsInv, NEW r, NEW x, StepsTo(r, x), NEW y, Brought(y, r), Done(r, y), Moved(x, y)
  PROVE  ContractsOK(r)'
<1>1. /\ RunsAreTyped /\ PlaceOK(r) /\ OverlapOK(r) /\ ContractsOK(r) /\ r \in Runs /\ run[r].pc \in Nat
      /\ run[r].pc \in 1..Len(run[r].program) /\ run[r].env \in Envs /\ run[r].program \in Programs /\ run[r].effect \in Effects
  BY RunsTyped DEF RunsInv, StepsTo, PlaceOK
<1>2. run'[r] = x /\ onchain' = onchain /\ landed' = landed /\ Intruded(r)' = Intruded(r)
  BY <1>1, StepIs DEF StepsTo
<1>3. x.program = run[r].program /\ x.env = run[r].env
  BY DEF Moved, Brought, SameRun
<1>4. \A c, tag : Tagged(r, c, tag)' = Tagged(r, c, tag)
  BY <1>2, <1>3 DEF Tagged
<1>5. \A z \in onchain'[r] : /\ z.state.key = Constructed(z.contract, x.env).key
                             /\ z.state.tag = Blank \/ Tagged(r, z.contract, z.state.tag)'
  BY <1>1, <1>2, <1>3, <1>4 DEF ContractsOK
<1>6. ASSUME NEW n, n = Now(r)', x.phase = "ready", n.op = "call", n.circuit # "deploy"
      PROVE  State(r, n.contract)' = {Constructed(n.contract, x.env)}
  <2>1. x.pc = run[r].pc + 1 /\ x.pc \in 1..Len(run[r].program)
    BY <1>1, <1>6 DEF Moved, Brought, SameRun
  <2>2. PICK i \in 1..Len(run[r].program) : i = x.pc
    BY <2>1
  <2>3. n = run[r].program[i]
    BY <1>2, <1>3, <1>6, <2>2 DEF Now
  <2>4. CallFollows(run[r].program, i) /\ run[r].program[i].contract \in Contracts
    BY <1>1, <1>6, <2>3, CallsFollow
  <2>5. i - 1 = run[r].pc
    BY <1>1, <2>1, <2>2
  <2>6. PICK c \in Contracts : c = run[r].program[i].contract
    BY <2>4
  <2>7. /\ Now(r).op = "call" /\ Now(r).contract = c /\ Now(r).circuit \in {"deploy", "proveIntentAuthority"}
    BY <1>6, <2>3, <2>4, <2>5, <2>6 DEF CallFollows, SameTarget, Now
  <2>8. run[r].phase = "submitted" /\ run[r].pc \in landed[r]
    BY <2>7 DEF Done
  <2>9. State(r, c) = {run[r].effect} /\ EffectOK(r, run[r].effect, Now(r))
    BY <1>1, <2>7, <2>8 DEF ContractsOK
  <2>10. PICK d : d = Constructed(c, run[r].env)
    OBVIOUS
  <2>11. d \in Effects
    BY <1>1, <2>10, ConstructedIs
  <2>12. run[r].effect.key = d.key /\ run[r].effect.tag = d.tag
    BY <2>7, <2>9, <2>10 DEF EffectOK
  <2>13. run[r].effect = d
    BY <1>1, <2>11, <2>12, EffectsEqual
  <2>14. State(r, c)' = State(r, c)
    BY <1>2 DEF State
  <2>15. n.contract = c
    BY <2>3, <2>6
  <2> QED BY <1>3, <2>9, <2>10, <2>13, <2>14, <2>15
<1>7. ASSUME NEW i \in 1..(x.pc - 1), Op(r, i) = "call", run[r].program[i].circuit = "deploy"
      PROVE  StoreOK(r, run[r].program[i].wallet, run[r].program[i].contract)'
  <2>1. i \in 1..run[r].pc
    <3>1. x.pc = run[r].pc \/ x.pc = run[r].pc + 1
      BY DEF Moved, Brought
    <3> QED BY <1>1, <3>1
  <2>2. PICK w, c : w = run[r].program[i].wallet /\ c = run[r].program[i].contract
    OBVIOUS
  <2>3. CASE i < run[r].pc
    <3>1. i \in 1..(run[r].pc - 1)
      BY <1>1, <2>1, <2>3
    <3>2. StoreOK(r, w, c)
      BY <1>1, <1>7, <2>2, <3>1 DEF ContractsOK
    <3>3. StoreOK(r, w, c)'
      BY <1>1, <3>2, StoreKeeps
    <3> QED BY <2>2, <3>3, <1>2, <1>3
  <2>4. CASE i = run[r].pc
    <3>1. Now(r).op = "call" /\ Now(r).circuit = "deploy" /\ w = Now(r).wallet /\ c = Now(r).contract
      BY <1>7, <2>2, <2>4 DEF Op, Now
    <3>2. store' = {z \in store : z[1] # StateOf(r)} \cup {<<StateOf(r), run[r].env>>}
      BY <3>1 DEF Done
    <3>3. KeyOf(r, w, c)' = StateOf(r)
      BY <1>2, <3>1 DEF KeyOf, StateOf, StepsTo, SameRun
    <3>4. PICK key : key = StateOf(r)
      OBVIOUS
    <3>5. \A e : <<key, e>> \in store' <=> e = run[r].env
      BY <3>2, <3>4
    <3>6. StoreOK(r, w, c)'
      BY <1>1, <1>2, <1>3, <3>3, <3>4, <3>5 DEF StoreOK
    <3> QED BY <2>2, <3>6, <1>2, <1>3
  <2> QED BY <1>1, <2>1, <2>3, <2>4
<1>8. x.why = "mismatch" => Intruded(r)'
  BY <1>1, <1>2 DEF ContractsOK, Moved, Brought
<1>9. x.phase # "submitted" /\ (Now(r)'.op = "call" => x.pc \notin Mine(r)')
  <2>1. PlaceOK(r)'
    BY OnwardPlace
  <2>2. x.phase \in {"ready", "done"}
    BY DEF Moved
  <2>3. x.pc \in 1..Len(x.program) /\ Op(r, x.pc)' = Now(r)'.op
    BY <1>2, <2>1 DEF PlaceOK, Op, Now
  <2> QED BY <1>2, <2>1, <2>2, <2>3 DEF PlaceOK
<1>10. \A i : Op(r, i)' = Op(r, i)
  BY <1>2, <1>3 DEF Op
<1>11. PICK n : n = Now(r)'
  OBVIOUS
<1>12. (Now(r)'.op = "call" /\ x.phase = "ready" /\ Now(r)'.circuit # "deploy") =>
         (State(r, Now(r).contract) = {Constructed(Now(r).contract, run[r].env)})'
  <2>1. State(r, n.contract)' = State(r, Now(r).contract)'
    BY <1>11
  <2> QED BY <1>2, <1>6, <1>11, <2>1
<1> QED BY <1>2, <1>3, <1>5, <1>7, <1>8, <1>9, <1>10, <1>12 DEF ContractsOK

\* The same, in all.
LEMMA OnwardKeeps ==
  ASSUME RunsInv, NEW r, NEW x, StepsTo(r, x), NEW y, Brought(y, r), Done(r, y), Moved(x, y)
  PROVE  RunsInv'
<1>1. RunOK(r)'
  BY OnwardPlace, OnwardOverlap, OnwardContracts DEF RunOK
<1>2. \A q \in Runs : RunOK(q)'
  BY <1>1, OthersKeep
<1>3. RunsAreTyped' /\ Runs' = Runs
  BY StepIs DEF RunsInv
<1> QED BY <1>2, <1>3 DEF RunsInv, RunOK

-----------------------------------------------------------------------------
(* A process that fails.                                                   *)

\* x is the record of r when it has failed: for a reason, and leaving alone what it has out.
FailsWith(r, x) ==
  /\ x.phase = "failed" /\ x.pc = run[r].pc /\ \A w \in Wallets : x.view[w] = 0
  /\ x.effect = run[r].effect \/ run[r].phase = "ready"
  /\ x.why = "refused" => \E q \in x.rivals : q \notin run[r].over
  /\ x.why = "mismatch" => Intruded(r)
  /\ UNCHANGED <<mempool, store>>

\* r fails: what it has submitted stays out, and it says why.
LEMMA FailureKeeps ==
  ASSUME RunsInv, NEW r, NEW x, StepsTo(r, x), FailsWith(r, x)
  PROVE  RunsInv'
<1>1. /\ RunsAreTyped /\ RunOK(r) /\ PlaceOK(r) /\ OverlapOK(r) /\ ContractsOK(r) /\ r \in Runs /\ run[r].pc \in Nat
      /\ run[r].pc \in 1..Len(run[r].program)
  BY RunsTyped DEF RunsInv, RunOK, StepsTo, PlaceOK
<1>2. /\ RunsAreTyped' /\ Runs' = Runs /\ run'[r] = x /\ Intruded(r)' = Intruded(r)
      /\ landed' = landed /\ onchain' = onchain /\ chain' = chain /\ night' = night /\ mempool' = mempool
      /\ \A q \in Runs : q # r => run'[q] = run[q]
  BY <1>1, StepIs DEF StepsTo, FailsWith
<1>3. x.program = run[r].program /\ x.env = run[r].env /\ x.over = run[r].over
  BY DEF StepsTo, SameRun
<1>4. (\A q : Mine(q)' = Mine(q)) /\ (\A i : Op(r, i)' = Op(r, i)) /\ Now(r)' = Now(r) /\ \A w : Height(w)' = Height(w)
  BY <1>2, <1>3 DEF Mine, Op, Now, Height, FailsWith
<1>5. PlaceOK(r)'
  <2>1. \A w \in Wallets : x.view[w] <= Height(w)
    BY <1>1, ChainTyped DEF FailsWith
  <2>2. ASSUME NEW i \in 1..Len(run[r].program), Op(r, i) = "call"
        PROVE  (i < x.pc => i \in landed[r]) /\ (i \in Mine(r) => i = x.pc)
    BY <1>1, <2>2 DEF PlaceOK, FailsWith
  <2>3. x.phase = "failed" /\ x.pc = run[r].pc
    BY DEF FailsWith
  <2> QED BY <1>1, <1>2, <1>3, <1>4, <2>1, <2>2, <2>3 DEF PlaceOK
<1>6. OverlapOK(r)'
  <2>1. ASSUME NEW q \in run[r].over PROVE q \in Runs /\ run'[q].phase = "done" /\ Mine(q)' = {}
    <3>1. q \in Runs /\ run[q].phase = "done" /\ Mine(q) = {}
      BY <1>1 DEF OverlapOK
    <3>2. q # r
      BY <3>1 DEF StepsTo, Running, Live
    <3> QED BY <1>2, <1>4, <3>1, <3>2
  <2> QED BY <1>2, <1>3, <2>1 DEF OverlapOK, FailsWith, Running, Live
<1>7. ContractsOK(r)'
  <2>1. \A c, tag : Tagged(r, c, tag)' = Tagged(r, c, tag)
    BY <1>2, <1>3 DEF Tagged
  <2>2. ASSUME Now(r).op = "call", run[r].pc \in Mine(r) PROVE EffectOK(r, x.effect, Now(r))'
    <3>1. x.effect = run[r].effect
      BY <1>1, <2>2 DEF FailsWith, PlaceOK
    <3>2. PICK i, s : i = Now(r) /\ s = x.effect
      OBVIOUS
    <3>3. EffectOK(r, s, i)
      BY <1>1, <2>2, <3>1, <3>2 DEF ContractsOK
    <3>4. EffectOK(r, s, i)'
      BY <1>2, <1>3, <2>1, <3>3 DEF EffectOK
    <3> QED BY <1>4, <3>2, <3>4
  <2>3. ASSUME NEW i \in 1..(run[r].pc - 1), Op(r, i) = "call", run[r].program[i].circuit = "deploy"
        PROVE  StoreOK(r, run[r].program[i].wallet, run[r].program[i].contract)'
    <3>1. PICK w, c : w = run[r].program[i].wallet /\ c = run[r].program[i].contract
      OBVIOUS
    <3>2. StoreOK(r, w, c)
      BY <1>1, <2>3, <3>1 DEF ContractsOK
    <3>3. StoreOK(r, w, c)'
      BY <1>1, <3>2, StoreKeeps
    <3> QED BY <1>2, <1>3, <3>1, <3>3
  <2>4. x.phase = "failed" /\ x.pc = run[r].pc /\ (x.why = "mismatch" => Intruded(r)')
    BY <1>2 DEF FailsWith
  <2>5. \A z \in onchain'[r] : /\ z.state.key = Constructed(z.contract, x.env).key
                               /\ z.state.tag = Blank \/ Tagged(r, z.contract, z.state.tag)'
    BY <1>1, <1>2, <1>3, <2>1 DEF ContractsOK
  <2>6. (Now(r).op = "call" /\ run[r].pc \in Mine(r) => EffectOK(r, run[r].effect, Now(r)))'
    BY <1>2, <1>4, <2>2, <2>4
  <2> QED BY <1>2, <1>3, <1>4, <2>3, <2>4, <2>5, <2>6 DEF ContractsOK
<1>8. \A q \in Runs : RunOK(q)'
  BY <1>5, <1>6, <1>7, OthersKeep DEF RunOK
<1> QED BY <1>2, <1>8 DEF RunsInv, RunOK

-----------------------------------------------------------------------------
(* A process that submits a transaction, and waits.                        *)

\* x is the record of r when the node has taken a call or a registration of it.
Pauses(r, x) ==
  /\ run[r].phase = "ready" /\ x.pc = run[r].pc /\ x.why = run[r].why /\ x.rivals = run[r].rivals
  /\ \A w \in Wallets : run[r].view[w] <= x.view[w] /\ x.view[w] <= Height(w)
  /\ \/ Now(r).op = "call" /\ x.phase = "submitted" /\ EffectOK(r, x.effect, Now(r))
     \/ Now(r).op \in {"dust", "register"} /\ x.phase = "accruing" /\ Now(r).wallet \in night
  /\ mempool' = mempool \cup {[run |-> r, pc |-> run[r].pc]} /\ store' = store

\* r submits and waits: its place.
LEMMA PausesPlace ==
  ASSUME RunsInv, NEW r, NEW x, StepsTo(r, x), Pauses(r, x)
  PROVE  PlaceOK(r)'
<1>1. /\ RunsAreTyped /\ PlaceOK(r) /\ r \in Runs /\ run[r].pc \in Nat
      /\ run[r].pc \in 1..Len(run[r].program) /\ Len(run[r].program) \in Nat
  BY RunsTyped, ProgramTyped DEF RunsInv, StepsTo, PlaceOK
<1>2. run'[r] = x /\ landed' = landed /\ chain' = chain /\ night' = night /\ x.program = run[r].program /\ x.pc = run[r].pc
  BY <1>1, StepIs DEF StepsTo, SameRun, Pauses
<1>3. Mine(r)' = Mine(r) \cup {run[r].pc}
  BY <1>1 DEF Mine, Pauses
<1>4. (\A i : Op(r, i)' = Op(r, i)) /\ Now(r)' = Now(r) /\ Op(r, run[r].pc) = Now(r).op /\ \A w : Height(w)' = Height(w)
  BY <1>2 DEF Op, Now, Height
<1>5. run[r].pc \notin landed[r] /\ run[r].pc \notin Mine(r)
  BY <1>1 DEF PlaceOK, Pauses
<1>6. Mine(r)' \subseteq 1..run[r].pc /\ Mine(r)' \cap landed[r] = {} /\ landed[r] \subseteq 1..run[r].pc
  BY <1>1, <1>3, <1>5 DEF PlaceOK
<1>7. x.phase \in {"submitted", "accruing"} /\ \A w \in Wallets : x.view[w] <= Height(w)
  BY DEF Pauses
<1>8. ASSUME NEW i \in 1..Len(run[r].program), Op(r, i) = "call"
      PROVE  /\ i < run[r].pc => i \in landed[r]
             /\ i \in Mine(r)' => i = run[r].pc /\ x.phase \in {"submitted", "failed"}
  <2>1. i < run[r].pc => i \in landed[r]
    BY <1>1, <1>8 DEF PlaceOK
  <2>2. i \notin Mine(r)
    BY <1>1, <1>8 DEF PlaceOK, Pauses
  <2>3. i = run[r].pc => x.phase = "submitted"
    BY <1>4, <1>8 DEF Pauses
  <2> QED BY <1>3, <2>1, <2>2, <2>3
<1>9. ASSUME NEW i \in Mine(r)', Op(r, i) \in {"dust", "register"} PROVE run[r].program[i].wallet \in night
  <2>1. CASE i \in Mine(r)
    BY <1>1, <1>9, <2>1 DEF PlaceOK
  <2>2. CASE i = run[r].pc
    BY <1>4, <1>9, <2>2 DEF Pauses, Now
  <2> QED BY <1>3, <2>1, <2>2
<1>10. (x.phase = "submitted" => Now(r).op = "call") /\ (x.phase = "accruing" => Now(r).op \in {"dust", "register"})
  BY DEF Pauses
<1> QED BY <1>1, <1>2, <1>4, <1>5, <1>6, <1>7, <1>8, <1>9, <1>10 DEF PlaceOK

\* The same, in all.
LEMMA PausesKeeps ==
  ASSUME RunsInv, NEW r, NEW x, StepsTo(r, x), Pauses(r, x)
  PROVE  RunsInv'
<1>1. /\ RunsAreTyped /\ RunOK(r) /\ PlaceOK(r) /\ OverlapOK(r) /\ ContractsOK(r) /\ r \in Runs /\ run[r].pc \in Nat
      /\ run[r].pc \in 1..Len(run[r].program) /\ Len(run[r].program) \in Nat
  BY RunsTyped, ProgramTyped DEF RunsInv, RunOK, StepsTo, PlaceOK
<1>2. /\ RunsAreTyped' /\ Runs' = Runs /\ run'[r] = x /\ Intruded(r)' = Intruded(r)
      /\ landed' = landed /\ onchain' = onchain /\ chain' = chain
      /\ \A q \in Runs : q # r => run'[q] = run[q] /\ Mine(q)' = Mine(q)
  BY <1>1, StepIs DEF StepsTo
<1>3. x.program = run[r].program /\ x.env = run[r].env /\ x.over = run[r].over /\ x.pc = run[r].pc
      /\ x.why = run[r].why /\ x.rivals = run[r].rivals
  BY DEF StepsTo, SameRun, Pauses
<1>4. (\A i : Op(r, i)' = Op(r, i)) /\ Now(r)' = Now(r) /\ \A w : Height(w)' = Height(w)
  BY <1>2, <1>3 DEF Op, Now, Height
<1>5. OverlapOK(r)'
  <2>1. ASSUME NEW q \in run[r].over PROVE q \in Runs /\ run'[q].phase = "done" /\ Mine(q)' = {}
    <3>1. q \in Runs /\ run[q].phase = "done" /\ Mine(q) = {}
      BY <1>1 DEF OverlapOK
    <3>2. q # r
      BY <3>1 DEF StepsTo, Running, Live
    <3> QED BY <1>2, <3>1, <3>2
  <2>2. ASSUME NEW i \in 1..(run[r].pc - 1), Op(r, i) = "open", NEW w, w = run[r].program[i].wallet
        PROVE  \A k \in (x.view[w] + 1)..Height(w) : chain[w][k] \notin run[r].over
    <3>1. w \in Wallets
      <4>1. i \in 1..Len(run[r].program)
        BY <1>1
      <4> QED BY <1>1, <2>2, <4>1, RunsTyped, ProgramTyped
    <3>2. run[r].view[w] \in Nat /\ x.view[w] \in Nat /\ Height(w) \in Nat /\ run[r].view[w] <= x.view[w]
      BY <1>1, <3>1, RunsTyped, ChainTyped DEF Pauses, StepsTo, RunRecords
    <3>3. \A k \in (run[r].view[w] + 1)..Height(w) : chain[w][k] \notin run[r].over
      BY <1>1, <2>2 DEF OverlapOK, StepsTo
    <3>4. \A k \in (x.view[w] + 1)..Height(w) : k \in (run[r].view[w] + 1)..Height(w)
      BY <3>2
    <3> QED BY <3>3, <3>4
  <2>3. run[r].why = "refused" => \E q \in run[r].rivals : q \notin run[r].over
    BY <1>1 DEF OverlapOK
  <2> QED BY <1>2, <1>3, <1>4, <2>1, <2>2, <2>3 DEF OverlapOK, Running, Height
<1>6. ContractsOK(r)'
  <2>1. \A c, tag : Tagged(r, c, tag)' = Tagged(r, c, tag)
    BY <1>2, <1>3 DEF Tagged
  <2>2. ASSUME Now(r).op = "call" PROVE EffectOK(r, x.effect, Now(r))'
    <3>1. PICK i, s : i = Now(r) /\ s = x.effect
      OBVIOUS
    <3>2. EffectOK(r, s, i)
      BY <2>2, <3>1 DEF Pauses
    <3>3. EffectOK(r, s, i)'
      BY <1>2, <1>3, <2>1, <3>2 DEF EffectOK
    <3> QED BY <1>4, <3>1, <3>3
  <2>3. ASSUME NEW i \in 1..(run[r].pc - 1), Op(r, i) = "call", run[r].program[i].circuit = "deploy"
        PROVE  StoreOK(r, run[r].program[i].wallet, run[r].program[i].contract)'
    <3>1. PICK w, c : w = run[r].program[i].wallet /\ c = run[r].program[i].contract
      OBVIOUS
    <3>2. StoreOK(r, w, c)
      BY <1>1, <2>3, <3>1 DEF ContractsOK
    <3>3. StoreOK(r, w, c)'
      BY <1>1, <3>2, StoreKeeps
    <3> QED BY <1>2, <1>3, <3>1, <3>3
  <2>4. x.phase \in {"submitted", "accruing"} /\ (x.why = "mismatch" => Intruded(r)')
    BY <1>1, <1>2 DEF Pauses, ContractsOK
  <2>5. \A z \in onchain'[r] : /\ z.state.key = Constructed(z.contract, x.env).key
                               /\ z.state.tag = Blank \/ Tagged(r, z.contract, z.state.tag)'
    BY <1>1, <1>2, <1>3, <2>1 DEF ContractsOK
  <2>6. (Now(r).op = "call" => EffectOK(r, run[r].effect, Now(r)))'
    BY <1>2, <1>4, <2>2
  <2>7. run[r].pc \notin landed[r]
    BY <1>1 DEF PlaceOK, Pauses
  <2> QED BY <1>2, <1>3, <1>4, <2>3, <2>4, <2>5, <2>6, <2>7 DEF ContractsOK
<1>7. \A q \in Runs : RunOK(q)'
  BY <1>5, <1>6, PausesPlace, OthersKeep DEF RunOK
<1> QED BY <1>2, <1>7 DEF RunsInv, RunOK

-----------------------------------------------------------------------------
(* The steps of a process.                                                 *)

\* A step that changes only the record of r.
LEMMA GoesIsAStep ==
  ASSUME RunsAreTyped, NEW r \in Runs, Running(r), NEW x \in RunRecords, SameRun(x, run[r]), Goes(r, x),
         UNCHANGED <<chainVars, store, scoped>>
  PROVE  StepsTo(r, x) /\ mempool' = mempool /\ store' = store
BY DEF StepsTo, Goes, chainVars

\* A wallet brought up to date sees what the chain holds.
LEMMA BroughtTo ==
  ASSUME RunsInv, NEW r \in Runs, NEW u \in Wallets, NEW v \in Nat, run[r].view[u] <= v, v <= Height(u)
  PROVE  LET y == [run[r] EXCEPT !.view[u] = v] IN Brought(y, r) /\ y.phase = run[r].phase /\ y.view[u] = v
<1>1. RunsAreTyped /\ PlaceOK(r)
  BY DEF RunsInv
<1>2. run[r] \in RunRecords /\ \A w \in Wallets : run[r].view[w] \in Nat /\ Height(w) \in Nat /\ run[r].view[w] <= Height(w)
  BY <1>1, RunsTyped, ChainTyped DEF PlaceOK
<1>3. PICK y : y = [run[r] EXCEPT !.view[u] = v]
  OBVIOUS
<1>4. /\ y \in RunRecords /\ SameRun(y, run[r]) /\ y.rivals = run[r].rivals /\ y.effect = run[r].effect /\ y.pc = run[r].pc
      /\ y.phase = run[r].phase /\ y.why = run[r].why
      /\ y.view[u] = v /\ \A w \in Wallets : w # u => y.view[w] = run[r].view[w]
  BY <1>2, <1>3, ViewIs
<1>5. \A w \in Wallets : run[r].view[w] <= y.view[w] /\ y.view[w] <= Height(w)
  BY <1>2, <1>4
<1> QED BY <1>3, <1>4, <1>5 DEF Brought

\* The views of r as they are.
LEMMA BroughtAlready ==
  ASSUME RunsInv, NEW r \in Runs
  PROVE  Brought(run[r], r)
<1>1. RunsAreTyped /\ PlaceOK(r)
  BY DEF RunsInv
<1>2. run[r] \in RunRecords /\ \A w \in Wallets : run[r].view[w] \in Nat /\ run[r].view[w] <= Height(w)
  BY <1>1, RunsTyped DEF PlaceOK
<1> QED BY <1>2 DEF Brought, SameRun

\* A process goes on that has nothing to send.
LEMMA GoesOnward ==
  ASSUME RunsInv, NEW r \in Runs, Running(r), NEW y, Brought(y, r), Goes(r, Onward(y)),
         Now(r).op = "open" => y.view[Now(r).wallet] = Height(Now(r).wallet), Now(r).op # "call",
         UNCHANGED <<chainVars, store, scoped>>
  PROVE  RunsInv'
<1>1. RunsAreTyped /\ PlaceOK(r)
  BY DEF RunsInv
<1>2. PICK x : x = Onward(y)
  OBVIOUS
<1>3. Moved(x, y)
  <2>1. y \in RunRecords /\ y.pc \in 1..Len(y.program)
    BY <1>1 DEF Brought, PlaceOK, SameRun
  <2> QED BY <1>2, <2>1, OnwardIs
<1>4. x \in RunRecords /\ SameRun(x, run[r])
  BY <1>3 DEF Moved, Brought, SameRun
<1>5. StepsTo(r, x) /\ mempool' = mempool
  BY <1>1, <1>2, <1>4, GoesIsAStep
<1>6. Done(r, y)
  BY <1>5 DEF Done
<1> QED BY <1>3, <1>5, <1>6, OnwardKeeps

\* Opening a wallet brings it up to date.
LEMMA OpenWalletKeeps ==
  ASSUME RunsInv, NEW r, OpenWallet(r)
  PROVE  RunsInv'
<1>1. r \in Runs /\ RunsAreTyped /\ PlaceOK(r) /\ Running(r)
  BY LenProperties DEF RunsInv, RunsAreTyped, Runs, OpenWallet, Is, Running, Live
<1>2. PICK u \in Wallets : u = Now(r).wallet
  BY <1>1, NowIs
<1>3. PICK v \in Nat : v = Height(u)
  BY <1>1, ChainTyped
<1>4. PICK y : y = [run[r] EXCEPT !.view[u] = v]
  OBVIOUS
<1>5. run[r].view[u] <= v
  BY <1>1, <1>3 DEF PlaceOK
<1>6. Brought(y, r) /\ y.view[u] = v
  BY <1>1, <1>3, <1>4, <1>5, BroughtTo
<1>7. Goes(r, Onward(y)) /\ UNCHANGED <<chainVars, store, scoped>> /\ Now(r).op = "open"
  BY <1>2, <1>3, <1>4 DEF OpenWallet, Is
<1> QED BY <1>1, <1>2, <1>3, <1>6, <1>7, GoesOnward

\* The DUST of a registration has come.
LEMMA DustAccruesKeeps ==
  ASSUME RunsInv, NEW r, DustAccrues(r)
  PROVE  RunsInv'
<1>1. r \in Runs /\ RunsAreTyped /\ PlaceOK(r) /\ Running(r)
  BY LenProperties DEF RunsInv, RunsAreTyped, Runs, DustAccrues, Is, Running, Live
<1>2. PICK u \in Wallets : u = Now(r).wallet
  BY <1>1, NowIs
<1>3. PICK v \in Nat : v = Height(u)
  BY <1>1, ChainTyped
<1>4. PICK y : y = [run[r] EXCEPT !.view[u] = v]
  OBVIOUS
<1>5. run[r].view[u] <= v
  BY <1>1, <1>3 DEF PlaceOK
<1>6. Brought(y, r) /\ y.view[u] = v
  BY <1>1, <1>3, <1>4, <1>5, BroughtTo
<1>7. Goes(r, Onward(y)) /\ UNCHANGED <<chainVars, store, scoped>> /\ Now(r).op \in {"dust", "register"}
  BY <1>2, <1>3, <1>4 DEF DustAccrues, Is
<1> QED BY <1>1, <1>6, <1>7, GoesOnward

\* Coins, or DUST, are there already.
LEMMA NothingToDoKeeps ==
  ASSUME RunsInv, NEW r, CoinsSeen(r) \/ DustReady(r)
  PROVE  RunsInv'
<1>1. r \in Runs /\ RunsAreTyped /\ Running(r)
  BY LenProperties DEF RunsInv, RunsAreTyped, Runs, CoinsSeen, DustReady, Is, Running, Live
<1>2. Goes(r, Onward(run[r])) /\ UNCHANGED <<chainVars, store, scoped>> /\ Now(r).op \in {"coins", "dust", "register"}
  BY DEF CoinsSeen, DustReady, Is
<1>3. Brought(run[r], r)
  BY <1>1, BroughtAlready
<1> QED BY <1>1, <1>2, <1>3, GoesOnward

\* The transaction that r waits for is seen.
LEMMA SeenKeeps ==
  ASSUME RunsInv, NEW r, Seen(r)
  PROVE  RunsInv'
<1>1. r \in Runs /\ RunsAreTyped /\ PlaceOK(r) /\ Running(r) /\ run[r].phase = "submitted" /\ Now(r).op = "call" /\ run[r].pc \in landed[r]
  BY LenProperties DEF RunsInv, RunsAreTyped, Runs, Seen, Is, Running, Live
<1>2. PICK u \in Wallets : u = Now(r).wallet
  BY <1>1, NowIs
<1>3. run[r] \in RunRecords /\ run[r].view[u] \in Nat /\ Height(u) \in Nat
  BY <1>1, RunsTyped, ChainTyped
<1>4. PICK v \in Nat : v = run[r].view[u] + 1
  BY <1>3
<1>5. run[r].view[u] <= v /\ v <= Height(u)
  BY <1>1, <1>2, <1>3, <1>4 DEF PlaceOK
<1>6. PICK y : y = [run[r] EXCEPT !.view[u] = v]
  OBVIOUS
<1>7. Brought(y, r)
  BY <1>1, <1>4, <1>5, <1>6, BroughtTo
<1>8. PICK x : x = Onward(y)
  OBVIOUS
<1>9. Moved(x, y)
  <2>1. y \in RunRecords /\ y.pc \in 1..Len(y.program)
    BY <1>1, <1>7 DEF Brought, PlaceOK, SameRun
  <2> QED BY <1>8, <2>1, OnwardIs
<1>10. x \in RunRecords /\ SameRun(x, run[r])
  BY <1>7, <1>9 DEF Moved, Brought, SameRun
<1>11. [run[r] EXCEPT !.view[Now(r).wallet] = @ + 1] = y
  BY <1>2, <1>3, <1>4, <1>6 DEF RunRecords
<1>12. Goes(r, x)
  BY <1>8, <1>11 DEF Seen
<1>13. UNCHANGED chainVars /\ scoped' = scoped
       /\ store' = IF Now(r).circuit # "deploy" THEN store
                   ELSE {z \in store : z[1] # StateOf(r)} \cup {<<StateOf(r), run[r].env>>}
  BY DEF Seen
<1>14. StepsTo(r, x)
  BY <1>1, <1>10, <1>12, <1>13 DEF StepsTo, Goes, chainVars
<1>15. Done(r, y)
  BY <1>1, <1>13 DEF Done, chainVars
<1> QED BY <1>7, <1>9, <1>14, <1>15, OnwardKeeps

\* Who may refuse a transaction of r is nobody that was over when r began.
LEMMA SpendersAre ==
  ASSUME RunsInv, NEW r \in Runs, Running(r), Now(r).op # "open", NEW w, w = Now(r).wallet, NEW v \in Nat, run[r].view[w] <= v
  PROVE  Spenders(w, v) \subseteq Nat /\ \A q \in Spenders(w, v) : q \notin run[r].over
<1>1. RunsAreTyped /\ PlaceOK(r) /\ OverlapOK(r)
  BY DEF RunsInv
<1>2. /\ w \in Wallets /\ run[r].view[w] \in Nat /\ chain[w] \in Seq(Nat) /\ Height(w) \in Nat /\ Height(w) = Len(chain[w])
      /\ run[r].pc \in Nat /\ run[r].pc \in 1..Len(run[r].program) /\ run[r].program \in Programs
  BY <1>1, NowIs, RunsTyped, ChainTyped DEF Height
<1>3. PICK j \in 1..(run[r].pc - 1) : Op(r, j) = "open" /\ run[r].program[j].wallet = w
  BY <1>2, ProgramTyped DEF OpensFirst, Now, Op
<1>4. \A k \in (run[r].view[w] + 1)..Height(w) : chain[w][k] \notin run[r].over
  BY <1>1, <1>3 DEF OverlapOK
<1>5. ASSUME NEW q \in Range(SubSeq(chain[w], v + 1, Height(w))) PROVE q \in Nat /\ q \notin run[r].over
  <2>1. PICK s : s = SubSeq(chain[w], v + 1, Height(w))
    OBVIOUS
  <2>2. PICK i \in DOMAIN s : q = s[i]
    BY <1>5, <2>1 DEF Range
  <2>3. CASE v + 1 > Height(w)
    <3>1. s = <<>>
      BY <1>2, <2>1, <2>3, SubSeqEmpty
    <3> QED BY <2>2, <3>1
  <2>4. CASE v + 1 <= Height(w)
    <3>1. PICK m \in Nat : m = v + 1
      OBVIOUS
    <3>2. PICK n \in Nat : n = Height(w)
      BY <1>2
    <3>3. PICK a \in Nat : a = run[r].view[w]
      BY <1>2
    <3>4. ASSUME NEW l \in m..n PROVE chain[w][l] \in Nat
      <4>1. l \in 1..Len(chain[w])
        BY <1>2, <3>1, <3>2
      <4> QED BY <1>2, <4>1, ElementOfSeq
    <3>5. m \in Int /\ n \in Int /\ m <= n /\ s = SubSeq(chain[w], m, n)
      BY <2>1, <2>4, <3>1, <3>2
    <3>6. s \in Seq(Nat) /\ Len(s) = n - m + 1 /\ \A l \in 1..(n - m + 1) : s[l] = chain[w][m + l - 1]
      BY <3>4, <3>5, SubSeqProperties
    <3>7. i \in 1..(n - m + 1) /\ i \in Nat
      BY <2>2, <3>6, LenProperties
    <3>8. PICK k \in Nat : k = m + i - 1
      BY <3>7
    <3>9. q = chain[w][k]
      BY <2>2, <3>6, <3>7, <3>8
    <3>10. k \in m..n /\ k \in (a + 1)..n
      BY <3>1, <3>3, <3>7, <3>8
    <3> QED BY <1>4, <3>2, <3>3, <3>4, <3>9, <3>10
  <2> QED BY <1>2, <2>3, <2>4
<1>6. ASSUME NEW t \in mempool PROVE t.run \in Nat /\ t.run \notin run[r].over
  <2>1. t \in [run : Runs, pc : Nat] /\ t = [run |-> t.run, pc |-> t.pc] /\ t.run \in Runs /\ t.pc \in Nat
    BY <1>1 DEF RunsAreTyped
  <2>2. t.pc \in Mine(t.run)
    BY <2>1 DEF Mine
  <2> QED BY <1>1, <2>1, <2>2, RunsTyped DEF OverlapOK
<1> QED BY <1>5, <1>6 DEF Spenders

\* r submits a transaction, or is refused.
LEMMA SubmitKeeps ==
  ASSUME RunsInv, NEW r \in Runs, run[r].phase = "ready", Now(r).op \in {"dust", "register", "transfer", "call"},
         NEW v \in Views(r), NEW s \in Effects, Submit(r, v, s),
         Now(r).op = "call" => EffectOK(r, s, Now(r)),
         Now(r).op # "call" => s = run[r].effect,
         Now(r).op \in {"dust", "register"} => Now(r).wallet \in night
  PROVE  RunsInv'
<1>1. RunsAreTyped /\ PlaceOK(r) /\ Running(r) /\ run[r] \in RunRecords
  BY RunsTyped DEF RunsInv, Running, Live
<1>2. PICK u \in Wallets : u = Now(r).wallet
  BY <1>1, NowIs
<1>3. /\ run[r].view[u] \in Nat /\ Height(u) \in Nat /\ v \in Nat /\ run[r].view[u] <= v /\ v <= Height(u)
      /\ \A w \in Wallets : run[r].view[w] \in Nat /\ Height(w) \in Nat /\ run[r].view[w] <= Height(w)
  BY <1>1, <1>2, RunsTyped, ChainTyped DEF Views, PlaceOK
<1>4. PICK y : y = [run[r] EXCEPT !.view[u] = v]
  OBVIOUS
<1>5. /\ y \in RunRecords /\ SameRun(y, run[r]) /\ y.rivals = run[r].rivals /\ y.effect = run[r].effect /\ y.pc = run[r].pc
      /\ y.phase = run[r].phase /\ y.why = run[r].why
      /\ y.view[u] = v /\ \A w \in Wallets : w # u => y.view[w] = run[r].view[w]
  BY <1>1, <1>3, <1>4, ViewIs
<1>6. PICK z : z = [y EXCEPT !.effect = s]
  OBVIOUS
<1>7. /\ z \in RunRecords /\ SameRun(z, y) /\ z.rivals = y.rivals /\ z.effect = s /\ z.pc = y.pc
      /\ z.phase = y.phase /\ z.why = y.why /\ z.view = y.view
  BY <1>5, <1>6, EffectFieldIs
<1>8. z = [run[r] EXCEPT !.view[u] = v, !.effect = s]
  BY <1>1, <1>4, <1>6 DEF RunRecords
<1>9. PICK rivals : rivals = Spenders(u, v)
  OBVIOUS
<1>10. /\ Goes(r, IF rivals = {} THEN Sent(z) ELSE [Ended(z, "failed", "refused") EXCEPT !.rivals = rivals])
       /\ mempool' = mempool \cup (IF rivals = {} THEN {[run |-> r, pc |-> run[r].pc]} ELSE {})
       /\ UNCHANGED <<chain, landed, onchain, night, idle, dust, store, scoped>>
  BY <1>2, <1>8, <1>9 DEF Submit
<1>11. SameRun(z, run[r]) /\ z.pc = run[r].pc /\ z.program = run[r].program
  BY <1>5, <1>7 DEF SameRun
<1>12. \A w \in Wallets : run[r].view[w] <= z.view[w] /\ z.view[w] <= Height(w)
  BY <1>3, <1>5, <1>7
<1>13. CASE rivals # {}
  <2>1. rivals \in SUBSET Nat /\ \A q \in rivals : q \notin run[r].over
    BY <1>1, <1>2, <1>3, <1>9, SpendersAre
  <2>2. PICK e : e = Ended(z, "failed", "refused")
    OBVIOUS
  <2>3. Stopped(e, z, "failed", "refused")
    <3>1. "failed" \in Phases /\ "refused" \in Whys
      BY DEF Phases, Whys
    <3> QED BY <1>7, <2>2, <3>1, EndedIs
  <2>4. PICK x : x = [e EXCEPT !.rivals = rivals]
    OBVIOUS
  <2>5. /\ x \in RunRecords /\ SameRun(x, e) /\ x.rivals = rivals /\ x.effect = e.effect /\ x.pc = e.pc
        /\ x.phase = e.phase /\ x.why = e.why /\ x.view = e.view
    BY <2>1, <2>3, <2>4, RivalsFieldIs DEF Stopped
  <2>6. SameRun(x, run[r]) /\ x.pc = run[r].pc /\ x.phase = "failed" /\ x.why = "refused" /\ \A w \in Wallets : x.view[w] = 0
    BY <1>11, <2>3, <2>5 DEF SameRun, Stopped
  <2>7. Goes(r, x) /\ mempool' = mempool
    BY <1>10, <1>13, <2>2, <2>4
  <2>8. StepsTo(r, x)
    BY <1>1, <1>10, <2>5, <2>6, <2>7 DEF StepsTo, Goes
  <2>9. FailsWith(r, x)
    BY <1>10, <1>13, <2>1, <2>5, <2>6, <2>7 DEF FailsWith
  <2> QED BY <2>8, <2>9, FailureKeeps
<1>14. CASE rivals = {} /\ Now(r).op # "transfer"
  <2>1. PICK phase \in {"submitted", "accruing"} :
          /\ Sent(z) = [z EXCEPT !.phase = phase]
          /\ (Now(r).op = "call" /\ phase = "submitted") \/ (Now(r).op \in {"dust", "register"} /\ phase = "accruing")
    <3>1. z.program[z.pc] = Now(r)
      BY <1>11 DEF Now
    <3>2. CASE Now(r).op = "call"
      BY <3>1, <3>2 DEF Sent
    <3>3. CASE Now(r).op \in {"dust", "register"}
      BY <3>1, <3>3 DEF Sent
    <3> QED BY <1>14, <3>2, <3>3
  <2>2. PICK x : x = [z EXCEPT !.phase = phase]
    OBVIOUS
  <2>3. /\ x \in RunRecords /\ SameRun(x, z) /\ x.rivals = z.rivals /\ x.effect = z.effect /\ x.pc = z.pc
        /\ x.phase = phase /\ x.why = z.why /\ x.view = z.view
    <3>1. phase \in Phases
      BY DEF Phases, Live
    <3> QED BY <1>7, <2>2, <3>1, PhaseFieldIs
  <2>4. Goes(r, x) /\ mempool' = mempool \cup {[run |-> r, pc |-> run[r].pc]}
    BY <1>10, <1>14, <2>1, <2>2
  <2>5. StepsTo(r, x)
    BY <1>1, <1>10, <1>11, <2>3, <2>4 DEF StepsTo, Goes, SameRun
  <2>6. Pauses(r, x)
    BY <1>5, <1>7, <1>10, <1>12, <2>1, <2>3, <2>4 DEF Pauses
  <2> QED BY <2>5, <2>6, PausesKeeps
<1>15. CASE rivals = {} /\ Now(r).op = "transfer"
  <2>1. PICK x : x = Onward(z)
    OBVIOUS
  <2>2. z.pc \in 1..Len(z.program)
    BY <1>1, <1>11 DEF PlaceOK
  <2>3. Moved(x, z)
    BY <1>7, <2>1, <2>2, OnwardIs
  <2>4. Sent(z) = x
    <3>1. z.program[z.pc] = Now(r)
      BY <1>11 DEF Now
    <3> QED BY <1>15, <2>1, <3>1 DEF Sent
  <2>5. Goes(r, x) /\ mempool' = mempool \cup {[run |-> r, pc |-> run[r].pc]}
    BY <1>10, <1>15, <2>4
  <2>6. StepsTo(r, x)
    BY <1>1, <1>10, <1>11, <2>3, <2>5 DEF StepsTo, Goes, SameRun, Moved
  <2>7. Brought(z, r)
    BY <1>5, <1>7, <1>11, <1>12, <1>15 DEF Brought
  <2>8. Done(r, z)
    BY <1>15 DEF Done
  <2> QED BY <2>3, <2>6, <2>7, <2>8, OnwardKeeps
<1> QED BY <1>13, <1>14, <1>15

\* What the transaction of a call makes is right for r, unless somebody intrudes.
LEMMA EffectIs ==
  ASSUME RunsInv, NEW r \in Runs, run[r].phase = "ready", Now(r).op = "call", NEW s \in Effect(r)
  PROVE  s \in Effects /\ EffectOK(r, s, Now(r))
<1>1. /\ RunsAreTyped /\ PlaceOK(r) /\ ContractsOK(r) /\ run[r].env \in Envs /\ run[r].program \in Programs
      /\ run[r].pc \in Nat /\ run[r].pc \in 1..Len(run[r].program)
  BY RunsTyped DEF RunsInv, PlaceOK
<1>2. PICK i : i = Now(r)
  OBVIOUS
<1>3. PICK e \in Envs : e = run[r].env
  BY <1>1
<1>4. i.contract \in Contracts /\ (i.circuit # "deploy" => CallFollows(run[r].program, run[r].pc))
  BY <1>1, <1>2, CallsFollow DEF Now
<1>5. PICK c \in Contracts : c = i.contract
  BY <1>4
<1>6. PICK d : d = Constructed(c, e)
  OBVIOUS
<1>7. d \in Effects /\ (d.tag = Blank \/ d.tag.of = <<e, e>>)
  BY <1>6, ConstructedIs
<1>8. CASE i.circuit = "deploy"
  <2>1. s = d
    BY <1>2, <1>3, <1>5, <1>6, <1>8 DEF Effect
  <2> QED BY <1>2, <1>3, <1>5, <1>6, <1>7, <1>8, <2>1 DEF EffectOK
<1>9. CASE i.circuit # "deploy"
  <2>1. State(r, c) = {d}
    BY <1>1, <1>2, <1>3, <1>5, <1>6, <1>9 DEF ContractsOK
  <2>2. PICK w \in Private(r) : s \in Proved(i.circuit, d, w, e)
    BY <1>2, <1>3, <1>5, <1>9, <2>1 DEF Effect
  <2>3. Circuit(c, i.circuit)
    BY <1>2, <1>4, <1>5, <1>9 DEF CallFollows, Now
  <2>4. w \in Envs /\ <<StateOf(r), w>> \in store
    BY <2>2 DEF Private
  <2>5. /\ s \in Effects /\ s.key = d.key
        /\ IF i.circuit = "proveIntentAuthority" THEN s.tag = d.tag
           ELSE s.tag.of = <<e, e>> \/ (c = "aggregate" /\ w # e)
    BY <1>6, <2>2, <2>3, <2>4, ProvedIs
  <2>6. w = e \/ Intruded(r)
    <3>1. PICK j \in 1..(run[r].pc - 1) : /\ j \in 1..Len(run[r].program) /\ SameTarget(run[r].program[j], i)
                                          /\ run[r].program[j].circuit = "deploy"
      BY <1>1, <1>2, <1>9, DeploysBefore DEF Now
    <3>2. StoreOK(r, i.wallet, c)
      BY <1>1, <1>2, <1>5, <3>1 DEF ContractsOK, SameTarget, Op
    <3>3. KeyOf(r, i.wallet, c) = StateOf(r)
      BY <1>2, <1>5 DEF KeyOf, StateOf
    <3> QED BY <1>3, <2>4, <3>2, <3>3 DEF StoreOK
  <2> QED BY <1>2, <1>3, <1>5, <1>6, <1>9, <2>5, <2>6 DEF EffectOK, Tagged
<1> QED BY <1>8, <1>9

\* A circuit fails only for an intruder.
LEMMA NoEffectIs ==
  ASSUME RunsInv, NEW r \in Runs, run[r].phase = "ready", Now(r).op = "call", Effect(r) = {}
  PROVE  Intruded(r)
<1>1. /\ RunsAreTyped /\ PlaceOK(r) /\ ContractsOK(r) /\ run[r].env \in Envs /\ run[r].program \in Programs
      /\ run[r].pc \in Nat /\ run[r].pc \in 1..Len(run[r].program)
  BY RunsTyped DEF RunsInv, PlaceOK
<1>2. PICK i : i = Now(r)
  OBVIOUS
<1>3. PICK e \in Envs : e = run[r].env
  BY <1>1
<1>4. i.circuit # "deploy"
  BY <1>2 DEF Effect
<1>5. CallFollows(run[r].program, run[r].pc) /\ i.contract \in Contracts
  BY <1>1, <1>2, <1>4, CallsFollow DEF Now
<1>6. PICK c \in Contracts : c = i.contract
  BY <1>5
<1>7. PICK d : d = Constructed(c, e)
  OBVIOUS
<1>8. State(r, c) = {d}
  BY <1>1, <1>2, <1>3, <1>4, <1>6, <1>7 DEF ContractsOK
<1>9. PICK j \in 1..(run[r].pc - 1) : /\ j \in 1..Len(run[r].program) /\ SameTarget(run[r].program[j], i)
                                      /\ run[r].program[j].circuit = "deploy"
  BY <1>1, <1>2, <1>4, DeploysBefore DEF Now
<1>10. StoreOK(r, i.wallet, c) /\ KeyOf(r, i.wallet, c) = StateOf(r)
  BY <1>1, <1>2, <1>6, <1>9 DEF ContractsOK, SameTarget, Op, KeyOf, StateOf
<1>11. PICK w \in Envs : <<StateOf(r), w>> \in store
  BY <1>10 DEF StoreOK
<1>12. CASE w = e
  <2>1. Circuit(c, i.circuit)
    BY <1>2, <1>5, <1>6 DEF CallFollows, Now
  <2>2. Proved(i.circuit, d, w, e) # {}
    BY <1>7, <1>12, <2>1, ProvedIs
  <2>3. w \in Private(r)
    BY <1>11 DEF Private
  <2>4. Proved(i.circuit, d, w, e) \subseteq Effect(r)
    BY <1>2, <1>3, <1>4, <1>6, <1>8, <2>3 DEF Effect
  <2> QED BY <2>2, <2>4
<1>13. CASE w # e
  BY <1>3, <1>10, <1>11, <1>13 DEF StoreOK
<1> QED BY <1>12, <1>13

\* Registrations, calls and transfers.
LEMMA TransactionsKeep ==
  ASSUME RunsInv, NEW r, RegisterDust(r) \/ Call(r) \/ SendCoins(r)
  PROVE  RunsInv'
<1>1. r \in Runs /\ RunsAreTyped /\ Running(r) /\ run[r].phase = "ready" /\ idle \subseteq night /\ run[r].effect \in Effects
  <2>1. r \in DOMAIN run /\ RunsAreTyped /\ run[r].phase = "ready"
    BY DEF RunsInv, RegisterDust, Call, SendCoins, Is
  <2>2. r \in Runs /\ idle \subseteq night
    BY <2>1, LenProperties DEF RunsAreTyped, Runs
  <2> QED BY <2>1, <2>2, RunsTyped DEF Running, Live
<1>2. CASE RegisterDust(r)
  <2>1. Now(r).op \in {"dust", "register"} /\ Now(r).wallet \in idle
    BY <1>2 DEF RegisterDust, Is
  <2>2. PICK v \in Views(r) : Submit(r, v, run[r].effect)
    BY <1>2 DEF RegisterDust
  <2> QED BY <1>1, <2>1, <2>2, SubmitKeeps
<1>3. CASE SendCoins(r)
  <2>1. Now(r).op = "transfer"
    BY <1>3 DEF SendCoins, Is
  <2>2. PICK v \in Views(r) : Submit(r, v, run[r].effect)
    BY <1>3 DEF SendCoins
  <2> QED BY <1>1, <2>1, <2>2, SubmitKeeps
<1>4. CASE Call(r)
  <2>1. Now(r).op = "call"
    BY <1>4 DEF Call, Is
  <2>2. PICK v \in Views(r), s \in Effect(r) : Submit(r, v, s)
    BY <1>4 DEF Call
  <2>3. s \in Effects /\ EffectOK(r, s, Now(r))
    BY <1>1, <2>1, EffectIs
  <2> QED BY <1>1, <2>1, <2>2, <2>3, SubmitKeeps
<1> QED BY <1>2, <1>3, <1>4

\* A step by which r fails, changing nothing else.
LEMMA EndsInFailure ==
  ASSUME RunsInv, NEW r \in Runs, Running(r), NEW why \in {"dust", "balance", "mismatch", "unseen", "died"},
         Goes(r, Ended(run[r], "failed", why)), why = "mismatch" => Intruded(r), UNCHANGED <<chainVars, store, scoped>>
  PROVE  RunsInv'
<1>1. RunsAreTyped /\ run[r] \in RunRecords
  BY RunsTyped DEF RunsInv
<1>2. PICK x : x = Ended(run[r], "failed", why)
  OBVIOUS
<1>3. Stopped(x, run[r], "failed", why)
  <2>1. "failed" \in Phases /\ why \in Whys
    BY DEF Phases, Whys
  <2> QED BY <1>1, <1>2, <2>1, EndedIs
<1>4. StepsTo(r, x) /\ mempool' = mempool /\ store' = store
  BY <1>1, <1>2, <1>3, GoesIsAStep DEF Stopped
<1>5. FailsWith(r, x)
  BY <1>3, <1>4 DEF FailsWith, Stopped
<1> QED BY <1>4, <1>5, FailureKeeps

\* Timeouts, circuits that fail, and deaths.
LEMMA FailuresKeep ==
  ASSUME RunsInv, NEW r, DustTimesOut(r) \/ CallFails(r) \/ WatchTimesOut(r) \/ Dies(r)
  PROVE  RunsInv'
<1>1. r \in Runs /\ Running(r)
  <2>1. r \in DOMAIN run /\ Running(r)
    BY DEF DustTimesOut, CallFails, WatchTimesOut, Dies, Is, Running, Live
  <2> QED BY <2>1, LenProperties DEF RunsInv, RunsAreTyped, Runs
<1>2. UNCHANGED <<chainVars, store, scoped>>
  BY DEF DustTimesOut, CallFails, WatchTimesOut, Dies
<1>3. ASSUME Calls(r), Effect(r) = {}, CallFails(r) PROVE Intruded(r)
  BY <1>1, <1>3, NoEffectIs DEF Calls, CallFails, Is
<1>4. CASE DustTimesOut(r)
  BY <1>1, <1>2, <1>4, EndsInFailure DEF DustTimesOut
<1>5. CASE WatchTimesOut(r)
  BY <1>1, <1>2, <1>5, EndsInFailure DEF WatchTimesOut
<1>6. CASE Dies(r)
  BY <1>1, <1>2, <1>6, EndsInFailure DEF Dies
<1>7. CASE CallFails(r)
  BY <1>1, <1>2, <1>3, <1>7, EndsInFailure DEF CallFails
<1> QED BY <1>4, <1>5, <1>6, <1>7

-----------------------------------------------------------------------------
(* The network.                                                            *)

\* A transaction leaves the mempool, and all else that belongs to other processes is as it was, or longer.
LEMMA ExpireKeeps ==
  ASSUME RunsInv, NEW t \in mempool, Expire(t)
  PROVE  RunsInv'
<1>1. RunsAreTyped
  BY DEF RunsInv
<1>2. /\ mempool' \subseteq mempool
      /\ UNCHANGED <<run, chain, landed, onchain, night, idle, dust, store, scoped>>
  BY DEF Expire
<1>3. RunsAreTyped' /\ Runs' = Runs
  BY <1>1, <1>2 DEF RunsAreTyped, Runs
<1>4. \A q : Mine(q)' \subseteq Mine(q)
  BY <1>2 DEF Mine
<1>5. /\ (\A w : Height(w)' = Height(w)) /\ (\A q : Now(q)' = Now(q)) /\ (\A q, i : Op(q, i)' = Op(q, i))
      /\ (\A q, c : State(q, c)' = State(q, c)) /\ (\A q : Running(q)' = Running(q))
  BY <1>2 DEF Height, Now, Op, State, Running
<1>6. \A q : Intruded(q)' = Intruded(q)
  BY <1>2, <1>3 DEF Intruded, Intrudes
<1>7. \A q, w, c : StoreOK(q, w, c)' = StoreOK(q, w, c)
  BY <1>2, <1>6 DEF StoreOK, KeyOf
<1>8. \A q, c, tag : Tagged(q, c, tag)' = Tagged(q, c, tag)
  BY <1>2, <1>6 DEF Tagged
<1>9. \A q, x, i : EffectOK(q, x, i)' = EffectOK(q, x, i)
  BY <1>2, <1>8 DEF EffectOK
<1>10. ASSUME NEW q \in Runs PROVE PlaceOK(q)' /\ OverlapOK(q)' /\ ContractsOK(q)'
  <2>1. PlaceOK(q) /\ OverlapOK(q) /\ ContractsOK(q)
    BY DEF RunsInv
  <2>2. Mine(q)' \subseteq Mine(q)
    BY <1>4
  <2>3. PlaceOK(q)'
    BY <1>2, <1>5, <2>1, <2>2 DEF PlaceOK
  <2>4. \A p \in run[q].over : p \in Runs /\ run[p].phase = "done" /\ Mine(p)' = {}
    BY <1>4, <2>1 DEF OverlapOK
  <2>5. OverlapOK(q)'
    BY <1>2, <1>3, <1>5, <2>1, <2>4 DEF OverlapOK
  <2>6. \A x \in onchain'[q] : x.state.tag = Blank \/ Tagged(q, x.contract, x.state.tag)'
    BY <1>2, <1>8, <2>1 DEF ContractsOK
  <2>7. (Now(q).op = "call" /\ (run[q].phase = "submitted" \/ run[q].pc \in Mine(q)) => EffectOK(q, run[q].effect, Now(q)))'
    <3>1. PICK s, i : s = run[q].effect /\ i = Now(q)
      OBVIOUS
    <3>2. EffectOK(q, s, i)' = EffectOK(q, s, i)
      BY <1>9
    <3> QED BY <1>2, <1>5, <2>1, <2>2, <3>1, <3>2 DEF ContractsOK
  <2>8. ASSUME NEW i \in 1..(run[q].pc - 1), Op(q, i) = "call", run[q].program[i].circuit = "deploy"
        PROVE  StoreOK(q, run[q].program[i].wallet, run[q].program[i].contract)'
    <3>1. PICK w, c : w = run[q].program[i].wallet /\ c = run[q].program[i].contract
      OBVIOUS
    <3>2. StoreOK(q, w, c)'
      BY <1>7, <2>1, <2>8, <3>1 DEF ContractsOK
    <3> QED BY <1>2, <3>1, <3>2
  <2>9. run[q].why = "mismatch" => Intruded(q)'
    BY <1>6, <2>1 DEF ContractsOK
  <2>10. (Now(q).op = "call" /\ run[q].phase = "submitted" /\ run[q].pc \in landed[q] => State(q, Now(q).contract) = {run[q].effect})'
    <3>1. PICK i : i = Now(q)
      OBVIOUS
    <3> QED BY <1>2, <1>5, <2>1, <3>1 DEF ContractsOK
  <2>11. (Now(q).op = "call" /\ run[q].phase = "ready" /\ Now(q).circuit # "deploy" =>
           State(q, Now(q).contract) = {Constructed(Now(q).contract, run[q].env)})'
    <3>1. PICK i : i = Now(q)
      OBVIOUS
    <3> QED BY <1>2, <1>5, <2>1, <3>1 DEF ContractsOK
  <2>12. \A x \in onchain'[q] : x.state.key = Constructed(x.contract, run[q].env).key
    BY <1>2, <2>1 DEF ContractsOK
  <2>13. ContractsOK(q)'
    BY <1>2, <1>5, <2>6, <2>7, <2>8, <2>9, <2>10, <2>11, <2>12 DEF ContractsOK
  <2> QED BY <2>3, <2>5, <2>13
<1> QED BY <1>3, <1>10 DEF RunsInv

\* Who has something out when t is taken.
LEMMA OutIs ==
  ASSUME RunsAreTyped, NEW t \in mempool
  PROVE  t.run \in Runs /\ t.pc \in Nat /\ t = [run |-> t.run, pc |-> t.pc] /\ t.pc \in Mine(t.run)
<1>1. t \in [run : Runs, pc : Nat]
  BY DEF RunsAreTyped
<1> QED BY <1>1 DEF Mine

\* What Include(t) does, of the ith instruction of r with wallet w.
Includes(t, r, i, w) ==
  LET n == run[r].program[i]
      written == [contract |-> n.contract, state |-> run[r].effect]
      registered == IF n.op \in {"dust", "register"} THEN {w} ELSE {}
  IN /\ r = t.run /\ i = t.pc /\ w = n.wallet
     /\ mempool' = mempool \ {t} /\ chain' = [chain EXCEPT ![w] = Append(chain[w], r)]
     /\ landed' = [landed EXCEPT ![r] = landed[r] \cup {i}]
     /\ onchain' = IF n.op # "call" THEN onchain
                   ELSE [onchain EXCEPT ![r] = {x \in onchain[r] : x.contract # n.contract} \cup {written}]
     /\ night' = night \cup n.to
     /\ idle' = (idle \cup n.to) \ registered
     /\ dust' = dust \cup registered
     /\ UNCHANGED <<run, store, scoped>>

\* What Include changes, by its names.
LEMMA IncludeIs ==
  ASSUME NEW t, Include(t)
  PROVE  \E r, i, w : Includes(t, r, i, w)
<1>1. PICK r, i, w : r = t.run /\ i = t.pc /\ w = run[r].program[i].wallet
  OBVIOUS
<1> QED BY <1>1 DEF Include, Includes, WalletOf

\* The same, by process and by wallet.
Included(r, i, w) ==
  /\ RunsAreTyped' /\ Runs' = Runs /\ r \in Runs /\ i \in Nat /\ i \in Mine(r) /\ i \in 1..Len(run[r].program) /\ w \in Wallets
  /\ \A q : Mine(q)' = IF q = r THEN Mine(q) \ {i} ELSE Mine(q)
  /\ \A q \in Runs : landed'[q] = IF q = r THEN landed[q] \cup {i} ELSE landed[q]
  /\ \A q \in Runs : q # r => onchain'[q] = onchain[q]
  /\ Op(r, i) = "call" =>
       onchain'[r] = {x \in onchain[r] : x.contract # run[r].program[i].contract}
                       \cup {[contract |-> run[r].program[i].contract, state |-> run[r].effect]}
  /\ Op(r, i) # "call" => onchain' = onchain
  /\ \A u \in Wallets : /\ Height(u)' \in Nat /\ Height(u) \in Nat
                        /\ Height(u)' = IF u = w THEN Height(u) + 1 ELSE Height(u)
                        /\ \A k \in 1..Height(u)' : k <= Height(u) => chain'[u][k] = chain[u][k]
                        /\ \A k \in 1..Height(u)' : k > Height(u) => chain'[u][k] = r

\* A block with a transaction, by process and by wallet.
LEMMA IncludeTypes ==
  ASSUME RunsInv, NEW t \in mempool, NEW r, NEW i, NEW w, Includes(t, r, i, w)
  PROVE  Included(r, i, w)
<1>1. RunsAreTyped /\ t.run \in Runs /\ t.pc \in Nat /\ t = [run |-> t.run, pc |-> t.pc] /\ t.pc \in Mine(t.run)
  BY OutIs DEF RunsInv
<1>2. r = t.run /\ i = t.pc /\ w = run[r].program[i].wallet
  BY DEF Includes
<1>3. r \in Runs /\ i \in Nat /\ i \in Mine(r) /\ r \in Nat /\ PlaceOK(r) /\ run[r].program \in Programs /\ run[r].effect \in Effects
  BY <1>1, <1>2, RunsTyped DEF RunsInv
<1>4. i \in 1..Len(run[r].program)
  <2>1. i \in 1..run[r].pc /\ run[r].pc \in 1..Len(run[r].program) /\ Len(run[r].program) \in Nat
    BY <1>3, ProgramTyped DEF PlaceOK
  <2> QED BY <2>1
<1>5. PICK n \in Instructions : n = run[r].program[i]
  BY <1>3, <1>4, ProgramTyped
<1>6. w \in Wallets /\ n.to \subseteq Wallets /\ n.op = Op(r, i)
  BY <1>2, <1>5 DEF Instructions, Op
<1>7. \A q : Mine(q)' = IF q = r THEN Mine(q) \ {i} ELSE Mine(q)
  <2>1. mempool' = mempool \ {t} /\ t = [run |-> r, pc |-> i]
    BY <1>1, <1>2 DEF Includes
  <2> QED BY <2>1 DEF Mine
<1>8. /\ landed' \in Seq(SUBSET Nat) /\ Len(landed') = Len(landed)
      /\ \A q \in Runs : landed'[q] = IF q = r THEN landed[q] \cup {i} ELSE landed[q]
  <2>1. PICK s \in SUBSET Nat : s = landed[r] \cup {i}
    BY <1>1, <1>3, RunsTyped
  <2>2. landed' = [landed EXCEPT ![r] = s] /\ landed \in Seq(SUBSET Nat) /\ r \in 1..Len(landed) /\ Runs = 1..Len(landed)
    BY <1>1, <1>3, <2>1 DEF Includes, RunsAreTyped, Runs
  <2>3. /\ landed' \in Seq(SUBSET Nat) /\ Len(landed') = Len(landed)
        /\ \A q \in 1..Len(landed) : landed'[q] = IF q = r THEN s ELSE landed[q]
    BY <2>2, ExceptSeq
  <2> QED BY <2>1, <2>2, <2>3
<1>9. /\ onchain' \in Seq(SUBSET Holdings) /\ Len(onchain') = Len(onchain)
      /\ \A q \in Runs : q # r => onchain'[q] = onchain[q]
      /\ Op(r, i) = "call" =>
           onchain'[r] = {x \in onchain[r] : x.contract # n.contract} \cup {[contract |-> n.contract, state |-> run[r].effect]}
      /\ Op(r, i) # "call" => onchain' = onchain
  <2>1. onchain \in Seq(SUBSET Holdings) /\ r \in 1..Len(onchain) /\ Runs = 1..Len(onchain)
    BY <1>1, <1>3 DEF RunsAreTyped, Runs
  <2>2. CASE Op(r, i) # "call"
    BY <1>5, <1>6, <2>1, <2>2 DEF Includes
  <2>3. CASE Op(r, i) = "call"
    <3>1. n.contract \in Contracts
      BY <1>3, <1>4, <1>5, <1>6, <2>3, CallsFollow
    <3>2. [contract |-> n.contract, state |-> run[r].effect] \in Holdings
      BY <1>3, <3>1 DEF Holdings
    <3>3. PICK s \in SUBSET Holdings : s = {x \in onchain[r] : x.contract # n.contract} \cup {[contract |-> n.contract, state |-> run[r].effect]}
      BY <1>1, <1>3, <3>2, RunsTyped
    <3>4. onchain' = [onchain EXCEPT ![r] = s]
      BY <1>5, <1>6, <2>3, <3>3 DEF Includes
    <3> QED BY <2>1, <2>3, <3>3, <3>4, ExceptSeq
  <2> QED BY <2>2, <2>3
<1>10. ASSUME NEW u \in Wallets
       PROVE  /\ chain'[u] \in Seq(Nat) /\ Height(u)' \in Nat /\ Height(u) \in Nat
              /\ Height(u)' = IF u = w THEN Height(u) + 1 ELSE Height(u)
              /\ \A k \in 1..Height(u)' : k <= Height(u) => chain'[u][k] = chain[u][k]
              /\ \A k \in 1..Height(u)' : k > Height(u) => chain'[u][k] = r
  <2>1. chain' = [chain EXCEPT ![w] = Append(chain[w], r)] /\ chain \in [Wallets -> Seq(Nat)]
    BY <1>1 DEF Includes, RunsAreTyped
  <2>2. chain[u] \in Seq(Nat) /\ Height(u) \in Nat
    BY <1>1, ChainTyped
  <2>3. CASE u # w
    <3>1. chain'[u] = chain[u]
      BY <2>1, <2>3
    <3> QED BY <2>2, <2>3, <3>1 DEF Height
  <2>4. CASE u = w
    <3>1. chain'[u] = Append(chain[u], r)
      BY <1>6, <2>1, <2>4
    <3>2. PICK s : s = chain[u]
      OBVIOUS
    <3>3. /\ Append(s, r) \in Seq(Nat) /\ Len(Append(s, r)) = Len(s) + 1 /\ Len(s) \in Nat
          /\ \A k \in 1..Len(s) : Append(s, r)[k] = s[k]
          /\ Append(s, r)[Len(s) + 1] = r
      BY <1>3, <2>2, <3>2, AppendIs
    <3> QED BY <2>4, <3>1, <3>2, <3>3 DEF Height
  <2> QED BY <2>3, <2>4
<1>11. chain' \in [Wallets -> Seq(Nat)]
  BY <1>1, <1>10 DEF RunsAreTyped, Includes
<1>12. /\ mempool' \subseteq [run : Runs, pc : Nat] /\ run' = run /\ scoped' = scoped /\ Runs' = Runs
       /\ night' = night \cup n.to
  BY <1>1, <1>5 DEF Includes, RunsAreTyped, Runs
<1>13. night' \subseteq Wallets /\ idle' \subseteq night' /\ dust' \subseteq night'
  <2>1. n.op \in {"dust", "register"} => w \in night
    BY <1>2, <1>3, <1>5, <1>6 DEF PlaceOK
  <2> QED BY <1>1, <1>5, <1>6, <2>1 DEF Includes, RunsAreTyped
<1>14. RunsAreTyped'
  BY <1>1, <1>8, <1>9, <1>11, <1>12, <1>13 DEF RunsAreTyped
<1> QED BY <1>3, <1>4, <1>5, <1>6, <1>7, <1>8, <1>9, <1>10, <1>12, <1>14 DEF Included

\* The process whose transaction is taken.
LEMMA IncludeOwn ==
  ASSUME RunsInv, NEW t \in mempool, NEW r, NEW i, NEW w, Includes(t, r, i, w)
  PROVE  RunOK(r)'
<1>0. Included(r, i, w)
  BY IncludeTypes
<1>1. /\ RunsAreTyped' /\ Runs' = Runs /\ r \in Runs /\ i \in Nat /\ i \in Mine(r) /\ i \in 1..Len(run[r].program) /\ w \in Wallets
      /\ Mine(r)' = Mine(r) \ {i} /\ landed'[r] = landed[r] \cup {i}
      /\ \A u \in Wallets : /\ Height(u)' \in Nat /\ Height(u) \in Nat
                            /\ Height(u)' = IF u = w THEN Height(u) + 1 ELSE Height(u)
                            /\ \A k \in 1..Height(u)' : k <= Height(u) => chain'[u][k] = chain[u][k]
                            /\ \A k \in 1..Height(u)' : k > Height(u) => chain'[u][k] = r
  BY <1>0 DEF Included
<1>2. /\ RunsAreTyped /\ PlaceOK(r) /\ OverlapOK(r) /\ ContractsOK(r) /\ run[r].pc \in Nat /\ run[r].env \in Envs
      /\ run[r].program \in Programs /\ run[r].effect \in Effects /\ run[r].pc \in 1..Len(run[r].program)
      /\ \A u \in Wallets : run[r].view[u] \in Nat /\ run[r].view[u] <= Height(u)
  BY <1>1, RunsTyped DEF RunsInv, PlaceOK
<1>3. run' = run /\ store' = store /\ scoped' = scoped /\ night \subseteq night' /\ w = run[r].program[i].wallet
  BY DEF Includes
<1>4. /\ (\A q : Now(q)' = Now(q)) /\ (\A q, j : Op(q, j)' = Op(q, j)) /\ \A q : Running(q)' = Running(q)
  BY <1>3 DEF Now, Op, Running
<1>5. Intruded(r)' = Intruded(r)
  BY <1>1, <1>3 DEF Intruded, Intrudes
<1>6. i \in 1..run[r].pc /\ i \notin landed[r] /\ (Op(r, i) = "call" => i = run[r].pc /\ run[r].phase \in {"submitted", "failed"})
  BY <1>1, <1>2 DEF PlaceOK
<1>7. PlaceOK(r)'
  <2>1. \A u \in Wallets : run[r].view[u] <= Height(u)'
    BY <1>1, <1>2
  <2>2. landed'[r] \subseteq 1..run[r].pc /\ Mine(r)' \subseteq 1..run[r].pc /\ Mine(r)' \cap landed'[r] = {}
    BY <1>1, <1>2, <1>6 DEF PlaceOK
  <2>3. run[r].phase = "ready" => run[r].pc \notin landed'[r] /\ run[r].pc \notin Mine(r)'
    BY <1>1, <1>2 DEF PlaceOK
  <2>4. \A j \in 1..Len(run[r].program) :
          Op(r, j) = "call" => /\ j < run[r].pc \/ run[r].phase = "done" => j \in landed'[r]
                               /\ j \in Mine(r)' => j = run[r].pc /\ run[r].phase \in {"submitted", "failed"}
    BY <1>1, <1>2 DEF PlaceOK
  <2>5. \A j \in Mine(r)' : Op(r, j) \in {"dust", "register"} => run[r].program[j].wallet \in night'
    BY <1>1, <1>2, <1>3 DEF PlaceOK
  <2>6. ASSUME run[r].phase = "submitted", run[r].pc \in landed'[r], NEW u, u = Now(r).wallet
        PROVE  run[r].view[u] < Height(u)'
    <3>1. u \in Wallets
      BY <1>1, <1>2, <2>6, NowIs
    <3>2. CASE run[r].pc \in landed[r]
      BY <1>1, <1>2, <2>6, <3>1, <3>2 DEF PlaceOK
    <3>3. CASE run[r].pc = i
      <4>1. u = w
        BY <1>3, <2>6, <3>3 DEF Now
      <4> QED BY <1>1, <1>2, <3>1, <4>1
    <3> QED BY <1>1, <2>6, <3>2, <3>3
  <2>7. (run[r].phase = "submitted" => Now(r).op = "call") /\ (run[r].phase = "accruing" => Now(r).op \in {"dust", "register"})
    BY <1>2 DEF PlaceOK
  <2> QED BY <1>2, <1>3, <1>4, <2>1, <2>2, <2>3, <2>4, <2>5, <2>6, <2>7 DEF PlaceOK, Height
<1>8. OverlapOK(r)'
  <2>1. r \notin run[r].over
    BY <1>1, <1>2 DEF OverlapOK
  <2>2. ASSUME NEW q \in run[r].over PROVE q \in Runs /\ run[q].phase = "done" /\ Mine(q)' = {}
    <3>1. q \in Runs /\ run[q].phase = "done" /\ Mine(q) = {}
      BY <1>2 DEF OverlapOK
    <3>2. Mine(q)' = IF q = r THEN Mine(q) \ {i} ELSE Mine(q)
      BY <1>0 DEF Included
    <3> QED BY <3>1, <3>2
  <2>3. ASSUME Running(r), NEW j \in 1..(run[r].pc - 1), Op(r, j) = "open", NEW u, u = run[r].program[j].wallet
        PROVE  \A k \in (run[r].view[u] + 1)..Len(chain'[u]) : chain'[u][k] \notin run[r].over
    <3>1. u \in Wallets
      <4>1. j \in 1..Len(run[r].program)
        BY <1>2, ProgramTyped
      <4> QED BY <1>2, <2>3, <4>1, ProgramTyped
    <3>2. \A k \in (run[r].view[u] + 1)..Height(u) : chain[u][k] \notin run[r].over
      BY <1>2, <2>3 DEF OverlapOK
    <3>3. PICK n \in Nat : n = Height(u)
      BY <1>1, <3>1
    <3>4. PICK m \in Nat : m = Height(u)'
      BY <1>1, <3>1
    <3>5. PICK a \in Nat : a = run[r].view[u]
      BY <1>2, <3>1
    <3>6. ASSUME NEW k \in (a + 1)..m PROVE chain'[u][k] \notin run[r].over
      <4>1. k \in 1..m /\ k \in Nat /\ (k <= n => k \in (a + 1)..n)
        BY <3>3, <3>4, <3>5
      <4>2. CASE k <= n
        BY <1>1, <3>1, <3>2, <3>3, <3>4, <3>5, <4>1, <4>2
      <4>3. CASE k > n
        BY <1>1, <2>1, <3>1, <3>3, <3>4, <4>1, <4>3
      <4> QED BY <3>3, <4>1, <4>2, <4>3
    <3> QED BY <3>4, <3>5, <3>6 DEF Height
  <2>4. run[r].why = "refused" => \E q \in run[r].rivals : q \notin run[r].over
    BY <1>2 DEF OverlapOK
  <2>5. ASSUME Running(r), NEW j \in 1..(run[r].pc - 1), Op(r, j) = "open"
        PROVE  LET u == run[r].program[j].wallet IN
               \A k \in (run[r].view[u] + 1)..Len(chain'[u]) : chain'[u][k] \notin run[r].over
    BY <2>3, <2>5
  <2> QED BY <1>1, <1>3, <1>4, <2>2, <2>5, <2>4 DEF OverlapOK, Height
<1>9. ContractsOK(r)'
  <2>1. \A c, tag : Tagged(r, c, tag)' = Tagged(r, c, tag)
    BY <1>3, <1>5 DEF Tagged
  <2>2. \A x, j : EffectOK(r, x, j)' = EffectOK(r, x, j)
    BY <1>3, <2>1 DEF EffectOK
  <2>3. \A u, c : StoreOK(r, u, c)' = StoreOK(r, u, c)
    BY <1>3, <1>5 DEF StoreOK, KeyOf
  <2>4. PICK n, c, s, e : n = run[r].program[i] /\ c = n.contract /\ s = run[r].effect /\ e = run[r].env
    OBVIOUS
  <2>5. CASE Op(r, i) = "call"
    <3>1. i = run[r].pc /\ n = Now(r) /\ n.op = "call" /\ run[r].phase \in {"submitted", "failed"}
      BY <1>6, <2>4, <2>5 DEF Now, Op
    <3>2. EffectOK(r, s, n) /\ c \in Contracts /\ e \in Envs /\ s \in Effects
      BY <1>1, <1>2, <2>4, <3>1, CallsFollow DEF ContractsOK
    <3>3. onchain'[r] = {x \in onchain[r] : x.contract # c} \cup {[contract |-> c, state |-> s]}
      BY <1>0, <2>4, <2>5 DEF Included
    <3>4. State(r, c)' = {s}
      <4>1. PICK x : x = [contract |-> c, state |-> s]
        OBVIOUS
      <4>2. x.contract = c /\ x.state = s
        BY <4>1
      <4>3. {y \in onchain'[r] : y.contract = c} = {x}
        BY <3>3, <4>1, <4>2
      <4> QED BY <4>2, <4>3 DEF State
    <3>5. s.key = Constructed(c, e).key /\ (s.tag = Blank \/ Tagged(r, c, s.tag))
      <4>1. PICK d : d = Constructed(c, e)
        OBVIOUS
      <4>2. d.tag = Blank \/ d.tag.of = <<e, e>>
        BY <3>2, <4>1, ConstructedIs
      <4> QED BY <2>4, <3>2, <4>1, <4>2 DEF EffectOK, Tagged
    <3>6. \A x \in onchain'[r] : x.state.key = Constructed(x.contract, e).key /\ (x.state.tag = Blank \/ Tagged(r, x.contract, x.state.tag)')
      <4>1. \A x \in onchain[r] : x.state.key = Constructed(x.contract, e).key /\ (x.state.tag = Blank \/ Tagged(r, x.contract, x.state.tag))
        BY <1>2, <2>4 DEF ContractsOK
      <4> QED BY <2>1, <3>3, <3>5, <4>1
    <3>7. (State(r, Now(r).contract) = {run[r].effect})'
      BY <1>3, <1>4, <2>4, <3>1, <3>4
    <3>8. (run[r].phase = "submitted" \/ run[r].pc \in Mine(r) => EffectOK(r, run[r].effect, Now(r)))'
      BY <1>3, <1>4, <2>2, <2>4, <3>1, <3>2
    <3>9. ASSUME NEW j \in 1..(run[r].pc - 1), Op(r, j) = "call", run[r].program[j].circuit = "deploy"
          PROVE  StoreOK(r, run[r].program[j].wallet, run[r].program[j].contract)'
      <4>1. PICK u, f : u = run[r].program[j].wallet /\ f = run[r].program[j].contract
        OBVIOUS
      <4>2. StoreOK(r, u, f)'
        BY <1>2, <2>3, <3>9, <4>1 DEF ContractsOK
      <4> QED BY <1>3, <4>1, <4>2
    <3>10. run[r].why = "mismatch" => Intruded(r)'
      BY <1>2, <1>5 DEF ContractsOK
    <3>11. run[r].phase # "ready"
      BY <3>1
    <3> QED BY <1>3, <1>4, <2>4, <3>6, <3>7, <3>8, <3>9, <3>10, <3>11 DEF ContractsOK
  <2>6. CASE Op(r, i) # "call"
    <3>1. onchain' = onchain
      BY <1>0, <2>6 DEF Included
    <3>2. \A f : State(r, f)' = State(r, f)
      BY <3>1 DEF State
    <3>3. PICK m : m = Now(r)
      OBVIOUS
    <3>4. m.op = "call" => i # run[r].pc
      BY <2>6, <3>3 DEF Op, Now
    <3>5. \A x \in onchain'[r] : x.state.key = Constructed(x.contract, e).key /\ (x.state.tag = Blank \/ Tagged(r, x.contract, x.state.tag)')
      BY <1>2, <2>1, <2>4, <3>1 DEF ContractsOK
    <3>6. m.op = "call" =>
            /\ run[r].phase = "ready" /\ m.circuit # "deploy" => State(r, m.contract)' = {Constructed(m.contract, e)}
            /\ run[r].phase = "submitted" \/ run[r].pc \in Mine(r)' => EffectOK(r, s, m)'
            /\ run[r].phase = "submitted" /\ run[r].pc \in landed'[r] => State(r, m.contract)' = {s}
      BY <1>1, <1>2, <2>2, <2>4, <3>2, <3>3, <3>4 DEF ContractsOK
    <3>7. (Now(r).op = "call" =>
            /\ run[r].phase = "ready" /\ Now(r).circuit # "deploy" => State(r, Now(r).contract) = {Constructed(Now(r).contract, run[r].env)}
            /\ run[r].phase = "submitted" \/ run[r].pc \in Mine(r) => EffectOK(r, run[r].effect, Now(r))
            /\ run[r].phase = "submitted" /\ run[r].pc \in landed[r] => State(r, Now(r).contract) = {run[r].effect})'
      BY <1>3, <1>4, <2>4, <3>3, <3>6
    <3>8. ASSUME NEW j \in 1..(run[r].pc - 1), Op(r, j) = "call", run[r].program[j].circuit = "deploy"
          PROVE  StoreOK(r, run[r].program[j].wallet, run[r].program[j].contract)'
      <4>1. PICK u, f : u = run[r].program[j].wallet /\ f = run[r].program[j].contract
        OBVIOUS
      <4>2. StoreOK(r, u, f)'
        BY <1>2, <2>3, <3>8, <4>1 DEF ContractsOK
      <4> QED BY <1>3, <4>1, <4>2
    <3>9. run[r].why = "mismatch" => Intruded(r)'
      BY <1>2, <1>5 DEF ContractsOK
    <3> QED BY <1>3, <1>4, <2>4, <3>5, <3>7, <3>8, <3>9 DEF ContractsOK
  <2> QED BY <2>5, <2>6
<1> QED BY <1>7, <1>8, <1>9 DEF RunOK

\* A transaction gets into a block.
LEMMA IncludeKeeps ==
  ASSUME RunsInv, NEW t \in mempool, Include(t)
  PROVE  RunsInv'
<1>1. PICK r, i, w : Includes(t, r, i, w)
  BY IncludeIs
<1>2. RunsAreTyped' /\ Runs' = Runs /\ r \in Runs /\ i \in Mine(r) /\ RunsAreTyped
  BY <1>1, IncludeTypes DEF RunsInv, Included
<1>3. ASSUME NEW q \in Runs, q # r PROVE RunOK(q)'
  <2>0. Included(r, i, w)
    BY <1>1, IncludeTypes
  <2>1. RunOK(q) /\ OverlapOK(q)
    BY DEF RunsInv, RunOK
  <2>2. run' = run /\ store' = store /\ scoped' = scoped /\ night \subseteq night'
    BY <1>1 DEF Includes
  <2>3. landed'[q] = landed[q] /\ onchain'[q] = onchain[q] /\ Mine(q)' = Mine(q)
    BY <1>3, <2>0 DEF Included
  <2>4. r \notin run[q].over
    BY <1>2, <2>1 DEF OverlapOK
  <2>5. ASSUME NEW p \in run[q].over PROVE p \in Runs' /\ run'[p].phase = "done" /\ Mine(p)' = {}
    <3>1. p \in Runs /\ run[p].phase = "done" /\ Mine(p) = {}
      BY <2>1 DEF OverlapOK
    <3>2. p # r
      BY <1>2, <3>1
    <3>3. Mine(p)' = Mine(p)
      BY <2>0, <3>2 DEF Included
    <3> QED BY <1>2, <2>2, <3>1, <3>3
  <2>6. Intruded(q)' = Intruded(q)
    BY <1>2, <2>2 DEF Intruded, Intrudes
  <2>7. \A u, c : StoreOK(q, u, c)' = StoreOK(q, u, c)
    BY <2>2, <2>6 DEF StoreOK, KeyOf
  <2>8. ASSUME NEW u \in Wallets
        PROVE  /\ Height(u)' \in Nat /\ Height(u) <= Height(u)'
               /\ \A k \in 1..Height(u)' : IF k <= Height(u) THEN chain'[u][k] = chain[u][k] ELSE chain'[u][k] \notin run[q].over
    <3>1. /\ Height(u)' \in Nat /\ Height(u) \in Nat
          /\ Height(u)' = IF u = w THEN Height(u) + 1 ELSE Height(u)
          /\ \A k \in 1..Height(u)' : k <= Height(u) => chain'[u][k] = chain[u][k]
          /\ \A k \in 1..Height(u)' : k > Height(u) => chain'[u][k] = r
      BY <2>0 DEF Included
    <3>2. Height(u) <= Height(u)' /\ \A k \in 1..Height(u)' : ~(k <= Height(u)) => k > Height(u)
      BY <3>1
    <3> QED BY <2>4, <3>1, <3>2
  <2>9. Beside(q)
    BY <1>2, <2>2, <2>3, <2>5, <2>6, <2>7, <2>8 DEF Beside
  <2> QED BY <1>2, <2>1, <2>9, BesideKeeps
<1>4. RunOK(r)'
  BY <1>1, IncludeOwn
<1> QED BY <1>2, <1>3, <1>4 DEF RunsInv, RunOK

-----------------------------------------------------------------------------
(* New processes.                                                          *)

\* A new process, field by field.
LEMMA ProcessIs ==
  ASSUME RunsAreTyped, NEW x \in Processes
  PROVE  /\ x \in RunRecords /\ x.pc = 1 /\ x.phase = "ready" /\ x.why = "" /\ x.over = Over /\ x.rivals = {}
         /\ \A w \in Wallets : x.view[w] = 0
<1>1. PICK p \in Programs, e \in Envs, name \in Names : x = Process(p, e, name)
  BY DEF Processes
<1>2. Over \in SUBSET Nat
  BY LenProperties DEF Over, RunsAreTyped
<1>3. Deployed(Blank, Blank) \in Effects
  BY BlankIs, DeployedIs
<1>4. PICK o, f, v : o = Over /\ f = Deployed(Blank, Blank) /\ v = [w \in Wallets |-> 0]
  OBVIOUS
<1>5. x = [program |-> p, env |-> e, store |-> name, pc |-> 1, phase |-> "ready", view |-> v,
           effect |-> f, why |-> "", over |-> o, rivals |-> {}]
  BY <1>1, <1>4 DEF Process
<1>6. v \in [Wallets -> Nat] /\ \A w \in Wallets : v[w] = 0
  BY <1>4
<1>7. "ready" \in Phases /\ "" \in Whys
  BY DEF Phases, Live, Whys
<1>8. x \in RunRecords
  BY <1>2, <1>3, <1>4, <1>5, <1>6, <1>7 DEF RunRecords
<1> QED BY <1>4, <1>5, <1>6, <1>8

\* As many empty sets as there are new processes.
LEMMA EmptiesAre ==
  ASSUME NEW S, NEW n \in Nat
  PROVE  [i \in 1..n |-> {}] \in Seq(SUBSET S) /\ Len([i \in 1..n |-> {}]) = n
<1> DEFINE s == [i \in 1..n |-> {}]
<1>1. s \in [1..n -> SUBSET S] /\ DOMAIN s = 1..n
  OBVIOUS
<1> HIDE DEF s
<1>2. s \in Seq(SUBSET S)
  BY <1>1, SeqDef
<1>3. PICK m \in Nat : m = Len(s) /\ 1..m = 1..n
  BY <1>1, <1>2, LenProperties
<1>4. m = n
  BY <1>3
<1> USE DEF s
<1> QED BY <1>2, <1>3, <1>4

\* What a launch does, by process.
Launched(ps) ==
  /\ Len(run') \in Nat /\ Len(run) <= Len(run') /\ run' \in Seq(RunRecords)
  /\ landed' \in Seq(SUBSET Nat) /\ Len(landed') = Len(run') /\ onchain' \in Seq(SUBSET Holdings) /\ Len(onchain') = Len(run')
  /\ \A r \in Runs : r \in Runs' /\ run'[r] = run[r] /\ landed'[r] = landed[r] /\ onchain'[r] = onchain[r]
  /\ \A r \in Runs' : r \notin Runs => run'[r] \in Processes /\ landed'[r] = {} /\ onchain'[r] = {}

\* What a launch adds.
LEMMA LaunchIs ==
  ASSUME RunsAreTyped, NEW ps \in Seq(Processes), Launch(ps)
  PROVE  Launched(ps)
<1>1. /\ run \in Seq(RunRecords) /\ landed \in Seq(SUBSET Nat) /\ Len(landed) = Len(run)
      /\ onchain \in Seq(SUBSET Holdings) /\ Len(onchain) = Len(run)
  BY DEF RunsAreTyped
<1>2. PICK n \in Nat : n = Len(run)
  BY <1>1, LenProperties
<1>3. PICK m \in Nat : m = Len(ps) /\ DOMAIN ps = 1..m
  BY LenProperties
<1>4. \A i \in 1..m : ps[i] \in Processes /\ ps[i] \in RunRecords
  BY <1>3, ElementOfSeq, ProcessIs
<1>5. ps \in Seq(RunRecords)
  <2>1. ps \in [1..m -> RunRecords]
    BY <1>3, <1>4, SeqDef
  <2> QED BY <2>1, SeqDef
<1>6. PICK s : s = [i \in 1..m |-> {}]
  OBVIOUS
<1>7. s \in Seq(SUBSET Nat) /\ s \in Seq(SUBSET Holdings) /\ Len(s) = m /\ \A i \in 1..m : s[i] = {}
  BY <1>6, EmptiesAre
<1>8. run' = run \o ps /\ landed' = landed \o s /\ onchain' = onchain \o s
  BY <1>3, <1>6 DEF Launch
<1>9. /\ run' \in Seq(RunRecords) /\ Len(run') = n + m
      /\ \A i \in 1..(n + m) : run'[i] = IF i <= n THEN run[i] ELSE ps[i - n]
  BY <1>1, <1>2, <1>3, <1>5, <1>8, ConcatProperties
<1>10. /\ landed' \in Seq(SUBSET Nat) /\ Len(landed') = n + m
       /\ \A i \in 1..(n + m) : landed'[i] = IF i <= n THEN landed[i] ELSE s[i - n]
  <2>1. PICK T : T = SUBSET Nat
    OBVIOUS
  <2>2. landed \in Seq(T) /\ s \in Seq(T) /\ Len(landed) = n /\ Len(s) = m /\ landed' = landed \o s
    BY <1>1, <1>2, <1>7, <1>8, <2>1
  <2>3. /\ landed \o s \in Seq(T) /\ Len(landed \o s) = Len(landed) + Len(s)
        /\ \A i \in 1..Len(landed) + Len(s) : (landed \o s)[i] = IF i <= Len(landed) THEN landed[i] ELSE s[i - Len(landed)]
    BY <2>2, ConcatProperties
  <2> QED BY <2>1, <2>2, <2>3
<1>11. /\ onchain' \in Seq(SUBSET Holdings) /\ Len(onchain') = n + m
       /\ \A i \in 1..(n + m) : onchain'[i] = IF i <= n THEN onchain[i] ELSE s[i - n]
  <2>1. PICK T : T = SUBSET Holdings
    OBVIOUS
  <2>2. onchain \in Seq(T) /\ s \in Seq(T) /\ Len(onchain) = n /\ Len(s) = m /\ onchain' = onchain \o s
    BY <1>1, <1>2, <1>7, <1>8, <2>1
  <2>3. /\ onchain \o s \in Seq(T) /\ Len(onchain \o s) = Len(onchain) + Len(s)
        /\ \A i \in 1..Len(onchain) + Len(s) : (onchain \o s)[i] = IF i <= Len(onchain) THEN onchain[i] ELSE s[i - Len(onchain)]
    BY <2>2, ConcatProperties
  <2> QED BY <2>1, <2>2, <2>3
<1>12. Runs = 1..n /\ Runs' = 1..(n + m)
  BY <1>2, <1>9 DEF Runs
<1>13. ASSUME NEW r \in Runs PROVE r \in Runs' /\ run'[r] = run[r] /\ landed'[r] = landed[r] /\ onchain'[r] = onchain[r]
  <2>1. r \in 1..n /\ r \in 1..(n + m) /\ r <= n
    BY <1>12
  <2> QED BY <1>9, <1>10, <1>11, <1>12, <2>1
<1>14. ASSUME NEW r \in Runs', r \notin Runs PROVE run'[r] \in Processes /\ landed'[r] = {} /\ onchain'[r] = {}
  <2>1. r \in 1..(n + m) /\ ~(r <= n) /\ r - n \in 1..m
    BY <1>12, <1>14
  <2> QED BY <1>4, <1>7, <1>9, <1>10, <1>11, <2>1
<1> QED BY <1>2, <1>9, <1>10, <1>11, <1>13, <1>14 DEF Launched

\* A process that has just begun.
LEMMA NewRunOK ==
  ASSUME RunsInv, NEW ps, Launched(ps), UNCHANGED <<chain, mempool, night, idle, dust, store, scoped>>,
         NEW r \in Runs', r \notin Runs
  PROVE  RunOK(r)'
<1>1. RunsAreTyped /\ run'[r] \in Processes /\ landed'[r] = {} /\ onchain'[r] = {}
  BY DEF RunsInv, Launched
<1>2. PICK x : x = run'[r]
  OBVIOUS
<1>3. /\ x \in RunRecords /\ x.pc = 1 /\ x.phase = "ready" /\ x.why = "" /\ x.over = Over /\ x.rivals = {}
      /\ x.program \in Programs /\ \A w \in Wallets : x.view[w] = 0
  BY <1>1, <1>2, ProcessIs DEF RunRecords
<1>4. Mine(r)' = {}
  BY <1>1 DEF Mine, RunsAreTyped
<1>5. PICK p \in Programs : p = x.program
  BY <1>3
<1>6. 1 \in 1..Len(p) /\ Len(p) \in Nat
  BY ProgramTyped
<1>7. PlaceOK(r)'
  <2>1. ASSUME NEW w \in Wallets PROVE x.view[w] <= Height(w)'
    <3>1. Height(w)' = Height(w) /\ Height(w) \in Nat /\ x.view[w] = 0
      BY <1>1, <1>3, ChainTyped DEF Height
    <3> QED BY <3>1
  <2>2. x.pc = 1 /\ x.phase = "ready" /\ x.program = p
    BY <1>3, <1>5
  <2> QED BY <1>1, <1>2, <1>4, <1>6, <2>1, <2>2 DEF PlaceOK
<1>8. OverlapOK(r)'
  <2>1. ASSUME NEW q \in Over PROVE q \in Runs' /\ run'[q].phase = "done" /\ Mine(q)' = {}
    <3>1. q \in Runs /\ run[q].phase = "done" /\ \A t \in mempool : t.run # q
      BY <1>1, LenProperties DEF Over, RunsAreTyped, Runs
    <3> QED BY <3>1 DEF Launched, Mine
  <2>2. \A q \in x.over : q \in Runs' /\ run'[q].phase = "done" /\ Mine(q)' = {}
    BY <1>3, <2>1
  <2>3. x.pc = 1 /\ x.why = ""
    BY <1>3
  <2>4. 1..(run'[r].pc - 1) = {}
    <3>1. PICK n \in Nat : n = run'[r].pc /\ n = 1
      BY <1>2, <2>3
    <3>2. 1..(n - 1) = {}
      BY <3>1
    <3> QED BY <3>1, <3>2
  <2>5. run'[r].why # "refused" /\ \A q \in run'[r].over : q \in Runs' /\ run'[q].phase = "done" /\ Mine(q)' = {}
    BY <1>2, <2>2, <2>3
  <2> QED BY <2>4, <2>5, Zenon DEF OverlapOK
<1>9. ContractsOK(r)'
  <2>1. PICK n : n = p[1]
    OBVIOUS
  <2>2. x.pc = 1 /\ x.why = "" /\ x.phase = "ready" /\ x.program = p
    BY <1>3, <1>5
  <2>3. Now(r)' = n
    BY <1>2, <2>1, <2>2 DEF Now
  <2>4. n.op = "call" => n.circuit = "deploy"
    <3>1. ASSUME n.op = "call", n.circuit # "deploy" PROVE FALSE
      <4>1. CallFollows(p, 1)
        BY <1>6, <2>1, <3>1, CallsFollow
      <4> QED BY <4>1 DEF CallFollows
    <3> QED BY <3>1
  <2>5. 1..(run'[r].pc - 1) = {}
    <3>1. PICK m \in Nat : m = run'[r].pc /\ m = 1
      BY <1>2, <2>2
    <3>2. 1..(m - 1) = {}
      BY <3>1
    <3> QED BY <3>1, <3>2
  <2>6. run'[r].phase = "ready" /\ run'[r].why = "" /\ run'[r].pc \notin Mine(r)' /\ onchain'[r] = {}
    BY <1>1, <1>2, <1>4, <2>2
  <2>7. (Now(r).op = "call" => Now(r).circuit = "deploy")'
    BY <2>3, <2>4
  <2> QED BY <2>5, <2>6, <2>7, Zenon DEF ContractsOK
<1> QED BY <1>7, <1>8, <1>9 DEF RunOK

\* A launch keeps the invariant.
LEMMA LaunchKeeps ==
  ASSUME RunsInv, NEW ps \in Seq(Processes), Launch(ps), UNCHANGED <<chain, mempool, night, idle, dust, store, scoped>>
  PROVE  RunsInv'
<1>1. RunsAreTyped /\ Launched(ps)
  BY LaunchIs DEF RunsInv
<1>2. \A q \in Runs : q \in Runs' /\ run'[q] = run[q] /\ landed'[q] = landed[q] /\ onchain'[q] = onchain[q]
  BY <1>1 DEF Launched
<1>3. RunsAreTyped'
  <2>1. mempool' \subseteq [run : Runs', pc : Nat]
    BY <1>1, <1>2 DEF RunsAreTyped
  <2> QED BY <1>1, <2>1 DEF RunsAreTyped, Launched
<1>4. ASSUME NEW q \in Runs PROVE RunOK(q)'
  <2>1. RunOK(q) /\ OverlapOK(q)
    BY DEF RunsInv, RunOK
  <2>2. Mine(q)' = Mine(q) /\ \A p : Mine(p)' = Mine(p)
    BY DEF Mine
  <2>3. \A p \in run[q].over : p \in Runs' /\ run'[p].phase = "done" /\ Mine(p)' = {}
    BY <1>2, <2>1, <2>2 DEF OverlapOK
  <2>4. Intruded(q) => Intruded(q)'
    BY <1>2 DEF Intruded, Intrudes
  <2>5. \A w, c : StoreOK(q, w, c) => StoreOK(q, w, c)'
    BY <1>2, <2>4 DEF StoreOK, KeyOf
  <2>6. \A w \in Wallets :
          /\ Height(w)' \in Nat /\ Height(w) <= Height(w)'
          /\ \A k \in 1..Height(w)' : IF k <= Height(w) THEN chain'[w][k] = chain[w][k] ELSE chain'[w][k] \notin run[q].over
    BY <1>1, ChainTyped DEF Height
  <2>7. Beside(q)
    BY <1>2, <2>2, <2>3, <2>4, <2>5, <2>6 DEF Beside
  <2> QED BY <1>1, <2>1, <2>7, BesideKeeps
<1>5. \A q \in Runs' : RunOK(q)'
  BY <1>1, <1>4, NewRunOK
<1> QED BY <1>3, <1>5 DEF RunsInv, RunOK

-----------------------------------------------------------------------------
(* The invariant of the processes.                                         *)

\* There is no process yet.
LEMMA RunsBegin == RunsInit => RunsInv
<1> SUFFICES ASSUME RunsInit PROVE RunsInv
  OBVIOUS
<1>1. Len(run) = 0 /\ run \in Seq(RunRecords) /\ landed \in Seq(SUBSET Nat) /\ onchain \in Seq(SUBSET Holdings)
      /\ Len(landed) = 0 /\ Len(onchain) = 0
  BY EmptySeq DEF RunsInit
<1>2. Runs = {}
  BY <1>1 DEF Runs
<1>3. chain \in [Wallets -> Seq(Nat)]
  <2>1. <<>> \in Seq(Nat)
    BY EmptySeq
  <2> QED BY <2>1 DEF RunsInit
<1>4. RunsAreTyped
  BY <1>1, <1>3 DEF RunsAreTyped, RunsInit
<1> QED BY <1>2, <1>4 DEF RunsInv

\* Every step of the processes and of the network keeps the invariant.
LEMMA RunsStep ==
  ASSUME RunsInv, RunsNext
  PROVE  RunsInv'
<1>1. ASSUME NEW r \in DOMAIN run, Advances(r) PROVE RunsInv'
  <2>1. Step(r)
    BY <1>1 DEF Advances
  <2>2. CASE OpenWallet(r)
    BY <2>2, OpenWalletKeeps
  <2>3. CASE CoinsSeen(r) \/ DustReady(r)
    BY <2>3, NothingToDoKeeps
  <2>4. CASE DustAccrues(r)
    BY <2>4, DustAccruesKeeps
  <2>5. CASE RegisterDust(r) \/ Call(r) \/ SendCoins(r)
    BY <2>5, TransactionsKeep
  <2>6. CASE DustTimesOut(r) \/ CallFails(r) \/ WatchTimesOut(r)
    BY <2>6, FailuresKeep
  <2>7. CASE Seen(r)
    BY <2>7, SeenKeeps
  <2> QED BY <2>1, <2>2, <2>3, <2>4, <2>5, <2>6, <2>7 DEF Step
<1>2. ASSUME NEW r \in DOMAIN run, Dies(r) PROVE RunsInv'
  BY <1>2, FailuresKeep
<1>3. ASSUME NEW t \in mempool, Include(t) PROVE RunsInv'
  BY <1>3, IncludeKeeps
<1>4. ASSUME NEW t \in mempool, Expire(t) PROVE RunsInv'
  BY <1>4, ExpireKeeps
<1> QED BY <1>1, <1>2, <1>3, <1>4 DEF RunsNext

\* A step that leaves the processes and the network alone.
LEMMA RunsStutter ==
  ASSUME RunsInv, UNCHANGED runVars
  PROVE  RunsInv'
<1>1. UNCHANGED <<run, chain, mempool, landed, onchain, night, idle, dust, store, scoped>>
  BY DEF runVars
<1>2. Runs' = Runs /\ RunsAreTyped'
  BY <1>1 DEF Runs, RunsInv, RunsAreTyped
<1>3. \A q : PlaceOK(q)' = PlaceOK(q)
  BY <1>1 DEF PlaceOK, Height, Mine, Op, Now
<1>4. \A q : OverlapOK(q)' = OverlapOK(q)
  BY <1>1, <1>2 DEF OverlapOK, Height, Mine, Op, Running
<1>5. \A q : Intruded(q)' = Intruded(q)
  BY <1>1, <1>2 DEF Intruded, Intrudes
<1>6. ASSUME NEW q PROVE ContractsOK(q)' = ContractsOK(q)
  <2>1. /\ \A i : Op(q, i)' = Op(q, i)
        /\ Now(q)' = Now(q) /\ Mine(q)' = Mine(q)
    BY <1>1 DEF Op, Now, Mine
  <2>2. \A c : State(q, c)' = State(q, c)
    BY <1>1 DEF State
  <2>3. \A c, t : Tagged(q, c, t)' = Tagged(q, c, t)
    BY <1>1, <1>5 DEF Tagged
  <2>4. \A w, c : KeyOf(q, w, c)' = KeyOf(q, w, c)
    BY <1>1 DEF KeyOf
  <2>5. \A w, c : StoreOK(q, w, c)' = StoreOK(q, w, c)
    BY <1>1, <1>5, <2>4 DEF StoreOK
  <2>6. ASSUME NEW x, NEW i PROVE EffectOK(q, x, i)' = EffectOK(q, x, i)
    BY <1>1, <2>3 DEF EffectOK
  <2>7. EffectOK(q, run[q].effect, Now(q))' = EffectOK(q, run[q].effect, Now(q))
    BY <1>1, <2>1, <2>3 DEF EffectOK
  <2>8. State(q, Now(q).contract)' = State(q, Now(q).contract)
    BY <1>1, <2>1 DEF State
  <2> QED BY <1>1, <1>5, <2>1, <2>2, <2>3, <2>5, <2>6, <2>7, <2>8 DEF ContractsOK
<1> QED BY <1>2, <1>3, <1>4, <1>6 DEF RunsInv

\* A process that has ended stays as it is.
EndedStay == \A q \in Runs : q \in Runs' /\ (~Running(q) => run'[q] = run[q])

\* A step of the processes leaves those that have ended.
LEMMA EndedRunsStay ==
  ASSUME RunsAreTyped, RunsNext
  PROVE  EndedStay
<1>1. Runs = DOMAIN run /\ run \in Seq(RunRecords)
  BY LenProperties DEF RunsAreTyped, Runs
<1>2. ASSUME run' = run PROVE EndedStay
  BY <1>2 DEF EndedStay, Runs
<1>3. ASSUME NEW r \in DOMAIN run, Running(r), NEW x, Goes(r, x) PROVE EndedStay
  <2>1. run' = [run EXCEPT ![r] = x] /\ DOMAIN run' = DOMAIN run
    BY <1>3 DEF Goes
  <2>2. Len(run') = Len(run)
    <3>1. PICK n \in Nat : n = Len(run) /\ DOMAIN run = 1..n
      BY <1>1, LenProperties
    <3>2. PICK T : T = RunRecords \cup {x}
      OBVIOUS
    <3>3. run \in Seq(T) /\ x \in T
      BY <1>1, <3>2, SeqMonotonic
    <3>4. Len([run EXCEPT ![r] = x]) = Len(run)
      BY <1>1, <1>3, <3>1, <3>3, ExceptSeq
    <3> QED BY <2>1, <3>4
  <2>3. \A q \in Runs : q # r => run'[q] = run[q]
    BY <1>1, <2>1
  <2> QED BY <1>3, <2>2, <2>3 DEF EndedStay, Runs
<1>4. ASSUME NEW r \in DOMAIN run, Advances(r) \/ Dies(r) PROVE Running(r) /\ \E x : Goes(r, x)
  <2>1. CASE Dies(r)
    BY <2>1 DEF Dies
  <2>2. CASE Step(r) /\ (OpenWallet(r) \/ CoinsSeen(r) \/ DustReady(r) \/ DustTimesOut(r) \/ DustAccrues(r))
    BY <2>2 DEF OpenWallet, CoinsSeen, DustReady, DustTimesOut, DustAccrues, Is, Running, Live
  <2>3. CASE Step(r) /\ (RegisterDust(r) \/ Call(r) \/ SendCoins(r))
    <3>1. Running(r)
      BY <2>3 DEF RegisterDust, Call, SendCoins, Is, Running, Live
    <3>2. \E v, s : Submit(r, v, s)
      BY <2>3 DEF RegisterDust, Call, SendCoins
    <3>3. ASSUME NEW v, NEW s, Submit(r, v, s) PROVE \E x : Goes(r, x)
      BY <3>3 DEF Submit
    <3> QED BY <3>1, <3>2, <3>3
  <2>4. CASE Step(r) /\ (CallFails(r) \/ Seen(r) \/ WatchTimesOut(r))
    BY <2>4 DEF CallFails, Seen, WatchTimesOut, Is, Running, Live
  <2> QED BY <1>4, <2>1, <2>2, <2>3, <2>4 DEF Advances, Step
<1>5. ASSUME NEW t, Include(t) \/ Expire(t) PROVE run' = run
  BY <1>5 DEF Include, Expire
<1> QED BY <1>2, <1>3, <1>4, <1>5 DEF RunsNext

\* A launch leaves the processes that there are as they are.
LEMMA EndedRunsStayAtLaunch ==
  ASSUME RunsAreTyped, NEW ps \in Seq(Processes), Launch(ps)
  PROVE  EndedStay
BY LaunchIs DEF Launched, EndedStay

-----------------------------------------------------------------------------
(* Jobs.                                                                   *)

JobRecords ==
  [kind : Kinds, members : SUBSET Nat, status : {"running", "completed", "failed"}, parent : {"up", "over", "killed"},
   whole : BOOLEAN, boot : Nat, listed : BOOLEAN]

Listed(js) == {k \in DOMAIN js : js[k].listed}
Newer(js, j) == {k \in DOMAIN js : k > j /\ js[k].listed}

\* What is recorded of a job is true of its processes.
JobOK(j) ==
  /\ job[j].members \subseteq Runs /\ job[j].boot <= boots
  /\ job[j].status = "completed" => job[j].whole /\ \A r \in job[j].members : run[r].phase = "done"
  /\ job[j].parent = "over" /\ job[j].kind # "split" /\ job[j].whole => \A r \in job[j].members : ~Running(r)
  /\ job[j].boot = boots /\ job[j].kind # "split" /\ ~job[j].listed => Cardinality(Newer(job, j)) >= MaxJobs

JobsInv ==
  /\ job \in Seq(JobRecords) /\ boots \in Nat
  /\ Cardinality(Listed(job)) <= MaxJobs
  /\ \A j \in DOMAIN job : JobOK(j)

\* a is b, but that it may have been pruned.
PrunedFrom(a, b) ==
  /\ a \in JobRecords /\ a.kind = b.kind /\ a.members = b.members /\ a.status = b.status /\ a.parent = b.parent
  /\ a.boot = b.boot /\ a.whole = b.whole

Prunes(ps, js) ==
  /\ ps \in Seq(JobRecords) /\ DOMAIN ps = DOMAIN js
  /\ \A j \in DOMAIN js : PrunedFrom(ps[j], js[j])
  /\ Cardinality(Listed(ps)) <= MaxJobs
  /\ \A j \in DOMAIN js : (js[j].listed /\ ~ps[j].listed) \/ Cardinality(Newer(js, j)) >= MaxJobs =>
                            Cardinality(Newer(ps, j)) >= MaxJobs

\* The sets of the records that are listed, and of the newer ones, are finite.
LEMMA SetsOfJobs ==
  ASSUME NEW js \in Seq(JobRecords), NEW j \in DOMAIN js
  PROVE  /\ DOMAIN js \subseteq Nat /\ IsFiniteSet(Listed(js)) /\ IsFiniteSet(Newer(js, j))
         /\ Cardinality(Listed(js)) \in Nat /\ Cardinality(Newer(js, j)) \in Nat
         /\ Newer(js, j) = {k \in Listed(js) : k > j}
<1>1. PICK n \in Nat : DOMAIN js = 1..n
  BY LenProperties
<1>2. IsFiniteSet(1..n)
  BY FS_Interval
<1>3. Listed(js) \subseteq 1..n /\ Newer(js, j) \subseteq 1..n
  BY <1>1 DEF Listed, Newer
<1> QED BY <1>1, <1>2, <1>3, FS_Subset, FS_CardinalityType DEF Listed, Newer

\* Pruning after one more record takes at most the oldest.
LEMMA PruningIs ==
  ASSUME NEW js \in Seq(JobRecords), Cardinality(Listed(js)) <= MaxJobs + 1
  PROVE  Prunes(Pruned(js), js)
<1> DEFINE Ps == Pruned(js)
           L == Listed(js)
<1>1. MaxJobs \in Nat
  BY JobsAssumption
<1>2. PICK n \in Nat : DOMAIN js = 1..n
  BY LenProperties
<1>3. \A j \in DOMAIN js : js[j] \in JobRecords
  BY ElementOfSeq, LenProperties
<1>4. DOMAIN Ps = 1..n
  BY <1>2 DEF Pruned
<1>5. ASSUME NEW j \in DOMAIN js
      PROVE  PrunedFrom(Ps[j], js[j]) /\ (Ps[j].listed <=> js[j].listed /\ Cardinality(Newer(js, j)) < MaxJobs)
  <2>1. PICK b \in BOOLEAN : b <=> Cardinality(Newer(js, j)) < MaxJobs
    OBVIOUS
  <2>2. Ps[j] = [js[j] EXCEPT !.listed = js[j].listed /\ Cardinality(Newer(js, j)) < MaxJobs]
    BY DEF Pruned, Newer
  <2>3. PICK c \in BOOLEAN : c = (js[j].listed /\ Cardinality(Newer(js, j)) < MaxJobs)
    OBVIOUS
  <2>4. Ps[j] = [js[j] EXCEPT !.listed = c]
    BY <2>2, <2>3
  <2> HIDE DEF Ps
  <2> QED BY <1>3, <2>3, <2>4 DEF PrunedFrom, JobRecords
<1>6. Ps \in Seq(JobRecords)
  <2> HIDE DEF Ps
  <2>1. \A j \in 1..n : Ps[j] \in JobRecords
    BY <1>2, <1>5 DEF PrunedFrom
  <2>2. Ps = [j \in 1..n |-> Ps[j]]
    BY <1>2 DEF Ps, Pruned
  <2>3. Ps \in [1..n -> JobRecords]
    BY <2>1, <2>2
  <2> QED BY <2>3, SeqDef
<1>7. L \in SUBSET Nat /\ IsFiniteSet(L) /\ Cardinality(L) \in Nat
  <2>1. L \subseteq 1..n /\ IsFiniteSet(1..n)
    BY <1>2, FS_Interval DEF Listed
  <2> QED BY <2>1, FS_Subset, FS_CardinalityType
<1>8. \A j \in DOMAIN js : Newer(js, j) = {k \in L : k > j} /\ Cardinality(Newer(js, j)) \in Nat
  BY SetsOfJobs
<1>9. \A j \in DOMAIN js : Newer(Ps, j) = {k \in Listed(Ps) : k > j}
  BY <1>2, <1>4 DEF Newer, Listed
<1>10. Listed(Ps) = {k \in L : Cardinality(Newer(js, k)) < MaxJobs}
  BY <1>2, <1>4, <1>5 DEF Listed
<1>11. CASE Cardinality(L) <= MaxJobs
  <2>1. ASSUME NEW k \in L PROVE Cardinality(Newer(js, k)) < MaxJobs
    <3>1. Newer(js, k) \subseteq L \ {k}
      BY <1>2, <1>8 DEF Listed
    <3>2. Cardinality(L \ {k}) = Cardinality(L) - 1 /\ IsFiniteSet(L \ {k})
      BY <1>7, FS_RemoveElement
    <3>3. Cardinality(Newer(js, k)) <= Cardinality(L \ {k})
      BY <3>1, <3>2, FS_Subset
    <3>4. Cardinality(Newer(js, k)) \in Nat
      BY <1>8 DEF Listed
    <3> QED BY <1>1, <1>7, <1>11, <3>2, <3>3, <3>4
  <2>2. Listed(Ps) = L
    BY <1>10, <2>1
  <2>3. \A j \in DOMAIN js : Newer(Ps, j) = Newer(js, j) /\ (Ps[j].listed <=> js[j].listed)
    BY <1>2, <1>4, <1>8, <1>9, <2>2 DEF Listed
  <2> QED BY <1>2, <1>4, <1>5, <1>6, <1>11, <2>2, <2>3 DEF Prunes
<1>12. CASE Cardinality(L) = MaxJobs + 1
  <2>1. L # {}
    <3> HIDE DEF L
    <3> SUFFICES ASSUME L = {} PROVE FALSE
      OBVIOUS
    <3>1. Cardinality({}) = 0
      BY FS_EmptySet
    <3>2. Cardinality(L) = 0
      BY <3>1
    <3> QED BY <1>1, <1>12, <3>2
  <2>2. PICK m \in L : \A k \in L : m <= k
    <3> HIDE DEF L
    <3> QED BY <1>7, <2>1, LeastOf
  <2>3. m \in DOMAIN js /\ m \in Nat
    BY <1>7 DEF Listed
  <2>4. Cardinality(L \ {m}) = MaxJobs /\ IsFiniteSet(L \ {m})
    <3> HIDE DEF L
    <3>1. Cardinality(L \ {m}) = Cardinality(L) - 1 /\ IsFiniteSet(L \ {m})
      BY <1>7, <2>2, FS_RemoveElement
    <3> QED BY <1>1, <1>12, <3>1
  <2>5. Newer(js, m) = L \ {m}
    <3> HIDE DEF L
    <3> QED BY <1>7, <1>8, <2>2, <2>3
  <2>6. ASSUME NEW k \in L, k # m PROVE Cardinality(Newer(js, k)) < MaxJobs
    <3>1. k \in DOMAIN js /\ k \in Nat /\ m < k
      BY <1>7, <2>2, <2>3, <2>6 DEF Listed
    <3>2. Newer(js, k) \subseteq (L \ {m}) \ {k}
      <4> HIDE DEF L
      <4> QED BY <1>8, <2>3, <3>1
    <3>3. Cardinality((L \ {m}) \ {k}) = MaxJobs - 1 /\ IsFiniteSet((L \ {m}) \ {k})
      BY <2>4, <2>6, FS_RemoveElement
    <3>4. Cardinality(Newer(js, k)) <= Cardinality((L \ {m}) \ {k})
      BY <3>2, <3>3, FS_Subset
    <3>5. Cardinality(Newer(js, k)) \in Nat
      BY <1>8, <3>1
    <3> QED BY <1>1, <3>3, <3>4, <3>5
  <2>7. Listed(Ps) = L \ {m}
    <3>1. ~ (Cardinality(Newer(js, m)) < MaxJobs)
      BY <1>1, <2>4, <2>5
    <3> QED BY <1>10, <2>6, <3>1
  <2>8. ASSUME NEW j \in DOMAIN js, (js[j].listed /\ ~Ps[j].listed) \/ Cardinality(Newer(js, j)) >= MaxJobs
        PROVE  Cardinality(Newer(Ps, j)) >= MaxJobs
    <3>1. j \in Nat
      BY <1>2
    <3>2. CASE js[j].listed /\ ~Ps[j].listed
      <4>1. j = m
        BY <1>2, <1>4, <2>7, <3>2 DEF Listed
      <4>2. Newer(Ps, j) = L \ {m}
        BY <1>8, <1>9, <2>3, <2>5, <2>7, <4>1
      <4> QED BY <1>1, <2>4, <4>2
    <3>3. CASE Cardinality(Newer(js, j)) >= MaxJobs /\ m > j
      <4>1. Newer(Ps, j) = L \ {m}
        <5> HIDE DEF L
        <5> QED BY <1>7, <1>9, <2>2, <2>3, <2>7, <3>1, <3>3
      <4> QED BY <1>1, <2>4, <4>1
    <3>4. CASE Cardinality(Newer(js, j)) >= MaxJobs /\ ~ (m > j)
      <4>1. Newer(Ps, j) = Newer(js, j)
        <5> HIDE DEF L
        <5>1. \A k : k > j => k # m
          BY <3>4
        <5>2. {k \in L \ {m} : k > j} = {k \in L : k > j}
          BY <5>1
        <5>3. Newer(js, j) = {k \in L : k > j}
          BY <1>8
        <5>4. Newer(Ps, j) = {k \in L \ {m} : k > j}
          BY <1>9, <2>7
        <5> QED BY <5>2, <5>3, <5>4
      <4> QED BY <3>4, <4>1
    <3> QED BY <2>8, <3>2, <3>3, <3>4
  <2> QED BY <1>1, <1>2, <1>4, <1>5, <1>6, <2>4, <2>7, <2>8 DEF Prunes
<1> QED BY <1>1, <1>7, <1>11, <1>12

\* Time passes: what the table says of those who have ended stays true.
LEMMA JobsStay ==
  ASSUME JobsInv, EndedStay, UNCHANGED jobVars
  PROVE  JobsInv'
<1>1. job' = job /\ boots' = boots
  BY DEF jobVars
<1>2. Listed(job)' = Listed(job) /\ \A j : Newer(job, j)' = Newer(job, j)
  BY <1>1 DEF Listed, Newer
<1>3. ASSUME NEW j \in DOMAIN job PROVE JobOK(j)'
  <2>1. JobOK(j)
    BY DEF JobsInv
  <2>2. ASSUME NEW r \in job[j].members
        PROVE  /\ r \in Runs' /\ (run[r].phase = "done" => run'[r].phase = "done")
               /\ (~Running(r) => ~Running(r)')
    <3>1. r \in Runs
      BY <2>1 DEF JobOK
    <3> QED BY <3>1 DEF EndedStay, Running, Live
  <2> QED BY <1>1, <1>2, <2>1, <2>2 DEF JobOK
<1> QED BY <1>1, <1>2, <1>3 DEF JobsInv

Adds(kind, members, status, parent, whole) ==
  /\ job' = Pruned(Append(job, Job(kind, members, status, parent, whole))) /\ boots' = boots
  /\ members \subseteq Runs' /\ status \in {"running", "failed"} /\ parent \in {"up", "over"}
  /\ parent = "over" => members = {}

\* One more record, and the oldest goes if there are too many.
LEMMA JobsAdd ==
  ASSUME RunsAreTyped, RunsAreTyped', JobsInv, EndedStay,
         NEW kind \in Kinds, NEW members, NEW status, NEW parent, NEW whole \in BOOLEAN,
         Adds(kind, members, status, parent, whole)
  PROVE  JobsInv'
<1> DEFINE new == Job(kind, members, status, parent, whole)
           js == Append(job, new)
<1>1. MaxJobs \in Nat /\ job \in Seq(JobRecords) /\ boots \in Nat /\ boots' = boots /\ job' = Pruned(js)
  BY JobsAssumption DEF JobsInv, Adds
<1>2. new \in JobRecords
  <2>1. members \subseteq Nat
    BY DEF Adds, Runs
  <2>2. PICK b \in BOOLEAN : b = (kind # "split")
    OBVIOUS
  <2> QED BY <1>1, <2>1, <2>2 DEF Adds, JobRecords, Job
<1>3. PICK n \in Nat : n = Len(job) /\ DOMAIN job = 1..n
  BY <1>1, LenProperties
<1>4. /\ js \in Seq(JobRecords) /\ DOMAIN js = 1..(n + 1) /\ js[n + 1] = new
      /\ \A j \in 1..n : js[j] = job[j]
  <2> HIDE DEF new
  <2> QED BY <1>1, <1>2, <1>3, AppendProperties, LenProperties
<1>5. IsFiniteSet(Listed(job)) /\ Cardinality(Listed(job)) \in Nat /\ Cardinality(Listed(job)) <= MaxJobs
  <2>1. Listed(job) \subseteq 1..n /\ IsFiniteSet(1..n)
    BY <1>3, FS_Interval DEF Listed
  <2> QED BY <2>1, FS_Subset, FS_CardinalityType DEF JobsInv
<1>6. Cardinality(Listed(js)) <= MaxJobs + 1
  <2>1. Listed(js) \subseteq Listed(job) \cup {n + 1}
    BY <1>3, <1>4 DEF Listed
  <2>2. IsFiniteSet(Listed(job) \cup {n + 1}) /\ Cardinality(Listed(job) \cup {n + 1}) <= Cardinality(Listed(job)) + 1
    <3>1. /\ IsFiniteSet(Listed(job) \cup {n + 1})
          /\ Cardinality(Listed(job) \cup {n + 1}) =
               IF n + 1 \in Listed(job) THEN Cardinality(Listed(job)) ELSE Cardinality(Listed(job)) + 1
      BY <1>5, FS_AddElement
    <3> QED BY <1>5, <3>1
  <2>3. Cardinality(Listed(js)) <= Cardinality(Listed(job) \cup {n + 1})
    BY <2>1, <2>2, FS_Subset
  <2>4. Cardinality(Listed(js)) \in Nat /\ Cardinality(Listed(job) \cup {n + 1}) \in Nat
    BY <2>1, <2>2, FS_Subset, FS_CardinalityType
  <2> HIDE DEF js
  <2> QED BY <1>1, <1>5, <2>2, <2>3, <2>4
<1>7. Prunes(job', js)
  <2> HIDE DEF js
  <2> QED BY <1>1, <1>4, <1>6, PruningIs
<1> HIDE DEF js
<1>8. ASSUME NEW j \in 1..n, Cardinality(Newer(job, j)) >= MaxJobs PROVE Cardinality(Newer(js, j)) >= MaxJobs
  <2>1. Newer(job, j) \subseteq Newer(js, j)
    BY <1>3, <1>4 DEF Newer
  <2>2. /\ IsFiniteSet(Newer(js, j)) /\ Cardinality(Newer(js, j)) \in Nat
        /\ Cardinality(Newer(job, j)) \in Nat
    BY <1>1, <1>3, <1>4, SetsOfJobs
  <2>3. Cardinality(Newer(job, j)) <= Cardinality(Newer(js, j))
    BY <2>1, <2>2, FS_Subset
  <2> QED BY <1>1, <1>8, <2>2, <2>3
<1>9. \A j : Newer(job, j)' = Newer(job', j)
  BY DEF Newer
<1>10. ASSUME NEW j \in 1..n PROVE JobOK(j)'
  <2>1. JobOK(j) /\ PrunedFrom(job'[j], job[j])
    BY <1>3, <1>4, <1>7 DEF JobsInv, Prunes
  <2>2. ASSUME NEW r \in job[j].members
        PROVE  /\ r \in Runs' /\ (run[r].phase = "done" => run'[r].phase = "done")
               /\ (~Running(r) => ~Running(r)')
    <3>1. r \in Runs
      BY <2>1 DEF JobOK
    <3> QED BY <3>1 DEF EndedStay, Running, Live
  <2>3. ASSUME job[j].boot = boots, job[j].kind # "split", ~job'[j].listed
        PROVE  Cardinality(Newer(job', j)) >= MaxJobs
    <3>1. job[j].listed \/ Cardinality(Newer(js, j)) >= MaxJobs
      BY <1>8, <2>1, <2>3 DEF JobOK
    <3> QED BY <1>4, <1>7, <2>3, <3>1 DEF Prunes
  <2> QED BY <1>1, <1>9, <2>1, <2>2, <2>3 DEF JobOK, PrunedFrom
<1>11. JobOK(n + 1)'
  <2>1. PrunedFrom(job'[n + 1], new) /\ n + 1 \in DOMAIN js /\ js[n + 1] = new
    BY <1>4, <1>7 DEF Prunes
  <2>2. /\ new.kind = kind /\ new.members = members /\ new.status = status /\ new.parent = parent /\ new.boot = boots
        /\ kind # "split" => new.listed
    BY DEF Job
  <2> HIDE DEF new
  <2>3. ASSUME kind # "split", ~job'[n + 1].listed PROVE Cardinality(Newer(job', n + 1)) >= MaxJobs
    BY <1>7, <2>1, <2>2, <2>3 DEF Prunes
  <2>4. members \subseteq Runs' /\ status # "completed" /\ (parent = "over" => members = {})
    BY DEF Adds
  <2> QED BY <1>1, <1>9, <2>1, <2>2, <2>3, <2>4 DEF JobOK, PrunedFrom
<1>12. DOMAIN job' = 1..(n + 1) /\ job' \in Seq(JobRecords) /\ Cardinality(Listed(job)') <= MaxJobs
  BY <1>4, <1>7 DEF Prunes, Listed
<1>13. \A j \in DOMAIN job' : JobOK(j)'
  BY <1>10, <1>11, <1>12
<1> QED BY <1>1, <1>12, <1>13 DEF JobsInv

\* The API restarts: its table is empty, and what it knew is of an earlier boot.
LEMMA ApiRestartsKeeps ==
  ASSUME JobsInv, ApiRestarts
  PROVE  JobsInv'
<1>1. MaxJobs \in Nat /\ job \in Seq(JobRecords) /\ boots \in Nat /\ boots' = boots + 1 /\ run' = run
  BY JobsAssumption DEF JobsInv, ApiRestarts, runVars
<1>2. PICK n \in Nat : DOMAIN job = 1..n
  BY <1>1, LenProperties
<1>3. \A j \in 1..n : job[j] \in JobRecords
  BY <1>1, <1>2, ElementOfSeq, LenProperties
<1>4. DOMAIN job' = 1..n /\ \A j \in 1..n : job'[j] = [job[j] EXCEPT !.listed = FALSE]
  BY <1>2 DEF ApiRestarts
<1>5. ASSUME NEW j \in 1..n PROVE PrunedFrom(job'[j], job[j]) /\ ~job'[j].listed
  <2>1. PICK x : x = [job[j] EXCEPT !.listed = FALSE]
    OBVIOUS
  <2>2. x \in JobRecords /\ x.kind = job[j].kind /\ x.members = job[j].members /\ x.status = job[j].status
        /\ x.whole = job[j].whole
    BY <1>3, <2>1 DEF JobRecords
  <2>3. x.parent = job[j].parent /\ x.boot = job[j].boot /\ x.listed = FALSE
    BY <1>3, <2>1 DEF JobRecords
  <2> QED BY <1>4, <2>1, <2>2, <2>3 DEF PrunedFrom
<1>6. job' \in Seq(JobRecords)
  <2>1. job' \in [1..n -> JobRecords]
    <3>1. job' = [j \in 1..n |-> job'[j]]
      BY <1>2 DEF ApiRestarts
    <3> QED BY <1>5, <3>1 DEF PrunedFrom
  <2> QED BY <2>1, SeqDef
<1>7. Cardinality(Listed(job)') <= MaxJobs
  <2>1. Listed(job)' = {}
    BY <1>4, <1>5 DEF Listed
  <2>2. Cardinality({}) = 0
    BY FS_EmptySet
  <2> QED BY <1>1, <2>1, <2>2
<1>8. ASSUME NEW j \in 1..n PROVE JobOK(j)'
  <2>1. JobOK(j) /\ PrunedFrom(job'[j], job[j])
    BY <1>2, <1>5 DEF JobsInv
  <2>2. job[j].boot \in Nat /\ job[j].boot <= boots
    BY <1>3, <2>1 DEF JobOK, JobRecords
  <2>3. job'[j].boot <= boots' /\ job'[j].boot # boots'
    BY <1>1, <2>1, <2>2 DEF PrunedFrom
  <2>4. Runs' = Runs /\ \A r : Running(r)' = Running(r)
    BY <1>1 DEF Runs, Running
  <2> QED BY <1>1, <2>1, <2>3, <2>4 DEF JobOK, PrunedFrom
<1> QED BY <1>1, <1>4, <1>6, <1>7, <1>8 DEF JobsInv

\* The end of a parent: j is recorded as having ended in this way.
LEMMA CloseKeeps ==
  ASSUME JobsInv, NEW j \in DOMAIN job, NEW well \in BOOLEAN, NEW how \in {"over", "killed"}, Close(j, well, how),
         UNCHANGED <<runVars, boots>>,
         well => job[j].whole /\ AllDone(j),
         how = "over" /\ job[j].kind # "split" /\ job[j].whole => \A r \in job[j].members : ~Running(r)
  PROVE  JobsInv'
<1>1. MaxJobs \in Nat /\ job \in Seq(JobRecords) /\ boots \in Nat /\ boots' = boots /\ run' = run
  BY JobsAssumption DEF JobsInv, runVars
<1>2. PICK n \in Nat : DOMAIN job = 1..n
  BY <1>1, LenProperties
<1>3. \A k \in 1..n : job[k] \in JobRecords
  BY <1>1, <1>2, ElementOfSeq, LenProperties
<1>4. PICK status : status = IF boots # job[j].boot THEN job[j].status ELSE IF well THEN "completed" ELSE "failed"
  OBVIOUS
<1>5. PICK x : x = [job[j] EXCEPT !.parent = how, !.status = status]
  OBVIOUS
<1>6. /\ x \in JobRecords /\ x.kind = job[j].kind /\ x.members = job[j].members /\ x.boot = job[j].boot
      /\ x.whole = job[j].whole /\ x.listed = job[j].listed /\ x.parent = how /\ x.status = status
  BY <1>2, <1>3, <1>4, <1>5 DEF JobRecords
<1>7. job' = [job EXCEPT ![j] = x]
  BY <1>4, <1>5 DEF Close
<1>8. job' \in Seq(JobRecords) /\ DOMAIN job' = 1..n
  BY <1>1, <1>2, <1>6, <1>7, ExceptSeq
<1>9. \A k \in 1..n : job'[k] = IF k = j THEN x ELSE job[k]
  BY <1>2, <1>7
<1>10. \A k \in 1..n : job'[k].listed = job[k].listed
  BY <1>6, <1>9
<1>11. Listed(job)' = Listed(job) /\ \A k : Newer(job, k)' = Newer(job, k)
  BY <1>2, <1>8, <1>10 DEF Listed, Newer
<1>12. Runs' = Runs /\ \A r : Running(r)' = Running(r)
  BY <1>1 DEF Runs, Running
<1>13. ASSUME NEW k \in 1..n PROVE JobOK(k)'
  <2>1. JobOK(k)
    BY <1>2 DEF JobsInv
  <2>2. CASE k # j
    <3>1. job'[k] = job[k]
      BY <1>9, <2>2
    <3> QED BY <1>1, <1>11, <1>12, <2>1, <3>1 DEF JobOK
  <2>3. CASE k = j
    <3>1. job'[k] = x
      BY <1>9, <2>3
    <3>2. status = "completed" => x.whole /\ \A r \in x.members : run[r].phase = "done"
      BY <1>4, <1>6, <2>1, <2>3 DEF JobOK, AllDone
    <3>3. x.parent = "over" /\ x.kind # "split" /\ x.whole => \A r \in x.members : ~Running(r)
      BY <1>6
    <3>4. x.boot = boots /\ x.kind # "split" /\ ~x.listed => Cardinality(Newer(job, k)) >= MaxJobs
      BY <1>6, <2>1, <2>3 DEF JobOK
    <3> QED BY <1>1, <1>6, <1>11, <1>12, <2>1, <2>3, <3>1, <3>2, <3>3, <3>4 DEF JobOK
  <2> QED BY <2>2, <2>3
<1> QED BY <1>1, <1>8, <1>11, <1>13 DEF JobsInv

\* Parents end, die, or the API restarts.
LEMMA ParentsKeep ==
  ASSUME JobsInv, JobsNext
  PROVE  JobsInv'
<1>1. CASE ApiRestarts
  BY <1>1, ApiRestartsKeeps
<1>2. ASSUME NEW j \in DOMAIN job, ParentEnds(j) PROVE JobsInv'
  <2>1. PICK well \in BOOLEAN : well <=> job[j].whole /\ AllDone(j)
    OBVIOUS
  <2>2. Close(j, well, "over")
    BY <1>2, <2>1 DEF ParentEnds, Close, ExitsWell
  <2>3. job[j].kind # "split" /\ job[j].whole => \A r \in job[j].members : ~Running(r)
    BY <1>2 DEF ParentEnds, Ends
  <2> QED BY <1>2, <2>1, <2>2, <2>3, CloseKeeps DEF ParentEnds
<1>3. ASSUME NEW j \in DOMAIN job, ParentDies(j) PROVE JobsInv'
  BY <1>3, CloseKeeps DEF ParentDies
<1> QED BY <1>1, <1>2, <1>3 DEF JobsNext

\* Whatever starts: processes by themselves, or a job with its processes.
LEMMA StartsKeep ==
  ASSUME RunsInv, JobsInv, Starts
  PROVE  RunsInv' /\ JobsInv'
<1>1. RunsAreTyped
  BY DEF RunsInv
<1>2. ASSUME NEW ps \in Seq(Processes), Launch(ps), UNCHANGED <<jobVars, chain, mempool, night, idle, dust, store, scoped>>
      PROVE  RunsInv' /\ JobsInv'
  <2>1. RunsInv'
    BY <1>2, LaunchKeeps
  <2>2. EndedStay
    BY <1>1, <1>2, EndedRunsStayAtLaunch
  <2> QED BY <1>2, <2>1, <2>2, JobsStay
<1>3. ASSUME NEW ps \in Seq(Processes), NEW kind \in Kinds, NEW whole \in BOOLEAN, Start(kind, ps, whole)
      PROVE  RunsInv' /\ JobsInv'
  <2>1. Launch(ps) /\ UNCHANGED <<chain, mempool, night, idle, dust, store, scoped>> /\ UNCHANGED boots
    BY <1>3 DEF Start
  <2>2. RunsInv'
    BY <2>1, LaunchKeeps
  <2>3. EndedStay
    BY <1>1, <2>1, EndedRunsStayAtLaunch
  <2>4. PICK members : members = (Len(run) + 1)..(Len(run) + Len(ps))
    OBVIOUS
  <2>5. members \subseteq Runs'
    <3>1. run' = run \o ps
      BY <2>1 DEF Launch
    <3>2. PICK n \in Nat : n = Len(run)
      BY <1>1, LenProperties DEF RunsAreTyped
    <3>3. PICK m \in Nat : m = Len(ps)
      BY LenProperties
    <3>4. Len(run') = n + m
      <4>1. PICK T : T = RunRecords \cup Processes
        OBVIOUS
      <4>2. run \in Seq(T) /\ ps \in Seq(T)
        BY <1>1, <4>1, SeqMonotonic DEF RunsAreTyped
      <4> QED BY <3>1, <3>2, <3>3, <4>2, ConcatProperties
    <3> QED BY <2>4, <3>2, <3>3, <3>4 DEF Runs
  <2>6. Adds(kind, members, "running", "up", whole)
    BY <1>3, <2>1, <2>4, <2>5 DEF Start, Adds
  <2>7. RunsAreTyped'
    BY <2>2 DEF RunsInv
  <2> QED BY <1>1, <2>2, <2>3, <2>6, <2>7, JobsAdd
<1>4. ASSUME NEW kind \in Kinds, StartFails(kind) PROVE RunsInv' /\ JobsInv'
  <2>1. UNCHANGED <<runVars, boots>>
    BY <1>4 DEF StartFails
  <2>2. RunsInv' /\ RunsAreTyped'
    BY <2>1, RunsStutter DEF RunsInv
  <2>3. EndedStay
    BY <2>1 DEF EndedStay, runVars, Runs
  <2>4. Adds(kind, {}, "failed", "over", FALSE)
    BY <1>4, <2>1 DEF StartFails, Adds
  <2> QED BY <1>1, <2>2, <2>3, <2>4, JobsAdd
<1> QED BY <1>2, <1>3, <1>4 DEF Starts

-----------------------------------------------------------------------------
(* The theorems.                                                           *)

MidnightInv == RunsInv /\ JobsInv

\* Whatever processes and jobs are started, in any order, and however their steps interleave, the invariant of the
\* processes and that of the job table hold (midnight-tx.ts, wallet.ts, dust.ts, run-all.ts, midnightSetup.ts).
THEOREM MidnightInductive == MidnightSpec => []MidnightInv
<1>1. RunsInit /\ JobsInit => MidnightInv
  <2> SUFFICES ASSUME RunsInit, JobsInit PROVE MidnightInv
    OBVIOUS
  <2>1. RunsInv
    BY RunsBegin
  <2>2. job = <<>> /\ boots = 0 /\ MaxJobs \in Nat
    BY JobsAssumption DEF JobsInit
  <2>3. job \in Seq(JobRecords) /\ DOMAIN job = {}
    BY <2>2, EmptySeq
  <2>4. Listed(job) = {} /\ Cardinality({}) = 0
    BY <2>3, FS_EmptySet DEF Listed
  <2> QED BY <2>1, <2>2, <2>3, <2>4 DEF MidnightInv, JobsInv
<1>2. ASSUME MidnightInv, [(RunsNext /\ UNCHANGED jobVars) \/ JobsNext \/ Starts]_<<runVars, jobVars>>
      PROVE  MidnightInv'
  <2>1. RunsInv /\ JobsInv /\ RunsAreTyped
    BY <1>2 DEF MidnightInv, RunsInv
  <2>2. CASE RunsNext /\ UNCHANGED jobVars
    <3>1. RunsInv'
      BY <2>1, <2>2, RunsStep
    <3>2. EndedStay
      BY <2>1, <2>2, EndedRunsStay
    <3> QED BY <2>1, <2>2, <3>1, <3>2, JobsStay DEF MidnightInv
  <2>3. CASE JobsNext
    <3>1. UNCHANGED runVars
      BY <2>3 DEF JobsNext, ApiRestarts, ParentEnds, ParentDies
    <3> QED BY <2>1, <2>3, <3>1, RunsStutter, ParentsKeep DEF MidnightInv
  <2>4. CASE Starts
    BY <2>1, <2>4, StartsKeep DEF MidnightInv
  <2>5. CASE UNCHANGED <<runVars, jobVars>>
    <3>1. UNCHANGED runVars /\ UNCHANGED jobVars
      BY <2>5
    <3>2. EndedStay
      BY <3>1 DEF EndedStay, runVars, Runs
    <3> QED BY <2>1, <3>1, <3>2, RunsStutter, JobsStay DEF MidnightInv
  <2> QED BY <1>2, <2>2, <2>3, <2>4, <2>5
<1> QED BY <1>1, <1>2, PTL DEF MidnightSpec

\* Runs of one wallet come in each other's way only when they overlap (wallet.ts:269-311).
THEOREM RefusalsTakeAnOverlap == MidnightSpec => []RefusedTakesAnOverlap
<1>1. ASSUME MidnightInv PROVE RefusedTakesAnOverlap
  <2> SUFFICES ASSUME NEW r \in DOMAIN run, run[r].why = "refused" PROVE \E q \in run[r].rivals : q \notin run[r].over
    BY DEF RefusedTakesAnOverlap
  <2>1. r \in Runs
    BY <1>1, LenProperties DEF MidnightInv, RunsInv, RunsAreTyped, Runs
  <2> QED BY <1>1, <2>1 DEF MidnightInv, RunsInv, OverlapOK
<1> QED BY <1>1, MidnightInductive, PTL

\* What the ledger holds of a process are the first of its transactions, each seen before the next was built
\* (midnight-tx.ts, run-all.ts): also when it fails, is killed, or others spend from its wallet.
THEOREM LedgerHoldsAPrefix == MidnightSpec => []OnChainIsAPrefix
<1>1. ASSUME MidnightInv PROVE OnChainIsAPrefix
  <2>1. RunsInv /\ RunsAreTyped /\ Runs = DOMAIN run
    BY <1>1, LenProperties DEF MidnightInv, RunsInv, RunsAreTyped, Runs
  <2>2. ASSUME NEW r \in Runs
        PROVE  /\ run[r] \in RunRecords /\ PlaceOK(r) /\ landed[r] \subseteq Nat
               /\ DOMAIN run[r].program = 1..Len(run[r].program) /\ Len(run[r].program) \in Nat
    <3>1. run[r] \in RunRecords /\ run[r].program \in Programs
      BY <2>1, RunsTyped
    <3>2. run[r].program \in Seq(Instructions)
      BY <3>1 DEF Programs
    <3>3. PlaceOK(r)
      BY <2>1 DEF RunsInv
    <3> QED BY <3>1, <3>2, <3>3, LenProperties DEF PlaceOK
  <2>3. RunsTypeOK
    <3>1. ASSUME NEW t \in mempool PROVE t.run \in DOMAIN run /\ t.pc \notin landed[t.run]
      <4>1. t.run \in Runs /\ t.pc \in Mine(t.run)
        BY <2>1, OutIs
      <4> QED BY <2>1, <2>2, <4>1 DEF PlaceOK
    <3>2. DOMAIN landed = DOMAIN run /\ DOMAIN onchain = DOMAIN run
      BY <2>1, LenProperties DEF RunsAreTyped
    <3>3. dust \cup idle \subseteq night
      BY <2>1 DEF RunsAreTyped
    <3>4. ASSUME NEW r \in DOMAIN run
          PROVE  /\ run[r].program \in Programs /\ run[r].pc \in DOMAIN run[r].program
                 /\ run[r].phase \in Phases /\ run[r].why \in Whys
                 /\ \A w \in Wallets : run[r].view[w] <= Height(w)
      BY <2>1, <2>2 DEF PlaceOK, RunRecords
    <3> QED BY <3>1, <3>2, <3>3, <3>4 DEF RunsTypeOK, Phases, Whys
  <2>4. ASSUME NEW r \in DOMAIN run
        PROVE  /\ {i \in CallsOf(r) : i < run[r].pc} \subseteq landed[r]
               /\ landed[r] \cap CallsOf(r) \subseteq 1..run[r].pc
               /\ run[r].phase = "done" => CallsOf(r) \subseteq landed[r]
    BY <2>1, <2>2 DEF PlaceOK, CallsOf, Op
  <2> QED BY <2>3, <2>4 DEF OnChainIsAPrefix
<1> QED BY <1>1, MidnightInductive, PTL

\* The private inputs of another process get into a contract, or stop a process, only through a shared store
\* (midnight-parallel-cli.ts:2-3).
THEOREM OthersMisleadThroughTheStore == MidnightSpec => []OnlyIntrudersMislead
<1>1. ASSUME MidnightInv PROVE OnlyIntrudersMislead
  <2>1. RunsInv /\ Runs = DOMAIN run
    BY <1>1, LenProperties DEF MidnightInv, RunsInv, RunsAreTyped, Runs
  <2>2. \A r \in DOMAIN run : ContractsOK(r)
    BY <2>1 DEF RunsInv
  <2>3. TagsAreOwn
    BY <2>1, <2>2 DEF TagsAreOwn, ContractsOK, Tagged, Intruded
  <2>4. MismatchTakesAnIntruder
    BY <2>1, <2>2 DEF MismatchTakesAnIntruder, ContractsOK, Intruded
  <2> QED BY <2>3, <2>4 DEF OnlyIntrudersMislead
<1> QED BY <1>1, MidnightInductive, PTL

\* A job that the API calls completed has started all its workers and has all its transactions on the ledger; one that has
\* ended leaves nobody at work, unless it is a split or a worker could not be started; and one that the API does not list
\* any more was pushed out by newer ones (midnightSetup.ts:40-96).
THEOREM JobTableIsTrue == MidnightSpec => []TableTellsTheTruth
<1>1. ASSUME MidnightInv PROVE TableTellsTheTruth
  <2>1. RunsInv /\ RunsAreTyped /\ JobsInv
    BY <1>1 DEF MidnightInv, RunsInv
  <2>2. ASSUME NEW j \in DOMAIN job, job[j].status = "completed", NEW r \in job[j].members
        PROVE  job[j].whole /\ run[r].phase = "done" /\ CallsOf(r) \subseteq landed[r]
    <3>1. r \in Runs /\ run[r].phase = "done" /\ job[j].whole
      BY <2>1, <2>2 DEF JobsInv, JobOK
    <3>2. PlaceOK(r) /\ run[r].program \in Seq(Instructions)
      BY <2>1, <3>1, RunsTyped DEF RunsInv, RunRecords, Programs
    <3> QED BY <3>1, <3>2, LenProperties DEF PlaceOK, CallsOf, Op
  <2>3. CompletedMeansSealed
    BY <2>1, <2>2 DEF CompletedMeansSealed, JobsInv, JobOK
  <2>4. EndedJobsLeaveNobody
    BY <2>1 DEF EndedJobsLeaveNobody, JobsInv, JobOK
  <2>5. ForgottenWasPushedOut
    BY <2>1 DEF ForgottenWasPushedOut, JobsInv, JobOK, Newer
  <2> QED BY <2>3, <2>4, <2>5 DEF TableTellsTheTruth
<1> QED BY <1>1, MidnightInductive, PTL
=============================================================================
