--------------------------- MODULE StoresProofs ----------------------------
(***************************************************************************)
(* Theorems about what the server keeps: the index of the trades, and the  *)
(* margin pool on L1.                                                      *)
(***************************************************************************)
EXTENDS TradeIndex, MarginPool, ListsAndSums

-----------------------------------------------------------------------------
(***************************************************************************)
(* TradeIndex, for any number of pipelines and completions of any kinds,   *)
(* with any interleaving of their reads and writes.                        *)
(***************************************************************************)

-----------------------------------------------------------------------------
(* Looking up an entry and replacing it.                                   *)

\* The place found is that of an entry with the id, and is found if there is one.
LEMMA PlaceFound ==
  ASSUME NEW store \in Seq(Entry), NEW t
  PROVE  /\ PlaceOf(store, t) \in 0..Len(store)
         /\ PlaceOf(store, t) # 0 => store[PlaceOf(store, t)].id = t
         /\ PlaceOf(store, t) = 0 => \A i \in 1..Len(store) : store[i].id # t
<1> DEFINE I == {i \in 1..Len(store) : store[i].id = t}
<1>1. PlaceOf(store, t) = IF I # {} THEN Min(I) ELSE 0
  BY DEF PlaceOf, SelectInSeq
<1>2. ASSUME I # {} PROVE Min(I) \in I
  <2>1. I \in SUBSET Nat
    BY LenProperties
  <2> HIDE DEF I
  <2> QED BY <1>2, <2>1, LeastOf
<1>3. Len(store) \in Nat
  BY LenProperties
<1>4. CASE I = {}
  BY <1>1, <1>3, <1>4
<1>5. CASE I # {}
  <2>1. PlaceOf(store, t) \in I
    BY <1>1, <1>2, <1>5
  <2> QED BY <1>3, <2>1
<1> QED BY <1>4, <1>5

\* Replacing an entry by one with its id leaves the ids and the other entries.
LEMMA PatchedStore ==
  ASSUME NEW store \in Seq(Entry), NEW e \in Entry, PlaceOf(store, e.id) # 0
  PROVE  /\ Patched(store, e) \in Seq(Entry)
         /\ Len(Patched(store, e)) = Len(store)
         /\ \A i \in 1..Len(store) :
              /\ Patched(store, e)[i] = IF i = PlaceOf(store, e.id) THEN e ELSE store[i]
              /\ Patched(store, e)[i].id = store[i].id
<1> DEFINE p == PlaceOf(store, e.id)
<1>1. p \in 1..Len(store) /\ store[p].id = e.id /\ Len(store) \in Nat
  BY PlaceFound, LenProperties
<1>2. Patched(store, e) = [store EXCEPT ![p] = e]
  BY DEF Patched
<1> HIDE DEF p
<1>3. DOMAIN store = 1..Len(store)
  BY LenProperties
<1>4. Patched(store, e) \in Seq(Entry) /\ Len(Patched(store, e)) = Len(store)
  BY <1>1, <1>2, ExceptSeq
<1> QED BY <1>1, <1>2, <1>3, <1>4 DEF p

-----------------------------------------------------------------------------
(* The invariant.                                                          *)

\* The pipeline has read the file to put its entry into it.
Born(t) == at[t] # "new" /\ ~ (at[t] = "append" /\ io[t] = "read")

Confirmed(t) ==
  \/ verdict[t] = "confirmed"
  \/ \E c \in Completions : verdict[c] = "confirmed" /\ about[c][1].id = t

TrueEntry(e) ==
  /\ Born(e.id) /\ e.has \subseteq got[e.id]
  /\ e.error => at[e.id] \in {"error", "failed"}
  /\ e.status = "confirmed" =>
       got[e.id] = Hashes /\ {"pull", "anchor"} \subseteq e.has /\ Confirmed(e.id)

\* What is or was in the file, or is about to be.
TrueStore(store) ==
  \A i \in DOMAIN store :
    /\ TrueEntry(store[i])
    /\ \A j \in DOMAIN store : store[j].id = store[i].id => i = j

\* Where a pipeline is and what it has decided fit its kind.
PipelineFits(t) ==
  /\ at[t] \in {"new", "append", "log", "bind", "pull", "anchor", "final", "error", "ok", "failed"}
  /\ at[t] = "new" => flow[t] = "none"
  /\ at[t] # "new" => flow[t] \in AllIndexKinds
  /\ at[t] = "pull" => flow[t] = "sequential"
  /\ at[t] = "anchor" => flow[t] # "userpays"
  /\ at[t] \in {"final", "ok"} =>
       verdict[t] \in Statuses /\ (verdict[t] = "confirmed" => got[t] = Hashes)
  /\ verdict[t] # "none" => at[t] \in {"final", "ok"}
  /\ at[t] \in Done => io[t] = "none"

\* A completion is about an entry that was true, and confirms what is bound.
CompletionFits(c) ==
  /\ at[c] \in {"new", "refused", "visible", "complete", "ok"}
  /\ at[c] \in {"visible", "complete", "ok"} =>
       /\ Len(about[c]) = 1
       /\ Born(about[c][1].id) /\ about[c][1].has \subseteq got[about[c][1].id]
  /\ at[c] \in {"complete", "ok"} =>
       /\ verdict[c] \in {"pending", "confirmed"}
       /\ {"pull", "anchor"} \subseteq got[about[c][1].id]
       /\ verdict[c] = "confirmed" => got[about[c][1].id] = Hashes
  /\ at[c] \in {"new", "refused", "visible"} => verdict[c] = "none"
  /\ at[c] # "complete" => io[c] = "none"

IndexInv ==
  /\ IndexTypeOK
  /\ TrueStore(index) /\ \A w \in Writers : TrueStore(buf[w])
  /\ \A t \in Trades : PipelineFits(t)
  /\ \A c \in Completions : CompletionFits(c)

\* No chunk was run and no completion accepted.
Calm ==
  /\ \A t \in Trades : flow[t] # "batch"
  /\ \A c \in Completions : at[c] \in {"new", "refused"}

\* The update that a pipeline is at is not yet in what it is about to write.
Unread(t) == io[t] = "read"

\* The store has what pipeline t has done so far.
Tells(store, t) ==
  Born(t) =>
    \E i \in DOMAIN store :
      /\ store[i].id = t
      /\ store[i].has = got[t] \/ (at[t] \in {"bind", "pull", "anchor"} /\ Unread(t))
      /\ store[i].error = (at[t] = "failed" \/ (at[t] = "error" /\ ~ Unread(t)))
      /\ store[i].status = IF at[t] = "ok" \/ (at[t] = "final" /\ ~ Unread(t))
                             THEN verdict[t] ELSE "pending"

Writing(t) == io[t] \in {"open", "land"}

CalmInv ==
  /\ \A t, u \in Trades : t # u => at[t] \in Done \/ at[u] \in Done
  /\ \A t \in Trades : at[t] \in {"new", "append", "log"} => got[t] = {}
  /\ file = IF \E t \in Trades : io[t] = "land" THEN "truncated" ELSE "whole"
  /\ (\A t \in Trades : ~ Writing(t)) => \A t \in Trades : Tells(index, t)
  /\ \A w \in Trades : Writing(w) => \A t \in Trades : Tells(buf[w], t)

\* The index of a fresh server is true.
LEMMA InitIndexInv == IndexInit => IndexInv /\ CalmInv
<1> SUFFICES ASSUME IndexInit PROVE IndexInv /\ CalmInv
  OBVIOUS
<1>1. <<>> \in Seq(Entry) /\ DOMAIN <<>> = {}
  BY EmptySeq, LenProperties
<1>2. IndexTypeOK
  BY <1>1, WritersAssumption DEF IndexInit, IndexTypeOK, Writers, IndexStages
<1>3. TrueStore(index) /\ \A w \in Writers : TrueStore(buf[w])
  BY <1>1 DEF IndexInit, TrueStore
<1>4. \A t \in Trades : PipelineFits(t)
  BY DEF IndexInit, PipelineFits, Writers, Done
<1>5. \A c \in Completions : CompletionFits(c)
  BY DEF IndexInit, CompletionFits, Writers
<1>6. CalmInv
  BY <1>1 DEF IndexInit, CalmInv, Writers, Done, Born, Tells, Writing
<1> QED BY <1>2, <1>3, <1>4, <1>5, <1>6 DEF IndexInv

-----------------------------------------------------------------------------
(* What is true of an entry stays true.                                    *)

\* The update after the one that is done.
LEMMA GoesOnIs ==
  ASSUME NEW t, flow[t] \in AllIndexKinds,
         at[t] \in {"append", "log", "bind", "pull", "anchor"},
         at[t] = "pull" => flow[t] = "sequential",
         at[t] = "anchor" => flow[t] # "userpays"
  PROVE  GoesOn(t) = CASE at[t] = "append" -> "log"
                       [] at[t] = "log"    -> "bind"
                       [] at[t] = "bind"   -> IF flow[t] = "sequential" THEN "pull"
                                              ELSE IF flow[t] = "userpays" THEN "final" ELSE "anchor"
                       [] at[t] = "pull"   -> "anchor"
                       [] at[t] = "anchor" -> "final"
<1>1. CASE flow[t] = "sequential"
  <2> DEFINE u == <<"append", "log", "bind", "pull", "anchor", "final">>
  <2>1. GoesOn(t) = u[1 + CHOOSE i \in 1..5 : u[i] = at[t]]
    BY <1>1 DEF GoesOn, Updates
  <2>2. \A i \in 1..5 : u[i] = CASE i = 1 -> "append" [] i = 2 -> "log" [] i = 3 -> "bind"
                                 [] i = 4 -> "pull" [] i = 5 -> "anchor"
    OBVIOUS
  <2>3. \E i \in 1..5 : u[i] = at[t]
    OBVIOUS
  <2>4. PICK i \in 1..5 : i = CHOOSE j \in 1..5 : u[j] = at[t]
    BY <2>3
  <2>5. u[i] = at[t]
    BY <2>3, <2>4
  <2>6. u[1 + i] = CASE i = 1 -> "log" [] i = 2 -> "bind" [] i = 3 -> "pull"
                     [] i = 4 -> "anchor" [] i = 5 -> "final"
    OBVIOUS
  <2>7. GoesOn(t) = u[1 + i]
    BY <2>1, <2>4
  <2> HIDE DEF u
  <2> QED BY <1>1, <2>2, <2>5, <2>6, <2>7
<1>2. CASE flow[t] = "userpays"
  <2> DEFINE u == <<"append", "log", "bind", "final">>
  <2>1. GoesOn(t) = u[1 + CHOOSE i \in 1..3 : u[i] = at[t]]
    BY <1>2 DEF GoesOn, Updates
  <2>2. \A i \in 1..3 : u[i] = CASE i = 1 -> "append" [] i = 2 -> "log" [] i = 3 -> "bind"
    OBVIOUS
  <2>3. \E i \in 1..3 : u[i] = at[t]
    BY <1>2
  <2>4. PICK i \in 1..3 : i = CHOOSE j \in 1..3 : u[j] = at[t]
    BY <2>3
  <2>5. u[i] = at[t]
    BY <2>3, <2>4
  <2> QED BY <1>2, <2>1, <2>2, <2>4, <2>5
<1>3. CASE flow[t] \in {"overlapped", "batch"}
  <2> DEFINE u == <<"append", "log", "bind", "anchor", "final">>
  <2>1. GoesOn(t) = u[1 + CHOOSE i \in 1..4 : u[i] = at[t]]
    BY <1>3 DEF GoesOn, Updates
  <2>2. \A i \in 1..4 : u[i] = CASE i = 1 -> "append" [] i = 2 -> "log" [] i = 3 -> "bind"
                                 [] i = 4 -> "anchor"
    OBVIOUS
  <2>3. \E i \in 1..4 : u[i] = at[t]
    BY <1>3
  <2>4. PICK i \in 1..4 : i = CHOOSE j \in 1..4 : u[j] = at[t]
    BY <2>3
  <2>5. u[i] = at[t]
    BY <2>3, <2>4
  <2> QED BY <1>3, <2>1, <2>2, <2>4, <2>5
<1> QED BY <1>1, <1>2, <1>3 DEF AllIndexKinds

\* A pipeline's entry does not vanish from the past, its hashes are kept, its
\* failure is final and a confirmation stands.
Later ==
  \A t \in Trades :
    /\ Born(t) => Born(t)'
    /\ got[t] \subseteq got'[t]
    /\ at[t] \in {"error", "failed"} => at'[t] \in {"error", "failed"}
    /\ Confirmed(t) => Confirmed(t)'

\* Steps that leave the file and the writes under way alone.
LEMMA StepsLater == IndexInv /\ IndexNext => Later
<1> SUFFICES ASSUME IndexInv, IndexNext, NEW t \in Trades
             PROVE  /\ Born(t) => Born(t)'
                    /\ got[t] \subseteq got'[t]
                    /\ at[t] \in {"error", "failed"} => at'[t] \in {"error", "failed"}
                    /\ Confirmed(t) => Confirmed(t)'
  BY DEF Later
<1> USE DEF Writers
<1>0. /\ at \in [Trades \cup Completions -> IndexStages]
      /\ io \in [Trades \cup Completions -> {"none", "read", "open", "land"}]
      /\ got \in [Trades -> SUBSET Hashes]
      /\ verdict \in [Trades \cup Completions -> Statuses \cup {"none"}]
      /\ about \in [Completions -> Seq(Entry)]
      /\ Trades \cap Completions = {}
  BY WritersAssumption DEF IndexInv, IndexTypeOK
<1>f. PipelineFits(t) /\ \A c \in Completions : CompletionFits(c)
  BY DEF IndexInv
<1>1. CASE Admission
  <2>1. PICK k \in IndexKinds, C \in SUBSET Trades : Admit(C, k)
    BY <1>1 DEF Admission
  <2>2. /\ UNCHANGED <<got, verdict, about>>
        /\ at[t] # "new" => at'[t] = at[t] /\ io'[t] = io[t]
    BY <1>0, <2>1 DEF Admit
  <2> QED BY <2>2 DEF Born, Confirmed
<1>2. ASSUME NEW u \in Trades, Pipeline(u)
      PROVE  /\ Born(t) => Born(t)'
             /\ got[t] \subseteq got'[t]
             /\ at[t] \in {"error", "failed"} => at'[t] \in {"error", "failed"}
             /\ Confirmed(t) => Confirmed(t)'
  <2>f. PipelineFits(u)
    BY DEF IndexInv
  <2>1. CASE AppendPending(u)
    BY <1>0, <2>1 DEF AppendPending, Born, Confirmed
  <2>2. CASE UpdateEntry(u)
    BY <1>0, <2>2 DEF UpdateEntry, Update, Born, Confirmed
  <2>3. CASE Continue(u)
    <3>1. GoesOn(u) \notin {"new", "append"}
      BY <2>3, <2>f, GoesOnIs DEF Continue, PipelineFits
    <3>2. UNCHANGED about /\ at' = [at EXCEPT ![u] = GoesOn(u)] /\ io' = [io EXCEPT ![u] = "read"]
          /\ \E h \in Obtained(u) : got' = [got EXCEPT ![u] = @ \cup h]
      BY <2>3 DEF Continue, StartUpdate
    <3>3. verdict[u] = "none" /\ at[u] \notin {"error", "failed"}
      BY <1>0, <2>3, <2>f DEF Continue, PipelineFits
    <3>4. verdict' = verdict \/ \E s : verdict' = [verdict EXCEPT ![u] = s]
      BY <2>3 DEF Continue
    <3>5. \A w \in Trades \cup Completions : w # u => verdict'[w] = verdict[w]
      BY <1>0, <3>4
    <3>6. Confirmed(t) => Confirmed(t)'
      BY <1>0, <3>2, <3>3, <3>5 DEF Confirmed
    <3>7. Born(t) => Born(t)'
      BY <1>0, <3>1, <3>2 DEF Born
    <3>8. got[t] \subseteq got'[t]
      BY <1>0, <3>2
    <3>9. at[t] \in {"error", "failed"} => at'[t] \in {"error", "failed"}
      BY <1>0, <3>2, <3>3
    <3> QED BY <3>6, <3>7, <3>8, <3>9
  <2>4. CASE Catch(u)
    BY <1>0, <2>4 DEF Catch, StartUpdate, Born, Confirmed
  <2>5. CASE Answer(u)
    BY <1>0, <2>5 DEF Answer, Born, Confirmed
  <2> QED BY <1>2, <2>1, <2>2, <2>3, <2>4, <2>5 DEF Pipeline
<1>3. ASSUME NEW c \in Completions, Completion(c)
      PROVE  /\ Born(t) => Born(t)'
             /\ got[t] \subseteq got'[t]
             /\ at[t] \in {"error", "failed"} => at'[t] \in {"error", "failed"}
             /\ Confirmed(t) => Confirmed(t)'
  <2>0. c # t /\ c \notin Trades
    BY <1>0
  <2>1. UNCHANGED <<at[t], io[t], verdict[t]>>
    BY <1>0, <1>3, <2>0 DEF Completion, Check, ConfirmEntry, Complete, Update, AnswerCompletion, StartUpdate
  <2>2. got[t] \subseteq got'[t]
    <3>1. UNCHANGED got \/ \E i : got' = [got EXCEPT ![i] = @ \cup {"pull", "anchor"}]
      BY <1>3 DEF Completion, Check, ConfirmEntry, Complete, Update, AnswerCompletion
    <3> QED BY <1>0, <3>1
  <2>3. \A d \in Completions : verdict[d] # "none" => verdict'[d] = verdict[d] /\ about'[d] = about[d]
    <3>1. CASE Check(c)
      <4>1. UNCHANGED verdict /\ at[c] = "new" /\ (about' = about \/ \E i : about' = [about EXCEPT ![c] = i])
        BY <3>1 DEF Check
      <4>2. verdict[c] = "none"
        BY <1>f, <4>1 DEF CompletionFits
      <4> QED BY <1>0, <4>1, <4>2
    <3>2. CASE ConfirmEntry(c)
      <4>1. UNCHANGED about /\ at[c] = "visible" /\ \E s : verdict' = [verdict EXCEPT ![c] = s]
        BY <3>2 DEF ConfirmEntry
      <4>2. verdict[c] = "none"
        BY <1>f, <4>1 DEF CompletionFits
      <4> QED BY <1>0, <4>1, <4>2
    <3>3. CASE Complete(c) \/ AnswerCompletion(c)
      BY <3>3 DEF Complete, Update, AnswerCompletion
    <3> QED BY <1>3, <3>1, <3>2, <3>3 DEF Completion
  <2> QED BY <2>1, <2>2, <2>3 DEF Born, Confirmed
<1>4. ASSUME NEW w \in Trades \cup Completions, OpenFile(w) \/ FileWritten(w)
      PROVE  /\ Born(t) => Born(t)'
             /\ got[t] \subseteq got'[t]
             /\ at[t] \in {"error", "failed"} => at'[t] \in {"error", "failed"}
             /\ Confirmed(t) => Confirmed(t)'
  BY <1>0, <1>4 DEF OpenFile, FileWritten, Born, Confirmed
<1> QED BY <1>1, <1>2, <1>3, <1>4 DEF IndexNext

\* A store that was true is true.
LEMMA StoreStaysTrue ==
  ASSUME Later, got' \in [Trades -> SUBSET Hashes], NEW st \in Seq(Entry), TrueStore(st)
  PROVE  TrueStore(st)'
<1>1. \A i \in DOMAIN st : st[i] \in Entry
  BY ElementOfSeq, LenProperties
<1>2. ASSUME NEW e \in Entry, TrueEntry(e) PROVE TrueEntry(e)'
  <2>1. e.id \in Trades /\ got'[e.id] \subseteq Hashes
    BY DEF Entry
  <2> QED BY <1>2, <2>1 DEF Later, TrueEntry
<1> QED BY <1>1, <1>2 DEF TrueStore

\* An entry that is true is put in the place of another.
LEMMA PatchedIsTrue ==
  ASSUME NEW st \in Seq(Entry), TrueStore(st)', NEW e \in Entry, TrueEntry(e)',
         PlaceOf(st, e.id) # 0
  PROVE  TrueStore(Patched(st, e))'
<1> DEFINE q == Patched(st, e)
<1>1. /\ DOMAIN q = 1..Len(st) /\ DOMAIN st = 1..Len(st)
      /\ \A i \in 1..Len(st) : /\ q[i] = e \/ q[i] = st[i]
                               /\ q[i].id = st[i].id
  BY PatchedStore, LenProperties
<1> HIDE DEF q
<1>2. TrueStore(q)'
  BY <1>1 DEF TrueStore
<1> QED BY <1>2 DEF q

\* What a pipeline makes of its entry is an entry of it.
LEMMA PatchIsEntry ==
  ASSUME IndexInv, NEW t \in Trades, NEW e \in Entry, e.id = t, UpdateEntry(t)
  PROVE  Patch(t, e) \in Entry /\ Patch(t, e).id = t
<1>1. got[t] \subseteq Hashes /\ e.has \subseteq Hashes
  BY DEF IndexInv, IndexTypeOK, Entry
<1>2. at[t] = "final" => verdict[t] \in Statuses
  BY DEF IndexInv, PipelineFits
<1>3. CASE at[t] = "log"
  BY <1>3 DEF Patch
<1>4. CASE at[t] = "error"
  BY <1>4 DEF Patch, Entry
<1>5. CASE at[t] = "final"
  BY <1>1, <1>2, <1>5 DEF Patch, Entry
<1>6. CASE at[t] \notin {"log", "error", "final"}
  <2>1. Patch(t, e) = [e EXCEPT !.has = @ \cup got[t]]
    BY <1>6 DEF Patch
  <2> QED BY <1>1, <2>1 DEF Entry
<1> QED BY <1>3, <1>4, <1>5, <1>6

\* Types are kept.
LEMMA IndexStepType == IndexInv /\ IndexNext => IndexTypeOK'
<1> SUFFICES ASSUME IndexInv, IndexNext PROVE IndexTypeOK'
  OBVIOUS
<1>0. /\ IndexTypeOK /\ Trades \subseteq Writers /\ Completions \subseteq Writers
      /\ <<>> \in Seq(Entry)
  BY EmptySeq DEF IndexInv, Writers
<1>1. CASE Admission
  <2>1. PICK k \in IndexKinds, C \in SUBSET Trades : Admit(C, k)
    BY <1>1 DEF Admission
  <2>2. k \in AllIndexKinds
    BY IndexKindsAssumption
  <2> QED BY <1>0, <2>1, <2>2 DEF Admit, IndexTypeOK, IndexStages
<1>2. ASSUME NEW t \in Trades, Pipeline(t) PROVE IndexTypeOK'
  <2>1. CASE AppendPending(t)
    <3>1. <<NewEntry(t)>> \in Seq(Entry)
      <4>1. NewEntry(t) \in Entry
        BY DEF NewEntry, Entry, Statuses
      <4> QED BY <4>1
    <3>2. <<NewEntry(t)>> \o index \in Seq(Entry)
      BY <1>0, <3>1, ConcatProperties DEF IndexTypeOK
    <3> QED BY <1>0, <2>1, <3>2 DEF AppendPending, IndexTypeOK
  <2>2. CASE UpdateEntry(t)
    <3>1. PlaceOf(index, t) # 0 => Current(t) \in Entry /\ Current(t).id = t
      <4>1. index \in Seq(Entry)
        BY <1>0 DEF IndexTypeOK
      <4> QED BY <4>1, PlaceFound, ElementOfSeq, LenProperties DEF Current
    <3>2. PlaceOf(index, t) # 0 => Patched(index, Patch(t, Current(t))) \in Seq(Entry)
      BY <1>0, <2>2, <3>1, PatchIsEntry, PatchedStore DEF IndexTypeOK
    <3>3. /\ UNCHANGED <<index, file, flow, at, got, verdict, about>>
          /\ \/ io' = [io EXCEPT ![t] = "none"] /\ UNCHANGED buf
             \/ \E e \in Seq(Entry) : io' = [io EXCEPT ![t] = "open"] /\ buf' = [buf EXCEPT ![t] = e]
      BY <2>2, <3>2 DEF UpdateEntry, Update
    <3>4. io' \in [Writers -> {"none", "read", "open", "land"}]
      BY <1>0, <3>3 DEF IndexTypeOK
    <3>5. buf' \in [Writers -> Seq(Entry)]
      BY <1>0, <3>3 DEF IndexTypeOK
    <3> QED BY <1>0, <3>3, <3>4, <3>5 DEF IndexTypeOK
  <2>3. CASE Continue(t)
    <3>1. /\ GoesOn(t) \in {"log", "bind", "pull", "anchor", "final"}
          /\ flow[t] \in AllIndexKinds
      BY <2>3, GoesOnIs DEF IndexInv, PipelineFits, Continue
    <3>2. \A h \in Obtained(t) : h \subseteq Hashes
      BY <3>1 DEF Obtained, Hashes
    <3>3. \A s \in Verdicts(t, got[t]) : s \in Statuses
      BY DEF Verdicts, Statuses
    <3>4. got' \in [Trades -> SUBSET Hashes]
      <4>1. PICK h \in Obtained(t) : got' = [got EXCEPT ![t] = @ \cup h]
        BY <2>3 DEF Continue
      <4> QED BY <1>0, <3>2, <4>1 DEF IndexTypeOK
    <3>5. verdict' \in [Writers -> Statuses \cup {"none"}]
      <4>1. verdict' = verdict \/ \E s \in Statuses : verdict' = [verdict EXCEPT ![t] = s]
        BY <2>3, <3>3 DEF Continue
      <4> QED BY <1>0, <4>1 DEF IndexTypeOK
    <3> QED BY <1>0, <2>3, <3>1, <3>4, <3>5 DEF Continue, StartUpdate, IndexTypeOK, IndexStages
  <2>4. CASE Catch(t)
    BY <1>0, <2>4 DEF Catch, StartUpdate, IndexTypeOK, IndexStages
  <2>5. CASE Answer(t)
    BY <1>0, <2>5 DEF Answer, IndexTypeOK, IndexStages
  <2> QED BY <1>2, <2>1, <2>2, <2>3, <2>4, <2>5 DEF Pipeline
<1>3. ASSUME NEW c \in Completions, Completion(c) PROVE IndexTypeOK'
  <2>1. CASE Check(c)
    <3>1. \A i \in 1..Len(index) : index[i] \in Entry /\ <<index[i]>> \in Seq(Entry)
      <4>1. \A i \in 1..Len(index) : index[i] \in Entry
        BY <1>0, ElementOfSeq DEF IndexTypeOK
      <4> QED BY <4>1
    <3>2. PICK t \in Trades :
            \/ /\ PlaceOf(index, t) # 0
               /\ at' = [at EXCEPT ![c] = "visible"]
               /\ about' = [about EXCEPT ![c] = <<index[PlaceOf(index, t)]>>]
            \/ at' = [at EXCEPT ![c] = "refused"] /\ UNCHANGED about
      BY <2>1 DEF Check
    <3>3. PlaceOf(index, t) # 0 => PlaceOf(index, t) \in 1..Len(index)
      BY <1>0, PlaceFound, LenProperties DEF IndexTypeOK
    <3>4. UNCHANGED <<index, file, flow, io, buf, got, verdict>>
      BY <2>1 DEF Check
    <3>5. at' \in [Writers -> IndexStages]
      BY <1>0, <3>2 DEF IndexTypeOK, IndexStages
    <3>6. about' \in [Completions -> Seq(Entry)]
      <4>1. about \in [Completions -> Seq(Entry)]
        BY <1>0 DEF IndexTypeOK
      <4>2. about' = about \/ \E e \in Seq(Entry) : about' = [about EXCEPT ![c] = e]
        BY <3>1, <3>2, <3>3
      <4> QED BY <4>1, <4>2
    <3> QED BY <1>0, <3>4, <3>5, <3>6 DEF IndexTypeOK
  <2>2. CASE ConfirmEntry(c)
    <3>1. \E s \in Statuses : verdict' = [verdict EXCEPT ![c] = s]
      <4>1. PICK s \in {"pending"} \cup (IF "bind" \in about[c][1].has THEN {"confirmed"} ELSE {}) :
              verdict' = [verdict EXCEPT ![c] = s]
        BY <2>2 DEF ConfirmEntry
      <4> QED BY <4>1 DEF Statuses
    <3>2. got' \in [Trades -> SUBSET Hashes]
      <4>1. got' = [got EXCEPT ![about[c][1].id] = @ \cup {"pull", "anchor"}]
        BY <2>2 DEF ConfirmEntry
      <4>2. {"pull", "anchor"} \subseteq Hashes
        BY DEF Hashes
      <4> QED BY <1>0, <4>1, <4>2 DEF IndexTypeOK
    <3> QED BY <1>0, <2>2, <3>1, <3>2 DEF ConfirmEntry, StartUpdate, IndexTypeOK, IndexStages
  <2>3. CASE Complete(c)
    <3> DEFINE t == about[c][1].id
               e == [Current(t) EXCEPT !.has = @ \cup {"pull", "anchor"}, !.status = verdict[c]]
    <3>1. PlaceOf(index, t) # 0 => e \in Entry /\ e.id = t
      <4>1. index \in Seq(Entry)
        BY <1>0 DEF IndexTypeOK
      <4>2. PlaceOf(index, t) # 0 => Current(t) \in Entry /\ Current(t).id = t
        BY <4>1, PlaceFound, ElementOfSeq, LenProperties DEF Current
      <4>3. verdict[c] \in Statuses
        BY <2>3 DEF Complete, IndexInv, CompletionFits, Statuses
      <4> HIDE DEF t
      <4> QED BY <4>2, <4>3 DEF Entry, Hashes
    <3>2. Update(c, t, e)
      BY <2>3 DEF Complete
    <3> HIDE DEF t, e
    <3>3. PlaceOf(index, t) # 0 => Patched(index, e) \in Seq(Entry)
      BY <1>0, <3>1, PatchedStore DEF IndexTypeOK
    <3> QED BY <1>0, <3>2, <3>3 DEF Update, IndexTypeOK
  <2>4. CASE AnswerCompletion(c)
    BY <1>0, <2>4 DEF AnswerCompletion, IndexTypeOK, IndexStages
  <2> QED BY <1>3, <2>1, <2>2, <2>3, <2>4 DEF Completion
<1>4. ASSUME NEW w \in Writers, OpenFile(w) \/ FileWritten(w) PROVE IndexTypeOK'
  <2>1. CASE OpenFile(w)
    BY <1>0, <2>1 DEF OpenFile, IndexTypeOK
  <2>2. CASE FileWritten(w)
    <3>1. buf[w] \in Seq(Entry)
      BY <1>0 DEF IndexTypeOK
    <3>2. index' \in Seq(Entry) /\ file' \in {"whole", "truncated", "garbled"}
      BY <1>0, <2>2, <3>1 DEF FileWritten
    <3>3. io' = [io EXCEPT ![w] = "none"] /\ UNCHANGED <<flow, at, buf, got, verdict, about>>
      BY <2>2 DEF FileWritten
    <3> QED BY <1>0, <3>2, <3>3 DEF IndexTypeOK
  <2> QED BY <1>4, <2>1, <2>2
<1> QED BY <1>1, <1>2, <1>3, <1>4 DEF IndexNext

\* What a pipeline makes of its entry is true, as is what a completion makes of it.
LEMMA PatchIsTrue ==
  ASSUME IndexInv, NEW t \in Trades, NEW e \in Entry, e.id = t, TrueEntry(e), UpdateEntry(t)
  PROVE  TrueEntry(Patch(t, e))
<1>1. got[t] \subseteq Hashes /\ e.has \subseteq Hashes /\ PipelineFits(t)
  BY DEF IndexInv, IndexTypeOK, Entry
<1>2. CASE at[t] = "log"
  BY <1>2 DEF Patch
<1>3. CASE at[t] = "error"
  <2>1. Patch(t, e) = [e EXCEPT !.error = TRUE]
    BY <1>3 DEF Patch
  <2> QED BY <1>3, <2>1 DEF Entry, TrueEntry
<1>4. CASE at[t] = "final"
  <2>1. Patch(t, e) = [e EXCEPT !.has = @ \cup got[t], !.status = verdict[t]]
    BY <1>4 DEF Patch
  <2>2. verdict[t] = "confirmed" => got[t] = Hashes /\ Confirmed(t)
    BY <1>1, <1>4 DEF PipelineFits, Confirmed
  <2> QED BY <1>1, <2>1, <2>2 DEF Entry, TrueEntry, Hashes
<1>5. CASE at[t] \notin {"log", "error", "final"}
  <2>1. Patch(t, e) = [e EXCEPT !.has = @ \cup got[t]]
    BY <1>5 DEF Patch
  <2> QED BY <1>1, <2>1 DEF Entry, TrueEntry, Hashes
<1> QED BY <1>2, <1>3, <1>4, <1>5

\* An entry that is completed as was decided stays true.
LEMMA CompletedIsTrue ==
  ASSUME IndexInv, NEW c \in Completions, at[c] = "complete",
         NEW e \in Entry, e.id = about[c][1].id, TrueEntry(e)
  PROVE  LET p == [e EXCEPT !.has = @ \cup {"pull", "anchor"}, !.status = verdict[c]]
         IN  p \in Entry /\ p.id = e.id /\ TrueEntry(p)
<1> DEFINE p == [e EXCEPT !.has = @ \cup {"pull", "anchor"}, !.status = verdict[c]]
<1>1. /\ verdict[c] \in {"pending", "confirmed"} /\ {"pull", "anchor"} \subseteq got[e.id]
      /\ verdict[c] = "confirmed" => got[e.id] = Hashes
  BY DEF IndexInv, CompletionFits
<1>2. verdict[c] = "confirmed" => Confirmed(e.id)
  BY DEF Confirmed
<1>3. p \in Entry /\ p.id = e.id
  BY <1>1 DEF Entry, Statuses, Hashes
<1>4. /\ p.error = e.error /\ p.has = e.has \cup {"pull", "anchor"} /\ p.status = verdict[c]
  BY DEF Entry
<1> HIDE DEF p
<1>5. TrueEntry(p)
  BY <1>1, <1>2, <1>3, <1>4 DEF TrueEntry
<1> QED BY <1>3, <1>5 DEF p

\* The file, and each store about to be written, stays true.
LEMMA IndexStepTrue ==
  IndexInv /\ IndexNext => TrueStore(index)' /\ \A w \in Writers : TrueStore(buf[w])'
<1> SUFFICES ASSUME IndexInv, IndexNext
             PROVE  TrueStore(index)' /\ \A w \in Writers : TrueStore(buf[w])'
  OBVIOUS
<1>0. /\ index \in Seq(Entry) /\ \A w \in Writers : buf[w] \in Seq(Entry)
      /\ got' \in [Trades -> SUBSET Hashes] /\ Later
      /\ TrueStore(index) /\ \A w \in Writers : TrueStore(buf[w])
      /\ Trades \subseteq Writers /\ Completions \subseteq Writers
  BY IndexStepType, StepsLater DEF IndexInv, IndexTypeOK, Writers
<1>i. buf \in [Writers -> Seq(Entry)] /\ io \in [Writers -> {"none", "read", "open", "land"}]
  BY DEF IndexInv, IndexTypeOK
<1>a. ASSUME NEW st \in Seq(Entry), TrueStore(st) PROVE TrueStore(st)'
  BY <1>0, <1>a, StoreStaysTrue
<1>b. ASSUME NEW st, TrueStore(st)', index' = st PROVE TrueStore(index)'
  BY <1>b DEF TrueStore, TrueEntry, Born, Confirmed
<1>c. ASSUME NEW st, TrueStore(st)', NEW w, buf'[w] = st PROVE TrueStore(buf[w])'
  BY <1>c DEF TrueStore, TrueEntry, Born, Confirmed
<1>d. ASSUME index' = index PROVE TrueStore(index)'
  <2>1. PICK st : st = index
    OBVIOUS
  <2>2. TrueStore(st) /\ st \in Seq(Entry)
    BY <1>0, <2>1
  <2>3. TrueStore(st)'
    BY <1>a, <2>2
  <2> QED BY <1>b, <1>d, <2>1, <2>3
<1>e. ASSUME NEW w \in Writers, buf'[w] = buf[w] PROVE TrueStore(buf[w])'
  <2>1. PICK st : st = buf[w]
    OBVIOUS
  <2>2. TrueStore(st) /\ st \in Seq(Entry)
    BY <1>0, <2>1
  <2>3. TrueStore(st)'
    BY <1>a, <2>2
  <2> QED BY <1>c, <1>e, <2>1, <2>3
<1>f. ASSUME index' = <<>> PROVE TrueStore(index)'
  <2>1. <<>> \in Seq(Entry) /\ DOMAIN <<>> = {}
    BY EmptySeq, LenProperties
  <2> QED BY <1>f, <2>1 DEF TrueStore
<1>1. ASSUME NEW w \in Writers, NEW t, NEW e, Update(w, t, e),
             PlaceOf(index, t) # 0 => e \in Entry /\ e.id = t /\ TrueEntry(e)
      PROVE  TrueStore(index)' /\ \A v \in Writers : TrueStore(buf[v])'
  <2>1. index' = index
    BY <1>1 DEF Update
  <2>2. CASE PlaceOf(index, t) = 0
    BY <1>1, <1>d, <1>e, <2>1, <2>2 DEF Update
  <2>3. CASE PlaceOf(index, t) # 0
    <3>1. PICK st, f : st = index /\ f = e
      OBVIOUS
    <3>2. /\ st \in Seq(Entry) /\ TrueStore(st) /\ f \in Entry /\ TrueEntry(f)
          /\ PlaceOf(st, f.id) # 0 /\ buf' = [buf EXCEPT ![w] = Patched(st, f)]
      BY <1>0, <1>1, <2>3, <3>1 DEF Update
    <3>3. TrueStore(st)'
      BY <1>a, <3>2
    <3>4. TrueEntry(f)'
      <4>1. f.id \in Trades /\ got'[f.id] \subseteq Hashes
        BY <1>0, <3>2 DEF Entry
      <4> QED BY <1>0, <3>2, <4>1 DEF Later, TrueEntry
    <3>5. TrueStore(Patched(st, f))'
      BY <3>2, <3>3, <3>4, PatchedIsTrue
    <3>6. buf'[w] = Patched(st, f) /\ \A v \in Writers : v # w => buf'[v] = buf[v]
      BY <1>i, <3>2
    <3>7. TrueStore(buf[w])'
      <4>1. PICK q : q = Patched(st, f)
        OBVIOUS
      <4>2. TrueStore(q)'
        BY <3>5, <4>1
      <4> QED BY <1>c, <3>6, <4>1, <4>2
    <3> QED BY <1>d, <1>e, <2>1, <3>6, <3>7
  <2> QED BY <2>2, <2>3
<1>2. CASE Admission
  BY <1>2, <1>d, <1>e DEF Admission, Admit
<1>3. ASSUME NEW t \in Trades, Pipeline(t)
      PROVE  TrueStore(index)' /\ \A w \in Writers : TrueStore(buf[w])'
  <2>1. CASE AppendPending(t)
    <3>1. PICK st, e : st = index /\ e = NewEntry(t)
      OBVIOUS
    <3>2. e \in Entry /\ e.id = t /\ e.has = {} /\ e.error = FALSE /\ e.status = "pending"
      BY <3>1 DEF NewEntry, Entry, Statuses
    <3>3. TrueEntry(e)'
      <4>1. Born(t)'
        BY <1>i, <1>0, <2>1 DEF AppendPending, Born
      <4> QED BY <3>2, <4>1 DEF TrueEntry
    <3>4. TrueStore(st)' /\ TrueStore(st) /\ st \in Seq(Entry) /\ Len(st) \in Nat
      BY <1>0, <1>a, <3>1, LenProperties
    <3>5. \A i \in 1..Len(st) : st[i].id # t
      <4>1. ~ Born(t)
        BY <2>1 DEF AppendPending, Born
      <4>2. \A i \in 1..Len(st) : Born(st[i].id)
        BY <3>4, LenProperties DEF TrueStore, TrueEntry
      <4> QED BY <4>1, <4>2
    <3> DEFINE q == <<e>> \o st
    <3>6. /\ DOMAIN q = 1..(1 + Len(st)) /\ q[1] = e
          /\ \A i \in 2..(1 + Len(st)) : q[i] = st[i - 1] /\ i - 1 \in 1..Len(st)
      <4>1. <<e>> \in Seq(Entry) /\ Len(<<e>>) = 1 /\ <<e>>[1] = e
        BY <3>2
      <4>2. /\ Len(q) = 1 + Len(st) /\ q \in Seq(Entry)
            /\ \A i \in 1..Len(q) : q[i] = IF i <= 1 THEN <<e>>[i] ELSE st[i - 1]
        BY <3>4, <4>1, ConcatProperties
      <4>3. DOMAIN q = 1..Len(q)
        BY <4>2, LenProperties
      <4> HIDE DEF q
      <4> QED BY <3>4, <4>1, <4>2, <4>3
    <3>7. DOMAIN st = 1..Len(st)
      BY <3>4, LenProperties
    <3> HIDE DEF q
    <3>8. TrueStore(q)'
      <4>1. ASSUME NEW i \in DOMAIN q PROVE TrueEntry(q[i])'
        <5>1. CASE i = 1
          BY <3>3, <3>6, <5>1
        <5>2. CASE i # 1
          <6>1. i \in 2..(1 + Len(st))
            BY <3>4, <3>6, <5>2
          <6>2. q[i] = st[i - 1] /\ i - 1 \in DOMAIN st
            BY <3>6, <3>7, <6>1
          <6> QED BY <3>4, <6>2 DEF TrueStore
        <5> QED BY <5>1, <5>2
      <4>2. ASSUME NEW i \in DOMAIN q, NEW j \in DOMAIN q, q[j].id = q[i].id PROVE i = j
        <5>1. \A k \in DOMAIN q : k = 1 \/ (k \in 2..(1 + Len(st)) /\ q[k] = st[k - 1] /\ k - 1 \in 1..Len(st))
          BY <3>4, <3>6
        <5>2. \A k \in DOMAIN q : q[k].id = t => k = 1
          BY <3>5, <5>1
        <5>3. \A k, l \in 1..Len(st) : st[k].id = st[l].id => k = l
          BY <3>4, <3>7 DEF TrueStore
        <5>4. CASE i = 1 \/ j = 1
          BY <3>2, <3>6, <4>2, <5>2, <5>4
        <5>5. CASE i # 1 /\ j # 1
          <6>0. /\ q[i] = st[i - 1] /\ i - 1 \in 1..Len(st)
                /\ q[j] = st[j - 1] /\ j - 1 \in 1..Len(st)
            BY <5>1, <5>5
          <6>1. i - 1 = j - 1
            BY <4>2, <5>3, <6>0
          <6>2. i \in Int /\ j \in Int
            BY <3>4, <3>6
          <6> QED BY <6>1, <6>2
        <5> QED BY <5>4, <5>5
      <4> QED BY <4>1, <4>2 DEF TrueStore
    <3>9. buf' = [buf EXCEPT ![t] = q] /\ index' = index
      BY <2>1, <3>1 DEF AppendPending, q
    <3>10. TrueStore(buf[t])'
      <4>1. buf'[t] = q
        BY <1>0, <1>i, <3>9
      <4>2. PICK r : r = q
        OBVIOUS
      <4>3. TrueStore(r)'
        BY <3>8, <4>2
      <4> QED BY <1>c, <4>1, <4>2, <4>3
    <3> QED BY <1>d, <1>e, <1>i, <3>9, <3>10
  <2>2. CASE UpdateEntry(t)
    <3>1. PlaceOf(index, t) # 0 => Current(t) \in Entry /\ Current(t).id = t /\ TrueEntry(Current(t))
      BY <1>0, PlaceFound, ElementOfSeq, LenProperties DEF Current, TrueStore
    <3>2. PlaceOf(index, t) # 0 =>
            Patch(t, Current(t)) \in Entry /\ Patch(t, Current(t)).id = t /\ TrueEntry(Patch(t, Current(t)))
      BY <2>2, <3>1, PatchIsEntry, PatchIsTrue
    <3> QED BY <1>0, <1>1, <2>2, <3>2 DEF UpdateEntry
  <2>3. CASE Continue(t) \/ Catch(t) \/ Answer(t)
    BY <1>d, <1>e, <2>3 DEF Continue, Catch, Answer
  <2> QED BY <1>3, <2>1, <2>2, <2>3 DEF Pipeline
<1>4. ASSUME NEW c \in Completions, Completion(c)
      PROVE  TrueStore(index)' /\ \A w \in Writers : TrueStore(buf[w])'
  <2>1. CASE Complete(c)
    <3> DEFINE t == about[c][1].id
               e == [Current(t) EXCEPT !.has = @ \cup {"pull", "anchor"}, !.status = verdict[c]]
    <3>1. PlaceOf(index, t) # 0 => Current(t) \in Entry /\ Current(t).id = t /\ TrueEntry(Current(t))
      BY <1>0, PlaceFound, ElementOfSeq, LenProperties DEF Current, TrueStore
    <3>2. at[c] = "complete" /\ Update(c, t, e)
      BY <2>1 DEF Complete
    <3>3. PlaceOf(index, t) # 0 => e \in Entry /\ e.id = t /\ TrueEntry(e)
      BY <3>1, <3>2, CompletedIsTrue
    <3> HIDE DEF t, e
    <3> QED BY <1>0, <1>1, <3>2, <3>3
  <2>2. CASE Check(c) \/ ConfirmEntry(c) \/ AnswerCompletion(c)
    BY <1>d, <1>e, <2>2 DEF Check, ConfirmEntry, AnswerCompletion
  <2> QED BY <1>4, <2>1, <2>2 DEF Completion
<1>5. ASSUME NEW w \in Writers, OpenFile(w) \/ FileWritten(w)
      PROVE  TrueStore(index)' /\ \A v \in Writers : TrueStore(buf[v])'
  <2>1. \A v \in Writers : TrueStore(buf[v])'
    BY <1>5, <1>e DEF OpenFile, FileWritten
  <2>2. CASE index' = <<>>
    BY <1>f, <2>1, <2>2
  <2>3. CASE index' = buf[w]
    <3>1. PICK st : st = buf[w]
      OBVIOUS
    <3>2. TrueStore(st)'
      BY <1>0, <1>a, <3>1
    <3> QED BY <1>b, <2>1, <2>3, <3>1, <3>2
  <2> QED BY <1>5, <2>2, <2>3 DEF OpenFile, FileWritten
<1> QED BY <1>2, <1>3, <1>4, <1>5 DEF IndexNext

\* Where each pipeline is keeps fitting its kind.
LEMMA IndexStepPipelines == IndexInv /\ IndexNext => \A t \in Trades : PipelineFits(t)'
<1> SUFFICES ASSUME IndexInv, IndexNext, NEW t \in Trades PROVE PipelineFits(t)'
  OBVIOUS
<1> USE DEF Writers
<1>0. /\ at \in [Trades \cup Completions -> IndexStages]
      /\ io \in [Trades \cup Completions -> {"none", "read", "open", "land"}]
      /\ flow \in [Trades -> AllIndexKinds \cup {"none"}]
      /\ got \in [Trades -> SUBSET Hashes]
      /\ verdict \in [Trades \cup Completions -> Statuses \cup {"none"}]
      /\ Trades \cap Completions = {}
      /\ got[t] \subseteq got'[t] /\ got'[t] \subseteq Hashes
  BY IndexStepType, StepsLater, WritersAssumption DEF IndexInv, IndexTypeOK, Later
<1>f. PipelineFits(t)
  BY DEF IndexInv
<1>s. ASSUME UNCHANGED <<at[t], flow[t], verdict[t]>>, at[t] \in Done => UNCHANGED io[t]
      PROVE  PipelineFits(t)'
  BY <1>0, <1>f, <1>s DEF PipelineFits
<1>1. CASE Admission
  <2>1. PICK k \in IndexKinds, C \in SUBSET Trades : Admit(C, k)
    BY <1>1 DEF Admission
  <2>2. CASE t \in C
    <3>1. at[t] = "new" /\ at'[t] = "append" /\ flow'[t] = k /\ k \in AllIndexKinds /\ verdict' = verdict
      BY <1>0, <2>1, <2>2, IndexKindsAssumption DEF Admit
    <3> QED BY <1>f, <3>1 DEF PipelineFits, Done
  <2>3. CASE t \notin C
    BY <1>0, <1>s, <2>1, <2>3 DEF Admit
  <2> QED BY <2>2, <2>3
<1>2. ASSUME NEW u \in Trades, Pipeline(u) PROVE PipelineFits(t)'
  <2>1. CASE AppendPending(u)
    BY <1>0, <1>s, <2>1 DEF AppendPending, Done
  <2>2. CASE UpdateEntry(u)
    BY <1>0, <1>s, <2>2 DEF UpdateEntry, Update, Done
  <2>3. CASE Continue(u)
    <3>1. CASE u # t
      <4>1. verdict' = verdict \/ \E s : verdict' = [verdict EXCEPT ![u] = s]
        BY <2>3 DEF Continue
      <4> QED BY <1>0, <1>s, <2>3, <3>1, <4>1 DEF Continue, StartUpdate
    <3>2. CASE u = t
      <4>1. /\ at[t] \in {"append", "log", "bind", "pull", "anchor"}
            /\ at'[t] = GoesOn(t) /\ flow' = flow
        BY <1>0, <2>3, <3>2 DEF Continue, StartUpdate
      <4>2. flow[t] \in AllIndexKinds /\ verdict[t] = "none"
        BY <1>f, <4>1 DEF PipelineFits
      <4>3. GoesOn(t) = CASE at[t] = "append" -> "log"
                          [] at[t] = "log"    -> "bind"
                          [] at[t] = "bind"   -> IF flow[t] = "sequential" THEN "pull"
                                                 ELSE IF flow[t] = "userpays" THEN "final" ELSE "anchor"
                          [] at[t] = "pull"   -> "anchor"
                          [] at[t] = "anchor" -> "final"
        BY <1>f, <4>1, <4>2, GoesOnIs DEF PipelineFits
      <4>4. /\ at'[t] \in {"log", "bind", "pull", "anchor", "final"}
            /\ at'[t] = "pull" => flow[t] = "sequential"
            /\ at'[t] = "anchor" => flow[t] # "userpays"
        BY <1>f, <4>1, <4>2, <4>3 DEF PipelineFits
      <4>5. CASE GoesOn(t) = "final"
        <5>1. PICK s \in Verdicts(t, got[t]) : verdict' = [verdict EXCEPT ![t] = s]
          BY <2>3, <3>2, <4>5 DEF Continue
        <5>2. s \in Statuses /\ (s = "confirmed" => got[t] = Hashes)
          BY DEF Verdicts, Statuses
        <5>3. verdict'[t] = s
          BY <1>0, <5>1
        <5> QED BY <1>0, <4>1, <4>2, <4>4, <4>5, <5>2, <5>3 DEF PipelineFits, Done
      <4>6. CASE GoesOn(t) # "final"
        <5>1. verdict' = verdict
          BY <2>3, <3>2, <4>6 DEF Continue
        <5> QED BY <4>1, <4>2, <4>4, <4>6, <5>1 DEF PipelineFits, Done
      <4> QED BY <4>5, <4>6
    <3> QED BY <3>1, <3>2
  <2>4. CASE Catch(u)
    <3>1. CASE u = t
      BY <1>0, <1>f, <2>4, <3>1 DEF Catch, StartUpdate, PipelineFits, Done
    <3>2. CASE u # t
      BY <1>0, <1>s, <2>4, <3>2 DEF Catch, StartUpdate
    <3> QED BY <3>1, <3>2
  <2>5. CASE Answer(u)
    <3>1. CASE u = t
      BY <1>0, <1>f, <2>5, <3>1 DEF Answer, PipelineFits, Done
    <3>2. CASE u # t
      BY <1>0, <1>s, <2>5, <3>2 DEF Answer
    <3> QED BY <3>1, <3>2
  <2> QED BY <1>2, <2>1, <2>2, <2>3, <2>4, <2>5 DEF Pipeline
<1>3. ASSUME NEW c \in Completions, Completion(c) PROVE PipelineFits(t)'
  <2>0. c # t
    BY <1>0
  <2> QED BY <1>0, <1>s, <1>3, <2>0
          DEF Completion, Check, ConfirmEntry, Complete, Update, AnswerCompletion, StartUpdate
<1>4. ASSUME NEW w \in Trades \cup Completions, OpenFile(w) \/ FileWritten(w) PROVE PipelineFits(t)'
  <2>1. at[t] \in Done => io[t] = "none"
    BY <1>f DEF PipelineFits
  <2>2. at[t] \in Done => io'[t] = io[t]
    BY <1>0, <1>4, <2>1 DEF OpenFile, FileWritten
  <2> QED BY <1>s, <1>4, <2>2 DEF OpenFile, FileWritten
<1> QED BY <1>1, <1>2, <1>3, <1>4 DEF IndexNext

\* Each completion keeps being about an entry that is true.
LEMMA IndexStepCompletions == IndexInv /\ IndexNext => \A c \in Completions : CompletionFits(c)'
<1> SUFFICES ASSUME IndexInv, IndexNext, NEW c \in Completions PROVE CompletionFits(c)'
  OBVIOUS
<1> USE DEF Writers
<1>0. /\ at \in [Trades \cup Completions -> IndexStages]
      /\ io \in [Trades \cup Completions -> {"none", "read", "open", "land"}]
      /\ verdict \in [Trades \cup Completions -> Statuses \cup {"none"}]
      /\ about \in [Completions -> Seq(Entry)]
      /\ got \in [Trades -> SUBSET Hashes]
      /\ Trades \cap Completions = {} /\ Later
      /\ got' \in [Trades -> SUBSET Hashes]
  BY IndexStepType, StepsLater, WritersAssumption DEF IndexInv, IndexTypeOK
<1>f. CompletionFits(c)
  BY DEF IndexInv
<1>a. at[c] \in {"visible", "complete", "ok"} => about[c][1].id \in Trades
  <2>1. Len(about[c]) = 1 => about[c][1] \in Entry
    <3>1. about[c] \in Seq(Entry)
      BY <1>0
    <3>2. Len(about[c]) = 1 => 1 \in 1..Len(about[c])
      OBVIOUS
    <3> QED BY <3>1, <3>2, ElementOfSeq
  <2>2. \A e \in Entry : e.id \in Trades
    BY DEF Entry
  <2> QED BY <1>f, <2>1, <2>2 DEF CompletionFits
<1>s. ASSUME UNCHANGED <<at[c], verdict[c], about[c]>>, at[c] # "complete" => UNCHANGED io[c]
      PROVE  CompletionFits(c)'
  <2>1. at[c] \in {"visible", "complete", "ok"} =>
          /\ Born(about[c][1].id) => Born(about[c][1].id)'
          /\ got[about[c][1].id] \subseteq got'[about[c][1].id]
          /\ got'[about[c][1].id] \subseteq Hashes
    <3> DEFINE t == about[c][1].id
    <3>1. about'[c][1].id = t
      BY <1>s
    <3>2. ASSUME NEW u \in Trades PROVE (Born(u) => Born(u)') /\ got[u] \subseteq got'[u] /\ got'[u] \subseteq Hashes
      BY <1>0 DEF Later
    <3> QED BY <1>a, <3>1, <3>2 DEF Born
  <2>2. at[c] \in {"visible", "complete", "ok"} =>
          /\ Len(about'[c]) = 1 /\ Born(about[c][1].id)'
          /\ about'[c][1].has \subseteq got'[about'[c][1].id]
    BY <1>f, <1>s, <2>1 DEF CompletionFits
  <2>3. at[c] \in {"complete", "ok"} =>
          /\ {"pull", "anchor"} \subseteq got'[about'[c][1].id]
          /\ verdict[c] = "confirmed" => got'[about'[c][1].id] = Hashes
    <3>1. PICK x, y, z : x = got[about[c][1].id] /\ y = got'[about'[c][1].id] /\ z = {"pull", "anchor"}
      OBVIOUS
    <3>2. at[c] \in {"complete", "ok"} => x \subseteq y /\ y \subseteq Hashes
      BY <1>s, <2>1, <3>1
    <3>3. at[c] \in {"complete", "ok"} => z \subseteq x /\ (verdict[c] = "confirmed" => x = Hashes)
      BY <1>f, <3>1 DEF CompletionFits
    <3>4. at[c] \in {"complete", "ok"} => z \subseteq y /\ (verdict[c] = "confirmed" => y = Hashes)
      BY <3>2, <3>3
    <3> QED BY <3>1, <3>4
  <2> QED BY <1>f, <1>s, <2>2, <2>3 DEF CompletionFits
<1>1. CASE Admission
  <2>1. PICK k \in IndexKinds, C \in SUBSET Trades : Admit(C, k)
    BY <1>1 DEF Admission
  <2> QED BY <1>0, <1>s, <2>1 DEF Admit
<1>2. ASSUME NEW u \in Trades, Pipeline(u) PROVE CompletionFits(c)'
  <2>0. c # u
    BY <1>0
  <2>1. verdict' = verdict \/ \E s : verdict' = [verdict EXCEPT ![u] = s]
    BY <1>2 DEF Pipeline, AppendPending, UpdateEntry, Update, Continue, Catch, Answer
  <2>2. at' = at \/ \E s : at' = [at EXCEPT ![u] = s]
    BY <1>2 DEF Pipeline, AppendPending, UpdateEntry, Update, Continue, StartUpdate, Catch, Answer
  <2>3. io' = io \/ \E s : io' = [io EXCEPT ![u] = s]
    BY <1>2 DEF Pipeline, AppendPending, UpdateEntry, Update, Continue, StartUpdate, Catch, Answer
  <2>4. about' = about
    BY <1>2 DEF Pipeline, AppendPending, UpdateEntry, Update, Continue, Catch, Answer
  <2> QED BY <1>0, <1>s, <2>0, <2>1, <2>2, <2>3, <2>4
<1>3. ASSUME NEW d \in Completions, Completion(d) PROVE CompletionFits(c)'
  <2>1. CASE d # c
    <3>1. verdict' = verdict \/ \E s : verdict' = [verdict EXCEPT ![d] = s]
      BY <1>3 DEF Completion, Check, ConfirmEntry, Complete, Update, AnswerCompletion
    <3>2. at' = at \/ \E s : at' = [at EXCEPT ![d] = s]
      BY <1>3 DEF Completion, Check, ConfirmEntry, StartUpdate, Complete, Update, AnswerCompletion
    <3>3. io' = io \/ \E s : io' = [io EXCEPT ![d] = s]
      BY <1>3 DEF Completion, Check, ConfirmEntry, StartUpdate, Complete, Update, AnswerCompletion
    <3>4. about' = about \/ \E s : about' = [about EXCEPT ![d] = s]
      BY <1>3 DEF Completion, Check, ConfirmEntry, Complete, Update, AnswerCompletion
    <3> QED BY <1>0, <1>s, <2>1, <3>1, <3>2, <3>3, <3>4
  <2>2. CASE d = c /\ Check(c)
    <3>0. /\ at[c] = "new" /\ io' = io /\ got' = got /\ verdict' = verdict
          /\ io[c] = "none" /\ verdict[c] = "none"
      BY <1>f, <2>2 DEF Check, CompletionFits
    <3>1. PICK t \in Trades :
            \/ /\ PlaceOf(index, t) # 0
               /\ at' = [at EXCEPT ![c] = "visible"]
               /\ about' = [about EXCEPT ![c] = <<index[PlaceOf(index, t)]>>]
            \/ at' = [at EXCEPT ![c] = "refused"] /\ UNCHANGED about
      BY <2>2 DEF Check
    <3>2. CASE at' = [at EXCEPT ![c] = "refused"] /\ UNCHANGED about
      BY <1>0, <3>0, <3>2 DEF CompletionFits
    <3>3. CASE /\ PlaceOf(index, t) # 0
               /\ at' = [at EXCEPT ![c] = "visible"]
               /\ about' = [about EXCEPT ![c] = <<index[PlaceOf(index, t)]>>]
      <4>1. PICK e : e = index[PlaceOf(index, t)]
        OBVIOUS
      <4>2. e \in Entry /\ TrueEntry(e)
        <5>1. index \in Seq(Entry) /\ TrueStore(index)
          BY DEF IndexInv, IndexTypeOK
        <5>2. PlaceOf(index, t) \in 1..Len(index)
          BY <3>3, <5>1, PlaceFound, LenProperties
        <5> QED BY <4>1, <5>1, <5>2, ElementOfSeq, LenProperties DEF TrueStore
      <4>3. about'[c] = <<e>> /\ at'[c] = "visible"
        BY <1>0, <3>3, <4>1
      <4>4. Born(e.id) /\ e.has \subseteq got[e.id] /\ e.id \in Trades
        BY <4>2 DEF TrueEntry, Entry
      <4>5. Born(e.id)'
        BY <1>0, <4>4 DEF Later
      <4>6. Len(about'[c]) = 1 /\ about'[c][1] = e
        BY <4>3
      <4>7. Born(about[c][1].id)' /\ about'[c][1].has \subseteq got'[about'[c][1].id]
        BY <3>0, <4>4, <4>5, <4>6 DEF Born
      <4> QED BY <3>0, <4>3, <4>6, <4>7 DEF CompletionFits
    <3> QED BY <3>1, <3>2, <3>3
  <2>3. CASE d = c /\ ConfirmEntry(c)
    <3> DEFINE t == about[c][1].id
    <3>1. /\ at[c] = "visible" /\ about' = about
          /\ at' = [at EXCEPT ![c] = "complete"]
          /\ got' = [got EXCEPT ![t] = @ \cup {"pull", "anchor"}]
      BY <2>3 DEF ConfirmEntry, StartUpdate
    <3>2. PICK s \in {"pending"} \cup (IF "bind" \in about[c][1].has THEN {"confirmed"} ELSE {}) :
             verdict' = [verdict EXCEPT ![c] = s]
      BY <2>3 DEF ConfirmEntry
    <3>3. t \in Trades /\ Len(about[c]) = 1 /\ Born(t) /\ about[c][1].has \subseteq got[t]
      BY <1>a, <1>f, <3>1 DEF CompletionFits
    <3>4. got'[t] = got[t] \cup {"pull", "anchor"} /\ got'[t] \subseteq Hashes
      BY <1>0, <3>1, <3>3
    <3>5. at'[c] = "complete" /\ verdict'[c] = s
      BY <1>0, <3>1, <3>2
    <3>6. Born(about[c][1].id)'
      <4>1. ASSUME NEW u \in Trades, Born(u) PROVE Born(u)'
        BY <1>0, <4>1 DEF Later
      <4> QED BY <3>1, <3>3, <4>1 DEF Born
    <3>7. s = "confirmed" => got'[t] = Hashes
      BY <3>3, <3>4 DEF Hashes
    <3> QED BY <3>1, <3>3, <3>4, <3>5, <3>6, <3>7 DEF CompletionFits
  <2>4. CASE d = c /\ Complete(c)
    BY <1>0, <1>s, <2>4 DEF Complete, Update
  <2>5. CASE d = c /\ AnswerCompletion(c)
    <3>1. at[c] = "complete" /\ at'[c] = "ok" /\ io[c] = "none" /\ UNCHANGED <<io, got, verdict, about>>
      BY <1>0, <2>5 DEF AnswerCompletion
    <3>2. Born(about[c][1].id)'
      <4>1. ASSUME NEW u \in Trades, Born(u) PROVE Born(u)'
        BY <1>0, <4>1 DEF Later
      <4> QED BY <1>a, <1>f, <3>1, <4>1 DEF Born, CompletionFits
    <3> QED BY <1>f, <3>1, <3>2 DEF CompletionFits
  <2> QED BY <1>3, <2>1, <2>2, <2>3, <2>4, <2>5 DEF Completion
<1>4. ASSUME NEW w \in Trades \cup Completions, OpenFile(w) \/ FileWritten(w) PROVE CompletionFits(c)'
  <2>1. at[c] # "complete" => io[c] = "none"
    BY <1>f DEF CompletionFits
  <2>2. at[c] # "complete" => io'[c] = io[c]
    BY <1>0, <1>4, <2>1 DEF OpenFile, FileWritten
  <2> QED BY <1>s, <1>4, <2>2 DEF OpenFile, FileWritten
<1> QED BY <1>1, <1>2, <1>3, <1>4 DEF IndexNext

\* A step of nobody keeps the invariant.
LEMMA IndexStutters == IndexInv /\ UNCHANGED indexVars => IndexInv'
<1> SUFFICES ASSUME IndexInv, UNCHANGED indexVars PROVE IndexInv'
  OBVIOUS
<1>1. UNCHANGED <<index, file, flow, at, io, buf, got, verdict, about>>
  BY DEF indexVars
<1>2. IndexTypeOK'
  BY <1>1 DEF IndexInv, IndexTypeOK
<1>3. TrueStore(index)' /\ \A w \in Writers : TrueStore(buf[w])'
  BY <1>1 DEF IndexInv, TrueStore, TrueEntry, Born, Confirmed
<1>4. \A t \in Trades : PipelineFits(t)'
  BY <1>1 DEF IndexInv, PipelineFits
<1>5. \A c \in Completions : CompletionFits(c)'
  BY <1>1 DEF IndexInv, CompletionFits, Born
<1> QED BY <1>2, <1>3, <1>4, <1>5 DEF IndexInv

\* The invariant: what is in the file, in the buffer of every writer and in the
\* entry of every completion was true when it was read and is still true, for
\* what makes an entry true never becomes false.
THEOREM IndexInductive == IndexSpec => []IndexInv
<1>1. IndexInit => IndexInv
  BY InitIndexInv
<1>2. IndexInv /\ [IndexNext]_indexVars => IndexInv'
  <2>1. IndexInv /\ IndexNext => IndexInv'
    BY IndexStepType, IndexStepTrue, IndexStepPipelines, IndexStepCompletions DEF IndexInv
  <2> QED BY <2>1, IndexStutters
<1> QED BY <1>1, <1>2, PTL DEF IndexSpec

\* NeverLies: however reads and writes of .perps-order-index.json interleave, no
\* entry claims a hash, a failure or a confirmation its trade has not had.
THEOREM IndexNeverLies == IndexSpec => []NeverLies
<1>1. IndexInv => NeverLies
  BY DEF IndexInv, TrueStore, TrueEntry, Confirmed, NeverLies
<1> QED BY <1>1, IndexInductive, PTL

-----------------------------------------------------------------------------
(* Without a race.                                                         *)

\* No chunk was and no completion accepted if none is: both are remembered.
LEMMA CalmBefore == IndexInv /\ IndexNext /\ Calm' => Calm
<1> SUFFICES ASSUME IndexInv, IndexNext, Calm' PROVE Calm
  OBVIOUS
<1> USE DEF Writers
<1>0. /\ at \in [Trades \cup Completions -> IndexStages]
      /\ flow \in [Trades -> AllIndexKinds \cup {"none"}]
      /\ Trades \cap Completions = {}
  BY WritersAssumption DEF IndexInv, IndexTypeOK
<1>1. ASSUME NEW t \in Trades, flow[t] = "batch" PROVE flow'[t] = "batch"
  <2>1. CASE Admission
    <3>1. PICK k \in IndexKinds, C \in SUBSET Trades : Admit(C, k)
      BY <2>1 DEF Admission
    <3>2. at[t] # "new"
      BY <1>1 DEF IndexInv, PipelineFits
    <3> QED BY <1>1, <3>1, <3>2 DEF Admit
  <2>2. CASE ~ Admission
    <3>1. flow' = flow
      BY <2>2 DEF IndexNext, Pipeline, AppendPending, UpdateEntry, Update, Continue, Catch, Answer,
                  Completion, Check, ConfirmEntry, Complete, AnswerCompletion, OpenFile, FileWritten
    <3> QED BY <1>1, <3>1
  <2> QED BY <2>1, <2>2
<1>2. ASSUME NEW c \in Completions, at[c] \notin {"new", "refused"} PROVE at'[c] \notin {"new", "refused"}
  <2>1. CASE Admission
    <3>1. PICK k \in IndexKinds, C \in SUBSET Trades : Admit(C, k)
      BY <2>1 DEF Admission
    <3> QED BY <1>0, <1>2, <3>1 DEF Admit
  <2>2. ASSUME NEW u \in Trades, Pipeline(u) PROVE at'[c] = at[c]
    <3>1. at' = at \/ \E s : at' = [at EXCEPT ![u] = s]
      BY <2>2 DEF Pipeline, AppendPending, UpdateEntry, Update, Continue, StartUpdate, Catch, Answer
    <3> QED BY <1>0, <3>1
  <2>3. ASSUME NEW d \in Completions, Completion(d) PROVE at'[c] \notin {"new", "refused"}
    BY <1>0, <1>2, <2>3 DEF Completion, Check, ConfirmEntry, StartUpdate, Complete, Update, AnswerCompletion
  <2>4. ASSUME NEW w \in Trades \cup Completions, OpenFile(w) \/ FileWritten(w) PROVE at' = at
    BY <2>4 DEF OpenFile, FileWritten
  <2> QED BY <1>2, <2>1, <2>2, <2>3, <2>4 DEF IndexNext
<1> QED BY <1>1, <1>2 DEF Calm

\* What the store tells of a pipeline that does nothing it still tells.
LEMMA TellsOn ==
  ASSUME NEW t, NEW st,
         UNCHANGED <<at[t], got[t], verdict[t]>>, Unread(t)' = Unread(t), Tells(st, t)
  PROVE  /\ index' = st => Tells(index, t)'
         /\ \A w : buf'[w] = st => Tells(buf[w], t)'
BY DEF Tells, Born, Unread

\* Of the pipeline that updates its entry, the store it is about to write tells
\* what is done.
LEMMA UpdateTells ==
  ASSUME IndexInv, NEW t \in Trades, UpdateEntry(t), Tells(index, t)
  PROVE  /\ io' = [io EXCEPT ![t] = "open"]
         /\ buf' = [buf EXCEPT ![t] = Patched(index, Patch(t, Current(t)))]
         /\ Patch(t, Current(t)) \in Entry /\ Patch(t, Current(t)).id = t
         /\ PlaceOf(index, t) # 0
         /\ Tells(buf[t], t)'
<1> DEFINE p == PlaceOf(index, t)
           e == index[p]
           q == Patch(t, e)
<1>0. /\ index \in Seq(Entry) /\ TrueStore(index) /\ t \in Writers
      /\ io \in [Writers -> {"none", "read", "open", "land"}]
      /\ buf \in [Writers -> Seq(Entry)] /\ DOMAIN index = 1..Len(index)
      /\ got[t] \subseteq Hashes
  BY LenProperties DEF IndexInv, IndexTypeOK, Writers
<1>1. at[t] \in {"log", "bind", "pull", "anchor", "final", "error"} /\ io[t] = "read"
      /\ UNCHANGED <<index, at, got, verdict>>
  BY DEF UpdateEntry, Update
<1>2. Born(t)
  BY <1>1 DEF Born
<1>3. PICK i \in DOMAIN index :
        /\ index[i].id = t
        /\ index[i].has = got[t] \/ at[t] \in {"bind", "pull", "anchor"}
        /\ index[i].error = FALSE /\ index[i].status = "pending"
  BY <1>1, <1>2 DEF Tells, Unread
<1>4. p # 0 /\ p \in 1..Len(index) /\ e.id = t /\ i = p
  <2>1. p # 0
    BY <1>0, <1>3, PlaceFound
  <2>2. p \in 1..Len(index) /\ e.id = t
    BY <1>0, <2>1, PlaceFound, LenProperties
  <2> QED BY <1>0, <1>3, <2>1, <2>2 DEF TrueStore
<1>5. e \in Entry /\ TrueEntry(e)
  BY <1>0, <1>4, ElementOfSeq DEF TrueStore
<1>6. q \in Entry /\ q.id = t
  BY <1>4, <1>5, PatchIsEntry
<1>7. e.has = got[t] \/ (e.has \subseteq got[t] /\ at[t] \in {"bind", "pull", "anchor"})
  BY <1>3, <1>4, <1>5 DEF TrueEntry
<1>8. /\ q.has = got[t] /\ q.error = (at[t] = "error")
      /\ q.status = IF at[t] = "final" THEN verdict[t] ELSE "pending"
  <2>0. e.error = FALSE /\ e.status = "pending" /\ (e.has \cup got[t] = got[t])
    BY <1>3, <1>4, <1>7
  <2> HIDE DEF e
  <2>1. CASE at[t] = "log"
    BY <1>7, <2>0, <2>1 DEF Patch
  <2>2. CASE at[t] = "error"
    BY <1>5, <1>7, <2>0, <2>2 DEF Patch, Entry
  <2>3. CASE at[t] = "final"
    BY <1>5, <1>7, <2>0, <2>3 DEF Patch, Entry
  <2>4. CASE at[t] \in {"bind", "pull", "anchor"}
    <3>1. q = [e EXCEPT !.has = @ \cup got[t]]
      BY <2>4 DEF Patch
    <3> QED BY <1>5, <2>0, <2>4, <3>1 DEF Entry
  <2> QED BY <1>1, <2>1, <2>2, <2>3, <2>4
<1>9. Current(t) = e /\ PlaceOf(index, q.id) = p
  BY <1>6 DEF Current
<1> HIDE DEF p, e, q
<1>10. io' = [io EXCEPT ![t] = "open"] /\ buf' = [buf EXCEPT ![t] = Patched(index, q)]
  BY <1>4, <1>9 DEF UpdateEntry, Update, p, q
<1>11. p \in DOMAIN Patched(index, q) /\ Patched(index, q)[p] = q
  <2>1. PlaceOf(index, q.id) # 0
    BY <1>4, <1>9
  <2>2. /\ Patched(index, q) \in Seq(Entry) /\ Len(Patched(index, q)) = Len(index)
        /\ Patched(index, q)[p] = q
    BY <1>0, <1>4, <1>6, <1>9, <2>1, PatchedStore
  <2> QED BY <1>4, <2>2, LenProperties
<1>12. Tells(buf[t], t)'
  <2>1. buf'[t] = Patched(index, q) /\ io'[t] = "open"
    BY <1>0, <1>10
  <2>2. p \in DOMAIN buf'[t] /\ buf'[t][p] = q
    BY <1>11, <2>1
  <2> QED BY <1>1, <1>6, <1>8, <2>1, <2>2 DEF Tells, Unread
<1> QED BY <1>4, <1>6, <1>9, <1>10, <1>12 DEF q, p

\* The pipeline that is not done is alone with the file.
LEMMA CalmStep == IndexInv /\ IndexNext /\ Calm /\ Calm' /\ CalmInv => CalmInv'
<1> SUFFICES ASSUME IndexInv, IndexNext, Calm, Calm', CalmInv PROVE CalmInv'
  OBVIOUS
<1> USE DEF Writers
<1>0. /\ at \in [Trades \cup Completions -> IndexStages]
      /\ io \in [Trades \cup Completions -> {"none", "read", "open", "land"}]
      /\ buf \in [Trades \cup Completions -> Seq(Entry)]
      /\ flow \in [Trades -> AllIndexKinds \cup {"none"}]
      /\ got \in [Trades -> SUBSET Hashes]
      /\ verdict \in [Trades \cup Completions -> Statuses \cup {"none"}]
      /\ index \in Seq(Entry) /\ DOMAIN index = 1..Len(index) /\ Len(index) \in Nat
      /\ Trades \cap Completions = {}
  BY WritersAssumption, LenProperties DEF IndexInv, IndexTypeOK
<1>f. \A t \in Trades : PipelineFits(t)
  BY DEF IndexInv
<1>d. \A t \in Trades : at[t] \in Done => io[t] = "none"
  BY <1>f DEF PipelineFits
<1>c. \A c \in Completions : at[c] \in {"new", "refused"} /\ io[c] = "none"
  BY DEF Calm, IndexInv, CompletionFits
<1>i. /\ \A t, u \in Trades : t # u => at[t] \in Done \/ at[u] \in Done
      /\ \A t \in Trades : at[t] \in {"new", "append", "log"} => got[t] = {}
      /\ file = IF \E t \in Trades : io[t] = "land" THEN "truncated" ELSE "whole"
      /\ (\A t \in Trades : ~ Writing(t)) => \A t \in Trades : Tells(index, t)
      /\ \A w \in Trades : Writing(w) => \A t \in Trades : Tells(buf[w], t)
  BY DEF CalmInv
<1>k. ASSUME NEW t \in Trades, UNCHANGED <<at[t], got[t], verdict[t]>>, Unread(t)' = Unread(t),
             Tells(index, t), index' = index
      PROVE  Tells(index, t)'
  BY <1>k, TellsOn
<1>l. ASSUME NEW t \in Trades, UNCHANGED <<at[t], got[t], verdict[t]>>, Unread(t)' = Unread(t),
             NEW w, Tells(buf[w], t), buf'[w] = buf[w]
      PROVE  Tells(buf[w], t)'
  BY <1>l, TellsOn
\* A pipeline that does not write puts no other aside.
<1>q. ASSUME NEW u \in Trades, at[u] \notin Done PROVE \A t \in Trades : t # u => at[t] \in Done /\ io[t] = "none"
  BY <1>d, <1>i, <1>q
<1>1. CASE Admission
  <2>0. PICK k \in IndexKinds, C \in (SUBSET Trades) \ {{}} :
          (k # "batch" => \E t \in Trades : C = {t}) /\ Admit(C, k)
    BY <1>1, Zenon DEF Admission
  <2>a. C \in SUBSET Trades /\ C # {}
    OBVIOUS
  <2>1. C \in SUBSET Trades /\ C # {} /\ (k # "batch" => \E t \in Trades : C = {t}) /\ Admit(C, k)
    BY <2>0, <2>a, Zenon
  <2>2. k # "batch"
    <3>1. PICK t \in Trades : t \in C
      BY <2>1
    <3>2. flow'[t] = k
      BY <2>1, <3>1 DEF Admit
    <3> QED BY <3>2 DEF Calm
  <2>3. PICK u \in Trades : C = {u}
    BY <2>1, <2>2
  <2>4. /\ \A t \in Trades : at[t] \in Done /\ io[t] = "none"
        /\ at[u] = "new" /\ at'[u] = "append" /\ io'[u] = "read"
        /\ \A t \in Trades : t # u => at'[t] = at[t] /\ io'[t] = io[t]
        /\ UNCHANGED <<index, file, buf, got, verdict>>
    BY <1>0, <1>d, <2>1, <2>3 DEF Admit
  <2>5. /\ \A t, v \in Trades : t # v => at'[t] \in Done \/ at'[v] \in Done
        /\ \A t \in Trades : at'[t] \in {"new", "append", "log"} => got'[t] = {}
    BY <1>i, <2>4
  <2>6. file' = IF \E t \in Trades : io'[t] = "land" THEN "truncated" ELSE "whole"
    BY <1>i, <2>4
  <2>7. \A t \in Trades : Tells(index, t)'
    <3>1. \A t \in Trades : Tells(index, t)
      BY <1>i, <2>4 DEF Writing
    <3>2. ~ Born(u)'
      BY <2>4 DEF Born
    <3>3. Tells(index, u)'
      BY <3>2 DEF Tells
    <3>4. ASSUME NEW t \in Trades, t # u PROVE Tells(index, t)'
      BY <1>k, <2>4, <3>1, <3>4 DEF Unread
    <3> QED BY <3>3, <3>4
  <2>8. \A w \in Trades : ~ Writing(w)'
    BY <2>4 DEF Writing
  <2> QED BY <2>5, <2>6, <2>7, <2>8 DEF CalmInv
<1>2. ASSUME NEW u \in Trades, Pipeline(u) PROVE CalmInv'
  <2>0. /\ at[u] \notin Done /\ \A t \in Trades : t # u => at[t] \in Done /\ io[t] = "none"
    <3>1. at[u] \notin Done
      BY <1>2 DEF Pipeline, AppendPending, UpdateEntry, Continue, Catch, Answer, Done
    <3> QED BY <1>q, <3>1
  <2>n. ASSUME ~ Writing(u)
        PROVE  /\ \A t \in Trades : Tells(index, t)
               /\ file = "whole" /\ \A t \in Trades : io[t] \notin {"open", "land"}
    BY <1>i, <2>0, <2>n DEF Writing
  <2>1. CASE AppendPending(u)
    <3>1. /\ at[u] = "append" /\ io[u] = "read" /\ io'[u] = "open"
          /\ \A t \in Trades : t # u => io'[t] = io[t] /\ buf'[t] = buf[t]
          /\ buf'[u] = <<NewEntry(u)>> \o index
          /\ UNCHANGED <<index, file, at, got, verdict>>
      BY <1>0, <2>1 DEF AppendPending
    <3>2. ~ Writing(u) /\ got[u] = {}
      BY <1>i, <3>1 DEF Writing
    <3> DEFINE q == <<NewEntry(u)>> \o index
    <3>3. /\ DOMAIN q = 1..(1 + Len(index)) /\ q[1] = NewEntry(u)
          /\ \A i \in 1..Len(index) : q[i + 1] = index[i] /\ i + 1 \in DOMAIN q
      <4>1. <<NewEntry(u)>> \in Seq(Entry) /\ Len(<<NewEntry(u)>>) = 1 /\ <<NewEntry(u)>>[1] = NewEntry(u)
        <5>1. NewEntry(u) \in Entry
          BY DEF NewEntry, Entry, Statuses
        <5> QED BY <5>1
      <4>2. /\ Len(q) = 1 + Len(index) /\ q \in Seq(Entry)
            /\ \A i \in 1..Len(q) : q[i] = IF i <= 1 THEN <<NewEntry(u)>>[i] ELSE index[i - 1]
        BY <1>0, <4>1, ConcatProperties
      <4>3. DOMAIN q = 1..Len(q)
        BY <4>2, LenProperties
      <4> HIDE DEF q
      <4>4. DOMAIN q = 1..(1 + Len(index)) /\ q[1] = NewEntry(u)
        BY <1>0, <4>1, <4>2, <4>3
      <4>5. ASSUME NEW i \in 1..Len(index) PROVE q[i + 1] = index[i] /\ i + 1 \in DOMAIN q
        <5>1. i \in Nat /\ i >= 1 /\ i <= Len(index) /\ i + 1 \in 1..Len(q) /\ ~ (i + 1 <= 1) /\ (i + 1) - 1 = i
          BY <1>0, <4>2
        <5> QED BY <4>2, <4>3, <5>1
      <4> QED BY <4>4, <4>5
    <3> HIDE DEF q
    <3>4. buf'[u] = q
      BY <3>1 DEF q
    <3>5. Tells(buf[u], u)'
      <4>1. 1 \in DOMAIN q /\ q[1].id = u /\ q[1].has = {} /\ q[1].error = FALSE /\ q[1].status = "pending"
        BY <1>0, <3>3 DEF NewEntry
      <4> QED BY <3>1, <3>2, <3>4, <4>1 DEF Tells, Unread
    <3>6. ASSUME NEW t \in Trades, t # u PROVE Tells(buf[u], t)'
      <4>1. Tells(index, t)
        BY <2>n, <3>2
      <4>2. ASSUME NEW i \in DOMAIN index PROVE i + 1 \in DOMAIN q /\ q[i + 1] = index[i]
        BY <1>0, <3>3, <4>2
      <4>4. Tells(q, t)
        BY <4>1, <4>2 DEF Tells
      <4>3. Unread(t)' = Unread(t)
        BY <3>1, <3>6 DEF Unread
      <4> QED BY <3>1, <3>4, <4>3, <4>4, TellsOn
    <3>7. \A w \in Trades : Writing(w)' => w = u
      BY <2>n, <3>1, <3>2 DEF Writing
    <3>8. Writing(u)' /\ ~ \E t \in Trades : io'[t] = "land"
      BY <2>n, <3>1, <3>2 DEF Writing
    <3>9. file' = "whole"
      BY <2>n, <3>1, <3>2
    <3> QED BY <1>i, <3>1, <3>5, <3>6, <3>7, <3>8, <3>9 DEF CalmInv
  <2>2. CASE UpdateEntry(u)
    <3>1. io[u] = "read" /\ at[u] # "append" /\ UNCHANGED <<index, file, at, got, verdict>>
      BY <2>2 DEF UpdateEntry, Update
    <3>2. ~ Writing(u)
      BY <3>1 DEF Writing
    <3>3. \A t \in Trades : Tells(index, t)
      BY <2>n, <3>2
    <3> DEFINE e == Patch(u, Current(u))
    <3>4. /\ io' = [io EXCEPT ![u] = "open"] /\ buf' = [buf EXCEPT ![u] = Patched(index, e)]
          /\ e \in Entry /\ e.id = u /\ PlaceOf(index, u) # 0 /\ Tells(buf[u], u)'
      BY <2>2, <3>3, UpdateTells
    <3> HIDE DEF e
    <3> DEFINE q == Patched(index, e)
    <3>5. /\ q \in Seq(Entry) /\ Len(q) = Len(index)
          /\ \A i \in 1..Len(index) : /\ q[i] = IF i = PlaceOf(index, u) THEN e ELSE index[i]
                                      /\ q[i].id = index[i].id
      BY <1>0, <3>4, PatchedStore
    <3>6. DOMAIN q = DOMAIN index
      BY <1>0, <3>5, LenProperties
    <3> HIDE DEF q
    <3>7. buf'[u] = q
      BY <1>0, <3>4 DEF q
    <3>8. ASSUME NEW t \in Trades, t # u PROVE Tells(buf[u], t)'
      <4>1. index[PlaceOf(index, u)].id = u
        BY <1>0, <3>4, PlaceFound
      <4>2. ASSUME NEW i \in DOMAIN index, index[i].id = t PROVE i \in DOMAIN q /\ q[i] = index[i]
        BY <1>0, <3>5, <3>6, <3>8, <4>1, <4>2
      <4>4. Tells(q, t)
        <5>1. Tells(index, t)
          BY <3>3
        <5> QED BY <4>2, <5>1 DEF Tells
      <4>3. Unread(t)' = Unread(t)
        BY <1>0, <3>4, <3>8 DEF Unread
      <4> QED BY <3>1, <3>7, <4>3, <4>4, TellsOn
    <3>9. \A w \in Trades : Writing(w)' => w = u
      BY <1>0, <2>n, <3>2, <3>4 DEF Writing
    <3>10. Writing(u)' /\ ~ \E t \in Trades : io'[t] = "land"
      BY <1>0, <2>n, <3>2, <3>4 DEF Writing
    <3>11. file' = "whole"
      BY <2>n, <3>1, <3>2
    <3> QED BY <1>i, <3>1, <3>4, <3>8, <3>9, <3>10, <3>11 DEF CalmInv
  <2>3. ASSUME \A t \in Trades : t # u => UNCHANGED <<at[t], io[t], got[t], verdict[t]>>,
               ~ Writing(u), io'[u] \notin {"open", "land"}, UNCHANGED <<index, file, buf>>,
               at'[u] \in {"new", "append", "log"} => got'[u] = {},
               Tells(index, u)'
        PROVE  CalmInv'
    <3>1. \A t \in Trades : Tells(index, t)'
      BY <1>k, <2>3, <2>n DEF Unread
    <3>2. \A t \in Trades : io'[t] \notin {"open", "land"}
      BY <2>3, <2>n
    <3>3. \A t, v \in Trades : t # v => at'[t] \in Done \/ at'[v] \in Done
      BY <2>0, <2>3
    <3>4. \A t \in Trades : at'[t] \in {"new", "append", "log"} => got'[t] = {}
      BY <1>i, <2>3
    <3>5. file' = IF \E t \in Trades : io'[t] = "land" THEN "truncated" ELSE "whole"
      BY <2>3, <2>n, <3>2
    <3>6. \A w \in Trades : ~ Writing(w)'
      BY <3>2 DEF Writing
    <3> QED BY <3>1, <3>3, <3>4, <3>5, <3>6 DEF CalmInv
  <2>4. CASE Continue(u)
    <3>1. /\ at[u] \in {"append", "log", "bind", "pull", "anchor"} /\ io[u] = "none"
          /\ at' = [at EXCEPT ![u] = GoesOn(u)] /\ io' = [io EXCEPT ![u] = "read"]
          /\ UNCHANGED <<index, file, flow, buf>>
      BY <2>4 DEF Continue, StartUpdate
    <3>2. PICK h \in Obtained(u) : got' = [got EXCEPT ![u] = @ \cup h]
      BY <2>4 DEF Continue
    <3>3. verdict' = verdict \/ \E s : verdict' = [verdict EXCEPT ![u] = s]
      BY <2>4 DEF Continue
    <3>4. GoesOn(u) \in {"log", "bind", "pull", "anchor", "final"} /\ (GoesOn(u) = "log" => at[u] = "append")
      BY <1>f, <3>1, GoesOnIs DEF PipelineFits
    <3>5. GoesOn(u) \in {"log", "final"} => h = {}
      BY <3>2 DEF Obtained
    <3>6. /\ at'[u] = GoesOn(u) /\ io'[u] = "read" /\ got'[u] = got[u] \cup h
          /\ \A t \in Trades : t # u => UNCHANGED <<at[t], io[t], got[t], verdict[t]>>
      BY <1>0, <3>1, <3>2, <3>3
    <3>7. GoesOn(u) \in {"log", "final"} => got'[u] = got[u]
      BY <3>5, <3>6
    <3>8. ~ Writing(u) /\ Tells(index, u) /\ Born(u)
      BY <2>n, <3>1 DEF Writing, Born
    <3>9. Tells(index, u)'
      <4>1. PICK i \in DOMAIN index : /\ index[i].id = u /\ index[i].has = got[u]
                                      /\ index[i].error = FALSE /\ index[i].status = "pending"
        BY <3>1, <3>8 DEF Tells, Unread
      <4>2. /\ index'[i] = index[i] /\ DOMAIN index' = DOMAIN index
            /\ at'[u] \in {"log", "bind", "pull", "anchor", "final"} /\ io'[u] = "read"
            /\ at'[u] \in {"log", "final"} => got'[u] = got[u]
        BY <3>1, <3>4, <3>6, <3>7
      <4> QED BY <4>1, <4>2 DEF Tells, Unread
    <3>10. at'[u] \in {"new", "append", "log"} => got'[u] = {}
      BY <1>i, <3>1, <3>4, <3>6, <3>7
    <3>11. io'[u] \notin {"open", "land"}
      BY <3>6
    <3> QED BY <2>3, <3>1, <3>6, <3>8, <3>9, <3>10, <3>11
  <2>5. CASE Catch(u)
    <3>1. /\ at[u] \in {"append", "log", "bind", "pull"} /\ io[u] = "none"
          /\ at'[u] = "error" /\ io'[u] = "read"
          /\ \A t \in Trades : t # u => UNCHANGED <<at[t], io[t]>>
          /\ UNCHANGED <<index, file, flow, buf, got, verdict>>
      BY <1>0, <2>5 DEF Catch, StartUpdate
    <3>2. ~ Writing(u) /\ Tells(index, u) /\ Born(u)
      BY <2>n, <3>1 DEF Writing, Born
    <3>3. PICK i \in DOMAIN index : /\ index[i].id = u /\ index[i].has = got[u]
                                    /\ index[i].error = FALSE /\ index[i].status = "pending"
      BY <3>1, <3>2 DEF Tells, Unread
    <3>4. Tells(index, u)'
      BY <3>1, <3>3 DEF Tells, Unread
    <3> QED BY <2>3, <3>1, <3>2, <3>4
  <2>6. CASE Answer(u)
    <3>1. /\ at[u] \in {"final", "error"} /\ io[u] = "none"
          /\ at'[u] = (IF at[u] = "final" THEN "ok" ELSE "failed")
          /\ \A t \in Trades : t # u => at'[t] = at[t]
          /\ UNCHANGED <<index, file, flow, io, buf, got, verdict>>
      BY <1>0, <2>6 DEF Answer
    <3>2. ~ Writing(u) /\ Tells(index, u) /\ Born(u)
      BY <2>n, <3>1 DEF Writing, Born
    <3>3. PICK i \in DOMAIN index :
            /\ index[i].id = u /\ index[i].has = got[u] /\ index[i].error = (at[u] = "error")
            /\ index[i].status = IF at[u] = "final" THEN verdict[u] ELSE "pending"
      BY <3>1, <3>2 DEF Tells, Unread
    <3>4. Tells(index, u)'
      BY <3>1, <3>3 DEF Tells, Unread
    <3> QED BY <2>3, <3>1, <3>2, <3>4
  <2> QED BY <1>2, <2>1, <2>2, <2>4, <2>5, <2>6 DEF Pipeline
<1>3. ASSUME NEW c \in Completions, Completion(c) PROVE CalmInv'
  <2>1. Check(c)
    BY <1>3, <1>c DEF Completion, ConfirmEntry, Complete, AnswerCompletion
  <2>2. /\ UNCHANGED <<index, file, io, buf, got, verdict>>
        /\ \A t \in Trades : at'[t] = at[t]
    BY <1>0, <2>1 DEF Check
  <2>3. \A t \in Trades : (Tells(index, t) => Tells(index, t)') /\ (\A w \in Trades : Tells(buf[w], t) => Tells(buf[w], t)')
    BY <1>k, <1>l, <2>2 DEF Unread
  <2> QED BY <1>i, <2>2, <2>3 DEF CalmInv, Writing
<1>4. ASSUME NEW u \in Trades \cup Completions, OpenFile(u) \/ FileWritten(u) PROVE CalmInv'
  <2>1. u \in Trades /\ Writing(u) /\ at[u] \notin Done
    BY <1>c, <1>d, <1>4 DEF OpenFile, FileWritten, Writing
  <2>2. /\ \A t \in Trades : t # u => io[t] = "none" /\ io'[t] = "none"
        /\ UNCHANGED <<at, buf, got, verdict>>
    BY <1>0, <1>q, <1>4, <2>1 DEF OpenFile, FileWritten
  <2>3. \A t \in Trades : Unread(t)' = Unread(t)
    BY <1>0, <1>4, <2>2 DEF OpenFile, FileWritten, Unread
  <2>4. \A t \in Trades : Tells(buf[u], t) /\ Tells(buf[u], t)'
    BY <1>i, <1>l, <2>1, <2>2, <2>3
  <2>5. /\ \A t, v \in Trades : t # v => at'[t] \in Done \/ at'[v] \in Done
        /\ \A t \in Trades : at'[t] \in {"new", "append", "log"} => got'[t] = {}
        /\ \A w \in Trades : Writing(w)' => w = u
    BY <1>i, <2>2 DEF Writing
  <2>6. CASE OpenFile(u)
    <3>1. io'[u] = "land" /\ file' = "truncated"
      BY <1>0, <2>6 DEF OpenFile
    <3> QED BY <2>1, <2>4, <2>5, <3>1 DEF CalmInv, Writing
  <2>7. CASE FileWritten(u)
    <3>1. io[u] = "land" /\ io'[u] = "none"
      BY <1>0, <2>7 DEF FileWritten
    <3>2. file = "truncated"
      BY <1>i, <2>1, <3>1
    <3>3. index' = buf[u] /\ file' = "whole"
      BY <2>7, <3>2 DEF FileWritten
    <3>4. \A t \in Trades : Tells(index, t)'
      BY <2>2, <2>3, <2>4, <3>3, TellsOn
    <3>5. \A t \in Trades : io'[t] = "none"
      BY <2>2, <3>1
    <3>6. \A t \in Trades : ~ Writing(t)'
      BY <3>5 DEF Writing
    <3> QED BY <2>5, <3>3, <3>4, <3>5, <3>6 DEF CalmInv
  <2> QED BY <1>4, <2>6, <2>7
<1> QED BY <1>1, <1>2, <1>3, <1>4 DEF IndexNext

\* The same, while it is calm.
LEMMA CalmStutters == UNCHANGED indexVars => Calm' = Calm /\ CalmInv' = CalmInv
BY DEF indexVars, Calm, CalmInv, Tells, Born, Unread, Writing

\* The whole truth: while updates come one at a time the file is never garbled
\* and every pipeline that is not writing is told of by it.
THEOREM IndexTruthful == IndexSpec => []IndexIsTrue
<1>1. IndexInit => (Calm => CalmInv)
  BY InitIndexInv
<1>2. IndexInv /\ (Calm => CalmInv) /\ [IndexNext]_indexVars => (Calm => CalmInv)'
  BY CalmBefore, CalmStep, CalmStutters
<1>3. IndexSpec => [](Calm => CalmInv)
  BY <1>1, <1>2, IndexInductive, PTL DEF IndexSpec
<1>4. IndexInv /\ (Calm => CalmInv) => IndexTellsAll
  <2> SUFFICES ASSUME IndexInv, Calm, CalmInv, Quiet, NEW t \in Trades
               PROVE  /\ at[t] = "ok" => Listed(t, verdict[t], FALSE)
                      /\ at[t] = "failed" => Listed(t, "pending", TRUE)
    BY DEF IndexTellsAll, Calm
  <2>1. \A u \in Trades : ~ Writing(u) /\ ~ Unread(u)
    BY DEF Quiet, IndexInv, PipelineFits, Writing, Unread, Writers
  <2>2. Tells(index, t)
    BY <2>1 DEF CalmInv
  <2>3. CASE at[t] = "ok"
    <3>1. Born(t)
      BY <2>3 DEF Born
    <3> QED BY <2>1, <2>2, <2>3, <3>1 DEF Tells, Listed
  <2>4. CASE at[t] = "failed"
    <3>1. Born(t)
      BY <2>4 DEF Born
    <3> QED BY <2>1, <2>2, <2>4, <3>1 DEF Tells, Listed
  <2> QED BY <2>3, <2>4
<1>5. IndexInv => IndexTypeOK
  BY DEF IndexInv
<1> QED BY <1>3, <1>4, <1>5, IndexInductive, IndexNeverLies, PTL DEF IndexIsTrue

-----------------------------------------------------------------------------
(***************************************************************************)
(* MarginPool, for any calls and amounts: a pool is always backed, and     *)
(* takes one merge at most, made by hand.                                  *)
(***************************************************************************)

OneMerge(o) == IF o.form = "bare" THEN o.total = 0 /\ o.merges = 0 ELSE o.merges = 1
Backed(os) == \A o \in Pools(os) : o.lovelace >= o.total /\ OneMerge(o)
Funded(os) == \A o \in Vaults(os) : o.lovelace > 0

\* What holds of outputs holds wherever they are: on the ledger, made by a
\* transaction of the mempool, or read by a flow some time ago.
Sound(os) == os \subseteq Output /\ Backed(os) /\ Funded(os)

\* Transactions that make sound outputs.
SoundTxs == {tx \in Tx : Sound(tx.outs)}

\* A call that runs is at a stage of its flow, and not at the last.
OnPath(c) ==
  stage[c] \notin Ended =>
    /\ kind[c] \in AllKinds /\ amount[c] > 0
    /\ \E i \in 1..Len(Stages(kind[c])) - 1 : Stages(kind[c])[i] = stage[c]

PoolInv ==
  /\ TypeOK
  /\ Sound(ledger)
  /\ mempool \in Seq(SoundTxs)
  /\ \A c \in Calls :
       /\ OnPath(c)
       /\ Sound(seen[c]) /\ Vaults(seen[c]) = {}
       /\ Sound(picked[c]) /\ Pools(picked[c]) = {}

\* No pool yet.
LEMMA InitPoolInv == Init => PoolInv
<1> SUFFICES ASSUME Init PROVE PoolInv
  OBVIOUS
<1>1. TypeOK
  BY DEF Init, TypeOK, StageNames, Background
<1>2. Sound({})
  BY DEF Sound, Backed, Funded, Pools, Vaults
<1> QED BY <1>1, <1>2 DEF Init, PoolInv, OnPath, Ended, Pools, Vaults

\* Each name in a flow is a stage, and the one after a stage is again on the
\* path of the flow, or its end.
LEMMA StagesType ==
  ASSUME NEW k \in AllKinds
  PROVE  /\ Stages(k) \in Seq(StageNames) /\ Len(Stages(k)) \in 3..10
         /\ \A i \in 2..Len(Stages(k)) - 1 : Stages(k)[i] \notin Ended
         /\ Stages(k)[Len(Stages(k))] = "ok"
<1>1. CASE k = "bootstrap"
  BY <1>1 DEF Stages, StageNames, Steps, Ended
<1>5. CASE k = "deposit"
  BY <1>5 DEF Stages, StageNames, Steps, Ended
<1>6. CASE k = "withdraw"
  BY <1>6 DEF Stages, StageNames, Steps, Ended
<1>7. CASE k = "refund"
  BY <1>7 DEF Stages, StageNames, Steps, Ended
<1>2. CASE k = "merge"
  BY <1>2 DEF Stages, StageNames, Steps, Ended
<1>3. CASE k = "lock"
  BY <1>3 DEF Stages, StageNames, Steps, Ended
<1>4. CASE k = "demo"
  BY <1>4 DEF Stages, StageNames, Steps, Ended
<1>8. CASE k = "handmerge"
  BY <1>8 DEF Stages, StageNames, Steps, Ended
<1> QED BY <1>1, <1>2, <1>3, <1>4, <1>5, <1>6, <1>7, <1>8 DEF AllKinds, Server, ByHand

\* A flow goes on to its next stage.
LEMMA Advances ==
  ASSUME PoolInv, NEW c \in Calls, stage[c] \notin Ended, Advance(c), UNCHANGED <<kind, amount>>
  PROVE  /\ stage' \in [Calls -> StageNames]
         /\ \A d \in Calls : OnPath(d)'
<1> DEFINE s == Stages(kind[c])
           i == CHOOSE j \in 1..Len(s) - 1 : s[j] = stage[c]
<1>1. i \in 1..Len(s) - 1 /\ kind[c] \in AllKinds
  BY DEF PoolInv, OnPath
<1>2. After(c) = s[1 + i]
  BY DEF After
<1>3. After(c) \in StageNames
  BY <1>1, <1>2, StagesType
<1>4. After(c) \in Ended \/ (1 + i \in 1..Len(s) - 1)
  <2> SUFFICES ASSUME 1 + i \notin 1..Len(s) - 1 PROVE After(c) = "ok"
    BY DEF Ended
  <2>1. 1 + i = Len(s)
    BY <1>1, StagesType
  <2> QED BY <2>1, <1>1, <1>2, StagesType
<1>5. stage' = [stage EXCEPT ![c] = After(c)] /\ stage \in [Calls -> StageNames]
  BY DEF Advance, PoolInv, TypeOK
<1>6. \A d \in Calls : OnPath(d)'
  <2> SUFFICES ASSUME NEW d \in Calls PROVE OnPath(d)'
    OBVIOUS
  <2>1. CASE d = c
    <3>1. stage'[c] = After(c) /\ kind' = kind /\ amount' = amount
      BY <1>5
    <3>2. kind[c] \in AllKinds /\ amount[c] > 0
      BY DEF PoolInv, OnPath
    <3> QED BY <2>1, <3>1, <3>2, <1>2, <1>4 DEF OnPath
  <2>2. CASE d # c
    BY <2>2, <1>5 DEF PoolInv, OnPath
  <2> QED BY <2>1, <2>2
<1> QED BY <1>3, <1>5, <1>6

\* A flow throws.
LEMMA Throws ==
  ASSUME PoolInv, NEW c \in Calls, Throw(c), UNCHANGED <<kind, amount>>
  PROVE  /\ stage' \in [Calls -> StageNames]
         /\ \A d \in Calls : OnPath(d)'
  BY DEF PoolInv, TypeOK, Throw, StageNames, Ended, OnPath

\* Submitting keeps everything sound, if what the node accepts makes sound outputs.
LEMMA Submits ==
  ASSUME PoolInv, NEW c \in Calls, stage[c] \notin Ended,
         NEW tx \in Tx, Acceptable(tx) => Sound(tx.outs), Submit(c, tx)
  PROVE  PoolInv'
<1>1. CASE Acceptable(tx) /\ mempool' = Append(mempool, tx) /\ Advance(c) /\ refused' = refused
  <2>1. /\ stage' \in [Calls -> StageNames] /\ \A d \in Calls : OnPath(d)'
        /\ UNCHANGED <<chainVars, locals>>
    BY <1>1, Advances DEF Submit, locals
  <2>2. mempool' \in Seq(SoundTxs) /\ mempool' \in Seq(Tx)
    <3>1. tx \in SoundTxs
      BY <1>1 DEF SoundTxs
    <3> QED BY <1>1, <3>1, AppendProperties DEF PoolInv, TypeOK
  <2> QED BY <1>1, <2>1, <2>2 DEF PoolInv, TypeOK, chainVars, locals
<1>2. CASE Throw(c) /\ refused' \in {refused, refused \cup {c}} /\ mempool' = mempool
  <2>1. /\ stage' \in [Calls -> StageNames] /\ \A d \in Calls : OnPath(d)'
        /\ UNCHANGED <<chainVars, locals>>
    BY <1>2, Throws DEF Submit, locals
  <2> QED BY <1>2, <2>1 DEF PoolInv, TypeOK, chainVars, locals
<1> QED BY <1>1, <1>2 DEF Submit

\* A step that changes only where a call is keeps everything.
LEMMA Moves ==
  ASSUME PoolInv, NEW c \in Calls, stage[c] \notin Ended, Advance(c) \/ Throw(c),
         UNCHANGED <<chainVars, locals, mempool, refused>>
  PROVE  PoolInv'
<1>1. stage' \in [Calls -> StageNames] /\ \A d \in Calls : OnPath(d)'
  BY Advances, Throws DEF locals
<1> QED BY <1>1 DEF PoolInv, TypeOK, chainVars, locals

\* A transaction that enters the ledger brings sound outputs.
LEMMA Confirms == PoolInv /\ Confirm => PoolInv'
<1> SUFFICES ASSUME PoolInv, Confirm PROVE PoolInv'
  OBVIOUS
<1> DEFINE tx == Head(mempool)
<1>1. mempool \in Seq(Tx) /\ mempool \in Seq(SoundTxs) /\ mempool # <<>>
  BY DEF Confirm, PoolInv, TypeOK
<1>2. tx \in SoundTxs /\ mempool' \in Seq(SoundTxs) /\ mempool' \in Seq(Tx)
  BY <1>1, HeadTailProperties DEF Confirm
<1>3. Sound(ledger')
  <2>1. Sound(ledger) /\ Sound(tx.outs)
    BY <1>2 DEF PoolInv, SoundTxs
  <2>2. ledger' = (ledger \ tx.ins) \cup tx.outs
    BY DEF Confirm
  <2> QED BY <2>1, <2>2 DEF Sound, Backed, Funded, Pools, Vaults
<1>4. chain' \subseteq Calls \X Steps /\ deposited' \in Nat /\ paid' \in Nat
  <2>1. tx.by \in Calls /\ tx.step \in Steps /\ tx.pays \in Nat
    BY <1>2 DEF Tx, SoundTxs
  <2>2. /\ chain' = chain \cup {<<tx.by, tx.step>>} /\ paid' = paid + tx.pays
        /\ deposited' = deposited + (IF tx.step = "deposit" THEN amount[tx.by] ELSE 0)
    BY DEF Confirm
  <2>3. chain' \subseteq Calls \X Steps
    <3>1. <<tx.by, tx.step>> \in Calls \X Steps
      BY <2>1
    <3>2. chain \subseteq Calls \X Steps
      BY DEF PoolInv, TypeOK
    <3> HIDE DEF tx
    <3> QED BY <2>2, <3>1, <3>2
  <2> QED BY <2>1, <2>2, <2>3 DEF PoolInv, TypeOK
<1> QED BY <1>2, <1>3, <1>4 DEF Confirm, PoolInv, TypeOK, Sound, OnPath, locals

\* A sequence without one of its elements is a sequence over the same set.
LEMMA DropsOne ==
  ASSUME NEW S, NEW s \in Seq(S), NEW i \in DOMAIN s
  PROVE  RemoveAt(s, i) \in Seq(S)
<1> DEFINE front == SubSeq(s, 1, i - 1)
           back  == SubSeq(s, i + 1, Len(s))
<1>1. i \in 1..Len(s) /\ Len(s) \in Nat
  BY LenProperties
<1>2. front \in Seq(S)
  <2>1. \A k \in 1..i - 1 : s[k] \in S
    BY <1>1, ElementOfSeq
  <2> QED BY <1>1, <2>1, SubSeqProperties
<1>3. back \in Seq(S)
  <2>1. \A k \in i + 1..Len(s) : s[k] \in S
    BY <1>1, ElementOfSeq
  <2> QED BY <1>1, <2>1, SubSeqProperties
<1> HIDE DEF front, back
<1>4. front \o back \in Seq(S)
  BY <1>2, <1>3, ConcatProperties
<1> QED BY <1>4 DEF RemoveAt, front, back

\* Dropping a transaction brings nothing new.
LEMMA Drops == PoolInv /\ Drop => PoolInv'
<1> SUFFICES ASSUME PoolInv, Drop PROVE PoolInv'
  OBVIOUS
<1>1. mempool' \in Seq(Tx) /\ mempool' \in Seq(SoundTxs)
  BY DropsOne DEF Drop, PoolInv, TypeOK
<1> QED BY <1>1 DEF Drop, PoolInv, TypeOK, OnPath, chainVars, locals

\* A call begins at the first stage of its flow.
LEMMA Begins == ASSUME NEW c \in Calls PROVE PoolInv /\ Begin(c) => PoolInv'
<1> SUFFICES ASSUME PoolInv, Begin(c) PROVE PoolInv'
  OBVIOUS
<1>1. PICK k \in Kinds, n \in Amounts :
        /\ kind' = [kind EXCEPT ![c] = k]
        /\ amount' = [amount EXCEPT ![c] = n]
        /\ stage' = [stage EXCEPT ![c] = Stages(k)[2]]
  BY DEF Begin
<1>2. k \in AllKinds /\ n \in Nat \ {0}
  BY PoolKindsAssumption, AmountsAssumption
<1>3. Stages(k)[2] \in StageNames /\ 2 \in 1..Len(Stages(k)) - 1
  BY <1>2, StagesType
<1>4. ASSUME NEW d \in Calls PROVE OnPath(d)'
  <2>1. CASE d = c
    <3>1. kind'[c] = k /\ amount'[c] = n /\ stage'[c] = Stages(k)[2]
      BY <1>1 DEF PoolInv, TypeOK
    <3> QED BY <2>1, <3>1, <1>2, <1>3 DEF OnPath
  <2>2. CASE d # c
    BY <2>2, <1>1 DEF PoolInv, TypeOK, OnPath
  <2> QED BY <2>1, <2>2
<1>5. begun' \in [Calls -> Background]
  <2> DEFINE busy == {d \in Calls : stage[d] \notin Ended}
             steps == {mempool[i].step : i \in DOMAIN mempool}
  <2>1. \A i \in DOMAIN mempool : mempool[i].step \in Steps
    <3> SUFFICES ASSUME NEW i \in DOMAIN mempool PROVE mempool[i] \in Tx
      BY DEF Tx
    <3> QED BY LenProperties, ElementOfSeq DEF PoolInv, TypeOK
  <2>2. steps \subseteq Steps
    BY <2>1
  <2> HIDE DEF steps
  <2> DEFINE first == [beside |-> busy, single |-> OnePool, queued |-> steps]
             more(d) == [begun[d] EXCEPT !.beside = @ \cup {c}]
  <2>3. begun' = [d \in Calls |->
                    IF d = c THEN first ELSE IF d \in busy THEN more(d) ELSE begun[d]]
    BY DEF Begin, steps
  <2>4. OnePool \in BOOLEAN
    BY DEF OnePool
  <2>5. first \in Background
    <3> HIDE DEF steps
    <3> QED BY <2>2, <2>4 DEF Background
  <2>6. begun \in [Calls -> Background]
    BY DEF PoolInv, TypeOK, Background
  <2>7. ASSUME NEW d \in Calls PROVE more(d) \in Background
    BY <2>6 DEF Background
  <2> HIDE DEF first, more, busy
  <2> QED BY <2>3, <2>5, <2>6, <2>7
<1> QED BY <1>1, <1>2, <1>3, <1>4, <1>5 DEF Begin, PoolInv, TypeOK, chainVars

\* What a flow reads from the ledger is sound, and so is what it builds.
LEMMA Reads ==
  ASSUME PoolInv, NEW c \in Calls, stage[c] \notin Ended, Advance(c),
         UNCHANGED <<chainVars, mempool, refused, kind, amount, begun>>,
         NEW os \in SUBSET ledger,
         \/ os = Vaults(os) /\ picked' = [picked EXCEPT ![c] = os] /\ seen' = seen
         \/ os = Pools(os) /\ seen' = [seen EXCEPT ![c] = os] /\ picked' = picked
  PROVE  PoolInv'
<1>1. stage' \in [Calls -> StageNames] /\ \A d \in Calls : OnPath(d)'
  BY Advances
<1>2. Sound(os) /\ os \subseteq Output
  BY DEF PoolInv, Sound, Backed, Funded, Pools, Vaults
<1>3. \/ os = Vaults(os) /\ Pools(os) = {}
      \/ os = Pools(os) /\ Vaults(os) = {}
  BY DEF Pools, Vaults
<1>4. /\ picked' \in [Calls -> SUBSET Output] /\ seen' \in [Calls -> SUBSET Output]
  BY <1>2 DEF PoolInv, TypeOK
<1>5. ASSUME NEW d \in Calls
      PROVE  /\ Sound(seen'[d]) /\ Vaults(seen'[d]) = {}
             /\ Sound(picked'[d]) /\ Pools(picked'[d]) = {}
  <2>1. /\ picked'[d] = picked[d] \/ (picked'[d] = os /\ os = Vaults(os))
        /\ seen'[d] = seen[d] \/ (seen'[d] = os /\ os = Pools(os))
    BY DEF PoolInv, TypeOK
  <2>2. /\ Sound(seen[d]) /\ Vaults(seen[d]) = {}
        /\ Sound(picked[d]) /\ Pools(picked[d]) = {}
    BY DEF PoolInv
  <2> QED BY <2>1, <2>2, <1>2, <1>3 DEF Pools, Vaults
<1> QED BY <1>1, <1>4, <1>5 DEF PoolInv, TypeOK, chainVars

\* What transactions do.
IsCreate(tx) ==
  tx.ins = {} /\ tx.pays = 0 /\ tx.outs = {Pool(tx.by, "create", "bare", amount[tx.by], 0, 0)}
IsDeposit(tx) ==
  tx.ins = {} /\ tx.pays = 0 /\ tx.outs = {Vault(tx.by, amount[tx.by])}
IsMerge(tx) ==
  /\ tx.pays = 0
  /\ \E p, m \in tx.ins, o \in tx.outs :
       /\ tx.ins = {p, m} /\ tx.outs = {o}
       /\ p.at = "pool" /\ m.at = "vault"
       /\ o.at = "pool" /\ o.by = tx.by /\ o.step = "merge"
       /\ o.total = p.total + m.lovelace /\ o.merges = p.merges + 1
IsRefund(tx) ==
  tx.outs = {} /\ \E m \in tx.ins : tx.ins = {m} /\ m.at = "vault" /\ tx.pays = m.lovelace

\* That is told by the step of the flow that made one; no withdrawal is made.
Shaped(tx) ==
  \/ tx.step = "create" /\ IsCreate(tx)
  \/ tx.step = "deposit" /\ IsDeposit(tx)
  \/ tx.step = "merge" /\ IsMerge(tx)
  \/ tx.step = "refund" /\ IsRefund(tx)

\* What leaves the vault was picked by a call that moves it by hand.
Handled(tx) ==
  tx.step \in {"merge", "refund"} =>
    /\ kind[tx.by] = IF tx.step = "merge" THEN "handmerge" ELSE "refund"
    /\ Vaults(tx.ins) \subseteq picked[tx.by]

Submitting(c) ==
  Create(c) \/ Deposit(c) \/ Merge(c) \/ MergeByHand(c) \/ Withdraw(c) \/ Refund(c)

\* The pool and vault outputs the flows build are sound.
LEMMA Builds ==
  ASSUME NEW c \in Calls, NEW s \in Steps, NEW f \in Forms,
         NEW n \in Nat, NEW t \in Nat, NEW m \in Nat
  PROVE  /\ Pool(c, s, f, n, t, m) \in Output /\ Vault(c, n) \in Output
         /\ n >= t /\ OneMerge(Pool(c, s, f, n, t, m)) => Sound({Pool(c, s, f, n, t, m)})
         /\ n > 0 => Sound({Vault(c, n)})
<1>1. Pool(c, s, f, n, t, m) \in Output /\ Vault(c, n) \in Output
  BY DEF Pool, Vault, Output, Steps, Forms
<1>2. /\ Pool(c, s, f, n, t, m).at = "pool" /\ Vault(c, n).at = "vault"
      /\ Pool(c, s, f, n, t, m).lovelace = n /\ Pool(c, s, f, n, t, m).total = t
      /\ Vault(c, n).lovelace = n
  BY DEF Pool, Vault
<1> QED BY <1>1, <1>2 DEF Sound, Backed, Funded, Pools, Vaults

\* What a flow has read is still typed and sound, whatever became of it.
LEMMA HasRead ==
  ASSUME PoolInv, NEW c \in Calls
  PROVE  /\ \A p \in seen[c] : /\ p \in Output /\ p.at = "pool" /\ p.lovelace >= p.total /\ OneMerge(p)
                               /\ p.lovelace \in Nat /\ p.total \in Nat /\ p.merges \in Nat
         /\ \A m \in picked[c] : m \in Output /\ m.at = "vault" /\ m.lovelace \in Nat /\ m.lovelace > 0
<1>1. /\ Sound(seen[c]) /\ Vaults(seen[c]) = {}
      /\ Sound(picked[c]) /\ Pools(picked[c]) = {}
  BY DEF PoolInv
<1>2. ASSUME NEW p \in seen[c]
      PROVE  /\ p \in Output /\ p.at = "pool" /\ p.lovelace >= p.total /\ OneMerge(p)
             /\ p.lovelace \in Nat /\ p.total \in Nat /\ p.merges \in Nat
  <2>1. p \in Output /\ p.at # "vault"
    BY <1>1 DEF Sound, Vaults
  <2>2. p.at = "pool"
    BY <2>1 DEF Output
  <2>3. p.lovelace >= p.total /\ OneMerge(p)
    BY <1>1, <2>2 DEF Sound, Backed, Pools
  <2> QED BY <2>1, <2>2, <2>3 DEF Output
<1>3. ASSUME NEW m \in picked[c]
      PROVE  m \in Output /\ m.at = "vault" /\ m.lovelace \in Nat /\ m.lovelace > 0
  <2>1. m \in Output /\ m.at # "pool"
    BY <1>1 DEF Sound, Pools
  <2>2. m.at = "vault"
    BY <2>1 DEF Output
  <2> QED BY <1>1, <2>1, <2>2 DEF Sound, Funded, Vaults, Output
<1> QED BY <1>2, <1>3

\* The vault lets no merge through that the server has built: nobody signs for
\* the owner.
LEMMA ServerMerges ==
  ASSUME PoolInv, NEW c \in Calls, Merge(c)
  PROVE  \E tx \in Tx : Submit(c, tx) /\ tx.by = c /\ tx.step = stage[c] /\ ~ Acceptable(tx)
<1>1. PICK p \in seen[c], m \in picked[c] :
        Submit(c, [by |-> c, step |-> "merge", ins |-> {p, m}, pays |-> 0,
                   signed |-> FALSE, outs |-> {Merged(c, p, m)}])
  BY DEF Merge
<1>2. PICK o : o = Merged(c, p, m)
  OBVIOUS
<1> DEFINE tx == [by |-> c, step |-> "merge", ins |-> {p, m}, pays |-> 0,
                  signed |-> FALSE, outs |-> {o}]
<1>3. Submit(c, tx) /\ stage[c] = "merge"
  BY <1>1, <1>2 DEF Merge
<1>4. /\ p \in Output /\ m \in Output /\ m.at = "vault"
      /\ p.lovelace \in Nat /\ p.total \in Nat /\ p.merges \in Nat /\ m.lovelace \in Nat
  BY HasRead
<1>5. o \in Output
  BY <1>2, <1>4 DEF Merged, Pool, Output, Steps, Forms
<1>6. /\ tx \in Tx /\ tx.by = c /\ tx.step = "merge" /\ tx.ins = {p, m} /\ tx.signed = FALSE
  BY <1>4, <1>5 DEF Tx, Steps
<1> HIDE DEF tx
<1>7. m \in Vaults(tx.ins)
  BY <1>4, <1>6 DEF Vaults
<1>8. ~ Acceptable(tx)
  BY <1>6, <1>7 DEF Acceptable, Validated
<1> QED BY <1>3, <1>6, <1>8

\* Of the admin's merges, the pool lets those through that wrap the datum and
\* account for the deposit, into a pool that has taken none.
LEMMA HandMerges ==
  ASSUME PoolInv, NEW c \in Calls, MergeByHand(c)
  PROVE  \E tx \in Tx : /\ Submit(c, tx) /\ tx.by = c /\ tx.step = stage[c]
                        /\ Acceptable(tx) => Shaped(tx) /\ Handled(tx) /\ Sound(tx.outs)
<1>p. PICK p \in seen[c], m \in picked[c], f \in Forms :
        \E n \in 0..p.lovelace + m.lovelace, t \in 0..p.total + m.lovelace :
          Submit(c, [by |-> c, step |-> "merge", ins |-> {p, m}, pays |-> 0, signed |-> TRUE,
                     outs |-> {Pool(c, "merge", f, n, t, p.merges + 1)}])
  BY DEF MergeByHand
<1>1. PICK n \in 0..p.lovelace + m.lovelace, t \in 0..p.total + m.lovelace :
        Submit(c, [by |-> c, step |-> "merge", ins |-> {p, m}, pays |-> 0, signed |-> TRUE,
                   outs |-> {Pool(c, "merge", f, n, t, p.merges + 1)}])
  BY <1>p
<1>2. PICK o : o = Pool(c, "merge", f, n, t, p.merges + 1)
  OBVIOUS
<1> DEFINE tx == [by |-> c, step |-> "merge", ins |-> {p, m}, pays |-> 0,
                  signed |-> TRUE, outs |-> {o}]
<1>3. Submit(c, tx) /\ stage[c] = "merge" /\ kind[c] = "handmerge"
  BY <1>1, <1>2 DEF MergeByHand
<1>4. /\ p \in Output /\ p.at = "pool" /\ p.lovelace >= p.total /\ OneMerge(p)
      /\ m \in Output /\ m.at = "vault" /\ m.lovelace > 0
      /\ p.lovelace \in Nat /\ p.total \in Nat /\ p.merges \in Nat /\ m.lovelace \in Nat
  BY HasRead
<1>5. n \in Nat /\ t \in Nat
  BY <1>4
<1>6. /\ o \in Output /\ o.at = "pool" /\ o.by = c /\ o.step = "merge" /\ o.form = f
      /\ o.lovelace = n /\ o.total = t /\ o.merges = p.merges + 1
  BY <1>2, <1>4, <1>5 DEF Pool, Output, Steps
<1>7. /\ tx \in Tx /\ tx.by = c /\ tx.step = "merge" /\ tx.ins = {p, m} /\ tx.outs = {o}
      /\ tx.pays = 0
  BY <1>4, <1>6 DEF Tx, Steps
<1> HIDE DEF tx
<1>8. ASSUME Acceptable(tx) PROVE Shaped(tx) /\ Handled(tx) /\ Sound(tx.outs)
  <2>1. p \in Pools(tx.ins) /\ Pools(tx.outs) \subseteq {o} /\ tx.ins \ {p} \subseteq {m}
    BY <1>4, <1>7 DEF Pools
  <2>2. p.form = "bare" /\ o.form = "wrapped" /\ MergeDeposit(p, m, o)
    <3>1. PICK q \in Pools(tx.outs), x \in tx.ins \ {p} :
            p.form = "bare" /\ q.form = "wrapped" /\ MergeDeposit(p, x, q)
      BY <1>7, <1>8, <2>1 DEF Acceptable, Validated
    <3>2. q = o /\ x = m
      BY <2>1
    <3> QED BY <3>1, <3>2
  <2>3. p.merges = 0 /\ p.total = 0 /\ o.merges = 1
    BY <1>4, <1>6, <2>2 DEF OneMerge
  <2>4. o.lovelace >= o.total /\ OneMerge(o) /\ o.total = p.total + m.lovelace
    BY <1>4, <2>2, <2>3, <1>5, <1>6 DEF OneMerge, MergeDeposit
  <2>5. Sound(tx.outs)
    BY <1>6, <1>7, <2>4 DEF Sound, Backed, Funded, Pools, Vaults
  <2>6. p \in tx.ins /\ m \in tx.ins /\ o \in tx.outs /\ m \in picked[tx.by]
    BY <1>7
  <2>7. IsMerge(tx)
    BY <1>4, <1>6, <1>7, <2>4, <2>6 DEF IsMerge
  <2>8. Handled(tx)
    BY <1>3, <1>4, <1>7, <2>6 DEF Handled, Vaults
  <2> QED BY <1>7, <2>5, <2>7, <2>8 DEF Shaped
<1> QED BY <1>3, <1>7, <1>8

\* A pool that can be spent claims nothing, so that nothing can be withdrawn.
LEMMA Withdrawals ==
  ASSUME PoolInv, NEW c \in Calls, Withdraw(c)
  PROVE  \E tx \in Tx : Submit(c, tx) /\ tx.by = c /\ tx.step = stage[c] /\ ~ Acceptable(tx)
<1>p. PICK p \in Pools(ledger), f \in Forms : \E n \in 0..p.lovelace, t \in 0..p.total :
        Submit(c, [by |-> c, step |-> "withdraw", ins |-> {p}, pays |-> amount[c], signed |-> TRUE,
                   outs |-> {Pool(c, "withdraw", f, n, t, p.merges)}])
  BY DEF Withdraw
<1>1. PICK n \in 0..p.lovelace, t \in 0..p.total :
        Submit(c, [by |-> c, step |-> "withdraw", ins |-> {p}, pays |-> amount[c], signed |-> TRUE,
                   outs |-> {Pool(c, "withdraw", f, n, t, p.merges)}])
  BY <1>p
<1>2. PICK o : o = Pool(c, "withdraw", f, n, t, p.merges)
  OBVIOUS
<1> DEFINE tx == [by |-> c, step |-> "withdraw", ins |-> {p}, pays |-> amount[c],
                  signed |-> TRUE, outs |-> {o}]
<1>3. Submit(c, tx) /\ stage[c] = "withdraw" /\ amount[c] \in Nat
  BY <1>1, <1>2 DEF Withdraw, PoolInv, TypeOK
<1>4. p \in Output /\ p.at = "pool" /\ OneMerge(p)
  BY DEF PoolInv, Sound, Backed, Pools
<1>5. p.lovelace \in Nat /\ p.total \in Nat /\ p.merges \in Nat
  BY <1>4 DEF Output
<1>6. n \in Nat /\ t \in Nat
  BY <1>5
<1>7. o \in Output
  BY <1>2, <1>5, <1>6 DEF Pool, Output, Steps
<1>8. /\ tx \in Tx /\ tx.by = c /\ tx.step = "withdraw" /\ tx.ins = {p} /\ tx.outs = {o}
      /\ tx.pays = amount[c]
  BY <1>3, <1>4, <1>7 DEF Tx, Steps
<1> HIDE DEF tx
<1>9. ~ Acceptable(tx)
  <2> SUFFICES ASSUME Acceptable(tx) PROVE FALSE
    OBVIOUS
  <2>1. p \in Pools(tx.ins) /\ Pools(tx.outs) \subseteq {o}
    BY <1>4, <1>8 DEF Pools
  <2>2. p.form = "bare" /\ WithdrawClose(p, tx.pays, o)
    BY <1>8, <2>1 DEF Acceptable, Validated
  <2> QED BY <1>3, <1>4, <1>5, <1>8, <2>2 DEF OneMerge, WithdrawClose
<1> QED BY <1>3, <1>8, <1>9

\* Only one kind of flow gets to a refund.
LEMMA RefundKind ==
  ASSUME PoolInv, NEW c \in Calls, stage[c] = "refund"
  PROVE  kind[c] = "refund"
<1>1. /\ kind[c] \in AllKinds
      /\ \E i \in 1..Len(Stages(kind[c])) - 1 : Stages(kind[c])[i] = "refund"
  BY DEF PoolInv, OnPath, Ended
<1>2. ASSUME NEW k \in AllKinds \ {"refund"} PROVE ~ \E i \in DOMAIN Stages(k) : Stages(k)[i] = "refund"
  BY DEF Stages, AllKinds, Server, ByHand
<1>3. Len(Stages(kind[c])) \in 3..10 /\ DOMAIN Stages(kind[c]) = 1..Len(Stages(kind[c]))
  BY <1>1, StagesType, LenProperties
<1> QED BY <1>1, <1>2, <1>3

\* What the node accepts does what its stage says, and makes sound outputs.
LEMMA Submissions ==
  ASSUME PoolInv, NEW c \in Calls, Submitting(c)
  PROVE  \E tx \in Tx : /\ Submit(c, tx) /\ tx.by = c /\ tx.step = stage[c]
                        /\ Acceptable(tx) => Shaped(tx) /\ Handled(tx) /\ Sound(tx.outs)
<1>0. amount[c] \in Nat /\ 0 \in Nat /\ "create" \in Steps /\ "deposit" \in Steps /\ "bare" \in Forms
  BY DEF PoolInv, TypeOK, Steps, Forms
<1>1. CASE Create(c)
  <2>o. PICK o : o = Pool(c, "create", "bare", amount[c], 0, 0)
    OBVIOUS
  <2> DEFINE tx == [by |-> c, step |-> "create", ins |-> {}, pays |-> 0, signed |-> FALSE,
                    outs |-> {o}]
  <2>1. Submit(c, tx) /\ stage[c] = "create"
    BY <1>1, <2>o DEF Create
  <2>2. o \in Output /\ Sound({o})
    <3>1. OneMerge(o) /\ amount[c] >= 0
      BY <1>0, <2>o DEF OneMerge, Pool
    <3>2. /\ Pool(c, "create", "bare", amount[c], 0, 0) \in Output
          /\ Sound({Pool(c, "create", "bare", amount[c], 0, 0)})
      BY <1>0, <2>o, <3>1, Builds
    <3> QED BY <2>o, <3>2
  <2>3. tx \in Tx /\ tx.by = c /\ tx.step = "create" /\ tx.outs = {o} /\ tx.ins = {} /\ tx.pays = 0
    BY <2>2 DEF Tx, Steps
  <2> HIDE DEF tx
  <2> QED BY <2>o, <2>1, <2>2, <2>3 DEF Shaped, IsCreate, Handled
<1>2. CASE Deposit(c)
  <2>o. PICK o : o = Vault(c, amount[c])
    OBVIOUS
  <2> DEFINE tx == [by |-> c, step |-> "deposit", ins |-> {}, pays |-> 0, signed |-> FALSE,
                    outs |-> {o}]
  <2>1. Submit(c, tx) /\ stage[c] = "deposit" /\ amount[c] > 0
    BY <1>2, <2>o DEF Deposit, PoolInv, OnPath, Ended
  <2>2. o \in Output /\ Sound({o})
    BY <1>0, <2>o, <2>1, Builds
  <2>3. tx \in Tx /\ tx.by = c /\ tx.step = "deposit" /\ tx.outs = {o} /\ tx.ins = {} /\ tx.pays = 0
    BY <2>2 DEF Tx, Steps
  <2> HIDE DEF tx
  <2> QED BY <2>o, <2>1, <2>2, <2>3 DEF Shaped, IsDeposit, Handled
<1>3. CASE Merge(c)
  BY <1>3, ServerMerges
<1>4. CASE MergeByHand(c)
  BY <1>4, HandMerges
<1>5. CASE Withdraw(c)
  BY <1>5, Withdrawals
<1>6. CASE Refund(c)
  <2>1. PICK m \in picked[c] :
          Submit(c, [by |-> c, step |-> "refund", ins |-> {m}, pays |-> m.lovelace,
                     signed |-> TRUE, outs |-> {}])
    BY <1>6 DEF Refund
  <2> DEFINE tx == [by |-> c, step |-> "refund", ins |-> {m}, pays |-> m.lovelace,
                    signed |-> TRUE, outs |-> {}]
  <2>2. Submit(c, tx) /\ stage[c] = "refund"
    BY <1>6, <2>1 DEF Refund
  <2>3. m \in Output /\ m.at = "vault" /\ m.lovelace \in Nat
    BY HasRead
  <2>4. tx \in Tx /\ tx.ins = {m} /\ tx.outs = {} /\ tx.step = "refund" /\ tx.pays = m.lovelace /\ tx.by = c
    BY <2>3 DEF Tx, Steps
  <2> HIDE DEF tx
  <2>5. Shaped(tx)
    BY <2>3, <2>4 DEF Shaped, IsRefund
  <2>6. Sound(tx.outs)
    BY <2>4 DEF Sound, Backed, Funded, Pools, Vaults
  <2>7. kind[c] = "refund"
    BY <2>2, RefundKind
  <2>8. Handled(tx)
    BY <2>4, <2>7 DEF Handled, Vaults
  <2> QED BY <2>2, <2>4, <2>5, <2>6, <2>8
<1> QED BY <1>1, <1>2, <1>3, <1>4, <1>5, <1>6 DEF Submitting

\* The remaining steps of the flows only read.
LEMMA Looks ==
  ASSUME NEW c \in Calls
  PROVE  PoolInv /\ (Empty(c) \/ Await(c) \/ Pick(c) \/ Find(c) \/ ReadPool(c)) => PoolInv'
<1> SUFFICES ASSUME PoolInv, Empty(c) \/ Await(c) \/ Pick(c) \/ Find(c) \/ ReadPool(c)
             PROVE  PoolInv'
  OBVIOUS
<1>1. stage[c] \notin Ended
  BY DEF Empty, Await, Pick, Find, ReadPool, Ended
<1>2. CASE Empty(c) \/ Await(c)
  BY <1>1, <1>2, Moves DEF Empty, Await
<1>3. ASSUME Throw(c), UNCHANGED <<chainVars, locals, mempool, refused>> PROVE PoolInv'
  BY <1>1, <1>3, Moves
<1>4. ASSUME NEW o \in Vaults(ledger), Choose(c, o), UNCHANGED <<chainVars, mempool, refused>>
      PROVE  PoolInv'
  <2>1. {o} \in SUBSET ledger /\ {o} = Vaults({o})
    BY DEF Vaults
  <2> QED BY <1>1, <1>4, <2>1, Reads DEF Choose
<1>5. CASE Pick(c)
  BY <1>3, <1>4, <1>5 DEF Pick
<1>6. CASE Find(c)
  BY <1>3, <1>4, <1>6 DEF Find
<1>7. CASE ReadPool(c)
  <2> DEFINE readable == OnePool /\ \A o \in Pools(ledger) : o.form = "bare"
  <2>1. CASE readable
    <3>1. Pools(ledger) \in SUBSET ledger /\ Pools(ledger) = Pools(Pools(ledger))
      BY DEF Pools
    <3> QED BY <1>1, <1>7, <2>1, <3>1, Reads DEF ReadPool
  <2>2. CASE ~readable
    BY <1>3, <1>7, <2>2 DEF ReadPool
  <2> QED BY <2>1, <2>2
<1> QED BY <1>2, <1>5, <1>6, <1>7

\* Every step of the flows keeps the invariant.
LEMMA NextPoolInv == PoolInv /\ [Next]_vars => PoolInv'
<1> SUFFICES ASSUME PoolInv, [Next]_vars PROVE PoolInv'
  OBVIOUS
<1>1. CASE UNCHANGED vars
  BY <1>1 DEF vars, PoolInv, TypeOK, Sound, OnPath
<1>2. ASSUME NEW c \in Calls, Flow(c) PROVE PoolInv'
  <2>1. CASE Submitting(c)
    <3>1. PICK tx \in Tx : Submit(c, tx) /\ tx.step = stage[c] /\ (Acceptable(tx) => Sound(tx.outs))
      BY <2>1, Submissions
    <3>2. stage[c] \notin Ended
      BY <3>1 DEF Tx, Steps, Ended
    <3> QED BY <3>1, <3>2, Submits
  <2>2. CASE ~ Submitting(c)
    BY <1>2, <2>2, Begins, Looks DEF Flow, Submitting
  <2> QED BY <2>1, <2>2
<1> QED BY <1>1, <1>2, Confirms, Drops DEF Next

\* The invariant, for any calls, kinds of flows and amounts.
THEOREM PoolInductive == Spec => []PoolInv
<1> QED BY InitPoolInv, NextPoolInv, PTL DEF Spec

\* Type correctness of every flow of margin_pool_flow.ts.
THEOREM PoolTypeCorrect == Spec => []TypeOK
<1>1. PoolInv => TypeOK
  BY DEF PoolInv
<1> QED BY <1>1, PoolInductive, PTL

\* A pool's lovelace always cover what its datum claims, whatever the flows and
\* the admin's withdrawals, for any number of pools.
THEOREM PoolAlwaysBacked == Spec => []PoolIsBacked
<1>1. PoolInv => PoolIsBacked
  BY DEF PoolInv, Sound, Backed, PoolIsBacked
<1> QED BY <1>1, PoolInductive, PTL

-----------------------------------------------------------------------------
(* The accounts.  They rest on what the transactions of the mempool are,   *)
(* on each being made once, and on none spending what another spends.      *)

Waits(c, s) == \E i \in DOMAIN mempool : mempool[i].by = c /\ mempool[i].step = s
Made(c, s) == <<c, s>> \in chain \/ Waits(c, s)

\* The call is past the stage s of its flow.
Behind(c, s) ==
  /\ stage[c] # "new"
  /\ \A i, j \in DOMAIN Stages(kind[c]) :
       Stages(kind[c])[i] = stage[c] /\ Stages(kind[c])[j] = s => j < i

\* Outputs come from transactions of a block.
Mined == \A o \in ledger : <<o.by, o.step>> \in chain

\* What a transaction of the mempool spends is there to be spent.
Pending ==
  \A i \in DOMAIN mempool :
    /\ Shaped(mempool[i]) /\ mempool[i].ins \subseteq ledger
    /\ <<mempool[i].by, mempool[i].step>> \notin chain

\* Those of the mempool are not in one another's way.
Disjoint ==
  \A i, j \in DOMAIN mempool :
    i # j => /\ mempool[i].ins \cap mempool[j].ins = {}
             /\ <<mempool[i].by, mempool[i].step>> # <<mempool[j].by, mempool[j].step>>

\* A call makes the transaction of a step once.
MadeOnce == \A c \in Calls, s \in Steps : Made(c, s) => Behind(c, s)

BooksInv ==
  /\ PoolInv
  /\ IsFiniteSet(ledger) /\ IsFiniteSet(chain)
  /\ Mined /\ Pending /\ Disjoint /\ MadeOnce

\* Stages are different from each other.
LEMMA StagesDistinct ==
  ASSUME NEW k \in AllKinds
  PROVE  \A i, j \in DOMAIN Stages(k) :
           /\ Stages(k)[i] = Stages(k)[j] => i = j
           /\ Stages(k)[i] # "failed"
<1>1. CASE k = "bootstrap"
  BY <1>1 DEF Stages
<1>5. CASE k = "deposit"
  BY <1>5 DEF Stages
<1>6. CASE k = "withdraw"
  BY <1>6 DEF Stages
<1>7. CASE k = "refund"
  BY <1>7 DEF Stages
<1>2. CASE k = "merge"
  BY <1>2 DEF Stages
<1>3. CASE k = "lock"
  BY <1>3 DEF Stages
<1>4. CASE k = "demo"
  BY <1>4 DEF Stages
<1>8. CASE k = "handmerge"
  BY <1>8 DEF Stages
<1> QED BY <1>1, <1>2, <1>3, <1>4, <1>5, <1>6, <1>7, <1>8 DEF AllKinds, Server, ByHand

\* A step of a flow leaves its stage behind, and those already behind.
LEMMA LeavesBehind ==
  ASSUME PoolInv, NEW c \in Calls, stage[c] \notin Ended, Advance(c) \/ Throw(c), UNCHANGED kind
  PROVE  /\ ~ Behind(c, stage[c])
         /\ \A d \in Calls, s \in Steps : Behind(d, s) \/ (d = c /\ s = stage[c]) => Behind(d, s)'
<1>1. kind[c] \in AllKinds /\ stage \in [Calls -> StageNames] /\ kind' = kind
  BY DEF PoolInv, TypeOK, OnPath
<1>2. PICK i \in 1..Len(Stages(kind[c])) - 1 : Stages(kind[c])[i] = stage[c]
  BY DEF PoolInv, OnPath
<1>3. /\ Len(Stages(kind[c])) \in 3..10 /\ DOMAIN Stages(kind[c]) = 1..Len(Stages(kind[c]))
  BY <1>1, StagesType, LenProperties
<1>4. ~ Behind(c, stage[c])
  BY <1>2, <1>3 DEF Behind
<1>5. ASSUME NEW d \in Calls, NEW s \in Steps, Behind(d, s) \/ (d = c /\ s = stage[c]) PROVE Behind(d, s)'
  <2>1. CASE d # c
    <3>1. stage'[d] = stage[d]
      BY <1>1, <2>1 DEF Advance, Throw
    <3> QED BY <1>1, <1>5, <2>1, <3>1 DEF Behind
  <2>2. CASE d = c /\ Throw(c)
    <3>1. stage'[c] = "failed"
      BY <1>1, <2>2 DEF Throw
    <3> QED BY <1>1, <2>2, <3>1, StagesDistinct DEF Behind
  <2>3. CASE d = c /\ Advance(c)
    <3> DEFINE st == Stages(kind[c])
               n == CHOOSE j \in 1..Len(st) - 1 : st[j] = stage[c]
    <3>1. n \in 1..Len(st) - 1 /\ st[n] = stage[c]
      BY <1>2
    <3>2. After(c) = st[1 + n]
      BY DEF After
    <3>3. stage'[c] = st[1 + n] /\ n \in DOMAIN st /\ 1 + n \in DOMAIN st
      BY <1>1, <1>3, <2>3, <3>1, <3>2 DEF Advance
    <3>4. stage'[c] # "new"
      <4>1. st[1 + n] # "new"
        <5>1. CASE 1 + n \in 2..Len(st) - 1
          BY <1>1, <5>1, StagesType DEF Ended
        <5>2. CASE 1 + n = Len(st)
          BY <1>1, <5>2, StagesType
        <5> QED BY <1>3, <3>1, <5>1, <5>2
      <4> QED BY <3>3, <4>1
    <3>5. \A a, b \in DOMAIN st : st[a] = st[b] => a = b
      BY <1>1, StagesDistinct
    <3> HIDE DEF n
    <3>6. ASSUME NEW a \in DOMAIN st, NEW b \in DOMAIN st, st[a] = st[1 + n], st[b] = s PROVE b < a
      <4>1. a = 1 + n
        BY <3>3, <3>5, <3>6
      <4>2. b < n \/ b = n
        <5>1. CASE Behind(c, s)
          BY <3>1, <3>3, <3>6, <5>1 DEF Behind
        <5>2. CASE s = stage[c]
          BY <3>1, <3>3, <3>5, <3>6, <5>2
        <5> QED BY <1>5, <2>3, <5>1, <5>2
      <4> QED BY <1>3, <3>1, <4>1, <4>2
    <3> HIDE DEF st
    <3>7. \A a, b \in DOMAIN st : st[a] = stage'[c] /\ st[b] = s => b < a
      BY <3>3, <3>6
    <3> QED BY <1>1, <2>3, <3>4, <3>7 DEF Behind, st
  <2> QED BY <2>1, <2>2, <2>3
<1> QED BY <1>4, <1>5

\* The transactions of the mempool.
LEMMA Queued ==
  ASSUME PoolInv
  PROVE  /\ mempool \in Seq(Tx) /\ Len(mempool) \in Nat /\ DOMAIN mempool = 1..Len(mempool)
         /\ \A i \in DOMAIN mempool : mempool[i] \in Tx
  BY LenProperties, ElementOfSeq DEF PoolInv, TypeOK

\* The books do not depend on where the calls are, but for what they have left behind.
LEMMA BooksStay ==
  ASSUME BooksInv, PoolInv', NEW c \in Calls, stage[c] \notin Ended, Advance(c) \/ Throw(c),
         UNCHANGED <<chainVars, mempool, kind, amount>>
  PROVE  BooksInv'
<1>1. Mined' /\ Pending' /\ Disjoint' /\ IsFiniteSet(ledger') /\ IsFiniteSet(chain')
  BY DEF BooksInv, chainVars, Mined, Pending, Disjoint, Shaped, IsCreate, IsDeposit, IsMerge, IsRefund
<1>2. MadeOnce'
  <2> SUFFICES ASSUME NEW d \in Calls, NEW s \in Steps, Made(d, s)' PROVE Behind(d, s)'
    BY DEF MadeOnce
  <2>1. Made(d, s)
    BY DEF Made, Waits, chainVars
  <2>2. Behind(d, s)
    BY <2>1 DEF BooksInv, MadeOnce
  <2> QED BY <2>2, LeavesBehind DEF BooksInv
<1> QED BY <1>1, <1>2 DEF BooksInv

\* A transaction that joins the mempool spends what nothing else spends, for the first time.
LEMMA BooksSubmit ==
  ASSUME BooksInv, PoolInv', NEW c \in Calls, NEW tx \in Tx, tx.by = c, tx.step = stage[c], Shaped(tx),
         Acceptable(tx), mempool' = Append(mempool, tx), Advance(c), UNCHANGED <<chainVars, locals>>
  PROVE  BooksInv'
<1>0. PoolInv /\ stage[c] \in Steps /\ stage[c] \notin Ended
  BY DEF BooksInv, Tx, Steps, Ended
<1>q. /\ Len(mempool') = Len(mempool) + 1 /\ Len(mempool) \in Nat
      /\ DOMAIN mempool = 1..Len(mempool) /\ DOMAIN mempool' = 1..Len(mempool) + 1
      /\ \A i \in 1..Len(mempool) : mempool'[i] = mempool[i]
      /\ mempool'[Len(mempool) + 1] = tx
  BY <1>0, Queued, AppendIs, LenProperties
<1>n. ~ Made(c, stage[c])
  BY <1>0, LeavesBehind DEF BooksInv, MadeOnce, locals
<1>1. Mined' /\ IsFiniteSet(ledger') /\ IsFiniteSet(chain')
  BY DEF BooksInv, chainVars, Mined
<1>2. \A o \in tx.ins : o \in ledger /\ \A i \in DOMAIN mempool : o \notin mempool[i].ins
  BY DEF Acceptable, Unspent
<1>3. Pending'
  <2> SUFFICES ASSUME NEW i \in DOMAIN mempool'
               PROVE  /\ Shaped(mempool[i])' /\ mempool'[i].ins \subseteq ledger'
                      /\ <<mempool'[i].by, mempool'[i].step>> \notin chain'
    BY DEF Pending
  <2>1. PICK t : t = mempool'[i] /\ Shaped(t) /\ t.ins \subseteq ledger /\ <<t.by, t.step>> \notin chain
    <3>1. CASE i \in DOMAIN mempool
      BY <1>q, <3>1 DEF BooksInv, Pending
    <3>2. CASE i = Len(mempool) + 1
      BY <1>q, <1>2, <1>n, <3>2 DEF Made
    <3>3. i \in DOMAIN mempool \/ i = Len(mempool) + 1
      BY <1>q
    <3> QED BY <3>1, <3>2, <3>3
  <2>2. Shaped(mempool[i])'
    <3>1. amount' = amount
      BY DEF locals
    <3>2. t = mempool'[i] /\ Shaped(t)
      BY <2>1
    <3>3. /\ IsCreate(mempool[i])' <=> IsCreate(t)
          /\ IsDeposit(mempool[i])' <=> IsDeposit(t)
      BY <3>1, <3>2 DEF IsCreate, IsDeposit
    <3>4. /\ IsMerge(mempool[i])' <=> IsMerge(t)
          /\ IsRefund(mempool[i])' <=> IsRefund(t)
      BY <3>2 DEF IsMerge, IsRefund
    <3> QED BY <3>2, <3>3, <3>4 DEF Shaped
  <2> QED BY <2>1, <2>2 DEF chainVars
<1>4. Disjoint'
  <2>1. ASSUME NEW i \in DOMAIN mempool
        PROVE  /\ mempool[i].ins \cap tx.ins = {}
               /\ <<mempool[i].by, mempool[i].step>> # <<tx.by, tx.step>>
    BY <1>2, <1>n DEF Made, Waits
  <2> SUFFICES ASSUME NEW i \in DOMAIN mempool', NEW j \in DOMAIN mempool', i # j
               PROVE  /\ mempool'[i].ins \cap mempool'[j].ins = {}
                      /\ <<mempool'[i].by, mempool'[i].step>> # <<mempool'[j].by, mempool'[j].step>>
    BY DEF Disjoint
  <2>2. CASE i \in DOMAIN mempool /\ j \in DOMAIN mempool
    BY <1>q, <2>2 DEF BooksInv, Disjoint
  <2>3. CASE i \in DOMAIN mempool /\ j = Len(mempool) + 1
    BY <1>q, <2>1, <2>3
  <2>4. CASE i = Len(mempool) + 1 /\ j \in DOMAIN mempool
    BY <1>q, <2>1, <2>4
  <2> QED BY <1>q, <2>2, <2>3, <2>4
<1>5. MadeOnce'
  <2> SUFFICES ASSUME NEW d \in Calls, NEW s \in Steps, Made(d, s)' PROVE Behind(d, s)'
    BY DEF MadeOnce
  <2>1. Made(d, s) \/ (d = c /\ s = stage[c])
    BY <1>q DEF Made, Waits, chainVars
  <2>2. Behind(d, s) \/ (d = c /\ s = stage[c])
    BY <2>1 DEF BooksInv, MadeOnce
  <2> QED BY <1>0, <2>2, LeavesBehind DEF locals
<1> QED BY <1>1, <1>3, <1>4, <1>5 DEF BooksInv

\* A mempool that lacks the transaction at gone.
Lacks(gone) ==
  \E f \in [DOMAIN mempool' -> DOMAIN mempool] :
    /\ \A k \in DOMAIN mempool' : mempool'[k] = mempool[f[k]] /\ f[k] # gone
    /\ \A k, l \in DOMAIN mempool' : k # l => f[k] # f[l]
    /\ \A k, l \in DOMAIN mempool' : k < l => f[k] < f[l]

\* The first transaction of the mempool gets into a block.
LEMMA ConfirmLacks == PoolInv /\ Confirm => Lacks(1) /\ 1 \in DOMAIN mempool /\ Head(mempool) = mempool[1]
<1> SUFFICES ASSUME PoolInv, Confirm PROVE Lacks(1) /\ 1 \in DOMAIN mempool /\ Head(mempool) = mempool[1]
  OBVIOUS
<1>1. /\ mempool \in Seq(Tx) /\ mempool # <<>> /\ mempool' = Tail(mempool)
  BY Queued DEF Confirm
<1>2. /\ Head(mempool) = mempool[1] /\ Len(mempool) \in Nat \ {0} /\ DOMAIN mempool = 1..Len(mempool)
      /\ mempool' \in Seq(Tx) /\ Len(mempool') = Len(mempool) - 1
      /\ \A k \in 1..Len(mempool) - 1 : mempool'[k] = mempool[k + 1]
  BY <1>1, TailIs, LenProperties
<1>3. DOMAIN mempool' = 1..Len(mempool) - 1
  BY <1>2, LenProperties
<1> DEFINE f == [k \in DOMAIN mempool' |-> k + 1]
<1>4. f \in [DOMAIN mempool' -> DOMAIN mempool]
  BY <1>2, <1>3
<1>5. \A k \in DOMAIN mempool' : f[k] = k + 1 /\ mempool'[k] = mempool[k + 1] /\ f[k] # 1
  BY <1>2, <1>3
<1>6. \A k, l \in DOMAIN mempool' : (k # l => f[k] # f[l]) /\ (k < l => f[k] < f[l])
  BY <1>3, <1>5
<1>7. \A k \in DOMAIN mempool' : mempool'[k] = mempool[f[k]] /\ f[k] # 1
  BY <1>5
<1> HIDE DEF f
<1>8. Lacks(1)
  BY <1>4, <1>6, <1>7 DEF Lacks
<1> QED BY <1>2, <1>8

\* A dropped transaction lacks an input.
LEMMA DropLacks == PoolInv /\ Drop => \E gone \in DOMAIN mempool : Lacks(gone)
<1> SUFFICES ASSUME PoolInv, Drop PROVE \E gone \in DOMAIN mempool : Lacks(gone)
  OBVIOUS
<1>1. PICK gone \in DOMAIN mempool : mempool' = RemoveAt(mempool, gone)
  BY DEF Drop
<1>2. /\ mempool \in Seq(Tx) /\ Len(mempool) \in Nat /\ DOMAIN mempool = 1..Len(mempool)
  BY Queued
<1>3. /\ mempool' \in Seq(Tx) /\ Len(mempool') = Len(mempool) - 1
      /\ \A k \in 1..Len(mempool) - 1 : mempool'[k] = IF k < gone THEN mempool[k] ELSE mempool[k + 1]
  BY <1>1, <1>2, RemoveAtIs
<1>4. DOMAIN mempool' = 1..Len(mempool) - 1
  BY <1>3, LenProperties
<1> DEFINE f == [k \in DOMAIN mempool' |-> IF k < gone THEN k ELSE k + 1]
<1>5. f \in [DOMAIN mempool' -> DOMAIN mempool]
  BY <1>2, <1>4
<1>6. \A k \in DOMAIN mempool' : mempool'[k] = mempool[f[k]]
  BY <1>3, <1>4
<1>7. \A k \in DOMAIN mempool' : f[k] # gone
  BY <1>2, <1>4
<1>8. \A k, l \in DOMAIN mempool' : (k # l => f[k] # f[l]) /\ (k < l => f[k] < f[l])
  BY <1>2, <1>4
<1> HIDE DEF f
<1>9. Lacks(gone)
  BY <1>5, <1>6, <1>7, <1>8 DEF Lacks
<1> QED BY <1>9

\* When a transaction leaves the mempool, for a block or for good, the others keep what they spend.
LEMMA BooksLack ==
  ASSUME BooksInv, NEW gone \in DOMAIN mempool, Lacks(gone), UNCHANGED <<locals, stage>>,
         \/ UNCHANGED <<ledger, chain>>
         \/ /\ ledger \ mempool[gone].ins \subseteq ledger'
            /\ chain' = chain \cup {<<mempool[gone].by, mempool[gone].step>>}
  PROVE  Pending' /\ Disjoint' /\ MadeOnce'
<1>1. PICK f \in [DOMAIN mempool' -> DOMAIN mempool] :
        /\ \A k \in DOMAIN mempool' : mempool'[k] = mempool[f[k]] /\ f[k] # gone
        /\ \A k, l \in DOMAIN mempool' : k # l => f[k] # f[l]
  BY DEF Lacks
<1>2. ASSUME NEW i \in DOMAIN mempool'
      PROVE  /\ Shaped(mempool[i])' /\ mempool'[i].ins \subseteq ledger'
             /\ <<mempool'[i].by, mempool'[i].step>> \notin chain'
  <2>1. PICK t : t = mempool'[i] /\ t = mempool[f[i]] /\ f[i] \in DOMAIN mempool /\ f[i] # gone
    BY <1>1
  <2>2. Shaped(t) /\ t.ins \subseteq ledger /\ <<t.by, t.step>> \notin chain
    BY <2>1 DEF BooksInv, Pending
  <2>3. /\ mempool[gone].ins \cap t.ins = {}
        /\ <<mempool[gone].by, mempool[gone].step>> # <<t.by, t.step>>
    BY <2>1 DEF BooksInv, Disjoint
  <2>4. Shaped(mempool[i])'
    <3>1. amount' = amount
      BY DEF locals
    <3>2. t = mempool'[i] /\ Shaped(t)
      BY <2>1, <2>2
    <3> QED BY <3>1, <3>2 DEF Shaped, IsCreate, IsDeposit, IsMerge, IsRefund
  <2>5. t.ins \subseteq ledger'
    BY <2>2, <2>3
  <2>6. <<t.by, t.step>> \notin chain'
    BY <2>2, <2>3
  <2> QED BY <2>1, <2>4, <2>5, <2>6
<1>3. Pending'
  BY <1>2 DEF Pending
<1>4. Disjoint'
  <2> SUFFICES ASSUME NEW i \in DOMAIN mempool', NEW j \in DOMAIN mempool', i # j
               PROVE  /\ mempool'[i].ins \cap mempool'[j].ins = {}
                      /\ <<mempool'[i].by, mempool'[i].step>> # <<mempool'[j].by, mempool'[j].step>>
    BY DEF Disjoint
  <2>1. PICK a \in DOMAIN mempool, b \in DOMAIN mempool : a = f[i] /\ b = f[j] /\ a # b
    BY <1>1
  <2> QED BY <1>1, <2>1 DEF BooksInv, Disjoint
<1>5. MadeOnce'
  <2> SUFFICES ASSUME NEW d \in Calls, NEW s \in Steps, Made(d, s)' PROVE Behind(d, s)'
    BY DEF MadeOnce
  <2>1. Made(d, s)
    <3>1. CASE <<d, s>> \in chain'
      <4>1. <<d, s>> \in chain \/ (d = mempool[gone].by /\ s = mempool[gone].step)
        BY <3>1
      <4> QED BY <4>1 DEF Made, Waits
    <3>2. CASE Waits(d, s)'
      <4>1. PICK i \in DOMAIN mempool' : mempool'[i].by = d /\ mempool'[i].step = s
        BY <3>2 DEF Waits
      <4> QED BY <1>1, <4>1 DEF Made, Waits
    <3> QED BY <3>1, <3>2 DEF Made
  <2>2. Behind(d, s)
    BY <2>1 DEF BooksInv, MadeOnce
  <2> QED BY <2>2 DEF Behind, locals
<1> QED BY <1>3, <1>4, <1>5

\* The call that begins has made nothing yet.
LEMMA BooksBegin ==
  ASSUME BooksInv, PoolInv', NEW c \in Calls, Begin(c)
  PROVE  BooksInv'
<1>0. PoolInv /\ stage[c] = "new" /\ UNCHANGED <<chainVars, mempool>>
  BY DEF BooksInv, Begin
<1>n. \A s \in Steps : ~ Made(c, s)
  BY <1>0 DEF BooksInv, MadeOnce, Behind
<1>1. Mined' /\ IsFiniteSet(ledger') /\ IsFiniteSet(chain') /\ Disjoint'
  BY <1>0 DEF BooksInv, chainVars, Mined, Disjoint
<1>2. \A d \in Calls : d # c => stage'[d] = stage[d] /\ kind'[d] = kind[d] /\ amount'[d] = amount[d]
  BY <1>0 DEF Begin, PoolInv, TypeOK
<1>3. Pending'
  <2> SUFFICES ASSUME NEW i \in DOMAIN mempool
               PROVE  /\ Shaped(mempool[i])' /\ mempool[i].ins \subseteq ledger
                      /\ <<mempool[i].by, mempool[i].step>> \notin chain
    BY <1>0 DEF Pending, chainVars
  <2>1. Shaped(mempool[i]) /\ mempool[i].ins \subseteq ledger /\ <<mempool[i].by, mempool[i].step>> \notin chain
    BY DEF BooksInv, Pending
  <2>2. mempool[i].by \in Calls /\ mempool[i].step \in Steps
    BY <1>0, Queued DEF Tx
  <2>3. mempool[i].by # c
    BY <1>n, <2>2 DEF Made, Waits
  <2>4. amount'[mempool[i].by] = amount[mempool[i].by] /\ mempool' = mempool
    BY <1>0, <1>2, <2>2, <2>3
  <2> QED BY <2>1, <2>4 DEF Shaped, IsCreate, IsDeposit, IsMerge, IsRefund
<1>4. MadeOnce'
  <2> SUFFICES ASSUME NEW d \in Calls, NEW s \in Steps, Made(d, s)' PROVE Behind(d, s)'
    BY DEF MadeOnce
  <2>1. Made(d, s)
    BY <1>0 DEF Made, Waits, chainVars
  <2>2. Behind(d, s) /\ d # c
    BY <1>n, <2>1 DEF BooksInv, MadeOnce
  <2> QED BY <1>2, <2>2 DEF Behind
<1> QED BY <1>1, <1>3, <1>4 DEF BooksInv

\* The sums of the accounts.
VaultSum(os) == SumFunction([o \in Vaults(os) |-> o.lovelace])
TotalSum(os) == SumFunction([o \in Pools(os) |-> o.total])
MergeSum(os) == SumFunction([o \in Pools(os) |-> o.merges])
AtVault(o) == IF o.at = "vault" THEN o.lovelace ELSE 0
InPool(o) == IF o.at = "pool" THEN o.total ELSE 0
Joined(o) == IF o.at = "pool" THEN o.merges ELSE 0

\* The sums of outputs, and with one more.
LEMMA SumsWith ==
  ASSUME NEW os \in SUBSET Output, IsFiniteSet(os)
  PROVE  /\ VaultSum(os) \in Int /\ TotalSum(os) \in Int /\ MergeSum(os) \in Int
         /\ \A x \in Output \ os : /\ VaultSum(os \cup {x}) = AtVault(x) + VaultSum(os)
                                   /\ TotalSum(os \cup {x}) = InPool(x) + TotalSum(os)
                                   /\ MergeSum(os \cup {x}) = Joined(x) + MergeSum(os)
<1> DEFINE lovelace == [o \in Output |-> o.lovelace]
           total == [o \in Output |-> o.total]
           merges == [o \in Output |-> o.merges]
<1>1. lovelace \in [Output -> Int] /\ total \in [Output -> Int] /\ merges \in [Output -> Int]
  BY DEF Output
<1>2. /\ \A o \in Output : lovelace[o] = o.lovelace /\ total[o] = o.total /\ merges[o] = o.merges
      /\ \A o \in Output : o.at \in {"pool", "vault"}
  BY DEF Output
<1> HIDE DEF lovelace, total, merges
<1>3. ASSUME NEW S \in SUBSET Output
      PROVE  /\ VaultSum(S) = SumFunction([o \in Vaults(S) |-> lovelace[o]])
             /\ TotalSum(S) = SumFunction([o \in Pools(S) |-> total[o]])
             /\ MergeSum(S) = SumFunction([o \in Pools(S) |-> merges[o]])
             /\ Vaults(S) \in SUBSET Output /\ Pools(S) \in SUBSET Output
  <2>1. Vaults(S) \in SUBSET Output /\ Pools(S) \in SUBSET Output
    BY DEF Vaults, Pools
  <2>2. /\ [o \in Vaults(S) |-> lovelace[o]] = [o \in Vaults(S) |-> o.lovelace]
        /\ [o \in Pools(S) |-> total[o]] = [o \in Pools(S) |-> o.total]
        /\ [o \in Pools(S) |-> merges[o]] = [o \in Pools(S) |-> o.merges]
    BY <1>2, <2>1
  <2> QED BY <2>1, <2>2 DEF VaultSum, TotalSum, MergeSum
<1>4. IsFiniteSet(Vaults(os)) /\ IsFiniteSet(Pools(os))
  BY FS_Subset DEF Vaults, Pools
<1>m. ASSUME NEW S \in SUBSET Output, IsFiniteSet(S), NEW f \in [Output -> Int]
      PROVE  /\ SumFunction([o \in S |-> f[o]]) \in Int
             /\ \A x \in Output \ S :
                  SumFunction([o \in S \cup {x} |-> f[o]]) = f[x] + SumFunction([o \in S |-> f[o]])
  BY <1>m, SumMore
<1>v. Vaults(os) \in SUBSET Output /\ Pools(os) \in SUBSET Output
  BY <1>3
<1>5. /\ SumFunction([o \in Vaults(os) |-> lovelace[o]]) \in Int
      /\ \A x \in Output \ Vaults(os) :
           SumFunction([o \in Vaults(os) \cup {x} |-> lovelace[o]])
             = lovelace[x] + SumFunction([o \in Vaults(os) |-> lovelace[o]])
  BY <1>1, <1>4, <1>m, <1>v
<1>6. /\ SumFunction([o \in Pools(os) |-> total[o]]) \in Int
      /\ \A x \in Output \ Pools(os) :
           SumFunction([o \in Pools(os) \cup {x} |-> total[o]])
             = total[x] + SumFunction([o \in Pools(os) |-> total[o]])
  BY <1>1, <1>4, <1>m, <1>v
<1>7. /\ SumFunction([o \in Pools(os) |-> merges[o]]) \in Int
      /\ \A x \in Output \ Pools(os) :
           SumFunction([o \in Pools(os) \cup {x} |-> merges[o]])
             = merges[x] + SumFunction([o \in Pools(os) |-> merges[o]])
  BY <1>1, <1>4, <1>m, <1>v
<1>8. VaultSum(os) \in Int /\ TotalSum(os) \in Int /\ MergeSum(os) \in Int
  BY <1>3, <1>5, <1>6, <1>7
<1>9. ASSUME NEW x \in Output \ os
      PROVE  /\ VaultSum(os \cup {x}) = AtVault(x) + VaultSum(os)
             /\ TotalSum(os \cup {x}) = InPool(x) + TotalSum(os)
             /\ MergeSum(os \cup {x}) = Joined(x) + MergeSum(os)
  <2>0. os \cup {x} \in SUBSET Output /\ x \in Output /\ x \notin Vaults(os) /\ x \notin Pools(os)
    BY DEF Vaults, Pools
  <2>1. CASE x.at = "vault"
    <3>1. Vaults(os \cup {x}) = Vaults(os) \cup {x} /\ Pools(os \cup {x}) = Pools(os)
      BY <2>1 DEF Vaults, Pools
    <3>2. VaultSum(os \cup {x}) = lovelace[x] + VaultSum(os)
      BY <1>3, <1>5, <2>0, <3>1
    <3>3. TotalSum(os \cup {x}) = TotalSum(os) /\ MergeSum(os \cup {x}) = MergeSum(os)
      BY <3>1 DEF TotalSum, MergeSum
    <3> QED BY <1>2, <1>8, <2>0, <2>1, <3>2, <3>3 DEF AtVault, InPool, Joined
  <2>2. CASE x.at = "pool"
    <3>1. Pools(os \cup {x}) = Pools(os) \cup {x} /\ Vaults(os \cup {x}) = Vaults(os)
      BY <2>2 DEF Vaults, Pools
    <3>2. TotalSum(os \cup {x}) = total[x] + TotalSum(os)
      BY <1>3, <1>6, <2>0, <3>1
    <3>3. MergeSum(os \cup {x}) = merges[x] + MergeSum(os)
      BY <1>3, <1>7, <2>0, <3>1
    <3>4. VaultSum(os \cup {x}) = VaultSum(os)
      BY <3>1 DEF VaultSum
    <3> QED BY <1>2, <1>8, <2>0, <2>2, <3>2, <3>3, <3>4 DEF AtVault, InPool, Joined
  <2> QED BY <1>2, <2>0, <2>1, <2>2
<1> QED BY <1>8, <1>9

\* And with one less.
LEMMA SumsWithout ==
  ASSUME NEW os \in SUBSET Output, IsFiniteSet(os), NEW x \in os
  PROVE  /\ os \ {x} \in SUBSET Output /\ IsFiniteSet(os \ {x})
         /\ VaultSum(os) = AtVault(x) + VaultSum(os \ {x})
         /\ TotalSum(os) = InPool(x) + TotalSum(os \ {x})
         /\ MergeSum(os) = Joined(x) + MergeSum(os \ {x})
<1>1. /\ os \ {x} \in SUBSET Output /\ IsFiniteSet(os \ {x})
      /\ x \in Output \ (os \ {x}) /\ (os \ {x}) \cup {x} = os
  BY FS_RemoveElement
<1> QED BY <1>1, SumsWith

\* What a confirmed transaction does to the sums.
LEMMA ConfirmSums ==
  ASSUME BooksInv, Confirm, NEW tx, tx = Head(mempool)
  PROVE  /\ IsFiniteSet(ledger')
         /\ VaultSum(ledger') + TotalSum(ledger') + tx.pays
              = VaultSum(ledger) + TotalSum(ledger) + (IF tx.step = "deposit" THEN amount[tx.by] ELSE 0)
         /\ MergeSum(ledger') = MergeSum(ledger) + (IF tx.step = "merge" THEN 1 ELSE 0)
<1>0. /\ ledger \in SUBSET Output /\ IsFiniteSet(ledger) /\ PoolInv
      /\ 1 \in DOMAIN mempool /\ tx = mempool[1] /\ tx \in Tx
      /\ ledger' = (ledger \ tx.ins) \cup tx.outs
      /\ Shaped(tx) /\ tx.ins \in SUBSET ledger /\ <<tx.by, tx.step>> \notin chain
  <2>1. PoolInv /\ IsFiniteSet(ledger)
    BY DEF BooksInv
  <2>2. 1 \in DOMAIN mempool /\ tx = mempool[1]
    BY <2>1, ConfirmLacks
  <2>3. tx \in Tx
    BY <2>1, <2>2, Queued
  <2>4. ledger' = (ledger \ tx.ins) \cup tx.outs
    BY DEF Confirm
  <2>5. Shaped(tx) /\ tx.ins \in SUBSET ledger /\ <<tx.by, tx.step>> \notin chain
    BY <2>2 DEF BooksInv, Pending
  <2>6. ledger \in SUBSET Output
    BY <2>1 DEF PoolInv, TypeOK
  <2> QED BY <2>1, <2>2, <2>3, <2>4, <2>5, <2>6
<1>a. /\ tx.by \in Calls /\ amount[tx.by] \in Nat /\ tx.outs \in SUBSET Output
      /\ \A o \in ledger : <<o.by, o.step>> # <<tx.by, tx.step>>
  BY <1>0 DEF Tx, PoolInv, TypeOK, BooksInv, Mined
<1>s. VaultSum(ledger) \in Int /\ TotalSum(ledger) \in Int /\ MergeSum(ledger) \in Int
  BY <1>0, SumsWith
<1>1. CASE tx.step = "create" /\ IsCreate(tx)
  <2>1. PICK o : o = Pool(tx.by, "create", "bare", amount[tx.by], 0, 0)
    OBVIOUS
  <2>2. o.at = "pool" /\ o.total = 0 /\ o.merges = 0 /\ o.by = tx.by /\ o.step = tx.step
    BY <1>1, <2>1 DEF Pool
  <2>3. ledger' = ledger \cup {o} /\ o \in Output \ ledger /\ tx.pays = 0
    BY <1>0, <1>a, <1>1, <2>1, <2>2 DEF IsCreate
  <2>4. /\ VaultSum(ledger') = AtVault(o) + VaultSum(ledger)
        /\ TotalSum(ledger') = InPool(o) + TotalSum(ledger)
        /\ MergeSum(ledger') = Joined(o) + MergeSum(ledger)
    BY <1>0, <2>3, SumsWith
  <2>5. AtVault(o) = 0 /\ InPool(o) = 0 /\ Joined(o) = 0
    BY <2>2 DEF AtVault, InPool, Joined
  <2>6. IsFiniteSet(ledger')
    BY <1>0, <2>3, FS_AddElement
  <2> QED BY <1>s, <1>1, <2>3, <2>4, <2>5, <2>6
<1>2. CASE tx.step = "deposit" /\ IsDeposit(tx)
  <2>1. PICK o : o = Vault(tx.by, amount[tx.by])
    OBVIOUS
  <2>2. o.at = "vault" /\ o.lovelace = amount[tx.by] /\ o.by = tx.by /\ o.step = tx.step
    BY <1>2, <2>1 DEF Vault
  <2>3. ledger' = ledger \cup {o} /\ o \in Output \ ledger /\ tx.pays = 0
    BY <1>0, <1>a, <1>2, <2>1, <2>2 DEF IsDeposit
  <2>4. /\ VaultSum(ledger') = AtVault(o) + VaultSum(ledger)
        /\ TotalSum(ledger') = InPool(o) + TotalSum(ledger)
        /\ MergeSum(ledger') = Joined(o) + MergeSum(ledger)
    BY <1>0, <2>3, SumsWith
  <2>5. AtVault(o) = amount[tx.by] /\ InPool(o) = 0 /\ Joined(o) = 0
    BY <2>2 DEF AtVault, InPool, Joined
  <2>6. IsFiniteSet(ledger')
    BY <1>0, <2>3, FS_AddElement
  <2> QED BY <1>s, <1>a, <1>2, <2>3, <2>4, <2>5, <2>6
<1>3. CASE tx.step = "merge" /\ IsMerge(tx)
  <2>1. PICK p \in tx.ins, m \in tx.ins, o \in tx.outs :
          /\ tx.ins = {p, m} /\ tx.outs = {o}
          /\ p.at = "pool" /\ m.at = "vault"
          /\ o.at = "pool" /\ o.by = tx.by /\ o.step = "merge"
          /\ o.total = p.total + m.lovelace /\ o.merges = p.merges + 1
    BY <1>3 DEF IsMerge
  <2>3. /\ o.at = "pool" /\ o.total = p.total + m.lovelace /\ o.merges = p.merges + 1
        /\ o.by = tx.by /\ o.step = tx.step
    BY <1>3, <2>1
  <2>4. /\ p \in Output /\ m \in Output /\ p.total \in Nat /\ p.merges \in Nat /\ m.lovelace \in Nat
    BY <1>0, <2>1 DEF Output
  <2> DEFINE L == ledger \ {p}
             K == L \ {m}
  <2>5. p \in ledger /\ m \in L /\ ledger' = K \cup {o} /\ o \in Output \ K
    <3>1. p # m
      BY <2>1
    <3>2. o \in Output /\ o \notin ledger /\ p \in ledger /\ m \in ledger
      BY <1>0, <1>a, <2>1, <2>3
    <3> QED BY <1>0, <2>1, <3>1, <3>2
  <2>6. /\ L \in SUBSET Output /\ IsFiniteSet(L)
        /\ VaultSum(ledger) = AtVault(p) + VaultSum(L)
        /\ TotalSum(ledger) = InPool(p) + TotalSum(L)
        /\ MergeSum(ledger) = Joined(p) + MergeSum(L)
    BY <1>0, <2>5, SumsWithout
  <2> HIDE DEF L
  <2>7. /\ K \in SUBSET Output /\ IsFiniteSet(K)
        /\ VaultSum(L) = AtVault(m) + VaultSum(K)
        /\ TotalSum(L) = InPool(m) + TotalSum(K)
        /\ MergeSum(L) = Joined(m) + MergeSum(K)
    BY <2>5, <2>6, SumsWithout
  <2> HIDE DEF K
  <2>8. /\ VaultSum(K) \in Int /\ TotalSum(K) \in Int /\ MergeSum(K) \in Int
        /\ VaultSum(ledger') = AtVault(o) + VaultSum(K)
        /\ TotalSum(ledger') = InPool(o) + TotalSum(K)
        /\ MergeSum(ledger') = Joined(o) + MergeSum(K)
    BY <2>5, <2>7, SumsWith
  <2>9. /\ AtVault(p) = 0 /\ InPool(p) = p.total /\ Joined(p) = p.merges
        /\ AtVault(m) = m.lovelace /\ InPool(m) = 0 /\ Joined(m) = 0
        /\ AtVault(o) = 0 /\ InPool(o) = p.total + m.lovelace /\ Joined(o) = p.merges + 1
    BY <2>1, <2>3 DEF AtVault, InPool, Joined
  <2>10. IsFiniteSet(ledger')
    BY <2>5, <2>7, FS_AddElement
  <2>11. tx.pays = 0
    BY <1>3 DEF IsMerge
  <2> QED BY <1>3, <2>4, <2>6, <2>7, <2>8, <2>9, <2>10, <2>11
<1>5. CASE tx.step = "refund" /\ IsRefund(tx)
  <2>1. PICK m \in tx.ins : tx.ins = {m} /\ tx.outs = {} /\ m.at = "vault" /\ tx.pays = m.lovelace
    BY <1>5 DEF IsRefund
  <2>4. m \in Output /\ m.lovelace \in Nat
    BY <1>0, <2>1 DEF Output
  <2>5. m \in ledger /\ ledger' = ledger \ {m}
    BY <1>0, <2>1
  <2>6. /\ ledger' \in SUBSET Output /\ IsFiniteSet(ledger')
        /\ VaultSum(ledger) = AtVault(m) + VaultSum(ledger')
        /\ TotalSum(ledger) = InPool(m) + TotalSum(ledger')
        /\ MergeSum(ledger) = Joined(m) + MergeSum(ledger')
    BY <1>0, <2>5, SumsWithout
  <2>8. VaultSum(ledger') \in Int /\ TotalSum(ledger') \in Int /\ MergeSum(ledger') \in Int
    BY <2>6, SumsWith
  <2>9. AtVault(m) = m.lovelace /\ InPool(m) = 0 /\ Joined(m) = 0
    BY <2>1 DEF AtVault, InPool, Joined
  <2> QED BY <1>5, <2>1, <2>4, <2>6, <2>8, <2>9
<1> QED BY <1>0, <1>1, <1>2, <1>3, <1>5 DEF Shaped

\* A block brings the transaction at the head of the mempool.
LEMMA BooksConfirm ==
  ASSUME BooksInv, PoolInv', Confirm
  PROVE  BooksInv' /\ (AccountsAreTrue => AccountsAreTrue')
<1>t. PICK tx : tx = Head(mempool)
  OBVIOUS
<1>0. /\ PoolInv /\ 1 \in DOMAIN mempool /\ Lacks(1) /\ tx = mempool[1] /\ tx \in Tx /\ tx \in SoundTxs
  BY <1>t, ConfirmLacks, Queued, HeadTailProperties DEF BooksInv, PoolInv, Confirm
<1>1. /\ ledger' = (ledger \ tx.ins) \cup tx.outs
      /\ chain' = chain \cup {<<tx.by, tx.step>>}
      /\ deposited' = deposited + (IF tx.step = "deposit" THEN amount[tx.by] ELSE 0)
      /\ paid' = paid + tx.pays
      /\ UNCHANGED <<locals, stage>>
  BY <1>t DEF Confirm
<1>2. Shaped(tx) /\ <<tx.by, tx.step>> \notin chain
  BY <1>0 DEF BooksInv, Pending
<1>3. Pending' /\ Disjoint' /\ MadeOnce'
  BY <1>0, <1>1, BooksLack
<1>4. Mined'
  <2>1. \A o \in tx.outs : o.by = tx.by /\ o.step = tx.step
    BY <1>2 DEF Shaped, IsCreate, IsDeposit, IsMerge, IsRefund, Pool, Vault
  <2>2. \A o \in ledger : <<o.by, o.step>> \in chain
    BY DEF BooksInv, Mined
  <2> QED BY <1>1, <2>1, <2>2 DEF Mined
<1>5. /\ IsFiniteSet(ledger')
      /\ VaultSum(ledger') + TotalSum(ledger') + tx.pays
           = VaultSum(ledger) + TotalSum(ledger) + (IF tx.step = "deposit" THEN amount[tx.by] ELSE 0)
      /\ MergeSum(ledger') = MergeSum(ledger) + (IF tx.step = "merge" THEN 1 ELSE 0)
  BY <1>t, ConfirmSums
<1>6. IsFiniteSet(chain')
  BY <1>1, FS_AddElement DEF BooksInv
<1>7. BooksInv'
  BY <1>3, <1>4, <1>5, <1>6 DEF BooksInv
<1>8. ASSUME AccountsAreTrue PROVE AccountsAreTrue'
  <2>1. /\ deposited = paid + VaultSum(ledger) + TotalSum(ledger)
        /\ MergeSum(ledger) = Cardinality({x \in chain : x[2] = "merge"})
    BY <1>8 DEF AccountsAreTrue, VaultSum, TotalSum, MergeSum
  <2>2. /\ VaultSum(ledger) \in Int /\ TotalSum(ledger) \in Int /\ MergeSum(ledger) \in Int
        /\ VaultSum(ledger') \in Int /\ TotalSum(ledger') \in Int /\ MergeSum(ledger') \in Int
    <3>1. ledger \in SUBSET Output /\ ledger' \in SUBSET Output
      BY <1>0 DEF PoolInv, TypeOK
    <3> QED BY <1>5, <3>1, SumsWith DEF BooksInv
  <2>3. paid \in Nat /\ deposited \in Nat /\ tx.pays \in Nat /\ amount[tx.by] \in Nat
    BY <1>0 DEF PoolInv, TypeOK, Tx
  <2>4. deposited' = paid' + VaultSum(ledger') + TotalSum(ledger')
    <3>1. PICK in \in Nat : in = (IF tx.step = "deposit" THEN amount[tx.by] ELSE 0)
      BY <2>3
    <3> QED BY <1>1, <1>5, <2>1, <2>2, <2>3, <3>1
  <2>5. MergeSum(ledger') = Cardinality({x \in chain' : x[2] = "merge"})
    <3> DEFINE M == {x \in chain : x[2] = "merge"}
    <3>1. IsFiniteSet(M)
      BY FS_Subset DEF BooksInv
    <3>2. CASE tx.step = "merge"
      <4>1. {x \in chain' : x[2] = "merge"} = M \cup {<<tx.by, "merge">>} /\ <<tx.by, "merge">> \notin M
        BY <1>1, <1>2, <3>2
      <4>2. Cardinality(M \cup {<<tx.by, "merge">>}) = Cardinality(M) + 1
        <5> HIDE DEF M
        <5> QED BY <3>1, <4>1, FS_AddElement
      <4> QED BY <1>5, <2>1, <3>2, <4>1, <4>2
    <3>3. CASE tx.step # "merge"
      <4>1. {x \in chain' : x[2] = "merge"} = M
        BY <1>1, <3>3
      <4>2. MergeSum(ledger') = MergeSum(ledger)
        BY <1>5, <2>2, <3>3
      <4> QED BY <2>1, <4>1, <4>2
    <3> QED BY <3>2, <3>3
  <2> QED BY <2>4, <2>5 DEF AccountsAreTrue, VaultSum, TotalSum, MergeSum
<1> QED BY <1>7, <1>8

\* Nothing was deposited yet.
LEMMA InitBooks == Init => BooksInv /\ AccountsAreTrue
<1> SUFFICES ASSUME Init PROVE BooksInv /\ AccountsAreTrue
  OBVIOUS
<1>1. PoolInv /\ ledger = {} /\ chain = {} /\ mempool = <<>> /\ deposited = 0 /\ paid = 0
  BY InitPoolInv DEF Init
<1>2. BooksInv
  BY <1>1, FS_EmptySet DEF BooksInv, Mined, Pending, Disjoint, MadeOnce, Made, Waits
<1>3. Vaults(ledger) = {} /\ Pools(ledger) = {}
  BY <1>1 DEF Vaults, Pools
<1>4. /\ SumFunction([o \in Vaults(ledger) |-> o.lovelace]) = 0
      /\ SumFunction([o \in Pools(ledger) |-> o.total]) = 0
      /\ SumFunction([o \in Pools(ledger) |-> o.merges]) = 0
  <2>1. \A f \in [{} -> Int] : SumFunction(f) = 0
    BY FS_EmptySet, SumWithout
  <2>2. /\ [o \in Vaults(ledger) |-> o.lovelace] \in [{} -> Int]
        /\ [o \in Pools(ledger) |-> o.total] \in [{} -> Int]
        /\ [o \in Pools(ledger) |-> o.merges] \in [{} -> Int]
    BY <1>3
  <2> QED BY <2>1, <2>2
<1>5. Cardinality({x \in chain : x[2] = "merge"}) = 0
  <2>1. {x \in chain : x[2] = "merge"} = {}
    BY <1>1
  <2> QED BY <2>1, FS_EmptySet
<1> QED BY <1>1, <1>2, <1>4, <1>5 DEF AccountsAreTrue

\* A step of a flow leaves the blocks as they are.
LEMMA BooksFlow ==
  ASSUME BooksInv, PoolInv', NEW c \in Calls, Flow(c)
  PROVE  BooksInv' /\ UNCHANGED chainVars
<1>0. PoolInv
  BY DEF BooksInv
<1>1. CASE Begin(c)
  BY <1>1, BooksBegin DEF Begin
<1>2. CASE Submitting(c)
  <2>1. PICK tx \in Tx : /\ Submit(c, tx) /\ tx.by = c /\ tx.step = stage[c]
                         /\ Acceptable(tx) => Shaped(tx)
    BY <1>0, <1>2, Submissions
  <2>2. stage[c] \notin Ended
    BY <2>1 DEF Tx, Steps, Ended
  <2>3. UNCHANGED <<chainVars, locals>>
    BY <2>1 DEF Submit
  <2>4. CASE Acceptable(tx) /\ mempool' = Append(mempool, tx) /\ Advance(c)
    BY <2>1, <2>3, <2>4, BooksSubmit
  <2>5. CASE Throw(c) /\ mempool' = mempool
    BY <2>2, <2>3, <2>5, BooksStay DEF locals
  <2> QED BY <2>1, <2>3, <2>4, <2>5 DEF Submit
<1>3. CASE Empty(c) \/ Await(c) \/ Pick(c) \/ Find(c) \/ ReadPool(c)
  <2>1. stage[c] \notin Ended
    BY <1>3 DEF Empty, Await, Pick, Find, ReadPool, Ended
  <2>2. Advance(c) \/ Throw(c)
    BY <1>3 DEF Empty, Await, Pick, Find, ReadPool, Choose
  <2>3. UNCHANGED <<chainVars, mempool, kind, amount>>
    BY <1>3 DEF Empty, Await, Pick, Find, ReadPool, Choose, locals
  <2> QED BY <2>1, <2>2, <2>3, BooksStay
<1> QED BY <1>1, <1>2, <1>3 DEF Flow, Submitting

\* Every step keeps the books.
LEMMA NextBooks == BooksInv /\ AccountsAreTrue /\ [Next]_vars => (BooksInv /\ AccountsAreTrue)'
<1> SUFFICES ASSUME BooksInv, AccountsAreTrue, [Next]_vars PROVE (BooksInv /\ AccountsAreTrue)'
  OBVIOUS
<1>0. PoolInv /\ PoolInv'
  BY NextPoolInv DEF BooksInv
<1>1. CASE UNCHANGED vars
  <2>1. Mined' /\ Pending' /\ Disjoint' /\ MadeOnce' /\ IsFiniteSet(ledger') /\ IsFiniteSet(chain')
    BY <1>1 DEF vars, BooksInv, Mined, Pending, Disjoint, MadeOnce, Made, Waits, Behind,
                Shaped, IsCreate, IsDeposit, IsMerge, IsRefund
  <2> QED BY <1>0, <1>1, <2>1 DEF vars, BooksInv, AccountsAreTrue
<1>2. CASE Confirm
  BY <1>0, <1>2, BooksConfirm
<1>3. CASE Drop
  <2>1. PICK gone \in DOMAIN mempool : Lacks(gone)
    BY <1>0, <1>3, DropLacks
  <2>2. UNCHANGED <<chainVars, locals, stage>>
    BY <1>3 DEF Drop
  <2>3. Pending' /\ Disjoint' /\ MadeOnce'
    BY <2>1, <2>2, BooksLack DEF chainVars
  <2>4. Mined' /\ IsFiniteSet(ledger') /\ IsFiniteSet(chain') /\ AccountsAreTrue'
    BY <2>2 DEF chainVars, BooksInv, Mined, AccountsAreTrue
  <2> QED BY <1>0, <2>3, <2>4 DEF BooksInv
<1>4. ASSUME NEW c \in Calls, Flow(c) PROVE (BooksInv /\ AccountsAreTrue)'
  BY <1>0, <1>4, BooksFlow DEF chainVars, AccountsAreTrue
<1> QED BY <1>1, <1>2, <1>3, <1>4 DEF Next

\* All that was ever deposited is at the vault, in the total of a pool, or paid out, and every merge counts, whatever
\* the flows, the drops and the withdrawals by hand (margin_types.ak): no transaction is confirmed twice, and no two
\* that wait spend the same output.
THEOREM AccountsStayTrue == Spec => []AccountsAreTrue
<1> QED BY InitBooks, NextBooks, PTL DEF Spec

-----------------------------------------------------------------------------
(* Races over the pool.                                                    *)

Busy(c) == stage[c] \notin Ended
Bootstrapped(c) == stage[c] = "create" \/ Made(c, "create")

\* Calls that run at the same time know of each other.
Mutual == \A c, d \in Calls : c # d /\ Busy(c) /\ Busy(d) => c \in begun[d].beside

\* Running beside another is mutual.
Symmetric == \A c, d \in Calls : c \in begun[d].beside => d \in begun[c].beside /\ stage[c] # "new"

\* There is a pool from the first bootstrap on.
PoolStays == (\E c \in Calls : <<c, "create">> \in chain) => Pools(ledger) # {}

\* A call that runs while another's bootstrap waits was there to be seen by it, or found it in the mempool.
Noticed ==
  \A c, d \in Calls :
    c # d /\ Waits(c, "create") /\ Busy(d) => d \in begun[c].beside \/ "create" \in begun[d].queued

\* SecondPoolTakesARace, from the decision to bootstrap on.
SecondTakesARace ==
  \A c, d \in Calls :
    c # d /\ Bootstrapped(c) /\ Bootstrapped(d) =>
      d \in begun[c].beside \/ "create" \in begun[c].queued \cup begun[d].queued

RaceInv == BooksInv /\ Mutual /\ Symmetric /\ PoolStays /\ Noticed /\ SecondTakesARace

\* The history of a call, once begun, only grows, until the call begins.
LEMMA HistoryGrows ==
  ASSUME PoolInv, NEW c \in Calls, NEW d \in Calls, Begin(c), d # c
  PROVE  /\ begun[d].beside \subseteq begun'[d].beside /\ begun'[d].queued = begun[d].queued
         /\ begun'[d].single = begun[d].single
         /\ Busy(d) => c \in begun'[d].beside /\ d \in begun'[c].beside
         /\ \A e \in Calls : e \in begun'[d].beside => e \in begun[d].beside \/ (e = c /\ Busy(d))
         /\ d \in begun'[c].beside => Busy(d)
         /\ stage'[d] = stage[d] /\ stage'[c] # "new"
<1> DEFINE busy == {e \in Calls : stage[e] \notin Ended}
<1>1. begun' = [e \in Calls |->
           IF e = c
           THEN [beside |-> busy, single |-> OnePool,
                 queued |-> {mempool[i].step : i \in DOMAIN mempool}]
           ELSE IF e \in busy
           THEN [begun[e] EXCEPT !.beside = @ \cup {c}]
           ELSE begun[e]]
  BY DEF Begin
<1>2. begun'[c].beside = busy
  BY <1>1
<1>3. begun[d] \in Background /\ stage'[d] = stage[d]
  BY DEF PoolInv, TypeOK, Begin
<1>4. begun'[d] = IF d \in busy THEN [begun[d] EXCEPT !.beside = @ \cup {c}] ELSE begun[d]
  BY <1>1
<1>n. stage'[c] # "new"
  <2>1. PICK k \in AllKinds : stage'[c] = Stages(k)[2]
    BY PoolKindsAssumption DEF Begin, PoolInv, TypeOK
  <2>2. Stages(k)[2] # "new"
    BY DEF Stages, AllKinds, Server, ByHand
  <2> QED BY <2>1, <2>2
<1>5. CASE d \in busy
  <2>1. /\ begun'[d].beside = begun[d].beside \cup {c} /\ begun'[d].queued = begun[d].queued
        /\ begun'[d].single = begun[d].single
    BY <1>3, <1>4, <1>5 DEF Background
  <2> QED BY <1>2, <1>3, <1>5, <1>n, <2>1 DEF Busy
<1>6. CASE d \notin busy
  BY <1>2, <1>3, <1>4, <1>6, <1>n DEF Busy
<1> QED BY <1>5, <1>6

\* A flow begins, which may be a bootstrap.
LEMMA RaceBegin ==
  ASSUME RaceInv, BooksInv', NEW c \in Calls, Begin(c)
  PROVE  RaceInv'
<1>0. PoolInv /\ stage[c] = "new" /\ UNCHANGED <<chainVars, mempool>>
  BY DEF RaceInv, BooksInv, Begin
<1>1. \A s \in Steps : ~ Made(c, s)
  BY <1>0 DEF RaceInv, BooksInv, MadeOnce, Behind
<1>2. \A d \in Calls, s \in Steps : Made(d, s)' = Made(d, s) /\ Waits(d, s)' = Waits(d, s)
  BY <1>0 DEF Made, Waits, chainVars
<1>3. \A d \in Calls : Waits(d, "create") => "create" \in begun'[c].queued
  <2> SUFFICES ASSUME NEW d \in Calls, Waits(d, "create") PROVE "create" \in begun'[c].queued
    OBVIOUS
  <2>1. begun'[c].queued = {mempool[i].step : i \in DOMAIN mempool}
    BY DEF Begin
  <2> QED BY <2>1 DEF Waits
<1>4. stage'[c] # "create"
  <2>1. PICK k \in AllKinds : stage'[c] = Stages(k)[2]
    BY <1>0, PoolKindsAssumption DEF Begin, PoolInv, TypeOK
  <2>2. Stages(k)[2] # "create"
    BY DEF Stages, AllKinds, Server, ByHand
  <2> QED BY <2>1, <2>2
<1>5. "create" \in Steps
  BY DEF Steps
<1>6. Mutual'
  <2> SUFFICES ASSUME NEW d \in Calls, NEW e \in Calls, d # e, Busy(d)', Busy(e)' PROVE d \in begun'[e].beside
    BY DEF Mutual
  <2>1. CASE d # c /\ e # c
    BY <1>0, <2>1, HistoryGrows DEF RaceInv, Mutual, Busy
  <2>2. CASE d = c \/ e = c
    BY <1>0, <2>2, HistoryGrows DEF Busy
  <2> QED BY <2>1, <2>2
<1>7. PoolStays'
  BY <1>0 DEF RaceInv, PoolStays, chainVars
<1>s. Symmetric'
  <2> SUFFICES ASSUME NEW d \in Calls, NEW e \in Calls, d \in begun'[e].beside
               PROVE  e \in begun'[d].beside /\ stage'[d] # "new"
    BY DEF Symmetric
  <2>1. CASE d = c /\ e = c
    <3>1. c \notin begun'[c].beside
      BY <1>0 DEF Begin, Ended
    <3> QED BY <2>1, <3>1
  <2>2. CASE d = c /\ e # c
    <3>1. Busy(e)
      BY <1>0, <2>2, HistoryGrows DEF RaceInv, Symmetric
    <3> QED BY <1>0, <2>2, <3>1, HistoryGrows
  <2>3. CASE d # c /\ e = c
    <3>1. Busy(d)
      BY <1>0, <2>3, HistoryGrows
    <3> QED BY <1>0, <2>3, <3>1, HistoryGrows DEF Busy, Ended
  <2>4. CASE d # c /\ e # c
    <3>1. d \in begun[e].beside
      BY <1>0, <2>4, HistoryGrows
    <3>2. e \in begun[d].beside /\ stage[d] # "new"
      BY <3>1 DEF RaceInv, Symmetric
    <3> QED BY <1>0, <2>4, <3>2, HistoryGrows
  <2> QED BY <2>1, <2>2, <2>3, <2>4
<1>8. Noticed'
  <2> SUFFICES ASSUME NEW d \in Calls, NEW e \in Calls, d # e, Waits(d, "create")', Busy(e)'
               PROVE  e \in begun'[d].beside \/ "create" \in begun'[e].queued
    BY DEF Noticed
  <2>1. Waits(d, "create") /\ d # c
    BY <1>1, <1>2, <1>5 DEF Made
  <2>2. CASE e = c
    BY <1>3, <2>1, <2>2
  <2>3. CASE e # c
    BY <1>0, <2>1, <2>3, HistoryGrows DEF RaceInv, Noticed, Busy
  <2> QED BY <2>2, <2>3
<1>9. SecondTakesARace'
  <2> SUFFICES ASSUME NEW d \in Calls, NEW e \in Calls, d # e, Bootstrapped(d)', Bootstrapped(e)'
               PROVE  e \in begun'[d].beside \/ "create" \in begun'[d].queued \cup begun'[e].queued
    BY DEF SecondTakesARace
  <2>1. d # c /\ e # c
    BY <1>1, <1>2, <1>4, <1>5 DEF Bootstrapped
  <2>2. Bootstrapped(d) /\ Bootstrapped(e)
    BY <1>0, <1>2, <1>5, <2>1, HistoryGrows DEF Bootstrapped
  <2> QED BY <1>0, <2>1, <2>2, HistoryGrows DEF RaceInv, SecondTakesARace
<1> QED BY <1>6, <1>7, <1>s, <1>8, <1>9 DEF RaceInv

\* Nobody begins twice.
LEMMA NeverNew ==
  ASSUME PoolInv, NEW c \in Calls, stage[c] \notin Ended, Advance(c) \/ Throw(c)
  PROVE  stage'[c] # "new"
<1>1. kind[c] \in AllKinds /\ stage \in [Calls -> StageNames]
  BY DEF PoolInv, TypeOK, OnPath
<1>2. CASE Throw(c)
  BY <1>1, <1>2 DEF Throw
<1>3. CASE Advance(c)
  <2> DEFINE st == Stages(kind[c])
             n == CHOOSE j \in 1..Len(st) - 1 : st[j] = stage[c]
  <2>1. n \in 1..Len(st) - 1
    BY DEF PoolInv, OnPath
  <2>2. stage'[c] = st[1 + n]
    BY <1>1, <1>3 DEF Advance, After
  <2> HIDE DEF n
  <2>3. Len(st) \in Nat
    BY <1>1, StagesType
  <2>4. 1 + n = Len(st) \/ 1 + n \in 2..Len(st) - 1
    BY <2>1, <2>3
  <2>5. st[1 + n] = "ok" \/ st[1 + n] \notin Ended
    BY <1>1, <2>4, StagesType
  <2> QED BY <2>2, <2>5 DEF Ended
<1> QED BY <1>2, <1>3

\* Beyond the beginning the histories stay; what is bootstrapped is known at the check.
LEMMA RaceFlow ==
  ASSUME RaceInv, BooksInv', NEW c \in Calls, Flow(c), ~ Begin(c)
  PROVE  RaceInv'
<1>0. PoolInv /\ PoolInv' /\ UNCHANGED chainVars
  BY BooksFlow DEF RaceInv, BooksInv
<1>1. stage[c] \notin Ended /\ begun' = begun /\ (Advance(c) \/ Throw(c))
  <2>1. CASE Submitting(c)
    <3>1. PICK tx \in Tx : Submit(c, tx) /\ tx.step = stage[c]
      BY <1>0, <2>1, Submissions
    <3> QED BY <3>1 DEF Submit, locals, Tx, Steps, Ended
  <2>2. CASE Empty(c) \/ Await(c) \/ Pick(c) \/ Find(c) \/ ReadPool(c)
    BY <2>2 DEF Empty, Await, Pick, Find, ReadPool, Choose, locals, Ended
  <2> QED BY <2>1, <2>2 DEF Flow, Submitting
<1>2. /\ stage \in [Calls -> StageNames] /\ \A d \in Calls : d # c => stage'[d] = stage[d]
      /\ \A d \in Calls : Busy(d)' => Busy(d)
  BY <1>0, <1>1 DEF PoolInv, TypeOK, Advance, Throw, Busy
<1>3. \A d \in Calls : Waits(d, "create")' => Waits(d, "create") \/ (d = c /\ stage[c] = "create")
  <2>1. CASE Submitting(c)
    <3>1. PICK tx \in Tx : Submit(c, tx) /\ tx.by = c /\ tx.step = stage[c]
      BY <1>0, <2>1, Submissions
    <3>2. CASE mempool' = Append(mempool, tx)
      <4>1. /\ DOMAIN mempool' = 1..Len(mempool) + 1 /\ DOMAIN mempool = 1..Len(mempool) /\ Len(mempool) \in Nat
            /\ \A i \in 1..Len(mempool) : mempool'[i] = mempool[i]
            /\ mempool'[Len(mempool) + 1] = tx
        BY <1>0, <3>2, Queued, AppendIs, LenProperties
      <4> QED BY <3>1, <4>1 DEF Waits
    <3>3. CASE mempool' = mempool
      BY <3>3 DEF Waits
    <3> QED BY <3>1, <3>2, <3>3 DEF Submit
  <2>2. CASE Empty(c) \/ Await(c) \/ Pick(c) \/ Find(c) \/ ReadPool(c)
    BY <2>2 DEF Empty, Await, Pick, Find, ReadPool, Waits
  <2> QED BY <2>1, <2>2 DEF Flow, Submitting
<1>4. \A d \in Calls : Made(d, "create")' => Made(d, "create") \/ (d = c /\ stage[c] = "create")
  BY <1>0, <1>3 DEF Made, chainVars
<1>5. stage'[c] = "create" => Pools(ledger) = {}
  <2> SUFFICES ASSUME stage'[c] = "create" PROVE Pools(ledger) = {}
    OBVIOUS
  <2>1. Advance(c) /\ kind[c] \in AllKinds
    BY <1>0, <1>1, <1>2 DEF Throw, PoolInv, OnPath
  <2>2. PICK i \in 1..Len(Stages(kind[c])) - 1 : Stages(kind[c])[i] = stage[c] /\ Stages(kind[c])[1 + i] = "create"
    <3> DEFINE i == CHOOSE j \in 1..Len(Stages(kind[c])) - 1 : Stages(kind[c])[j] = stage[c]
    <3>1. i \in 1..Len(Stages(kind[c])) - 1 /\ Stages(kind[c])[i] = stage[c]
      BY <1>0, <1>1 DEF PoolInv, OnPath
    <3>2. After(c) = Stages(kind[c])[1 + i]
      BY DEF After
    <3>3. Stages(kind[c])[1 + i] = "create"
      BY <1>2, <2>1, <3>2 DEF Advance
    <3> HIDE DEF i
    <3> QED BY <3>1, <3>3
  <2>3. stage[c] = "empty"
    <3>1. CASE kind[c] = "bootstrap"
      BY <2>2, <3>1 DEF Stages
    <3>2. CASE kind[c] = "demo"
      BY <2>2, <3>2 DEF Stages
    <3>3. CASE kind[c] \in {"merge", "lock", "deposit", "handmerge", "withdraw", "refund"}
      BY <2>2, <3>3 DEF Stages
    <3> QED BY <2>1, <3>1, <3>2, <3>3 DEF AllKinds, Server, ByHand
  <2>4. Empty(c)
    BY <2>3 DEF Flow, Create, Deposit, Await, Pick, Find, ReadPool, Merge, MergeByHand, Withdraw, Refund
  <2>5. stage'[c] # "failed"
    OBVIOUS
  <2> QED BY <1>2, <2>4, <2>5 DEF Empty, Throw
<1>6. Mutual' /\ Symmetric'
  <2>1. \A d \in Calls : stage[d] # "new" => stage'[d] # "new"
    <3> SUFFICES ASSUME stage'[c] = "new" PROVE FALSE
      BY <1>2
    <3> QED BY <1>0, <1>1, NeverNew
  <2> QED BY <1>1, <1>2, <2>1 DEF RaceInv, Mutual, Symmetric
<1>7. PoolStays'
  BY <1>0 DEF RaceInv, PoolStays, chainVars
<1>8. Noticed'
  <2> SUFFICES ASSUME NEW d \in Calls, NEW e \in Calls, d # e, Waits(d, "create")', Busy(e)'
               PROVE  e \in begun[d].beside \/ "create" \in begun[e].queued
    BY <1>1 DEF Noticed
  <2>1. CASE Waits(d, "create")
    BY <1>2, <2>1 DEF RaceInv, Noticed
  <2>2. CASE d = c /\ stage[c] = "create"
    BY <1>1, <1>2, <2>2 DEF RaceInv, Mutual, Busy
  <2> QED BY <1>3, <2>1, <2>2
<1>9. SecondTakesARace'
  <2>1. \A d \in Calls : Bootstrapped(d)' => Bootstrapped(d) \/ (d = c /\ stage'[c] = "create")
    BY <1>2, <1>4 DEF Bootstrapped
  <2>2. ASSUME NEW d \in Calls, d # c, Bootstrapped(d), stage'[c] = "create"
        PROVE  \/ c \in begun[d].beside /\ d \in begun[c].beside
               \/ "create" \in begun[c].queued
    <3>1. CASE stage[d] = "create"
      BY <1>1, <2>2, <3>1 DEF RaceInv, Mutual, Busy, Ended
    <3>2. CASE <<d, "create">> \in chain
      BY <1>5, <2>2, <3>2 DEF RaceInv, PoolStays
    <3>3. CASE Waits(d, "create")
      BY <1>1, <2>2, <3>3 DEF RaceInv, Noticed, Symmetric, Busy
    <3> QED BY <2>2, <3>1, <3>2, <3>3 DEF Bootstrapped, Made
  <2> SUFFICES ASSUME NEW d \in Calls, NEW e \in Calls, d # e, Bootstrapped(d)', Bootstrapped(e)'
               PROVE  e \in begun[d].beside \/ "create" \in begun[d].queued \cup begun[e].queued
    BY <1>1 DEF SecondTakesARace
  <2>3. CASE Bootstrapped(d) /\ Bootstrapped(e)
    BY <2>3 DEF RaceInv, SecondTakesARace
  <2>4. CASE d = c /\ stage'[c] = "create" /\ Bootstrapped(e)
    BY <2>2, <2>4
  <2>5. CASE e = c /\ stage'[c] = "create" /\ Bootstrapped(d)
    BY <2>2, <2>5
  <2> QED BY <2>1, <2>3, <2>4, <2>5
<1> QED BY <1>6, <1>7, <1>8, <1>9 DEF RaceInv

\* The mempool only shrinks; the first bootstrap of a block makes a pool, and what spends a pool makes another.
LEMMA RaceMempool ==
  ASSUME RaceInv, BooksInv', Confirm \/ Drop
  PROVE  RaceInv'
<1>0. PoolInv /\ UNCHANGED <<locals, stage>>
  BY DEF RaceInv, BooksInv, Confirm, Drop
<1>1. PICK gone \in DOMAIN mempool :
        /\ Lacks(gone)
        /\ \/ UNCHANGED <<ledger, chain>>
           \/ /\ chain' = chain \cup {<<mempool[gone].by, mempool[gone].step>>}
              /\ ledger' = (ledger \ mempool[gone].ins) \cup mempool[gone].outs
  <2>1. CASE Confirm
    BY <1>0, <2>1, ConfirmLacks DEF Confirm
  <2>2. CASE Drop
    BY <1>0, <2>2, DropLacks DEF Drop, chainVars
  <2> QED BY <2>1, <2>2
<1>2. \A d \in Calls, s \in Steps : Waits(d, s)' => Waits(d, s)
  BY <1>1 DEF Lacks, Waits
<1>3. \A d \in Calls, s \in Steps : Made(d, s)' => Made(d, s)
  BY <1>1, <1>2 DEF Made, Waits
<1>4. "create" \in Steps
  BY DEF Steps
<1>5. Mutual' /\ Symmetric'
  BY <1>0 DEF RaceInv, Mutual, Symmetric, Busy, locals
<1>6. PoolStays'
  <2>1. CASE UNCHANGED <<ledger, chain>>
    BY <2>1 DEF RaceInv, PoolStays
  <2>2. CASE /\ chain' = chain \cup {<<mempool[gone].by, mempool[gone].step>>}
             /\ ledger' = (ledger \ mempool[gone].ins) \cup mempool[gone].outs
    <3>1. PICK tx : tx = mempool[gone] /\ Shaped(tx)
      BY DEF RaceInv, BooksInv, Pending
    <3>2. CASE tx.step \in {"create", "merge"}
      <4>1. \E o \in tx.outs : o.at = "pool"
        <5>1. CASE tx.step = "create"
          <6>1. tx.outs = {Pool(tx.by, "create", "bare", amount[tx.by], 0, 0)}
            BY <3>1, <5>1 DEF Shaped, IsCreate
          <6>2. Pool(tx.by, "create", "bare", amount[tx.by], 0, 0).at = "pool"
            BY DEF Pool
          <6> QED BY <6>1, <6>2
        <5>2. CASE tx.step = "merge"
          BY <3>1, <5>2 DEF Shaped, IsMerge
        <5> QED BY <3>2, <5>1, <5>2
      <4> QED BY <2>2, <3>1, <4>1 DEF PoolStays, Pools
    <3>3. CASE tx.step \in {"deposit", "refund"}
      <4>1. Pools(ledger) \subseteq Pools(ledger')
        BY <2>2, <3>1, <3>3 DEF Shaped, IsDeposit, IsRefund, Pools
      <4>2. \A c \in Calls : <<c, "create">> \in chain' => <<c, "create">> \in chain
        BY <2>2, <3>1, <3>3
      <4> QED BY <4>1, <4>2 DEF RaceInv, PoolStays
    <3> QED BY <3>1, <3>2, <3>3 DEF Shaped
  <2> QED BY <1>1, <2>1, <2>2
<1>7. Noticed'
  BY <1>0, <1>2, <1>4 DEF RaceInv, Noticed, Busy, locals
<1>8. SecondTakesARace'
  BY <1>0, <1>3, <1>4 DEF RaceInv, SecondTakesARace, Bootstrapped, locals
<1> QED BY <1>5, <1>6, <1>7, <1>8 DEF RaceInv

\* No bootstrap yet.
LEMMA InitRace == Init => RaceInv
<1> SUFFICES ASSUME Init PROVE RaceInv
  OBVIOUS
<1>1. BooksInv
  BY InitBooks
<1>2. \A c \in Calls : stage[c] = "new" /\ begun[c].beside = {} /\ \A s \in Steps : ~ Waits(c, s) /\ ~ Made(c, s)
  BY DEF Init, Waits, Made
<1>3. "create" \in Steps
  BY DEF Steps
<1> QED BY <1>1, <1>2, <1>3 DEF Init, RaceInv, Mutual, Symmetric, PoolStays, Noticed, SecondTakesARace,
                              Bootstrapped, Made, Busy, Ended

\* Every step keeps what is known of the races.
LEMMA NextRace == RaceInv /\ AccountsAreTrue /\ [Next]_vars => RaceInv'
<1> SUFFICES ASSUME RaceInv, AccountsAreTrue, [Next]_vars PROVE RaceInv'
  OBVIOUS
<1>0. BooksInv /\ BooksInv'
  BY NextBooks DEF RaceInv
<1>1. CASE UNCHANGED vars
  BY <1>0, <1>1 DEF vars, RaceInv, Mutual, Symmetric, PoolStays, Noticed, SecondTakesARace, Bootstrapped,
                    Made, Waits, Busy
<1>2. CASE Confirm \/ Drop
  BY <1>0, <1>2, RaceMempool
<1>3. ASSUME NEW c \in Calls, Flow(c) PROVE RaceInv'
  BY <1>0, <1>3, RaceBegin, RaceFlow
<1> QED BY <1>1, <1>2, <1>3 DEF Next

\* The pool is a singleton as far as the check of bootstrapMarginPool carries: a second one takes two bootstraps of
\* which one ran beside the other, or began before the other's was in a block.
THEOREM SecondPoolIsARace == Spec => []SecondPoolTakesARace
<1>1. RaceInv => SecondPoolTakesARace
  BY DEF RaceInv, SecondTakesARace, SecondPoolTakesARace, Bootstrapped, Made
<1> QED BY <1>1, InitBooks, NextBooks, InitRace, NextRace, PTL DEF Spec

-----------------------------------------------------------------------------
(* What becomes of collateral: what the server builds to merge is refused. *)

Leaving == {"merge", "refund"}

\* The flows of the server that end with a merge.
Mergers == {"merge", "lock", "demo"}

CustodyInv ==
  /\ RaceInv
  /\ \A i \in DOMAIN mempool : Handled(mempool[i])
  /\ \A c \in Calls, s \in Leaving : Made(c, s) => stage[c] = "ok" /\ kind[c] \in ByHand
  /\ \A c \in Calls : ~ Made(c, "withdraw")
  /\ \A c \in Calls : kind[c] \in Mergers => stage[c] # "ok"
  /\ DepositsLeaveByHand

\* Where the flows that move collateral end.
LEMMA LastStages ==
  ASSUME PoolInv, NEW c \in Calls, stage[c] \notin Ended
  PROVE  /\ kind[c] \in Mergers /\ After(c) = "ok" => stage[c] = "merge"
         /\ kind[c] = "handmerge" /\ stage[c] = "merge" => After(c) = "ok"
         /\ kind[c] = "refund" /\ stage[c] = "refund" => After(c) = "ok"
<1> DEFINE st == Stages(kind[c])
           n == CHOOSE j \in 1..Len(st) - 1 : st[j] = stage[c]
<1>1. n \in 1..Len(st) - 1 /\ st[n] = stage[c]
  BY DEF PoolInv, OnPath
<1>2. After(c) = st[1 + n]
  BY DEF After
<1> HIDE DEF n
<1>3. ASSUME kind[c] \in Mergers, After(c) = "ok" PROVE stage[c] = "merge"
  <2>1. CASE kind[c] = "merge"
    BY <1>1, <1>2, <1>3, <2>1 DEF Stages
  <2>2. CASE kind[c] = "lock"
    BY <1>1, <1>2, <1>3, <2>2 DEF Stages
  <2>3. CASE kind[c] = "demo"
    BY <1>1, <1>2, <1>3, <2>3 DEF Stages
  <2> QED BY <1>3, <2>1, <2>2, <2>3 DEF Mergers
<1>4. ASSUME kind[c] = "handmerge", stage[c] = "merge" PROVE After(c) = "ok"
  BY <1>1, <1>2, <1>4 DEF Stages
<1>5. ASSUME kind[c] = "refund", stage[c] = "refund" PROVE After(c) = "ok"
  BY <1>1, <1>2, <1>5 DEF Stages
<1> QED BY <1>3, <1>4, <1>5

\* Whether collateral is at rest or was moved does not depend on calls that have moved none.
LEMMA DepositsStay ==
  ASSUME CustodyInv, UNCHANGED chainVars, NEW c \in Calls,
         ~ \E s \in Leaving : Made(c, s),
         \A e \in Calls : <<e, "deposit">> \in chain => amount'[e] = amount[e],
         \A d \in Calls : d # c => kind'[d] = kind[d] /\ picked'[d] = picked[d]
  PROVE  DepositsLeaveByHand'
<1> SUFFICES ASSUME NEW e \in Calls, <<e, "deposit">> \in chain, Vault(e, amount[e]) \notin ledger
             PROVE  \E d \in Calls : /\ kind'[d] \in ByHand /\ Vault(e, amount[e]) \in picked'[d]
                                    /\ {<<d, "merge">>, <<d, "refund">>} \cap chain # {}
  BY DEF DepositsLeaveByHand, chainVars
<1>1. PICK d \in Calls : /\ kind[d] \in ByHand /\ Vault(e, amount[e]) \in picked[d]
                        /\ {<<d, "merge">>, <<d, "refund">>} \cap chain # {}
  BY DEF CustodyInv, DepositsLeaveByHand
<1>2. d # c
  BY <1>1 DEF Made, Leaving
<1> QED BY <1>1, <1>2

\* A call that begins has moved nothing.
LEMMA CustodyBegin ==
  ASSUME CustodyInv, RaceInv', NEW c \in Calls, Begin(c)
  PROVE  CustodyInv'
<1>0. PoolInv /\ stage[c] = "new" /\ UNCHANGED <<chainVars, mempool, picked>>
  BY DEF CustodyInv, RaceInv, BooksInv, Begin
<1>1. \A s \in Steps : ~ Made(c, s)
  BY <1>0 DEF CustodyInv, RaceInv, BooksInv, MadeOnce, Behind
<1>2. \A d \in Calls : d # c => stage'[d] = stage[d] /\ kind'[d] = kind[d] /\ amount'[d] = amount[d]
  BY <1>0 DEF Begin, PoolInv, TypeOK
<1>3. stage'[c] # "ok"
  <2>1. PICK k \in AllKinds : stage'[c] = Stages(k)[2]
    BY <1>0, PoolKindsAssumption DEF Begin, PoolInv, TypeOK
  <2>2. Stages(k)[2] # "ok"
    BY DEF Stages, AllKinds, Server, ByHand
  <2> QED BY <2>1, <2>2
<1>4. \A d \in Calls, s \in Steps : Made(d, s)' = Made(d, s)
  BY <1>0 DEF Made, Waits, chainVars
<1>5. Leaving \subseteq Steps /\ "withdraw" \in Steps /\ "deposit" \in Steps
  BY DEF Leaving, Steps
<1>6. ASSUME NEW i \in DOMAIN mempool PROVE Handled(mempool[i])'
  <2>1. Handled(mempool[i]) /\ mempool[i].by \in Calls /\ mempool[i].step \in Steps
    BY <1>0, Queued DEF CustodyInv, Tx
  <2>2. mempool[i].by # c
    BY <1>1, <2>1 DEF Made, Waits
  <2> QED BY <1>0, <1>2, <2>1, <2>2 DEF Handled
<1>7. DepositsLeaveByHand'
  <2>1. \A e \in Calls : <<e, "deposit">> \in chain => e # c
    BY <1>1, <1>5 DEF Made
  <2> QED BY <1>0, <1>1, <1>2, <1>5, <2>1, DepositsStay
<1>8. \A d \in Calls, s \in Leaving : Made(d, s)' => stage'[d] = "ok" /\ kind'[d] \in ByHand
  BY <1>1, <1>2, <1>4, <1>5 DEF CustodyInv
<1>9. \A d \in Calls : ~ Made(d, "withdraw")'
  BY <1>4, <1>5 DEF CustodyInv
<1>10. \A d \in Calls : kind'[d] \in Mergers => stage'[d] # "ok"
  BY <1>2, <1>3 DEF CustodyInv
<1> QED BY <1>0, <1>6, <1>7, <1>8, <1>9, <1>10 DEF CustodyInv

\* What a call submits leaves the mempool as it is, or adds what the node has accepted.
LEMMA Joins ==
  ASSUME PoolInv, NEW c \in Calls, Flow(c), ~ Begin(c)
  PROVE  /\ stage[c] \notin Ended /\ UNCHANGED <<chainVars, kind, amount>>
         /\ \A d \in Calls : d # c => stage'[d] = stage[d] /\ picked'[d] = picked[d]
         /\ \/ mempool' = mempool /\ (Advance(c) \/ Throw(c))
               /\ (stage[c] \in Steps => Throw(c))
            \/ \E tx \in Tx : /\ mempool' = Append(mempool, tx) /\ tx.by = c /\ tx.step = stage[c]
                              /\ Shaped(tx) /\ Handled(tx) /\ Advance(c) /\ picked' = picked
<1>t. stage \in [Calls -> StageNames] /\ picked \in [Calls -> SUBSET Output]
  BY DEF PoolInv, TypeOK
<1>1. CASE Submitting(c)
  <2>1. PICK tx \in Tx : /\ Submit(c, tx) /\ tx.by = c /\ tx.step = stage[c]
                         /\ Acceptable(tx) => Shaped(tx) /\ Handled(tx)
    BY <1>1, Submissions
  <2>2. stage[c] \notin Ended /\ UNCHANGED <<chainVars, locals>>
    BY <2>1 DEF Submit, Tx, Steps, Ended
  <2>3. CASE Acceptable(tx) /\ mempool' = Append(mempool, tx) /\ Advance(c)
    BY <1>t, <2>1, <2>2, <2>3 DEF locals, Advance
  <2>4. CASE mempool' = mempool /\ Throw(c)
    BY <1>t, <2>2, <2>4 DEF locals, Throw
  <2> QED BY <2>1, <2>3, <2>4 DEF Submit
<1>2. CASE Empty(c) \/ Await(c) \/ Pick(c) \/ Find(c) \/ ReadPool(c)
  <2>1. stage[c] \notin Ended \cup Steps
    BY <1>2 DEF Empty, Await, Pick, Find, ReadPool, Ended, Steps
  <2>2. (Advance(c) \/ Throw(c)) /\ UNCHANGED <<chainVars, mempool, kind, amount>>
    BY <1>2 DEF Empty, Await, Pick, Find, ReadPool, Choose, locals
  <2>3. \A d \in Calls : d # c => picked'[d] = picked[d]
    BY <1>2, <1>t DEF Empty, Await, Pick, Find, ReadPool, Choose, locals
  <2>4. \A d \in Calls : d # c => stage'[d] = stage[d]
    BY <1>t, <2>2 DEF Advance, Throw
  <2> QED BY <2>1, <2>2, <2>3, <2>4
<1> QED BY <1>1, <1>2 DEF Flow, Submitting

\* A step of a flow moves no collateral yet.
LEMMA CustodyFlow ==
  ASSUME CustodyInv, RaceInv', NEW c \in Calls, Flow(c), ~ Begin(c)
  PROVE  CustodyInv'
<1>0. PoolInv
  BY DEF CustodyInv, RaceInv, BooksInv
<1>1. /\ stage[c] \notin Ended /\ UNCHANGED <<chainVars, kind, amount>>
      /\ \A d \in Calls : d # c => stage'[d] = stage[d] /\ picked'[d] = picked[d]
  BY <1>0, Joins
<1>2. \A s \in Leaving : ~ Made(c, s)
  BY <1>1 DEF CustodyInv, Ended
<1>3. DepositsLeaveByHand'
  BY <1>1, <1>2, DepositsStay
<1>t. stage \in [Calls -> StageNames]
  BY <1>0 DEF PoolInv, TypeOK
<1>4. kind'[c] \in Mergers => stage'[c] # "ok"
  <2> SUFFICES ASSUME kind[c] \in Mergers, stage'[c] = "ok" PROVE FALSE
    BY <1>1
  <2>1. Advance(c)
    <3>1. Advance(c) \/ Throw(c)
      BY <1>0, Joins
    <3> QED BY <1>t, <3>1 DEF Throw
  <2>2. After(c) = "ok"
    BY <1>t, <2>1 DEF Advance
  <2>3. stage[c] = "merge"
    BY <1>0, <1>1, <2>2, LastStages
  <2>4. Merge(c)
    BY <2>3 DEF Flow, Create, Deposit, Await, Pick, Find, ReadPool, Empty, MergeByHand, Withdraw, Refund, Mergers
  <2>5. PICK tx \in Tx : Submit(c, tx) /\ ~ Acceptable(tx)
    BY <1>0, <2>4, ServerMerges
  <2> QED BY <1>t, <2>5 DEF Submit, Throw
<1>5. \A d \in Calls : kind'[d] \in Mergers => stage'[d] # "ok"
  BY <1>1, <1>4 DEF CustodyInv
<1>6. CASE mempool' = mempool
  <2>1. \A d \in Calls, s \in Steps : Made(d, s)' = Made(d, s)
    BY <1>1, <1>6 DEF Made, Waits, chainVars
  <2>2. Leaving \subseteq Steps /\ "withdraw" \in Steps
    BY DEF Leaving, Steps
  <2>3. \A d \in Calls, s \in Leaving : Made(d, s)' => stage'[d] = "ok" /\ kind'[d] \in ByHand
    BY <1>1, <1>2, <2>1, <2>2 DEF CustodyInv
  <2>4. \A d \in Calls : ~ Made(d, "withdraw")'
    BY <2>1, <2>2 DEF CustodyInv
  <2>5. ASSUME NEW i \in DOMAIN mempool PROVE Handled(mempool[i])'
    <3>1. Handled(mempool[i]) /\ mempool[i].by \in Calls /\ mempool[i].step \in Steps
      BY <1>0, Queued DEF CustodyInv, Tx
    <3>2. mempool[i].step \in Leaving => mempool[i].by # c
      BY <1>2, <3>1 DEF Made, Waits
    <3> QED BY <1>1, <1>6, <3>1, <3>2 DEF Handled, Leaving
  <2> QED BY <1>3, <1>5, <1>6, <2>3, <2>4, <2>5 DEF CustodyInv
<1>7. ASSUME NEW tx \in Tx, mempool' = Append(mempool, tx), tx.by = c, tx.step = stage[c],
             Shaped(tx), Handled(tx), Advance(c), picked' = picked
      PROVE  CustodyInv'
  <2>1. /\ DOMAIN mempool' = 1..Len(mempool) + 1 /\ DOMAIN mempool = 1..Len(mempool) /\ Len(mempool) \in Nat
        /\ \A i \in 1..Len(mempool) : mempool'[i] = mempool[i]
        /\ mempool'[Len(mempool) + 1] = tx
    BY <1>0, <1>7, Queued, AppendIs, LenProperties
  <2>2. \A d \in Calls, s \in Steps : Made(d, s)' => Made(d, s) \/ (d = c /\ s = stage[c])
    BY <1>1, <1>7, <2>1 DEF Made, Waits, chainVars
  <2>3. Leaving \subseteq Steps /\ "withdraw" \in Steps
    BY DEF Leaving, Steps
  <2>4. ASSUME stage[c] \in Leaving PROVE stage'[c] = "ok" /\ kind[c] \in ByHand
    <3>1. kind[c] = IF stage[c] = "merge" THEN "handmerge" ELSE "refund"
      BY <1>7, <2>4 DEF Handled, Leaving
    <3>2. After(c) = "ok"
      BY <1>0, <1>1, <2>4, <3>1, LastStages DEF Leaving
    <3> QED BY <1>t, <1>7, <3>1, <3>2 DEF Advance, ByHand
  <2>5. \A d \in Calls, s \in Leaving : Made(d, s)' => stage'[d] = "ok" /\ kind'[d] \in ByHand
    <3> SUFFICES ASSUME NEW d \in Calls, NEW s \in Leaving, Made(d, s)'
                 PROVE  stage'[d] = "ok" /\ kind'[d] \in ByHand
      OBVIOUS
    <3>1. CASE d = c /\ s = stage[c]
      BY <1>1, <2>4, <3>1
    <3>2. CASE Made(d, s)
      BY <1>1, <1>2, <3>2 DEF CustodyInv
    <3> QED BY <2>2, <2>3, <3>1, <3>2
  <2>6. \A d \in Calls : ~ Made(d, "withdraw")'
    <3>1. stage[c] # "withdraw"
      BY <1>7 DEF Shaped
    <3> QED BY <2>2, <2>3, <3>1 DEF CustodyInv
  <2>7. ASSUME NEW i \in DOMAIN mempool' PROVE Handled(mempool[i])'
    <3>1. PICK t : t = mempool'[i] /\ Handled(t)
      <4>1. CASE i \in 1..Len(mempool)
        BY <2>1, <4>1 DEF CustodyInv
      <4>2. CASE i = Len(mempool) + 1
        BY <1>7, <2>1, <4>2
      <4> QED BY <2>1, <4>1, <4>2
    <3> QED BY <1>1, <1>7, <3>1 DEF Handled
  <2> QED BY <1>3, <1>5, <2>5, <2>6, <2>7 DEF CustodyInv
<1> QED BY <1>0, <1>6, <1>7, Joins

\* A block with a deposit brings collateral; one with a merge or a refund takes what was picked by hand.
LEMMA CustodyMempool ==
  ASSUME CustodyInv, RaceInv', Confirm \/ Drop
  PROVE  CustodyInv'
<1>0. BooksInv /\ PoolInv /\ UNCHANGED <<locals, stage>>
  BY DEF CustodyInv, RaceInv, BooksInv, Confirm, Drop
<1>1. PICK gone \in DOMAIN mempool :
        /\ Lacks(gone)
        /\ \/ UNCHANGED <<ledger, chain>>
           \/ /\ chain' = chain \cup {<<mempool[gone].by, mempool[gone].step>>}
              /\ ledger' = (ledger \ mempool[gone].ins) \cup mempool[gone].outs
  <2>1. CASE Confirm
    BY <1>0, <2>1, ConfirmLacks DEF Confirm
  <2>2. CASE Drop
    BY <1>0, <2>2, DropLacks DEF Drop, chainVars
  <2> QED BY <2>1, <2>2
<1>2. \A d \in Calls, s \in Steps : Made(d, s)' => Made(d, s)
  BY <1>1 DEF Lacks, Made, Waits
<1>3. Leaving \subseteq Steps /\ "withdraw" \in Steps /\ "deposit" \in Steps
  BY DEF Leaving, Steps
<1>4. /\ \A d \in Calls, s \in Leaving : Made(d, s)' => stage'[d] = "ok" /\ kind'[d] \in ByHand
      /\ \A d \in Calls : ~ Made(d, "withdraw")'
      /\ \A d \in Calls : kind'[d] \in Mergers => stage'[d] # "ok"
  BY <1>0, <1>2, <1>3 DEF CustodyInv, locals
<1>5. ASSUME NEW i \in DOMAIN mempool' PROVE Handled(mempool[i])'
  <2>1. PICK t : t = mempool'[i] /\ Handled(t)
    BY <1>1 DEF Lacks, CustodyInv
  <2> QED BY <1>0, <2>1 DEF Handled, locals
<1>6. DepositsLeaveByHand'
  <2>1. CASE UNCHANGED <<ledger, chain>>
    BY <1>0, <2>1 DEF CustodyInv, DepositsLeaveByHand, locals
  <2>2. CASE /\ chain' = chain \cup {<<mempool[gone].by, mempool[gone].step>>}
             /\ ledger' = (ledger \ mempool[gone].ins) \cup mempool[gone].outs
    <3>1. PICK tx \in Tx : tx = mempool[gone] /\ Shaped(tx) /\ Handled(tx)
      BY <1>0, Queued DEF BooksInv, Pending, CustodyInv
    <3> SUFFICES ASSUME NEW e \in Calls, <<e, "deposit">> \in chain'
                 PROVE  \/ Vault(e, amount[e]) \in ledger'
                        \/ \E d \in Calls : /\ kind[d] \in ByHand /\ Vault(e, amount[e]) \in picked[d]
                                           /\ {<<d, "merge">>, <<d, "refund">>} \cap chain' # {}
      BY <1>0 DEF DepositsLeaveByHand, locals
    <3>v. Vault(e, amount[e]).at = "vault"
      BY DEF Vault
    <3>2. PICK v : v = Vault(e, amount[e]) /\ v.at = "vault"
      BY <3>v
    <3>3. CASE <<e, "deposit">> \notin chain
      <4>1. tx.by = e /\ tx.step = "deposit"
        BY <2>2, <3>1, <3>3
      <4>2. tx.outs = {v}
        BY <3>1, <3>2, <4>1 DEF Shaped, IsDeposit
      <4> QED BY <2>2, <3>1, <3>2, <4>2
    <3>4. CASE <<e, "deposit">> \in chain /\ v \notin ledger
      BY <2>2, <3>2, <3>4 DEF CustodyInv, DepositsLeaveByHand
    <3>5. CASE v \in ledger /\ v \in tx.ins
      <4>1. tx.step \in Leaving
        BY <3>1, <3>5 DEF Shaped, IsCreate, IsDeposit, Leaving
      <4>2. kind[tx.by] \in ByHand /\ v \in picked[tx.by]
        BY <3>1, <3>2, <3>5, <4>1 DEF Handled, Leaving, Vaults, ByHand
      <4>3. tx.by \in Calls /\ {<<tx.by, "merge">>, <<tx.by, "refund">>} \cap chain' # {}
        BY <2>2, <3>1, <4>1 DEF Leaving, Tx
      <4> QED BY <3>2, <4>2, <4>3
    <3>6. CASE v \in ledger /\ v \notin tx.ins
      BY <2>2, <3>1, <3>2, <3>6
    <3> QED BY <3>3, <3>4, <3>5, <3>6
  <2> QED BY <1>1, <2>1, <2>2
<1> QED BY <1>4, <1>5, <1>6 DEF CustodyInv

\* Nothing is in anybody's custody yet.
LEMMA InitCustody == Init => CustodyInv
<1> SUFFICES ASSUME Init PROVE CustodyInv
  OBVIOUS
<1>1. RaceInv
  BY InitRace
<1>2. \A c \in Calls : stage[c] = "new" /\ \A s : ~ Made(c, s)
  BY DEF Init, Waits, Made
<1> QED BY <1>1, <1>2 DEF Init, CustodyInv, DepositsLeaveByHand

\* Every step keeps collateral where it is accounted for.
LEMMA NextCustody == CustodyInv /\ AccountsAreTrue /\ [Next]_vars => CustodyInv'
<1> SUFFICES ASSUME CustodyInv, AccountsAreTrue, [Next]_vars PROVE CustodyInv'
  OBVIOUS
<1>0. RaceInv /\ RaceInv'
  BY NextRace DEF CustodyInv
<1>1. CASE UNCHANGED vars
  BY <1>0, <1>1 DEF vars, CustodyInv, Handled, Made, Waits, DepositsLeaveByHand
<1>2. CASE Confirm \/ Drop
  BY <1>0, <1>2, CustodyMempool
<1>3. ASSUME NEW c \in Calls, Flow(c) PROVE CustodyInv'
  BY <1>0, <1>3, CustodyBegin, CustodyFlow
<1> QED BY <1>1, <1>2, <1>3 DEF Next

\* No merge, lock or demo of the server ever succeeds, and none of its merges gets to the node's mempool: the vault
\* asks for its owner's signature and the flows list no signer (margin_pool_flow.ts:310), the pool for a datum in Some.
THEOREM ServerMergesFail ==
  Spec => [](\A c \in Calls : kind[c] \in Mergers => stage[c] # "ok" /\ ~ Made(c, "merge"))
<1>1. CustodyInv => \A c \in Calls : kind[c] \in Mergers => stage[c] # "ok" /\ ~ Made(c, "merge")
  BY DEF CustodyInv, Leaving
<1> QED BY <1>1, InitBooks, NextBooks, InitCustody, NextCustody, PTL DEF Spec

\* A second pool takes a race; collateral stays at the vault until its owner has moved it by hand; and a pool takes one
\* merge, by hand, and nothing can be withdrawn: for any number of calls, of pools and any amounts.
THEOREM CustodyAlwaysHolds == Spec => []CustodyHolds
<1>1. CustodyInv => CustodyHolds
  <2> SUFFICES ASSUME CustodyInv PROVE CustodyHolds
    OBVIOUS
  <2>1. SecondPoolTakesARace
    BY DEF CustodyInv, RaceInv, SecondTakesARace, SecondPoolTakesARace, Bootstrapped, Made
  <2>2. PoolsTakeOneMerge
    BY DEF CustodyInv, RaceInv, BooksInv, PoolInv, Sound, Backed, OneMerge, Made, PoolsTakeOneMerge
  <2> QED BY <2>1, <2>2 DEF CustodyInv, CustodyHolds
<1> QED BY <1>1, InitBooks, NextBooks, InitCustody, NextCustody, PTL DEF Spec
=============================================================================
