---- MODULE MatchingEvents ----
(***************************************************************************)
(* book/matching_events.ts: handlers of one event type, handlers of all    *)
(* events, and emits that walk both lists across awaits while handlers     *)
(* (also those being called) subscribe, unsubscribe or remove all others.  *)
(* The walk is over the live array; removeAllListeners puts new arrays in  *)
(* their place, so that a walk goes on over the old one.                   *)
(***************************************************************************)
EXTENDS Integers, Sequences, SequencesExt, FiniteSets

CONSTANTS
  Handlers, Emits,
  MaxSubscriptions, MaxClears \* bounds: calls of on and onAny, of removeAllListeners

Kinds == {"specific", "global"}

VARIABLES
  lists,       \* handlers of the event's type, globalHandlers
  emit,        \* per emit: the list it walks, how far it is, and the old array if its list has been replaced
  got,         \* history: per emit the handlers called, in order
  stayed,      \* history: per emit what was subscribed when it began and has not been unsubscribed since
  shifted,     \* history: emits of which an unsubscription has moved a handler to a place already passed
  subscribed,  \* history: how often each handler was subscribed to each list
  clears       \* history: number of calls of removeAllListeners

emitterVars == <<lists, emit, got, stayed, shifted, subscribed, clears>>

Subscriptions == {s \in Kinds \X Handlers : s[2] \in ToSet(lists[s[1]])}
Old == [old |-> FALSE, list |-> <<>>]
NotBegun == [step |-> "idle", at |-> 0, replaced |-> Old]
Walked(e) == IF emit[e].replaced.old THEN emit[e].replaced.list ELSE lists[emit[e].step]
Walking(e) == emit[e].step \in Kinds

EmitterInit ==
  /\ lists = [k \in Kinds |-> <<>>]
  /\ emit = [e \in Emits |-> NotBegun]
  /\ got = [e \in Emits |-> <<>>] /\ stayed = [e \in Emits |-> {}] /\ shifted = {}
  /\ subscribed = [k \in Kinds |-> [h \in Handlers |-> 0]] /\ clears = 0

\* on and onAny
On(k, h) ==
  /\ subscribed[k][h] < MaxSubscriptions
  /\ lists' = [lists EXCEPT ![k] = Append(@, h)]
  /\ subscribed' = [subscribed EXCEPT ![k][h] = @ + 1]
  /\ UNCHANGED <<emit, got, stayed, shifted, clears>>

\* The function on returns: the first entry of the handler in the list of now.
Off(k, h) ==
  /\ h \in ToSet(lists[k])
  /\ lists' = [lists EXCEPT ![k] = RemoveFirst(@, h)]
  /\ stayed' = [e \in Emits |-> stayed[e] \ {<<k, h>>}]
  /\ shifted' = shifted \cup {e \in Emits : /\ emit[e].step = k /\ ~emit[e].replaced.old
                                            /\ \E i \in 1..emit[e].at : i \in DOMAIN lists[k] /\ lists[k][i] = h}
  /\ UNCHANGED <<emit, got, subscribed, clears>>

\* removeAllListeners, of the event's type or of all
RemoveAll(ks) ==
  /\ clears < MaxClears /\ clears' = clears + 1
  /\ lists' = [k \in Kinds |-> IF k \in ks THEN <<>> ELSE lists[k]]
  /\ emit' = [e \in Emits |-> IF emit[e].step \in ks /\ ~emit[e].replaced.old
                              THEN [emit[e] EXCEPT !.replaced = [old |-> TRUE, list |-> lists[emit[e].step]]]
                              ELSE emit[e]]
  /\ stayed' = [e \in Emits |-> {s \in stayed[e] : s[1] \notin ks}]
  /\ UNCHANGED <<got, shifted, subscribed>>

-----------------------------------------------------------------------------
\* emit: from one await to the next a single handler is called.

Begun(e) == IF emit[e].step = "idle" THEN Subscriptions ELSE stayed[e]

\* The call e makes next, if any: the next entry of the list it walks; at the end of the first list the second is
\* taken as it is now.
First(e) ==
  IF emit[e].step = "idle" /\ lists["specific"] # <<>> THEN {"specific"}
  ELSE IF emit[e].step \in {"idle", "specific"} /\ lists["global"] # <<>> THEN {"global"} ELSE {}

Calls(e) ==
  IF Walking(e) /\ emit[e].at < Len(Walked(e))
  THEN {[list |-> emit[e].step, at |-> emit[e].at + 1, handler |-> Walked(e)[emit[e].at + 1], replaced |-> emit[e].replaced]}
  ELSE {[list |-> k, at |-> 1, handler |-> Head(lists[k]), replaced |-> Old] : k \in First(e)}

\* Defective: a handler that throws is called again.
DeliverRetrying(e) ==
  \E c \in Calls(e), ok \in BOOLEAN :
    /\ emit' = [emit EXCEPT ![e] = IF ok THEN [step |-> c.list, at |-> c.at, replaced |-> c.replaced] ELSE @]
    /\ got' = [got EXCEPT ![e] = Append(@, <<c.list, c.handler>>)]
    /\ stayed' = [stayed EXCEPT ![e] = Begun(e)]
    /\ UNCHANGED <<lists, shifted, subscribed, clears>>

\* The handler returns, or throws and with it emit.
Deliver(e) ==
  \E c \in Calls(e), ok \in BOOLEAN :
    /\ emit' = [emit EXCEPT ![e] = [step |-> IF ok THEN c.list ELSE "thrown", at |-> c.at, replaced |-> c.replaced]]
    /\ got' = [got EXCEPT ![e] = Append(@, <<c.list, c.handler>>)]
    /\ stayed' = [stayed EXCEPT ![e] = Begun(e)]
    /\ UNCHANGED <<lists, shifted, subscribed, clears>>

Delivered(e) ==
  /\ emit[e].step \in Kinds \cup {"idle"} /\ Calls(e) = {}
  /\ emit' = [emit EXCEPT ![e].step = "done"]
  /\ stayed' = [stayed EXCEPT ![e] = Begun(e)]
  /\ UNCHANGED <<lists, got, shifted, subscribed, clears>>

EmitterNext ==
  \/ \E k \in Kinds, h \in Handlers : On(k, h) \/ Off(k, h)
  \/ \E ks \in {Kinds, {"specific"}} : RemoveAll(ks)
  \/ \E e \in Emits : Deliver(e) \/ Delivered(e)

EmitterSpec == EmitterInit /\ [][EmitterNext]_emitterVars

-----------------------------------------------------------------------------
\* An emit that has returned has called every handler that was subscribed all the while, whoever else came, went or
\* removed all others, unless an unsubscription moved it to a place already passed (matching_events.ts:110-130).
ServedUnlessShifted ==
  \A e \in Emits : emit[e].step = "done" /\ e \notin shifted => stayed[e] \subseteq ToSet(got[e])

\* An emit calls a handler at most once for each time it was subscribed: removals never make it call one again.
ServedOncePerSubscription ==
  \A e \in Emits, k \in Kinds, h \in Handlers :
    Cardinality({i \in DOMAIN got[e] : got[e][i] = <<k, h>>}) <= subscribed[k][h]

\* Who is subscribed is called, and once.
ServedOnce == ServedUnlessShifted /\ ServedOncePerSubscription

=============================================================================
