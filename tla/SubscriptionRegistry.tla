------------------------ MODULE SubscriptionRegistry ------------------------
(***************************************************************************)
(* The subscriber table and delivery loop both event buses share           *)
(* (src/src/events/event_bus.cpp:11-74).  One dispatcher thread delivers   *)
(* events; any thread, the dispatcher included, adds and removes           *)
(* subscribers while it does.                                              *)
(*                                                                         *)
(* mutex_ guards the table, and every section it guards is one action      *)
(* here.  delivery_mutex_ is held exactly while a handler runs (a remover  *)
(* takes it and drops it at once), so its holder is the dispatcher when    *)
(* `running' names a handler and nobody otherwise.                         *)
(*                                                                         *)
(* A subscription is its id; the handler's code is whatever it does to the *)
(* registry while it runs (HandlerAdd, HandlerRemove) and how it ends.     *)
(***************************************************************************)
EXTENDS Naturals, Sequences, FiniteSets

CONSTANTS Callers,      \* the threads other than the dispatcher
          EventTypes,
          MaxId         \* bound: subscriptions ever made

ASSUME RegistryAssumption == MaxId \in Nat

VARIABLES entries,      \* entries_: the live subscriptions, in subscription order
          nextId,       \* next_id_
          active,       \* the ids whose Entry::active is true
          delivering,   \* the dispatcher is inside deliver()
          targets,      \* the entries deliver() copied and has not visited yet
          running,      \* the id whose handler is running, 0 when none is
          removing,     \* per thread, the id it waits at the barrier for, 0 when none
          \* What the contract speaks of, and the code does not store:
          erased,       \* ids for which the remove() that erased them has returned
          answered,     \* ids for which some off-dispatcher remove() has returned
          snapshot,     \* the ids deliver() copied for the current event
          invoked       \* the ids whose handler this delivery has invoked, in order

tableVars    == <<entries, nextId, active>>
deliveryVars == <<delivering, targets, running, snapshot, invoked>>
callerVars   == <<removing, erased, answered>>
registryVars == <<tableVars, deliveryVars, callerVars>>

Ids   == 1 .. MaxId
Entry == [id : Ids, type : EventTypes]

IdsOf(s) == {s[i].id : i \in DOMAIN s}

RegistryTypeOK ==
    /\ entries \in Seq(Entry)
    /\ nextId \in 0 .. MaxId
    /\ active \subseteq Ids
    /\ delivering \in BOOLEAN
    /\ targets \in Seq(Ids)
    /\ running \in Ids \cup {0}
    /\ removing \in [Callers -> Ids \cup {0}]
    /\ erased \subseteq Ids
    /\ answered \subseteq Ids
    /\ snapshot \subseteq Ids
    /\ invoked \in Seq(Ids)

RegistryInit ==
    /\ entries = <<>>
    /\ nextId = 0
    /\ active = {}
    /\ delivering = FALSE
    /\ targets = <<>>
    /\ running = 0
    /\ removing = [t \in Callers |-> 0]
    /\ erased = {}
    /\ answered = {}
    /\ snapshot = {}
    /\ invoked = <<>>

-----------------------------------------------------------------------------
(* The table.                                                              *)

Subscribe(type) ==
    /\ nextId < MaxId
    /\ nextId' = nextId + 1
    /\ entries' = Append(entries, [id |-> nextId + 1, type |-> type])
    /\ active' = active \cup {nextId + 1}

(* vector::erase(): those behind close up.                                 *)
Without(s, i) == [j \in 1 .. Len(s) - 1 |-> s[IF j < i THEN j ELSE j + 1]]

(* A fault: the subscription is not marked inactive.                       *)
EraseStillActive(id) ==
    \E i \in DOMAIN entries :
        /\ entries[i].id = id
        /\ entries' = Without(entries, i)
        /\ UNCHANGED <<nextId, active>>

Erase(id) ==
    \E i \in DOMAIN entries :
        /\ entries[i].id = id
        /\ active' = active \ {id}
        /\ entries' = Without(entries, i)
        /\ UNCHANGED nextId

Add(t, type) ==
    /\ removing[t] = 0
    /\ Subscribe(type)
    /\ UNCHANGED <<deliveryVars, callerVars>>

(* remove() of a live subscription: deactivated and erased, then the       *)
(* caller goes for delivery_mutex_.                                        *)
Remove(t, id) ==
    /\ removing[t] = 0
    /\ Erase(id)
    /\ removing' = [removing EXCEPT ![t] = id]
    /\ UNCHANGED <<deliveryVars, erased, answered>>

(* remove() of an id that is no longer in the table returns at once.       *)
RemoveMissing(t, id) ==
    /\ removing[t] = 0
    /\ id \in 1 .. nextId
    /\ id \notin IdsOf(entries)
    /\ answered' = answered \cup {id}
    /\ UNCHANGED <<tableVars, deliveryVars, removing, erased>>

(* A fault: remove() does not wait for the running handler.                *)
PassWithoutWaiting(t) ==
    /\ removing[t] # 0
    /\ erased' = erased \cup {removing[t]}
    /\ answered' = answered \cup {removing[t]}
    /\ removing' = [removing EXCEPT ![t] = 0]
    /\ UNCHANGED <<tableVars, deliveryVars>>

(* The barrier: delivery_mutex_ is free, so no handler is running.         *)
PassBarrier(t) ==
    /\ removing[t] # 0
    /\ running = 0
    /\ erased' = erased \cup {removing[t]}
    /\ answered' = answered \cup {removing[t]}
    /\ removing' = [removing EXCEPT ![t] = 0]
    /\ UNCHANGED <<tableVars, deliveryVars>>

-----------------------------------------------------------------------------
(* The dispatcher.                                                         *)

Places(type) == {i \in DOMAIN entries : entries[i].type = type}

Nth(S, n) == CHOOSE i \in S : Cardinality({j \in S : j <= i}) = n

(* The copy of the entries of one type, taken under mutex_.                *)
Matching(type) ==
    [n \in 1 .. Cardinality(Places(type)) |-> entries[Nth(Places(type), n)].id]

Deliver(type) ==
    /\ ~delivering
    /\ delivering' = TRUE
    /\ targets' = Matching(type)
    /\ snapshot' = {Matching(type)[i] : i \in DOMAIN Matching(type)}
    /\ invoked' = <<>>
    /\ UNCHANGED <<tableVars, callerVars, running>>

Invoke ==
    /\ delivering /\ running = 0
    /\ targets # <<>>
    /\ Head(targets) \in active
    /\ running' = Head(targets)
    /\ targets' = Tail(targets)
    /\ invoked' = Append(invoked, Head(targets))
    /\ UNCHANGED <<tableVars, callerVars, delivering, snapshot>>

SkipInactive ==
    /\ delivering /\ running = 0
    /\ targets # <<>>
    /\ Head(targets) \notin active
    /\ targets' = Tail(targets)
    /\ UNCHANGED <<tableVars, callerVars, delivering, running, snapshot, invoked>>

(* A fault: an exception of one handler ends the whole delivery.           *)
HandlerEndsDelivery ==
    /\ running # 0
    /\ running' = 0
    /\ targets' = <<>>
    /\ UNCHANGED <<tableVars, callerVars, delivering, snapshot, invoked>>

(* The handler returns, or throws and is caught: delivery_mutex_ is        *)
(* released and the loop goes on to the next target either way.            *)
HandlerEnds ==
    /\ running # 0
    /\ running' = 0
    /\ UNCHANGED <<tableVars, callerVars, delivering, targets, snapshot, invoked>>

DeliveryEnds ==
    /\ delivering /\ running = 0
    /\ targets = <<>>
    /\ delivering' = FALSE
    /\ UNCHANGED <<tableVars, callerVars, targets, running, snapshot, invoked>>

(* A handler subscribes, or unsubscribes itself or another: on the         *)
(* dispatcher remove() has no barrier to wait at.                          *)
HandlerAdd(type) ==
    /\ running # 0
    /\ Subscribe(type)
    /\ UNCHANGED <<deliveryVars, callerVars>>

HandlerRemove(id) ==
    /\ running # 0
    /\ Erase(id)
    /\ UNCHANGED <<deliveryVars, callerVars>>

DeliveryGoesOn == Invoke \/ SkipInactive \/ HandlerEnds \/ DeliveryEnds

RegistryNext ==
    \/ \E t \in Callers, type \in EventTypes : Add(t, type)
    \/ \E t \in Callers, id \in Ids : Remove(t, id) \/ RemoveMissing(t, id)
    \/ \E t \in Callers : PassBarrier(t)
    \/ \E type \in EventTypes : Deliver(type) \/ HandlerAdd(type)
    \/ \E id \in Ids : HandlerRemove(id)
    \/ DeliveryGoesOn

RegistrySpec == RegistryInit /\ [][RegistryNext]_registryVars

-----------------------------------------------------------------------------
(* Properties.                                                             *)

(* Once the remove() that took a subscription out of the table has         *)
(* returned, its handler is not running and never runs again, whatever the *)
(* delivery in progress had already copied.                                *)
ErasingRemoveIsBarrier == running \notin erased

(* Of any other remove() off the dispatcher, one that finds the id already *)
(* taken out included, only half of that holds: a handler that was running *)
(* may run on, but once the call has returned none begins.                 *)
NoneBegins ==
    [][\A id \in answered : running' = id => running = id]_registryVars

(* Within one event handlers run in subscription order, each at most once, *)
(* and only those subscribed before the delivery began: a handler          *)
(* subscribed by another handler waits for the next event.                 *)
InvokedInSubscriptionOrder ==
    /\ \A i, j \in DOMAIN invoked : i < j => invoked[i] < invoked[j]
    /\ \A i \in DOMAIN invoked : invoked[i] \in snapshot

(* A removal, from a handler or from another thread, never costs a         *)
(* subscriber that is still live its event: when the delivery is over each *)
(* of them has been invoked.                                               *)
LiveSubscribersServed ==
    delivering => \A id \in snapshot \cap active :
                     \/ \E i \in DOMAIN invoked : invoked[i] = id
                     \/ \E i \in DOMAIN targets : targets[i] = id

(* What a handler's invocation rests on while the table, its copy and the  *)
(* snapshot change under the delivery: handlers run in subscription order, *)
(* none twice, and every subscriber still live is served.                  *)
ServedInOrder == RegistryTypeOK /\ InvokedInSubscriptionOrder /\ LiveSubscribersServed
=============================================================================
