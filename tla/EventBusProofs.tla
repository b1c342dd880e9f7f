--------------------------- MODULE EventBusProofs ---------------------------
(***************************************************************************)
(* Proofs about event_bus.cpp: its subscriber table, and the bus with a    *)
(* dispatcher thread that owns one.                                        *)
(*                                                                         *)
(* Of the table, for any callers, event types and number of subscriptions: *)
(* the remove() which takes a subscription out is a barrier, after any     *)
(* remove() nothing begins, and a delivery serves the subscribers still    *)
(* live in order.  Of the bus, for any clients, capacity, either policy    *)
(* for a full queue and any number of events: its invariant, that it       *)
(* implements the contract, and that a drain is a drain.                   *)
(***************************************************************************)
EXTENDS SubscriptionRegistry, InProcessEventBus, WellFoundedInduction, FiniteSetTheorems,
        SequenceTheorems, TLAPS

(* Ids are given out once; an id waited for or given up is inactive, so it *)
(* can only be running, and running keeps the barrier shut.                *)
IdsGivenOut ==
    /\ nextId \in Nat
    /\ entries \in Seq([id : Nat, type : EventTypes])
    /\ \A i \in DOMAIN entries : entries[i].id \in 1 .. nextId

GivenUp ==
    /\ removing \in [Callers -> Nat]
    /\ \A t \in Callers :
          removing[t] # 0 => removing[t] \in 1 .. nextId /\ removing[t] \notin active
    /\ \A id \in erased : id \in 1 .. nextId /\ id \notin active

BarrierInv == IdsGivenOut /\ GivenUp /\ ErasingRemoveIsBarrier

(* Erasing takes an id that was given out and leaves only such ids.        *)
LEMMA EraseShrinks ==
  ASSUME NEW id, IdsGivenOut, Erase(id)
  PROVE  /\ IdsGivenOut' /\ nextId' = nextId
         /\ id \in 1 .. nextId
         /\ active' = active \ {id}
<1> DEFINE E == [id : Nat, type : EventTypes]
<1>e. entries \in Seq(E)
  BY DEF IdsGivenOut
<1> HIDE DEF E
<1>1. PICK i \in DOMAIN entries : /\ entries[i].id = id
                                  /\ active' = active \ {id}
                                  /\ entries' = Without(entries, i)
                                  /\ nextId' = nextId
  BY DEF Erase
<1>2. Len(entries) - 1 \in Nat /\ DOMAIN entries = 1 .. Len(entries)
  BY <1>1, <1>e
<1>3. \A j \in 1 .. Len(entries) - 1 : (IF j < i THEN j ELSE j + 1) \in DOMAIN entries
  BY <1>1, <1>2
<1>4. \A j \in DOMAIN entries : entries[j] \in E
  BY <1>e
<1>5. entries' \in [1 .. Len(entries) - 1 -> E]
  BY <1>1, <1>3, <1>4 DEF Without
<1>6. entries' \in Seq(E)
  BY <1>2, <1>5, SeqDef, Zenon
<1>7. \A j \in DOMAIN entries' : entries'[j].id \in 1 .. nextId
  BY <1>1, <1>3, <1>5 DEF Without, IdsGivenOut
<1>8. QED
  BY <1>1, <1>6, <1>7 DEF IdsGivenOut, E

(* A subscription gets an id nobody has or had.                            *)
LEMMA SubscribeIsNew ==
  ASSUME NEW type \in EventTypes, IdsGivenOut, Subscribe(type)
  PROVE  /\ IdsGivenOut' /\ nextId' = nextId + 1
         /\ active' = active \cup {nextId + 1}
<1> DEFINE E == [id : Nat, type : EventTypes]
           e == [id |-> nextId + 1, type |-> type]
<1>1. entries \in Seq(E) /\ e \in E /\ entries' = Append(entries, e)
  BY DEF Subscribe, IdsGivenOut
<1> HIDE DEF E, e
<1>2. /\ entries' \in Seq(E)
      /\ Len(entries') = Len(entries) + 1
      /\ \A i \in 1 .. Len(entries) : entries'[i] = entries[i]
      /\ entries'[Len(entries) + 1] = e
  BY <1>1, AppendProperties
<1>3. ASSUME NEW i \in DOMAIN entries'
      PROVE  entries'[i].id \in 1 .. nextId + 1
  <2>1. Len(entries) \in Nat /\ DOMAIN entries = 1 .. Len(entries)
        /\ DOMAIN entries' = 1 .. Len(entries) + 1
    BY <1>1, <1>2, LenProperties
  <2>2. CASE i \in 1 .. Len(entries)
    BY <1>2, <2>1, <2>2 DEF IdsGivenOut
  <2>3. CASE i = Len(entries) + 1
    BY <1>2, <2>3 DEF e, IdsGivenOut
  <2>4. QED
    BY <2>1, <2>2, <2>3
<1>4. QED
  BY <1>2, <1>3 DEF Subscribe, IdsGivenOut, E

(* When the remove() that erased a subscription has returned, its handler  *)
(* is not running and never will be.                                       *)
THEOREM ErasingRemoveWaits == RegistrySpec => []ErasingRemoveIsBarrier
<1>1. RegistryInit => BarrierInv
  <2> SUFFICES ASSUME RegistryInit PROVE BarrierInv
    OBVIOUS
  <2>1. entries \in Seq([id : Nat, type : EventTypes]) /\ DOMAIN entries = {}
    BY EmptySeq DEF RegistryInit
  <2>2. QED
    BY <2>1 DEF RegistryInit, BarrierInv, IdsGivenOut, GivenUp, ErasingRemoveIsBarrier
<1>2. BarrierInv /\ [RegistryNext]_registryVars => BarrierInv'
  <2> SUFFICES ASSUME BarrierInv, [RegistryNext]_registryVars
               PROVE  BarrierInv'
    OBVIOUS
  <2>1. ASSUME NEW type \in EventTypes, Subscribe(type),
               UNCHANGED <<removing, erased, running>>
        PROVE  BarrierInv'
    <3>1. IdsGivenOut' /\ nextId' = nextId + 1 /\ active' = active \cup {nextId + 1}
      BY <2>1, SubscribeIsNew DEF BarrierInv
    <3>2. nextId \in Nat
      BY DEF BarrierInv, IdsGivenOut
    <3>3. \A id \in 1 .. nextId : id \notin active => id \in 1 .. nextId' /\ id \notin active'
      BY <3>1, <3>2
    <3>4. GivenUp'
      BY <2>1, <3>3 DEF BarrierInv, GivenUp
    <3>5. QED
      BY <2>1, <3>1, <3>4 DEF BarrierInv, ErasingRemoveIsBarrier
  <2>2. ASSUME NEW t \in Callers, NEW id \in Ids, Remove(t, id)
        PROVE  BarrierInv'
    <3>1. IdsGivenOut' /\ nextId' = nextId /\ id \in 1 .. nextId /\ active' = active \ {id}
      BY <2>2, EraseShrinks DEF Remove, BarrierInv
    <3>2. GivenUp'
      BY <2>2, <3>1 DEF Remove, BarrierInv, GivenUp, IdsGivenOut
    <3>3. ErasingRemoveIsBarrier'
      BY <2>2 DEF Remove, deliveryVars, BarrierInv, ErasingRemoveIsBarrier
    <3>4. QED
      BY <3>1, <3>2, <3>3 DEF BarrierInv
  <2>3. ASSUME NEW t \in Callers, PassBarrier(t)
        PROVE  BarrierInv'
    <3>1. IdsGivenOut'
      BY <2>3 DEF PassBarrier, tableVars, BarrierInv, IdsGivenOut
    <3>2. GivenUp'
      BY <2>3 DEF PassBarrier, tableVars, BarrierInv, GivenUp
    <3>3. ErasingRemoveIsBarrier'
      BY <2>3 DEF PassBarrier, deliveryVars, BarrierInv, ErasingRemoveIsBarrier, GivenUp
    <3>4. QED
      BY <3>1, <3>2, <3>3 DEF BarrierInv
  <2>4. CASE Invoke
    <3>1. running' \in active /\ UNCHANGED <<entries, nextId, active, removing, erased>>
      BY <2>4 DEF Invoke, tableVars, callerVars
    <3>2. running' \notin erased
      BY <3>1 DEF BarrierInv, GivenUp
    <3>3. QED
      BY <3>1, <3>2 DEF BarrierInv, GivenUp, IdsGivenOut, ErasingRemoveIsBarrier
  <2>5. ASSUME NEW id \in Ids, HandlerRemove(id)
        PROVE  BarrierInv'
    <3>1. IdsGivenOut' /\ nextId' = nextId /\ id \in 1 .. nextId /\ active' = active \ {id}
      BY <2>5, EraseShrinks DEF HandlerRemove, BarrierInv
    <3>2. QED
      BY <2>5, <3>1 DEF HandlerRemove, deliveryVars, callerVars, BarrierInv, GivenUp,
         ErasingRemoveIsBarrier
  <2>6. ASSUME UNCHANGED <<entries, nextId, active, removing, erased>>,
               running' = running \/ running' = 0
        PROVE  BarrierInv'
    BY <2>6 DEF BarrierInv, GivenUp, IdsGivenOut, ErasingRemoveIsBarrier
  <2>7. ASSUME NEW t \in Callers, NEW id \in Ids, RemoveMissing(t, id)
        PROVE  BarrierInv'
    BY <2>6, <2>7 DEF RemoveMissing, tableVars, deliveryVars
  <2>8. ASSUME NEW type \in EventTypes, Deliver(type)
        PROVE  BarrierInv'
    BY <2>6, <2>8 DEF Deliver, tableVars, callerVars
  <2>9. CASE SkipInactive \/ HandlerEnds \/ DeliveryEnds \/ UNCHANGED registryVars
    BY <2>6, <2>9 DEF SkipInactive, HandlerEnds, DeliveryEnds, registryVars, tableVars,
       deliveryVars, callerVars
  <2>10. QED
    BY <2>1, <2>2, <2>3, <2>4, <2>5, <2>7, <2>8, <2>9
       DEF RegistryNext, DeliveryGoesOn, Add, HandlerAdd, callerVars, deliveryVars
<1>3. BarrierInv => ErasingRemoveIsBarrier
  BY DEF BarrierInv
<1>4. QED
  BY <1>1, <1>2, <1>3, PTL DEF RegistrySpec

-----------------------------------------------------------------------------
(* An id is active only while it is in the table, so one that a remove()   *)
(* does not find is inactive; it stays so.                                 *)
ActiveListed == \A id \in active : \E i \in DOMAIN entries : entries[i].id = id

AnsweredInactive == \A id \in answered : id \in 1 .. nextId /\ id \notin active

AnsweredInv == IdsGivenOut /\ GivenUp /\ ActiveListed /\ AnsweredInactive

(* Erasing an entry leaves every other.                                    *)
LEMMA EraseKeepsOthers ==
  ASSUME NEW id, IdsGivenOut, ActiveListed, Erase(id)
  PROVE  ActiveListed'
<1>1. PICK i \in DOMAIN entries : /\ entries[i].id = id
                                  /\ active' = active \ {id}
                                  /\ entries' = Without(entries, i)
  BY DEF Erase
<1>2. Len(entries) \in Nat /\ DOMAIN entries = 1 .. Len(entries)
  BY LenProperties DEF IdsGivenOut
<1>3. i \in 1 .. Len(entries) /\ DOMAIN entries' = 1 .. Len(entries) - 1
  BY <1>1, <1>2 DEF Without
<1>4. SUFFICES ASSUME NEW a \in active' PROVE \E j \in DOMAIN entries' : entries'[j].id = a
  BY DEF ActiveListed
<1>5. PICK k \in 1 .. Len(entries) : entries[k].id = a
  BY <1>1, <1>2, <1>4 DEF ActiveListed
<1>6. k # i
  BY <1>1, <1>4, <1>5
<1>7. CASE k < i
  <2>1. k \in 1 .. Len(entries) - 1
    BY <1>2, <1>3, <1>5, <1>7
  <2>2. entries'[k] = entries[k]
    BY <1>1, <1>7, <2>1 DEF Without
  <2>3. QED
    BY <1>3, <1>5, <2>1, <2>2
<1>8. CASE k > i
  <2>1. k - 1 \in 1 .. Len(entries) - 1 /\ ~(k - 1 < i) /\ (k - 1) + 1 = k
    BY <1>2, <1>3, <1>5, <1>8
  <2>2. entries'[k - 1] = entries[k]
    BY <1>1, <2>1 DEF Without
  <2>3. QED
    BY <1>3, <1>5, <2>1, <2>2
<1>9. QED
  BY <1>2, <1>3, <1>5, <1>6, <1>7, <1>8

(* A new subscription is listed, and those before stay listed.             *)
LEMMA SubscribeIsListed ==
  ASSUME NEW type \in EventTypes, IdsGivenOut, ActiveListed, Subscribe(type)
  PROVE  ActiveListed'
<1> DEFINE e == [id |-> nextId + 1, type |-> type]
<1>1. entries \in Seq([id : Nat, type : EventTypes]) /\ e \in [id : Nat, type : EventTypes]
      /\ entries' = Append(entries, e) /\ active' = active \cup {nextId + 1}
      /\ e.id = nextId + 1
  BY DEF Subscribe, IdsGivenOut
<1> HIDE DEF e
<1>2. /\ entries' \in Seq([id : Nat, type : EventTypes])
      /\ Len(entries') = Len(entries) + 1
      /\ \A i \in 1 .. Len(entries) : entries'[i] = entries[i]
      /\ entries'[Len(entries) + 1] = e
  BY <1>1, AppendProperties
<1>3. Len(entries) \in Nat /\ DOMAIN entries = 1 .. Len(entries)
      /\ DOMAIN entries' = 1 .. Len(entries) + 1
  BY <1>1, <1>2, LenProperties
<1>4. ASSUME NEW a \in active'
      PROVE  \E j \in DOMAIN entries' : entries'[j].id = a
  <2>1. CASE a \in active
    BY <1>2, <1>3, <2>1 DEF ActiveListed
  <2>2. CASE a = nextId + 1
    BY <1>1, <1>2, <1>3, <2>2
  <2>3. QED
    BY <1>1, <1>4, <2>1, <2>2
<1>5. QED
  BY <1>4 DEF ActiveListed

(* After any remove() off the dispatcher has returned, whichever of them   *)
(* took the entry out, no invocation of that handler begins.               *)
THEOREM NoneBeginsAfterRemove == RegistrySpec => NoneBegins
<1> DEFINE Begins == \A id \in answered : running' = id => running = id
<1>1. RegistryInit => AnsweredInv
  <2> SUFFICES ASSUME RegistryInit PROVE AnsweredInv
    OBVIOUS
  <2>1. entries \in Seq([id : Nat, type : EventTypes]) /\ DOMAIN entries = {}
    BY EmptySeq DEF RegistryInit
  <2>2. QED
    BY <2>1 DEF RegistryInit, AnsweredInv, IdsGivenOut, GivenUp, ActiveListed, AnsweredInactive
<1>2. AnsweredInv /\ [RegistryNext]_registryVars => AnsweredInv' /\ Begins
  <2> SUFFICES ASSUME AnsweredInv, [RegistryNext]_registryVars
               PROVE  AnsweredInv' /\ Begins
    OBVIOUS
  <2>1. ASSUME NEW type \in EventTypes, Subscribe(type),
               UNCHANGED <<removing, erased, answered, running>>
        PROVE  AnsweredInv' /\ Begins
    <3>1. /\ IdsGivenOut' /\ nextId' = nextId + 1 /\ active' = active \cup {nextId + 1}
          /\ ActiveListed'
      BY <2>1, SubscribeIsNew, SubscribeIsListed DEF AnsweredInv
    <3>2. nextId \in Nat
      BY DEF AnsweredInv, IdsGivenOut
    <3>3. \A id \in 1 .. nextId : id \notin active => id \in 1 .. nextId' /\ id \notin active'
      BY <3>1, <3>2
    <3>4. GivenUp' /\ AnsweredInactive'
      BY <2>1, <3>3 DEF AnsweredInv, GivenUp, AnsweredInactive
    <3>5. QED
      BY <2>1, <3>1, <3>4 DEF AnsweredInv
  <2>2. ASSUME NEW id \in Ids, Erase(id), UNCHANGED <<erased, answered, running>>,
               \/ UNCHANGED removing
               \/ \E t \in Callers : removing' = [removing EXCEPT ![t] = id]
        PROVE  AnsweredInv' /\ Begins
    <3>1. /\ IdsGivenOut' /\ nextId' = nextId /\ id \in 1 .. nextId /\ active' = active \ {id}
          /\ ActiveListed'
      BY <2>2, EraseShrinks, EraseKeepsOthers DEF AnsweredInv
    <3>2. /\ \A i \in 1 .. nextId : i \notin active => i \in 1 .. nextId' /\ i \notin active'
          /\ id \in 1 .. nextId' /\ id \notin active' /\ id \in Nat
      BY <3>1 DEF AnsweredInv, IdsGivenOut
    <3>3. AnsweredInactive'
      BY <2>2, <3>2 DEF AnsweredInv, AnsweredInactive
    <3>4. ASSUME UNCHANGED removing
          PROVE  GivenUp'
      BY <2>2, <3>2, <3>4 DEF AnsweredInv, GivenUp
    <3>5. ASSUME NEW t \in Callers, removing' = [removing EXCEPT ![t] = id]
          PROVE  GivenUp'
      BY <2>2, <3>2, <3>5 DEF AnsweredInv, GivenUp
    <3>6. GivenUp'
      BY <2>2, <3>4, <3>5
    <3>7. QED
      BY <2>2, <3>1, <3>3, <3>6 DEF AnsweredInv
  <2>3. ASSUME NEW t \in Callers, NEW id \in Ids, RemoveMissing(t, id)
        PROVE  AnsweredInv' /\ Begins
    <3>1. id \in 1 .. nextId /\ id \notin active
      BY <2>3 DEF RemoveMissing, IdsOf, AnsweredInv, ActiveListed
    <3>2. QED
      BY <2>3, <3>1 DEF RemoveMissing, tableVars, deliveryVars, AnsweredInv, IdsGivenOut,
         GivenUp, ActiveListed, AnsweredInactive
  <2>4. ASSUME NEW t \in Callers, PassBarrier(t)
        PROVE  AnsweredInv' /\ Begins
    <3>1. removing[t] \in 1 .. nextId /\ removing[t] \notin active
      BY <2>4 DEF PassBarrier, AnsweredInv, GivenUp
    <3>2. GivenUp'
      BY <2>4, <3>1 DEF PassBarrier, tableVars, AnsweredInv, GivenUp
    <3>3. QED
      BY <2>4, <3>1, <3>2 DEF PassBarrier, tableVars, deliveryVars, AnsweredInv, IdsGivenOut,
         ActiveListed, AnsweredInactive
  <2>5. ASSUME UNCHANGED <<tableVars, callerVars>>,
               running' \in active \/ running' = running \/ running' = 0
        PROVE  AnsweredInv' /\ Begins
    BY <2>5 DEF AnsweredInv, tableVars, callerVars, IdsGivenOut, GivenUp, ActiveListed,
       AnsweredInactive
  <2>6. CASE DeliveryGoesOn \/ UNCHANGED registryVars
    BY <2>5, <2>6 DEF DeliveryGoesOn, Invoke, SkipInactive, HandlerEnds, DeliveryEnds, registryVars,
       deliveryVars
  <2>7. ASSUME NEW type \in EventTypes, Deliver(type)
        PROVE  AnsweredInv' /\ Begins
    BY <2>5, <2>7 DEF Deliver
  <2>8. ASSUME NEW t \in Callers, NEW id \in Ids, Remove(t, id)
        PROVE  AnsweredInv' /\ Begins
    BY <2>2, <2>8 DEF Remove, deliveryVars
  <2>9. ASSUME NEW id \in Ids, HandlerRemove(id)
        PROVE  AnsweredInv' /\ Begins
    BY <2>2, <2>9 DEF HandlerRemove, deliveryVars, callerVars
  <2>10. QED
    BY <2>1, <2>3, <2>4, <2>6, <2>7, <2>8, <2>9
       DEF RegistryNext, Add, HandlerAdd, callerVars, deliveryVars
<1>3. AnsweredInv /\ [RegistryNext]_registryVars => [Begins]_registryVars
  BY <1>2
<1>4. QED
  BY <1>1, <1>2, <1>3, PTL DEF RegistrySpec, NoneBegins

-----------------------------------------------------------------------------
(* Finite sets of numbers.                                                 *)

LEMMA Smallest ==
  ASSUME NEW T \in SUBSET Nat, T # {}
  PROVE  \E x \in T : \A y \in T : x <= y
<1>1. IsWellFoundedOn(OpToRel(<, Nat), Nat)
  BY NatLessThanWellFounded
<1>2. PICK x \in T : \A y \in T : <<y, x>> \notin OpToRel(<, Nat)
  BY <1>1, WFMin, Zenon
<1>3. \A y \in T : ~(y < x)
  BY <1>2 DEF OpToRel
<1>4. x \in Nat /\ \A y \in T : y \in Nat
  OBVIOUS
<1>5. \A y \in T : x <= y
  BY <1>3, <1>4
<1>6. x \in T
  BY <1>2
<1>7. QED
  BY <1>5, <1>6

(* A set of numbers that contains 0 and with each number the next is Nat.  *)
LEMMA Induction ==
  ASSUME NEW T, 0 \in T, \A n \in Nat : n \in T => n + 1 \in T
  PROVE  \A n \in Nat : n \in T
<1>1. SUFFICES ASSUME NEW m \in Nat, m \notin T PROVE FALSE
  OBVIOUS
<1>2. PICK x \in {n \in Nat : n \notin T} : \A y \in {n \in Nat : n \notin T} : x <= y
  <2>1. {n \in Nat : n \notin T} \in SUBSET Nat /\ {n \in Nat : n \notin T} # {}
    BY <1>1
  <2> QED
    BY <2>1, Smallest, Zenon
<1>3. x \in Nat /\ x # 0 /\ x \notin T
  BY <1>2
<1>4. x - 1 \in Nat /\ x - 1 < x /\ (x - 1) + 1 = x
  BY <1>3
<1>5. x - 1 \in T
  BY <1>2, <1>4
<1>6. QED
  BY <1>3, <1>4, <1>5

LEMMA OneLess ==
  ASSUME NEW S, IsFiniteSet(S), NEW x \in S, NEW n \in Nat, Cardinality(S) = n + 1
  PROVE  S \ {x} \in SUBSET S /\ Cardinality(S \ {x}) = n
<1>1. Cardinality(S \ {x}) = Cardinality(S) - 1
  BY FS_RemoveElement
<1>2. QED
  BY <1>1

(* The element of a finite set of numbers that has i - 1 smaller ones.     *)
LEMMA NthIn ==
  ASSUME NEW S \in SUBSET Nat, IsFiniteSet(S), NEW i \in 1..Cardinality(S)
  PROVE  \E x \in S : Cardinality({y \in S : y <= x}) = i
<1> DEFINE T == {n \in Nat : \A s \in SUBSET S : Cardinality(s) = n =>
                   \A k \in 1..n : \E x \in s : Cardinality({y \in s : y <= x}) = k}
<1>1. 0 \in T
  OBVIOUS
<1>2. ASSUME NEW n \in Nat, n \in T PROVE n + 1 \in T
  <2> SUFFICES ASSUME NEW s \in SUBSET S, Cardinality(s) = n + 1, NEW k \in 1..(n + 1)
               PROVE  \E x \in s : Cardinality({y \in s : y <= x}) = k
    OBVIOUS
  <2>1. s # {} /\ IsFiniteSet(s) /\ s \in SUBSET Nat
    <3>1. IsFiniteSet(s)
      BY FS_Subset
    <3>2. s # {}
      BY FS_EmptySet
    <3>3. QED
      BY <3>1, <3>2
  <2>2. PICK m \in s : \A y \in s : m <= y
    BY <2>1, Smallest
  <2>3. s \ {m} \in SUBSET S /\ Cardinality(s \ {m}) = n /\ IsFiniteSet(s \ {m})
    BY <2>1, OneLess, FS_Subset
  <2>4. CASE k = 1
    <3>1. \A y \in s : y <= m <=> y = m
      BY <2>1, <2>2
    <3>1a. {y \in s : y <= m} = {m}
      BY <3>1
    <3>2. QED
      BY <2>4, <3>1a, FS_Singleton
  <2>5. CASE k # 1
    <3>1. k - 1 \in 1..n
      BY <2>5
    <3>2. PICK x \in s \ {m} : Cardinality({y \in s \ {m} : y <= x}) = k - 1
      BY <1>2, <2>3, <3>1
    <3> DEFINE below == {y \in s \ {m} : y <= x}
    <3>3. {y \in s : y <= x} = below \cup {m} /\ m \notin below
      BY <2>1, <2>2
    <3>4. IsFiniteSet(below)
      BY <2>3, FS_Subset
    <3> HIDE DEF below
    <3>5. Cardinality(below \cup {m}) = Cardinality(below) + 1
      BY <3>3, <3>4, FS_AddElement
    <3>6. Cardinality(below) + 1 = k
      BY <3>2 DEF below
    <3>7. QED
      BY <3>3, <3>5, <3>6
  <2>6. QED
    BY <2>4, <2>5
<1> HIDE DEF T
<1>3. Cardinality(S) \in T
  BY <1>1, <1>2, Induction, FS_CardinalityType
<1>4. QED
  BY <1>3 DEF T

(* The elements of a finite set of numbers, by how many are no greater.    *)
LEMMA InOrder ==
  ASSUME NEW S \in SUBSET Nat, IsFiniteSet(S), NEW nth,
         nth = [i \in 1..Cardinality(S) |-> CHOOSE x \in S : Cardinality({y \in S : y <= x}) = i]
  PROVE  /\ Cardinality(S) \in Nat
         /\ \A i \in 1..Cardinality(S) : nth[i] \in S
         /\ \A i, j \in 1..Cardinality(S) : i < j => nth[i] < nth[j]
         /\ \A x \in S : \E i \in 1..Cardinality(S) : nth[i] = x
<1> DEFINE rank(x) == Cardinality({y \in S : y <= x})
<1>1. Cardinality(S) \in Nat
  BY FS_CardinalityType
<1>2. ASSUME NEW i \in 1..Cardinality(S)
      PROVE  nth[i] \in S /\ rank(nth[i]) = i
  <2>1. \E x \in S : Cardinality({y \in S : y <= x}) = i
    BY NthIn
  <2>2. nth[i] = CHOOSE x \in S : Cardinality({y \in S : y <= x}) = i
    BY Zenon
  <2>3. QED
    BY <2>1, <2>2, Zenon
<1>3. ASSUME NEW x \in S, NEW z \in S, x < z
      PROVE  rank(x) \in Nat /\ rank(z) \in Nat /\ rank(x) < rank(z)
  <2> DEFINE lower == {y \in S : y <= x}
             upper == {y \in S : y <= z}
  <2>1. IsFiniteSet(lower) /\ IsFiniteSet(upper)
    BY FS_Subset
  <2>2. lower \subseteq upper /\ lower # upper
    <3>1. \A y \in S : y <= x => y <= z
      BY <1>3
    <3>2. z \in upper /\ z \notin lower
      BY <1>3
    <3>3. QED
      BY <3>1, <3>2
  <2> HIDE DEF lower, upper
  <2>3. Cardinality(lower) < Cardinality(upper)
    <3>1. /\ Cardinality(lower) <= Cardinality(upper)
          /\ Cardinality(lower) = Cardinality(upper) => lower = upper
      BY <2>1, <2>2, FS_Subset, Zenon
    <3>2. Cardinality(lower) \in Nat /\ Cardinality(upper) \in Nat
      BY <2>1, FS_CardinalityType
    <3>3. QED
      BY <2>2, <3>1, <3>2
  <2>4. Cardinality(lower) \in Nat /\ Cardinality(upper) \in Nat
    BY <2>1, FS_CardinalityType
  <2>5. QED
    BY <2>3, <2>4 DEF lower, upper
<1>4. ASSUME NEW x \in S PROVE rank(x) \in 1..Cardinality(S)
  <2> DEFINE lower == {y \in S : y <= x}
  <2>1. IsFiniteSet(lower) /\ lower \subseteq S /\ x \in lower
    BY FS_Subset
  <2> HIDE DEF lower
  <2>2. Cardinality(lower) \in Nat /\ Cardinality(lower) <= Cardinality(S) /\ Cardinality(lower) # 0
    BY <2>1, FS_Subset, FS_CardinalityType, FS_EmptySet
  <2>3. QED
    BY <1>1, <2>2 DEF lower
<1> HIDE DEF rank
<1>5. ASSUME NEW i \in 1..Cardinality(S), NEW j \in 1..Cardinality(S), i < j
      PROVE  nth[i] < nth[j]
  <2>01. PICK a, b : a = nth[i] /\ b = nth[j]
    OBVIOUS
  <2>1. a \in S /\ b \in S /\ rank(a) = i /\ rank(b) = j /\ a \in Nat /\ b \in Nat
    BY <1>2, <2>01
  <2>2. a # b
    BY <1>5, <2>1
  <2>3. ~(b < a)
    <3>1. SUFFICES ASSUME b < a PROVE FALSE
      OBVIOUS
    <3>2. j < i
      BY <1>3, <2>1, <3>1
    <3>3. QED
      BY <1>5, <3>2
  <2>4. a < b
    BY <2>1, <2>2, <2>3
  <2>5. QED
    BY <2>01, <2>4, Zenon
<1>6. ASSUME NEW x \in S PROVE \E i \in 1..Cardinality(S) : nth[i] = x
  <2>01. PICK i \in 1..Cardinality(S) : i = rank(x)
    BY <1>4
  <2>02. PICK a : a = nth[i]
    OBVIOUS
  <2>1. a \in S /\ rank(a) = rank(x) /\ a \in Nat /\ x \in Nat
    BY <1>2, <2>01, <2>02
  <2>2. ~(a < x) /\ ~(x < a)
    BY <1>3, <2>1
  <2>3. a = x
    BY <2>1, <2>2
  <2>4. QED
    BY <2>02, <2>3, Zenon
<1>7. QED
  BY <1>1, <1>2, <1>5, <1>6

-----------------------------------------------------------------------------
(* The table lists the subscriptions in the order they were made; what is  *)
(* left of a delivery's copy is in that order and after all it invoked.    *)
TableInOrder ==
    /\ \A i \in DOMAIN entries : entries[i].id \in 1 .. nextId
    /\ \A i, j \in DOMAIN entries : i < j => entries[i].id < entries[j].id
    /\ \A id \in snapshot : id \in 1 .. nextId

TargetsInOrder ==
    /\ \A i \in DOMAIN targets : targets[i] \in snapshot
    /\ \A i, j \in DOMAIN targets : i < j => targets[i] < targets[j]
    /\ \A i \in DOMAIN invoked, j \in DOMAIN targets : invoked[i] < targets[j]

ServeInv == ServedInOrder /\ TableInOrder /\ TargetsInOrder

(* What is copied of the table when an event is delivered: exactly the     *)
(* entries of its type, in their order.                                    *)
LEMMA CopyInOrder ==
  ASSUME NEW type \in EventTypes, RegistryTypeOK, TableInOrder, NEW copy, copy = Matching(type)
  PROVE  /\ copy \in Seq(Ids)
         /\ \A i, j \in DOMAIN copy : i < j => copy[i] < copy[j]
         /\ \A i \in DOMAIN copy : copy[i] \in 1 .. nextId
<1> DEFINE P == Places(type)
           nth == [n \in 1 .. Cardinality(P) |-> CHOOSE i \in P : Cardinality({j \in P : j <= i}) = n]
<1>1. entries \in Seq(Entry) /\ DOMAIN entries = 1 .. Len(entries) /\ Len(entries) \in Nat
  BY LenProperties DEF RegistryTypeOK
<1>2. P \in SUBSET Nat /\ P \subseteq DOMAIN entries /\ IsFiniteSet(P)
  <2>1. P \subseteq 1 .. Len(entries)
    BY <1>1 DEF Places
  <2>2. IsFiniteSet(1 .. Len(entries))
    BY <1>1, FS_Interval
  <2>3. IsFiniteSet(P)
    BY <2>1, <2>2, FS_Subset, Zenon
  <2>4. QED
    BY <1>1, <2>1, <2>3
<1> HIDE DEF P
<1>3. /\ Cardinality(P) \in Nat
      /\ \A i \in 1 .. Cardinality(P) : nth[i] \in P
      /\ \A i, j \in 1 .. Cardinality(P) : i < j => nth[i] < nth[j]
  BY <1>2, InOrder, Zenon
<1>4. \A n \in 1 .. Cardinality(P) : nth[n] = Nth(P, n)
  BY Zenon DEF Nth
<1>5. copy = [n \in 1 .. Cardinality(P) |-> entries[Nth(P, n)].id]
  BY Zenon DEF Matching, P
<1> HIDE DEF nth
<1>6. DOMAIN copy = 1 .. Cardinality(P) /\ \A n \in 1 .. Cardinality(P) : copy[n] = entries[nth[n]].id
  BY <1>4, <1>5
<1>7. \A n \in 1 .. Cardinality(P) : nth[n] \in DOMAIN entries
  BY <1>2, <1>3
<1>8. \A i \in DOMAIN entries : entries[i].id \in Ids
  <2>1. \A i \in DOMAIN entries : entries[i] \in Entry
    BY <1>1
  <2>2. QED
    BY <2>1 DEF Entry
<1>9. copy \in Seq(Ids)
  <2>1. \A n \in 1 .. Cardinality(P) : entries[Nth(P, n)].id \in Ids
    BY <1>4, <1>7, <1>8
  <2>2. copy \in [1 .. Cardinality(P) -> Ids]
    BY <1>5, <2>1
  <2>3. QED
    BY <1>3, <2>2, SeqDef, Zenon
<1>10. ASSUME NEW i \in DOMAIN copy, NEW j \in DOMAIN copy, i < j
       PROVE  copy[i] < copy[j]
  <2>01. PICK a, b : a = nth[i] /\ b = nth[j]
    OBVIOUS
  <2>1. a \in DOMAIN entries /\ b \in DOMAIN entries /\ a < b
    BY <1>3, <1>6, <1>7, <1>10, <2>01
  <2>2. entries[a].id < entries[b].id
    BY <2>1 DEF TableInOrder
  <2>3. copy[i] = entries[a].id /\ copy[j] = entries[b].id
    BY <1>6, <2>01
  <2>4. QED
    BY <2>2, <2>3
<1>11. \A i \in DOMAIN copy : copy[i] \in 1 .. nextId
  BY <1>6, <1>7 DEF TableInOrder
<1>12. QED
  BY <1>9, <1>10, <1>11

(* Erasing keeps the table in order, and nobody else's id.                 *)
LEMMA EraseKeepsServe ==
  ASSUME NEW id, ServeInv, Erase(id), UNCHANGED deliveryVars, UNCHANGED <<erased, answered>>,
         removing' \in [Callers -> Ids \cup {0}]
  PROVE  ServeInv'
<1>1. PICK k \in DOMAIN entries : /\ entries[k].id = id
                                  /\ active' = active \ {id}
                                  /\ entries' = Without(entries, k)
                                  /\ nextId' = nextId
  BY DEF Erase
<1>2. /\ RegistryTypeOK /\ TableInOrder /\ TargetsInOrder
      /\ entries \in Seq(Entry) /\ DOMAIN entries = 1 .. Len(entries) /\ Len(entries) \in Nat
  BY LenProperties DEF ServeInv, ServedInOrder, RegistryTypeOK
<1> DEFINE at == [j \in 1 .. Len(entries) - 1 |-> IF j < k THEN j ELSE j + 1]
<1>3. /\ \A j \in 1 .. Len(entries) - 1 : at[j] \in DOMAIN entries
      /\ \A i, j \in 1 .. Len(entries) - 1 : i < j => at[i] < at[j]
  BY <1>1, <1>2
<1>4. entries' = [j \in 1 .. Len(entries) - 1 |-> entries[at[j]]]
  BY <1>1 DEF Without
<1> HIDE DEF at
<1>5. DOMAIN entries' = 1 .. Len(entries) - 1
      /\ \A j \in 1 .. Len(entries) - 1 : entries'[j] = entries[at[j]]
  BY <1>4
<1>6. entries' \in Seq(Entry)
  <2>1. entries' \in [1 .. Len(entries) - 1 -> Entry]
    BY <1>2, <1>3, <1>4
  <2>2. Len(entries) - 1 \in Nat
    BY <1>1, <1>2
  <2>3. QED
    BY <2>1, <2>2, SeqDef, Zenon
<1>7. RegistryTypeOK'
  BY <1>1, <1>2, <1>6 DEF RegistryTypeOK, deliveryVars
<1>8. TableInOrder'
  <2>1. \A i \in DOMAIN entries' : entries'[i].id \in 1 .. nextId'
    BY <1>1, <1>2, <1>3, <1>5 DEF TableInOrder
  <2>2. ASSUME NEW i \in 1 .. Len(entries) - 1, NEW j \in 1 .. Len(entries) - 1, i < j
        PROVE  entries'[i].id < entries'[j].id
    <3>1. at[i] \in DOMAIN entries /\ at[j] \in DOMAIN entries /\ at[i] < at[j]
      BY <1>3, <2>2
    <3>2. entries[at[i]].id < entries[at[j]].id
      BY <1>2, <3>1 DEF TableInOrder
    <3>3. QED
      BY <1>5, <3>2
  <2>3. \A i \in snapshot' : i \in 1 .. nextId'
    BY <1>1, <1>2 DEF TableInOrder, deliveryVars
  <2>4. QED
    BY <1>5, <2>1, <2>2, <2>3 DEF TableInOrder
<1>9. TargetsInOrder' /\ InvokedInSubscriptionOrder'
  BY <1>2 DEF TargetsInOrder, deliveryVars, InvokedInSubscriptionOrder, ServeInv, ServedInOrder
<1>10. LiveSubscribersServed'
  <2>1. active' \subseteq active
    BY <1>1
  <2>2. QED
    BY <2>1 DEF LiveSubscribersServed, deliveryVars, ServeInv, ServedInOrder
<1>11. QED
  BY <1>7, <1>8, <1>9, <1>10 DEF ServeInv, ServedInOrder

(* A new subscription is the last of the table and in no copy.             *)
LEMMA SubscribeKeepsServe ==
  ASSUME NEW type \in EventTypes, ServeInv, Subscribe(type), UNCHANGED deliveryVars,
         UNCHANGED callerVars
  PROVE  ServeInv'
<1> DEFINE e == [id |-> nextId + 1, type |-> type]
<1>1. /\ RegistryTypeOK /\ TableInOrder /\ TargetsInOrder
      /\ entries \in Seq(Entry) /\ nextId \in 0 .. MaxId /\ nextId < MaxId
      /\ nextId' = nextId + 1 /\ active' = active \cup {nextId + 1}
      /\ entries' = Append(entries, e)
  BY DEF ServeInv, ServedInOrder, RegistryTypeOK, Subscribe
<1>2. nextId + 1 \in Ids /\ nextId \in Nat
  BY <1>1, RegistryAssumption DEF Ids
<1>3. e \in Entry /\ e.id = nextId + 1
  BY <1>2 DEF Entry
<1> HIDE DEF e
<1>4. /\ entries' \in Seq(Entry)
      /\ Len(entries') = Len(entries) + 1
      /\ \A i \in 1 .. Len(entries) : entries'[i] = entries[i]
      /\ entries'[Len(entries) + 1] = e
  BY <1>1, <1>3, AppendProperties
<1>5. Len(entries) \in Nat /\ DOMAIN entries = 1 .. Len(entries)
      /\ DOMAIN entries' = 1 .. Len(entries) + 1
  BY <1>1, <1>4, LenProperties
<1>6. RegistryTypeOK'
  <2>1. nextId' \in 0 .. MaxId /\ active' \subseteq Ids
    BY <1>1, <1>2, RegistryAssumption DEF RegistryTypeOK
  <2>2. QED
    BY <1>1, <1>4, <2>1 DEF RegistryTypeOK, deliveryVars, callerVars
<1>7. TableInOrder'
  <2>1. \A i \in 1 .. Len(entries) : entries[i].id \in 1 .. nextId
    BY <1>1, <1>5 DEF TableInOrder
  <2>2. \A i \in DOMAIN entries' : entries'[i].id \in 1 .. nextId'
    <3>1. ASSUME NEW i \in 1 .. Len(entries) + 1 PROVE entries'[i].id \in 1 .. nextId + 1
      <4>1. CASE i \in 1 .. Len(entries)
        BY <1>2, <1>4, <2>1, <4>1
      <4>2. CASE i = Len(entries) + 1
        BY <1>2, <1>3, <1>4, <4>2
      <4>3. QED
        BY <1>5, <4>1, <4>2
    <3>2. QED
      BY <1>1, <1>5, <3>1
  <2>3. ASSUME NEW i \in 1 .. Len(entries) + 1, NEW j \in 1 .. Len(entries) + 1, i < j
        PROVE  entries'[i].id < entries'[j].id
    <3>1. i \in 1 .. Len(entries)
      BY <1>5, <2>3
    <3>2. CASE j \in 1 .. Len(entries)
      BY <1>1, <1>4, <1>5, <2>3, <3>1, <3>2 DEF TableInOrder
    <3>3. CASE j = Len(entries) + 1
      <4>1. entries'[i].id \in 1 .. nextId /\ entries'[j].id = nextId + 1
        BY <1>3, <1>4, <2>1, <3>1, <3>3
      <4>2. QED
        BY <1>2, <4>1
    <3>4. QED
      BY <1>5, <3>2, <3>3
  <2>4. \A i \in snapshot' : i \in 1 .. nextId'
    BY <1>1, <1>2 DEF TableInOrder, deliveryVars
  <2>5. QED
    BY <1>5, <2>2, <2>3, <2>4 DEF TableInOrder
<1>8. TargetsInOrder' /\ InvokedInSubscriptionOrder'
  BY <1>1 DEF TargetsInOrder, deliveryVars, InvokedInSubscriptionOrder, ServeInv, ServedInOrder
<1>9. LiveSubscribersServed'
  <2>1. nextId + 1 \notin snapshot
    BY <1>1, <1>2 DEF TableInOrder
  <2>2. snapshot' \cap active' = snapshot \cap active
    BY <1>1, <2>1 DEF deliveryVars
  <2>3. QED
    BY <2>2 DEF LiveSubscribersServed, deliveryVars, ServeInv, ServedInOrder
<1>10. QED
  BY <1>6, <1>7, <1>8, <1>9 DEF ServeInv, ServedInOrder

(* Handlers run in subscription order, each at most once per event, and no *)
(* removal costs a subscriber that is still live its event.                *)
THEOREM LiveServedInOrder == RegistrySpec => []ServedInOrder
<1>1. RegistryInit => ServeInv
  <2> SUFFICES ASSUME RegistryInit PROVE ServeInv
    OBVIOUS
  <2>1. /\ entries \in Seq(Entry) /\ targets \in Seq(Ids) /\ invoked \in Seq(Ids)
        /\ DOMAIN entries = {} /\ DOMAIN targets = {} /\ DOMAIN invoked = {}
    BY EmptySeq DEF RegistryInit
  <2>2. RegistryTypeOK
    <3>1. removing \in [Callers -> Ids \cup {0}] /\ nextId \in 0 .. MaxId
      BY RegistryAssumption DEF RegistryInit
    <3>2. QED
      BY <2>1, <3>1 DEF RegistryInit, RegistryTypeOK
  <2>3. TableInOrder /\ TargetsInOrder /\ InvokedInSubscriptionOrder /\ LiveSubscribersServed
    BY <2>1 DEF RegistryInit, TableInOrder, TargetsInOrder, InvokedInSubscriptionOrder,
       LiveSubscribersServed
  <2>4. QED
    BY <2>2, <2>3 DEF ServeInv, ServedInOrder
<1>2. ServeInv /\ [RegistryNext]_registryVars => ServeInv'
  <2> SUFFICES ASSUME ServeInv, [RegistryNext]_registryVars
               PROVE  ServeInv'
    OBVIOUS
  <2> USE DEF ServeInv, ServedInOrder
  <2>0. /\ RegistryTypeOK
        /\ targets \in Seq(Ids) /\ invoked \in Seq(Ids) /\ nextId \in Nat
        /\ removing \in [Callers -> Ids \cup {0}]
        /\ DOMAIN targets = 1 .. Len(targets) /\ Len(targets) \in Nat
        /\ DOMAIN invoked = 1 .. Len(invoked) /\ Len(invoked) \in Nat
    BY LenProperties DEF RegistryTypeOK
  <2>1. ASSUME NEW t \in Callers, NEW type \in EventTypes, Add(t, type)
        PROVE  ServeInv'
    BY <2>1, SubscribeKeepsServe DEF Add
  <2>2. ASSUME NEW t \in Callers, NEW id \in Ids, Remove(t, id)
        PROVE  ServeInv'
    <3>1. removing' \in [Callers -> Ids \cup {0}]
      BY <2>0, <2>2 DEF Remove
    <3>2. QED
      BY <2>2, <3>1, EraseKeepsServe DEF Remove
  <2>3. ASSUME NEW t \in Callers, NEW id \in Ids, RemoveMissing(t, id)
        PROVE  ServeInv'
    <3>1. RegistryTypeOK'
      BY <2>0, <2>3 DEF RemoveMissing, RegistryTypeOK, tableVars, deliveryVars
    <3>2. QED
      BY <2>3, <3>1 DEF RemoveMissing, tableVars, deliveryVars, TableInOrder, TargetsInOrder,
         InvokedInSubscriptionOrder, LiveSubscribersServed
  <2>4. ASSUME NEW t \in Callers, PassBarrier(t)
        PROVE  ServeInv'
    <3>1. removing' \in [Callers -> Ids \cup {0}] /\ removing[t] \in Ids
      BY <2>0, <2>4 DEF PassBarrier
    <3>2. RegistryTypeOK'
      BY <2>0, <2>4, <3>1 DEF PassBarrier, RegistryTypeOK, tableVars, deliveryVars
    <3>3. QED
      BY <2>4, <3>2 DEF PassBarrier, tableVars, deliveryVars, TableInOrder, TargetsInOrder,
         InvokedInSubscriptionOrder, LiveSubscribersServed
  <2>5. ASSUME NEW type \in EventTypes, Deliver(type)
        PROVE  ServeInv'
    <3>01. PICK copy : copy = Matching(type)
      OBVIOUS
    <3>1. /\ copy \in Seq(Ids)
          /\ \A i, j \in DOMAIN copy : i < j => copy[i] < copy[j]
          /\ \A i \in DOMAIN copy : copy[i] \in 1 .. nextId
      BY <3>01, CopyInOrder
    <3>2. /\ targets' = copy /\ snapshot' = {copy[i] : i \in DOMAIN copy}
          /\ invoked' = <<>> /\ delivering' = TRUE
          /\ UNCHANGED <<tableVars, callerVars, running>>
      BY <2>5, <3>01 DEF Deliver
    <3>3. \A i \in DOMAIN copy : copy[i] \in Ids
      BY <3>1
    <3>4. snapshot' \subseteq Ids /\ \A id \in snapshot' : id \in 1 .. nextId
      BY <3>1, <3>2, <3>3
    <3>5. invoked' \in Seq(Ids) /\ DOMAIN invoked' = {}
      BY <3>2, EmptySeq
    <3>6. RegistryTypeOK'
      BY <2>0, <3>1, <3>2, <3>4, <3>5 DEF RegistryTypeOK, tableVars, callerVars
    <3>7. TableInOrder'
      BY <3>2, <3>4 DEF TableInOrder, tableVars
    <3>8. TargetsInOrder' /\ InvokedInSubscriptionOrder' /\ LiveSubscribersServed'
      BY <3>1, <3>2, <3>5 DEF TargetsInOrder, InvokedInSubscriptionOrder, LiveSubscribersServed
    <3>9. QED
      BY <3>6, <3>7, <3>8
  <2>6. ASSUME targets # <<>>, targets' = Tail(targets), UNCHANGED <<tableVars, callerVars>>,
               UNCHANGED <<delivering, snapshot>>
        PROVE  /\ Head(targets) = targets[1] /\ targets[1] \in Ids /\ targets[1] \in snapshot
               /\ targets' \in Seq(Ids)
               /\ \A i \in DOMAIN targets' : i + 1 \in DOMAIN targets /\ targets'[i] = targets[i + 1]
               /\ \A i \in DOMAIN targets :
                     targets[i] = targets[1] \/ \E j \in DOMAIN targets' : targets'[j] = targets[i]
               /\ \A i \in DOMAIN targets' : targets'[i] \in snapshot /\ targets[1] < targets'[i]
               /\ \A i, j \in DOMAIN targets' : i < j => targets'[i] < targets'[j]
    <3>1. /\ Head(targets) = targets[1] /\ 1 \in DOMAIN targets /\ targets' \in Seq(Ids)
          /\ Len(targets') = Len(targets) - 1
          /\ \A i \in 1 .. Len(targets) - 1 : targets'[i] = targets[i + 1]
          /\ DOMAIN targets' = 1 .. Len(targets) - 1
      <4>1. /\ Len(targets) # 0 /\ Tail(targets) \in Seq(Ids) /\ Head(targets) = targets[1]
            /\ Len(Tail(targets)) = Len(targets) - 1
            /\ \A i \in 1 .. Len(targets) - 1 : Tail(targets)[i] = targets[i + 1]
        BY <2>0, <2>6, EmptySeq, HeadTailProperties
      <4>2. QED
        BY <2>0, <2>6, <4>1, LenProperties
    <3>2. \A i \in DOMAIN targets' : i + 1 \in DOMAIN targets /\ targets'[i] = targets[i + 1]
      BY <2>0, <3>1
    <3>3. targets[1] \in Ids
      BY <2>0, <3>1
    <3>4. ASSUME NEW i \in DOMAIN targets, i # 1
          PROVE  \E j \in DOMAIN targets' : targets'[j] = targets[i]
      <4>1. i - 1 \in 1 .. Len(targets) - 1 /\ (i - 1) + 1 = i
        BY <2>0, <3>4
      <4>2. QED
        BY <3>1, <4>1
    <3>5. targets[1] \in snapshot /\ \A i \in DOMAIN targets' : targets'[i] \in snapshot
      BY <3>1, <3>2 DEF TargetsInOrder
    <3>6. ASSUME NEW i \in DOMAIN targets' PROVE targets[1] < targets'[i]
      <4>1. 1 < i + 1
        BY <2>0, <3>1
      <4>2. QED
        BY <3>1, <3>2, <4>1 DEF TargetsInOrder
    <3>7. ASSUME NEW i \in DOMAIN targets', NEW j \in DOMAIN targets', i < j
          PROVE  targets'[i] < targets'[j]
      <4>1. i + 1 < j + 1
        BY <2>0, <3>1, <3>7
      <4>2. QED
        BY <3>2, <4>1 DEF TargetsInOrder
    <3>8. QED
      BY <3>1, <3>2, <3>3, <3>4, <3>5, <3>6, <3>7
  <2>7. CASE Invoke
    <3>1. /\ targets # <<>> /\ targets' = Tail(targets) /\ UNCHANGED <<tableVars, callerVars>>
          /\ UNCHANGED <<delivering, snapshot>>
          /\ Head(targets) \in active /\ running' = Head(targets)
          /\ invoked' = Append(invoked, Head(targets))
      BY <2>7 DEF Invoke
    <3>01. PICK h : h = targets[1]
      OBVIOUS
    <3>2. /\ Head(targets) = h /\ h \in Ids /\ h \in snapshot
          /\ targets' \in Seq(Ids)
          /\ \A i \in DOMAIN targets : targets[i] = h \/ \E j \in DOMAIN targets' : targets'[j] = targets[i]
          /\ \A i \in DOMAIN targets' : targets'[i] \in snapshot /\ h < targets'[i]
          /\ \A i, j \in DOMAIN targets' : i < j => targets'[i] < targets'[j]
          /\ \A i \in DOMAIN targets' : \E j \in DOMAIN targets : targets'[i] = targets[j]
      BY <2>6, <3>1, <3>01
    <3>3. /\ invoked' \in Seq(Ids) /\ DOMAIN invoked' = 1 .. Len(invoked) + 1
          /\ \A i \in 1 .. Len(invoked) : invoked'[i] = invoked[i]
          /\ invoked'[Len(invoked) + 1] = h
      <4>1. /\ Append(invoked, h) \in Seq(Ids)
            /\ Len(Append(invoked, h)) = Len(invoked) + 1
            /\ \A i \in 1 .. Len(invoked) : Append(invoked, h)[i] = invoked[i]
            /\ Append(invoked, h)[Len(invoked) + 1] = h
        BY <2>0, <3>2, AppendProperties
      <4>2. QED
        BY <3>1, <3>2, <4>1, LenProperties
    <3>4. RegistryTypeOK'
      BY <2>0, <3>1, <3>2, <3>3 DEF RegistryTypeOK, tableVars, callerVars
    <3>5. TableInOrder'
      BY <3>1 DEF TableInOrder, tableVars
    <3>6. \A i \in 1 .. Len(invoked) : invoked[i] < h
      <4>1. 1 \in DOMAIN targets
        BY <2>0, <3>1, EmptySeq
      <4>2. QED
        BY <2>0, <3>01, <4>1 DEF TargetsInOrder
    <3>7. ASSUME NEW i \in 1 .. Len(invoked) + 1
          PROVE  \/ i \in 1 .. Len(invoked) /\ invoked'[i] = invoked[i]
                 \/ i = Len(invoked) + 1 /\ invoked'[i] = h
      BY <2>0, <3>3
    <3>8. ASSUME NEW i \in 1 .. Len(invoked) + 1, NEW j \in DOMAIN targets'
          PROVE  invoked'[i] < targets'[j]
      <4>1. CASE i \in 1 .. Len(invoked)
        BY <2>0, <3>2, <3>3, <4>1 DEF TargetsInOrder
      <4>2. CASE i = Len(invoked) + 1
        BY <3>2, <3>3, <4>2
      <4>3. QED
        BY <3>7, <4>1, <4>2
    <3>9. TargetsInOrder'
      BY <3>1, <3>2, <3>3, <3>8 DEF TargetsInOrder
    <3>10. InvokedInSubscriptionOrder'
      <4>1. ASSUME NEW i \in 1 .. Len(invoked) + 1, NEW j \in 1 .. Len(invoked) + 1, i < j
            PROVE  invoked'[i] < invoked'[j]
        <5>1. i \in 1 .. Len(invoked)
          BY <2>0, <4>1
        <5>2. CASE j \in 1 .. Len(invoked)
          BY <2>0, <3>3, <4>1, <5>1, <5>2 DEF InvokedInSubscriptionOrder
        <5>3. CASE j = Len(invoked) + 1
          BY <3>3, <3>6, <5>1, <5>3
        <5>4. QED
          BY <3>7, <5>2, <5>3
      <4>2. ASSUME NEW i \in 1 .. Len(invoked) + 1 PROVE invoked'[i] \in snapshot
        BY <2>0, <3>2, <3>7 DEF InvokedInSubscriptionOrder
      <4>3. QED
        BY <3>1, <3>3, <4>1, <4>2 DEF InvokedInSubscriptionOrder
    <3>11. LiveSubscribersServed'
      <4>1. SUFFICES ASSUME delivering', NEW id \in snapshot \cap active
                     PROVE  \/ \E i \in DOMAIN invoked' : invoked'[i] = id
                            \/ \E i \in DOMAIN targets' : targets'[i] = id
        BY <3>1 DEF LiveSubscribersServed, tableVars
      <4>2. CASE \E i \in DOMAIN invoked : invoked[i] = id
        <5>1. PICK i \in 1 .. Len(invoked) : invoked[i] = id
          BY <2>0, <4>2
        <5>2. i \in DOMAIN invoked' /\ invoked'[i] = id
          BY <2>0, <3>3, <5>1
        <5>3. QED
          BY <5>2
      <4>3. CASE id = h
        <5>1. Len(invoked) + 1 \in DOMAIN invoked'
          BY <2>0, <3>3
        <5>2. QED
          BY <3>3, <4>3, <5>1
      <4>4. CASE \E i \in DOMAIN targets : targets[i] = id
        BY <3>2, <4>3, <4>4
      <4>5. QED
        BY <3>1, <4>1, <4>2, <4>4 DEF LiveSubscribersServed
    <3>12. QED
      BY <3>4, <3>5, <3>9, <3>10, <3>11
  <2>8. CASE SkipInactive
    <3>1. /\ targets # <<>> /\ targets' = Tail(targets) /\ UNCHANGED <<tableVars, callerVars>>
          /\ UNCHANGED <<delivering, snapshot>>
          /\ Head(targets) \notin active /\ UNCHANGED <<running, invoked>>
      BY <2>8 DEF SkipInactive
    <3>01. PICK h : h = targets[1]
      OBVIOUS
    <3>2. /\ Head(targets) = h /\ targets' \in Seq(Ids)
          /\ \A i \in DOMAIN targets : targets[i] = h \/ \E j \in DOMAIN targets' : targets'[j] = targets[i]
          /\ \A i \in DOMAIN targets' : targets'[i] \in snapshot
          /\ \A i, j \in DOMAIN targets' : i < j => targets'[i] < targets'[j]
          /\ \A i \in DOMAIN targets' : \E j \in DOMAIN targets : targets'[i] = targets[j]
      BY <2>6, <3>1, <3>01
    <3>3. RegistryTypeOK' /\ TableInOrder' /\ InvokedInSubscriptionOrder'
      BY <2>0, <3>1, <3>2 DEF RegistryTypeOK, TableInOrder, InvokedInSubscriptionOrder, tableVars, callerVars
    <3>4. TargetsInOrder'
      <4>1. ASSUME NEW i \in DOMAIN invoked, NEW j \in DOMAIN targets' PROVE invoked[i] < targets'[j]
        BY <3>2 DEF TargetsInOrder
      <4>2. QED
        BY <3>1, <3>2, <4>1 DEF TargetsInOrder
    <3>5. LiveSubscribersServed'
      BY <3>1, <3>2 DEF LiveSubscribersServed, tableVars
    <3>6. QED
      BY <3>3, <3>4, <3>5
  <2>9. CASE HandlerEnds \/ DeliveryEnds \/ UNCHANGED registryVars
    <3>1. /\ UNCHANGED <<tableVars, callerVars>> /\ UNCHANGED <<targets, snapshot, invoked>>
          /\ running' \in {running, 0}
          /\ delivering' \in {delivering, FALSE}
      BY <2>9 DEF HandlerEnds, DeliveryEnds, registryVars, deliveryVars
    <3>2. RegistryTypeOK'
      BY <2>0, <3>1 DEF RegistryTypeOK, tableVars, callerVars
    <3>3. TableInOrder' /\ TargetsInOrder' /\ InvokedInSubscriptionOrder'
      BY <3>1 DEF TableInOrder, TargetsInOrder, InvokedInSubscriptionOrder, tableVars
    <3>4. LiveSubscribersServed'
      BY <3>1 DEF LiveSubscribersServed, tableVars
    <3>5. QED
      BY <3>2, <3>3, <3>4
  <2>10. ASSUME NEW type \in EventTypes, HandlerAdd(type)
         PROVE  ServeInv'
    BY <2>10, SubscribeKeepsServe DEF HandlerAdd
  <2>11. ASSUME NEW id \in Ids, HandlerRemove(id)
         PROVE  ServeInv'
    <3>1. UNCHANGED <<erased, answered>> /\ UNCHANGED deliveryVars /\ Erase(id)
          /\ removing' \in [Callers -> Ids \cup {0}]
      BY <2>0, <2>11 DEF HandlerRemove, callerVars
    <3>2. QED
      BY <3>1, EraseKeepsServe
  <2>12. QED
    BY <2>1, <2>2, <2>3, <2>4, <2>5, <2>7, <2>8, <2>9, <2>10, <2>11 DEF RegistryNext, DeliveryGoesOn
<1>3. ServeInv => ServedInOrder
  BY DEF ServeInv
<1>4. QED
  BY <1>1, <1>2, <1>3, PTL DEF RegistrySpec

-----------------------------------------------------------------------------
(* InProcessEventBus.                                                      *)

(* An event pushed is the next number and goes to the back.                *)
LEMMA PushEffect ==
  ASSUME TypeOK, Push
  PROVE  /\ state' = state /\ busy' = busy /\ delivered' = delivered /\ event' = event
         /\ sequence' \in Nat /\ sequence' = sequence + 1
         /\ queue' \in Seq(Nat) /\ queue' # <<>>
         /\ QueueIsUntaken => QueueIsUntaken'
<1>1. queue \in Seq(Nat) /\ sequence \in Nat /\ sequence + 1 \in Nat /\ event \in Nat
  BY DEF TypeOK
<1>2. queue' = Append(queue, sequence + 1)
  BY DEF Push
<1>3. /\ queue' \in Seq(Nat) /\ queue' # <<>>
      /\ Len(queue') = Len(queue) + 1
      /\ \A i \in 1 .. Len(queue) : queue'[i] = queue[i]
      /\ queue'[Len(queue) + 1] = sequence + 1
  BY <1>1, <1>2, AppendProperties
<1>4. QueueIsUntaken => QueueIsUntaken'
  <2> SUFFICES ASSUME QueueIsUntaken
               PROVE  QueueIsUntaken'
    OBVIOUS
  <2>1. Len(queue) \in Nat /\ event' = event /\ sequence' = sequence + 1
    BY <1>1, LenProperties DEF Push
  <2>2. event' + Len(queue') = sequence'
    BY <1>1, <1>3, <2>1 DEF QueueIsUntaken
  <2>3. ASSUME NEW i \in 1 .. Len(queue')
        PROVE  queue'[i] = event' + i
    <3>1. CASE i \in 1 .. Len(queue)
      BY <1>3, <2>1, <3>1 DEF QueueIsUntaken
    <3>2. CASE i = Len(queue) + 1
      <4>1. queue'[i] = sequence + 1 /\ event' + i = event + (Len(queue) + 1)
        BY <1>3, <2>1, <3>2
      <4>2. event + Len(queue) = sequence
        BY DEF QueueIsUntaken
      <4>3. QED
        BY <1>1, <2>1, <4>1, <4>2
    <3>3. QED
      BY <1>3, <2>1, <2>3, <3>1, <3>2
  <2>4. QED
    BY <2>2, <2>3 DEF QueueIsUntaken
<1>5. QED
  BY <1>1, <1>3, <1>4 DEF Push

(* The event popped is the one after the last popped.                      *)
LEMMA PopEffect ==
  ASSUME TypeOK, Pop
  PROVE  /\ event' \in Nat /\ queue' \in Seq(Nat)
         /\ QueueIsUntaken => QueueIsUntaken' /\ event' = event + 1
<1>1. queue \in Seq(Nat) /\ queue # <<>> /\ event \in Nat /\ sequence \in Nat
  BY DEF TypeOK, Pop
<1>2. /\ event' = Head(queue) /\ queue' = Tail(queue) /\ sequence' = sequence
  BY DEF Pop
<1>3. /\ event' \in Nat /\ queue' \in Seq(Nat)
      /\ Len(queue') = Len(queue) - 1
      /\ \A i \in 1 .. Len(queue') : queue'[i] = queue[i + 1]
  BY <1>1, <1>2, HeadTailProperties
<1>4. ASSUME QueueIsUntaken
      PROVE  QueueIsUntaken' /\ event' = event + 1
  <2>1. Len(queue) \in Nat /\ Len(queue) # 0
    BY <1>1, LenProperties, EmptySeq
  <2>2. event' = queue[1]
    BY <1>1, <1>2
  <2>3. event' = event + 1
    BY <1>4, <2>1, <2>2 DEF QueueIsUntaken
  <2>4. \A i \in 1 .. Len(queue') : queue'[i] = event' + i
    BY <1>1, <1>3, <1>4, <2>1, <2>3 DEF QueueIsUntaken
  <2>5. event' + Len(queue') = sequence'
    BY <1>1, <1>2, <1>3, <1>4, <2>1, <2>3 DEF QueueIsUntaken
  <2>6. QED
    BY <2>3, <2>4, <2>5 DEF QueueIsUntaken
<1>5. QED
  BY <1>3, <1>4

(* The variables keep their types.                                         *)
THEOREM TypeCorrect == Spec => []TypeOK
<1>1. Init => TypeOK
  <2> SUFFICES ASSUME Init PROVE TypeOK
    OBVIOUS
  <2>1. queue \in Seq(Nat)
    BY EmptySeq DEF Init
  <2>2. QED
    BY <2>1 DEF Init, TypeOK, States, ClientPc, DispPc
<1>2. TypeOK /\ [Next]_vars => TypeOK'
  <2> SUFFICES ASSUME TypeOK, [Next]_vars
               PROVE  TypeOK'
    OBVIOUS
  <2> USE DEF TypeOK, States, ClientPc, DispPc, busVars
  <2>1. ASSUME NEW c \in Clients, Continue(c)
        PROVE  TypeOK'
    <3>1. CASE PublishResumes(c)
      BY <3>1, PushEffect DEF PublishResumes, Goto
    <3>2. CASE PublishSleepsAgain(c)
      BY <3>2 DEF PublishSleepsAgain, Goto, Threads
    <3>3. CASE PublishRefused(c)
      BY <3>3 DEF PublishRefused, Goto
    <3>4. CASE NotifyNotEmpty(c)
      BY <3>4 DEF NotifyNotEmpty, Goto
    <3>5. CASE ShutdownNotifyNotEmpty(c)
      BY <3>5 DEF ShutdownNotifyNotEmpty, Goto
    <3>6. CASE ShutdownNotifyNotFull(c)
      BY <3>6 DEF ShutdownNotifyNotFull, Goto, NotifyAllAt
    <3>7. CASE DrainWaitsForIdle(c)
      BY <3>7 DEF DrainWaitsForIdle, Goto, Threads
    <3>8. CASE DrainReturns(c)
      BY <3>8 DEF DrainReturns, Goto
    <3>9. CASE DrainWaitsForStop(c)
      BY <3>9 DEF DrainWaitsForStop, Goto, Threads
    <3>10. CASE DrainSeesStop(c)
      BY <3>10 DEF DrainSeesStop, Goto
    <3>11. CASE Join(c)
      BY <3>11 DEF Join, Goto
    <3>q. QED
      BY <2>1, <3>1, <3>2, <3>3, <3>4, <3>5, <3>6, <3>7, <3>8, <3>9, <3>10, <3>11 DEF Continue
  <2>2. ASSUME NEW c \in Clients, Call(c)
        PROVE  TypeOK'
    <3>1. CASE Publish(c)
      BY <3>1, PushEffect DEF Publish, Goto
    <3>2. CASE PublishBlocks(c)
      BY <3>2 DEF PublishBlocks, Goto, Threads
    <3>3. CASE Start(c)
      BY <3>3 DEF Start, Goto
    <3>4. CASE RequestShutdown(c)
      BY <3>4 DEF RequestShutdown, Goto, StopAccepting
    <3>5. CASE DrainCall(c)
      BY <3>5 DEF DrainCall, Goto
    <3>q. QED
      BY <2>2, <3>1, <3>2, <3>3, <3>4, <3>5 DEF Call
  <2>3. CASE Handler
    <3>1. CASE HandlerPublish
      BY <3>1, PushEffect DEF HandlerPublish
    <3>2. CASE HandlerShutdown
      BY <3>2 DEF HandlerShutdown, StopAccepting
    <3>q. QED
      BY <2>3, <3>1, <3>2 DEF Handler
  <2>4. CASE Dispatch
    <3>1. CASE Lock
      BY <3>1 DEF Lock
    <3>2. CASE WaitNotEmpty
      BY <3>2 DEF WaitNotEmpty, Threads, Dispatcher
    <3>3. CASE Pop
      BY <3>3, PopEffect DEF Pop
    <3>4. CASE NotifyNotFull
      BY <3>4 DEF NotifyNotFull, NotifyOneAt
    <3>5. CASE HandlerShutdownNotify
      BY <3>5 DEF HandlerShutdownNotify, NotifyAllAt
    <3>6. CASE EndDelivery
      <4>1. asleep' \subseteq Threads
        BY <3>6 DEF EndDelivery, NotifyDrainers
      <4>2. /\ dpc' = "loop" /\ busy' = FALSE /\ delivered' = delivered + 1
            /\ UNCHANGED <<state, queue, sequence, event, pc, owed>>
        BY <3>6 DEF EndDelivery
      <4>3. busy' \in BOOLEAN
        BY <4>2, Zenon
      <4>4. delivered' \in Nat
        BY <4>2
      <4>5. QED
        BY <4>1, <4>2, <4>3, <4>4
    <3>7. CASE Stop
      BY <3>7 DEF Stop
    <3>8. CASE NotifyStopped
      BY <3>8 DEF NotifyStopped, NotifyDrainers
    <3>q. QED
      BY <2>4, <3>1, <3>2, <3>3, <3>4, <3>5, <3>6, <3>7, <3>8 DEF Dispatch
  <2>5. ASSUME NEW t \in Threads, SpuriousWake(t)
        PROVE  TypeOK'
    BY <2>5 DEF SpuriousWake
  <2>6. CASE UNCHANGED vars
    BY <2>6 DEF vars
  <2>7. QED
    BY <2>1, <2>2, <2>3, <2>4, <2>5, <2>6 DEF Next
<1>3. QED
  BY <1>1, <1>2, PTL DEF Spec

(* A push by a thread that is not on its way to join leaves BusInv alone.   *)
LEMMA PushKeepsBusInv ==
  ASSUME TypeOK, BusInv, Push, state \in {"Running", "Draining"},
         dpc' = dpc, owed' = owed,
         \A c \in Clients : pc'[c] = "join" => pc[c] = "join"
  PROVE  BusInv'
<1>1. /\ UNCHANGED <<state, busy, delivered, event, dpc, owed>>
      /\ sequence' = sequence + 1 /\ QueueIsUntaken'
  BY PushEffect DEF BusInv
<1>2. DeliveredIsHandled' /\ ThreadMatchesState'
  BY <1>1 DEF BusInv, DeliveredIsHandled, ThreadMatchesState
<1>3. \A c \in Clients : owed[c] \in Nat /\ owed[c] <= sequence + 1
  BY DEF BusInv, DrainersOwed, TypeOK
<1>4. DrainersOwed'
  BY <1>1, <1>3 DEF BusInv, DrainersOwed
<1>5. QED
  BY <1>1, <1>2, <1>4 DEF BusInv

(* The four conjuncts of BusInv hold together, and with the types they are *)
(* inductive: popping needs the queue to be the untaken events, stopping   *)
(* needs busy_ to match the dispatcher's place, a drain needs the state.   *)
THEOREM BusInvariant == Spec => []BusInv
<1>1. Init => BusInv
  BY BusAssumption DEF Init, BusInv, QueueIsUntaken, DeliveredIsHandled, ThreadMatchesState, DrainersOwed
<1>2. TypeOK /\ TypeOK' /\ BusInv /\ [Next]_vars => BusInv'
  <2> SUFFICES ASSUME TypeOK, TypeOK', BusInv, [Next]_vars
               PROVE  BusInv'
    OBVIOUS
  <2> USE DEF BusInv, QueueIsUntaken, DeliveredIsHandled, ThreadMatchesState, DrainersOwed, TypeOK, States, ClientPc, DispPc, busVars
  <2>1. ASSUME NEW c \in Clients, Continue(c)
        PROVE  BusInv'
    <3>1. CASE PublishResumes(c)
      <4>1. state \in {"Running", "Draining"} /\ Push /\ dpc' = dpc /\ owed' = owed
        BY <3>1 DEF PublishResumes
      <4>2. \A k \in Clients : pc'[k] = "join" => pc[k] = "join"
        BY <3>1 DEF PublishResumes, Goto
      <4>3. QED
        BY <4>1, <4>2, PushKeepsBusInv
    <3>2. CASE PublishSleepsAgain(c)
      BY <3>2 DEF PublishSleepsAgain, Goto
    <3>3. CASE PublishRefused(c)
      BY <3>3 DEF PublishRefused, Goto
    <3>4. CASE NotifyNotEmpty(c)
      BY <3>4 DEF NotifyNotEmpty, Goto
    <3>5. CASE ShutdownNotifyNotEmpty(c)
      BY <3>5 DEF ShutdownNotifyNotEmpty, Goto
    <3>6. CASE ShutdownNotifyNotFull(c)
      BY <3>6 DEF ShutdownNotifyNotFull, Goto
    <3>7. CASE DrainWaitsForIdle(c)
      BY <3>7 DEF DrainWaitsForIdle, Goto
    <3>8. CASE DrainReturns(c)
      BY <3>8 DEF DrainReturns, Goto
    <3>9. CASE DrainWaitsForStop(c)
      BY <3>9 DEF DrainWaitsForStop, Goto
    <3>10. CASE DrainSeesStop(c)
      BY <3>10 DEF DrainSeesStop, Goto
    <3>11. CASE Join(c)
      BY <3>11 DEF Join, Goto
    <3>q. QED
      BY <2>1, <3>1, <3>2, <3>3, <3>4, <3>5, <3>6, <3>7, <3>8, <3>9, <3>10, <3>11 DEF Continue
  <2>2. ASSUME NEW c \in Clients, Call(c)
        PROVE  BusInv'
    <3>1. CASE Publish(c)
      <4>1. state \in {"Running", "Draining"} /\ Push /\ dpc' = dpc /\ owed' = owed
        BY <3>1 DEF Publish
      <4>2. \A k \in Clients : pc'[k] = "join" => pc[k] = "join"
        BY <3>1 DEF Publish, Goto
      <4>3. QED
        BY <4>1, <4>2, PushKeepsBusInv
    <3>2. CASE PublishBlocks(c)
      BY <3>2 DEF PublishBlocks, Goto
    <3>3. CASE Start(c)
      BY <3>3 DEF Start, Goto
    <3>4. CASE RequestShutdown(c)
      BY <3>4 DEF RequestShutdown, Goto, StopAccepting
    <3>5. CASE DrainCall(c)
      BY <3>5 DEF DrainCall, Goto
    <3>q. QED
      BY <2>2, <3>1, <3>2, <3>3, <3>4, <3>5 DEF Call
  <2>3. CASE Handler
    <3>1. CASE HandlerPublish
      <4>1. state \in {"Running", "Draining"} /\ Push /\ dpc' = dpc /\ owed' = owed
        BY <3>1 DEF HandlerPublish
      <4>2. \A k \in Clients : pc'[k] = "join" => pc[k] = "join"
        BY <3>1 DEF HandlerPublish
      <4>3. QED
        BY <4>1, <4>2, PushKeepsBusInv
    <3>2. CASE HandlerShutdown
      BY <3>2 DEF HandlerShutdown, StopAccepting
    <3>q. QED
      BY <2>3, <3>1, <3>2 DEF Handler
  <2>4. CASE Dispatch
    <3>1. CASE Lock
      BY <3>1 DEF Lock
    <3>2. CASE WaitNotEmpty
      BY <3>2 DEF WaitNotEmpty
    <3>3. CASE Pop
      BY <3>3, PopEffect DEF Pop
    <3>4. CASE NotifyNotFull
      BY <3>4 DEF NotifyNotFull
    <3>5. CASE HandlerShutdownNotify
      BY <3>5 DEF HandlerShutdownNotify
    <3>6. CASE EndDelivery
      BY <3>6 DEF EndDelivery
    <3>7. CASE Stop
      BY <3>7 DEF Stop
    <3>8. CASE NotifyStopped
      BY <3>8 DEF NotifyStopped
    <3>q. QED
      BY <2>4, <3>1, <3>2, <3>3, <3>4, <3>5, <3>6, <3>7, <3>8 DEF Dispatch
  <2>5. ASSUME NEW t \in Threads, SpuriousWake(t)
        PROVE  BusInv'
    BY <2>5 DEF SpuriousWake
  <2>6. CASE UNCHANGED vars
    BY <2>6 DEF vars
  <2>7. QED
    BY <2>1, <2>2, <2>3, <2>4, <2>5, <2>6 DEF Next
<1>3. QED
  BY <1>1, <1>2, TypeCorrect, PTL DEF Spec

(* Every step is a step of the contract or leaves what it speaks of alone. *)
LEMMA StepImplementsContract ==
  ASSUME TypeOK, BusInv, TypeOK', BusInv', [Next]_vars
  PROVE  [Contract!Next]_(Contract!vars)
<1>1. /\ (IF busy THEN event - 1 ELSE event) = delivered
      /\ (IF busy' THEN event' - 1 ELSE event') = delivered'
  <2>1. (IF busy THEN event - 1 ELSE event) = delivered
    <3>1. delivered \in Nat /\ (busy => event = delivered + 1) /\ (~busy => event = delivered)
      BY DEF TypeOK, BusInv, DeliveredIsHandled
    <3>2. CASE busy
      BY <3>1, <3>2
    <3>3. CASE ~busy
      BY <3>1, <3>3
    <3>4. QED
      BY <3>2, <3>3
  <2>2. (IF busy' THEN event' - 1 ELSE event') = delivered'
    <3>1. /\ delivered' \in Nat
          /\ (busy' => event' = delivered' + 1) /\ (~busy' => event' = delivered')
      BY DEF TypeOK, BusInv, DeliveredIsHandled
    <3>2. CASE busy'
      <4>1. event' = delivered' + 1
        BY <3>1, <3>2, Zenon
      <4>2. \A x, y \in Nat : x = y + 1 => x - 1 = y
        OBVIOUS
      <4>3. event' - 1 = delivered'
        BY <4>1, <4>2, Zenon DEF TypeOK
      <4>4. QED
        BY <3>2, <4>3, Zenon
    <3>3. CASE ~busy'
      BY <3>1, <3>3
    <3>4. QED
      BY <3>2, <3>3
  <2>3. QED
    BY <2>1, <2>2
<1> USE DEF Contract!vars
<1>2. ASSUME UNCHANGED busVars
      PROVE  UNCHANGED Contract!vars
  BY <1>2 DEF busVars
<1>3. ASSUME Push, state = "Running" \/ (state = "Draining" /\ busy)
      PROVE  Contract!Next
  <2>1. UNCHANGED <<state, busy, delivered>> /\ sequence' = sequence + 1
    BY <1>3 DEF Push
  <2>2. Contract!Accept
    BY <1>1, <1>3, <2>1 DEF Contract!Accept
  <2>3. QED
    BY <2>2 DEF Contract!Next
<1>4. ASSUME StopAccepting
      PROVE  [Contract!Next]_(Contract!vars)
  <2>1. UNCHANGED <<sequence, busy, delivered>>
    BY <1>4 DEF StopAccepting
  <2>2. CASE state \in {"Running", "NotStarted"}
    <3>1. Contract!Shutdown
      BY <1>1, <1>4, <2>1, <2>2 DEF StopAccepting, Contract!Shutdown
    <3>2. QED
      BY <3>1 DEF Contract!Next
  <2>3. CASE state \notin {"Running", "NotStarted"}
    BY <1>1, <1>4, <2>1, <2>3 DEF StopAccepting
  <2>4. QED
    BY <2>2, <2>3
<1>5. ASSUME NEW c \in Clients, Continue(c)
      PROVE  [Contract!Next]_(Contract!vars)
  <2>1. CASE PublishResumes(c)
    BY <1>3, <2>1 DEF PublishResumes
  <2>2. CASE UNCHANGED busVars
    BY <1>2, <2>2
  <2>3. QED
    BY <1>5, <2>1, <2>2 DEF Continue, PublishSleepsAgain, PublishRefused,
       NotifyNotEmpty, ShutdownNotifyNotEmpty, ShutdownNotifyNotFull,
       DrainWaitsForIdle, DrainReturns, DrainWaitsForStop, DrainSeesStop, Join
<1>6. ASSUME NEW c \in Clients, Call(c)
      PROVE  [Contract!Next]_(Contract!vars)
  <2>1. CASE Publish(c)
    BY <1>3, <2>1 DEF Publish
  <2>2. CASE Start(c)
    <3>1. Contract!Start
      BY <1>1, <2>2 DEF Start, Contract!Start
    <3>2. QED
      BY <3>1 DEF Contract!Next
  <2>3. CASE RequestShutdown(c)
    BY <1>4, <2>3 DEF RequestShutdown
  <2>4. CASE PublishBlocks(c) \/ DrainCall(c)
    BY <1>2, <2>4 DEF PublishBlocks, DrainCall
  <2>5. QED
    BY <1>6, <2>1, <2>2, <2>3, <2>4 DEF Call
<1>7. CASE Handler
  <2>1. CASE HandlerPublish
    <3>1. busy
      BY <2>1 DEF HandlerPublish, BusInv, DeliveredIsHandled
    <3>2. QED
      BY <1>3, <2>1, <3>1 DEF HandlerPublish
  <2>2. CASE HandlerShutdown
    BY <1>4, <2>2 DEF HandlerShutdown
  <2>3. QED
    BY <1>7, <2>1, <2>2 DEF Handler
<1>8. CASE Dispatch
  <2>1. CASE Pop
    <3>1. ~busy /\ state \in {"Running", "Draining"}
      BY <2>1 DEF Pop, TypeOK, States, BusInv, DeliveredIsHandled, ThreadMatchesState
    <3>2. delivered < sequence
      <4>1. Len(queue) \in Nat /\ Len(queue) # 0
        BY <2>1, LenProperties, EmptySeq DEF Pop, TypeOK
      <4>2. event + Len(queue) = sequence /\ event = delivered
        BY <3>1 DEF BusInv, QueueIsUntaken, DeliveredIsHandled
      <4>3. QED
        BY <4>1, <4>2 DEF TypeOK
    <3>3. Contract!BeginHandling
      BY <1>1, <2>1, <3>1, <3>2 DEF Pop, Contract!BeginHandling
    <3>4. QED
      BY <3>3 DEF Contract!Next
  <2>2. CASE EndDelivery
    <3>1. busy
      BY <2>2 DEF EndDelivery, BusInv, DeliveredIsHandled
    <3>2. busy' = FALSE /\ delivered' = delivered + 1 /\ UNCHANGED <<state, sequence>>
      BY <2>2 DEF EndDelivery
    <3>3. Contract!EndHandling
      BY <1>1, <3>1, <3>2 DEF Contract!EndHandling
    <3>4. QED
      BY <3>3 DEF Contract!Next
  <2>3. CASE Stop
    <3>1. ~busy /\ state = "Draining"
      BY <2>3 DEF Stop, TypeOK, States, BusInv, DeliveredIsHandled, ThreadMatchesState
    <3>2. delivered = sequence
      <4>1. Len(queue) = 0
        BY <2>3 DEF Stop
      <4>2. event + Len(queue) = sequence /\ event = delivered
        BY <3>1 DEF BusInv, QueueIsUntaken, DeliveredIsHandled
      <4>3. QED
        BY <4>1, <4>2 DEF TypeOK
    <3>3. Contract!Stop
      BY <1>1, <2>3, <3>1, <3>2 DEF Stop, Contract!Stop
    <3>4. QED
      BY <3>3 DEF Contract!Next
  <2>4. CASE UNCHANGED busVars
    BY <1>2, <2>4
  <2>5. QED
    BY <1>8, <2>1, <2>2, <2>3, <2>4 DEF Dispatch, Lock, WaitNotEmpty, NotifyNotFull,
       HandlerShutdownNotify, NotifyStopped
<1>9. ASSUME NEW t \in Threads, SpuriousWake(t)
      PROVE  [Contract!Next]_(Contract!vars)
  BY <1>2, <1>9 DEF SpuriousWake
<1>10. CASE UNCHANGED vars
  BY <1>2, <1>10 DEF vars
<1>11. QED
  BY <1>5, <1>6, <1>7, <1>8, <1>9, <1>10 DEF Next

(* Delivery exactly once and in order, nothing lost by a shutdown, nothing *)
(* accepted after it: the bus is an implementation of the contract.        *)
THEOREM BusImplementsContract == Spec => ImplementsContract
<1>1. Init => Contract!Init
  BY DEF Init, Contract!Init
<1>2. TypeOK /\ BusInv /\ TypeOK' /\ BusInv' /\ [Next]_vars => [Contract!Next]_(Contract!vars)
  BY StepImplementsContract
<1>3. QED
  BY <1>1, <1>2, TypeCorrect, BusInvariant, PTL DEF Spec, ImplementsContract, Contract!Spec

(* A wait_until_drained() that returns has seen delivered everything that  *)
(* was accepted before it was called.                                      *)
THEOREM DrainIsADrain == Spec => DrainMeansDelivered
<1> DEFINE A == \A c \in Clients :
                   pc[c] \in {"drain", "drain_idle", "join"} /\ pc'[c] = "idle"
                      => delivered' >= owed[c]
<1>1. ASSUME TypeOK, BusInv, Next, NEW c \in Clients,
             pc[c] \in {"drain", "drain_idle", "join"}, pc'[c] = "idle"
      PROVE  delivered' >= owed[c]
  <2>1. DrainReturns(c) \/ Join(c)
    <3>1. pc' # pc
      BY <1>1
    <3>2. PICK d \in Clients : Continue(d) \/ Call(d)
      BY <1>1, <3>1 DEF Next, Handler, HandlerPublish, HandlerShutdown, Dispatch, Lock,
         WaitNotEmpty, Pop, NotifyNotFull, HandlerShutdownNotify, EndDelivery, Stop,
         NotifyStopped, SpuriousWake
    <3>3. \A l : pc' = [pc EXCEPT ![d] = l] => d = c
      BY <1>1 DEF TypeOK
    <3>4. d = c
      BY <3>1, <3>2, <3>3 DEF Continue, PublishResumes, PublishSleepsAgain, PublishRefused,
         NotifyNotEmpty, ShutdownNotifyNotEmpty, ShutdownNotifyNotFull,
         DrainWaitsForIdle, DrainReturns, DrainWaitsForStop, DrainSeesStop, Join, Goto,
         Call, Publish, PublishBlocks, Start, RequestShutdown, DrainCall
    <3>5. Continue(c)
      BY <1>1, <3>2, <3>4 DEF Call, Publish, PublishBlocks, Start, RequestShutdown, DrainCall
    <3>6. pc[c] \in {"drain", "drain_idle", "join"} /\ pc'[c] = "idle" /\ pc \in [Clients -> ClientPc]
      BY <1>1 DEF TypeOK
    <3>7. QED
      BY <3>5, <3>6 DEF Continue, PublishResumes, PublishSleepsAgain, PublishRefused,
         NotifyNotEmpty, ShutdownNotifyNotEmpty, ShutdownNotifyNotFull,
         DrainWaitsForIdle, DrainWaitsForStop, DrainSeesStop, Goto
  <2>2. delivered' = delivered /\ delivered = sequence
    <3>1. CASE DrainReturns(c)
      <4>1. queue = <<>> /\ (~busy \/ state = "NotStarted") /\ UNCHANGED busVars
        <5>1. state = "NotStarted" => sequence = 0 /\ dpc = "none"
          BY <1>1 DEF BusInv, ThreadMatchesState
        <5>2. sequence = 0 => queue = <<>>
          BY <1>1, LenProperties, EmptySeq DEF BusInv, QueueIsUntaken, TypeOK
        <5>3. QED
          BY <3>1, <5>1, <5>2 DEF DrainReturns, Idle
      <4>2. ~busy
        BY <1>1, <4>1 DEF BusInv, ThreadMatchesState, DeliveredIsHandled
      <4>3. QED
        BY <1>1, <4>1, <4>2 DEF BusInv, QueueIsUntaken, DeliveredIsHandled, TypeOK, busVars
    <3>2. CASE Join(c)
      <4>1. queue = <<>> /\ ~busy /\ UNCHANGED busVars
        BY <1>1, <3>2 DEF Join, BusInv, DrainersOwed, ThreadMatchesState, DeliveredIsHandled
      <4>2. QED
        BY <1>1, <4>1 DEF BusInv, QueueIsUntaken, DeliveredIsHandled, TypeOK, busVars
    <3>3. QED
      BY <2>1, <3>1, <3>2
  <2>3. owed[c] \in Nat /\ sequence \in Nat /\ owed[c] <= sequence
    BY <1>1 DEF BusInv, DrainersOwed, TypeOK
  <2>4. QED
    BY <2>2, <2>3
<1>2. TypeOK /\ BusInv /\ [Next]_vars => [A]_vars
  BY <1>1
<1>3. QED
  BY <1>2, TypeCorrect, BusInvariant, PTL DEF Spec, DrainMeansDelivered

(* A publication that takes the queue above its capacity is a handler's,   *)
(* and no client's: whoever resumes has tested for room in the same        *)
(* section.                                                                *)
THEOREM ClientsKeepToCapacity == Spec => OnlyHandlersExceedCapacity
<1> DEFINE A == Len(queue') > Len(queue) /\ Len(queue') > Capacity
                   => dpc = "handler" /\ \A c \in Clients : ~Pushes(c)
<1>1. ASSUME TypeOK, Next, Len(queue') > Len(queue), Len(queue') > Capacity
      PROVE  HandlerPublish
  <2>1. ASSUME Push
        PROVE  Len(queue') = Len(queue) + 1
    BY <1>1, <2>1, AppendProperties DEF Push, TypeOK
  <2>2. Len(queue) \in Nat /\ Capacity \in Nat
    BY <1>1, LenProperties, BusAssumption DEF TypeOK
  <2>3. ASSUME ~Full, Push
        PROVE  FALSE
    BY <1>1, <2>1, <2>2, <2>3 DEF Full
  <2>4. queue' # queue
    BY <1>1, <2>2
  <2>5. ~Pop
    BY <1>1, HeadTailProperties DEF Pop, TypeOK
  <2>6. QED
    BY <1>1, <2>3, <2>4, <2>5 DEF Next, Continue, Call, Handler, Dispatch, busVars,
       PublishResumes, PublishSleepsAgain, PublishRefused, NotifyNotEmpty,
       ShutdownNotifyNotEmpty, ShutdownNotifyNotFull, DrainWaitsForIdle, DrainReturns,
       DrainWaitsForStop, DrainSeesStop, Join, Publish, PublishBlocks, Start,
       RequestShutdown, StopAccepting, DrainCall, HandlerShutdown, Lock, WaitNotEmpty,
       NotifyNotFull, HandlerShutdownNotify, EndDelivery, Stop, NotifyStopped, SpuriousWake
<1>2. HandlerPublish => dpc = "handler" /\ \A c \in Clients : ~Pushes(c)
  BY DEF HandlerPublish, Pushes
<1>3. TypeOK /\ [Next]_vars => [A]_vars
  BY <1>1, <1>2
<1>4. QED
  BY <1>3, TypeCorrect, PTL DEF Spec, OnlyHandlersExceedCapacity
=============================================================================
