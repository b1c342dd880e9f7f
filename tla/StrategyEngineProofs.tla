----------------------- MODULE StrategyEngineProofs -----------------------
(***************************************************************************)
(* Proofs about the strategy engine, for any strategies, any files of bars *)
(* and any number of sessions, signals and failures.                       *)
(***************************************************************************)
EXTENDS StrategyEngine, FiniteSetTheorems, TLAPS

-----------------------------------------------------------------------------
(* The inductive invariant.                                                *)

Registered == Len(registrations)

(* How many of the strategies, from the first, are started.                *)
StartedCount ==
    IF opc = "start" THEN oi - 1
    ELSE IF opc \in {"undo", "stop"} THEN oi
    ELSE IF state = "Running" THEN Registered ELSE 0

(* The owner's thread: the state it shows agrees with where it is, a       *)
(* subscription is live exactly while the engine runs and nobody stops it, *)
(* and the strategies started are the first ones.                          *)
OwnerInOrder ==
    /\ state \in {"Stopped", "Starting", "Running", "Stopping"}
    /\ opc \in {"idle", "start", "undo", "unsubscribe", "barrier", "stop"}
    /\ oi \in Nat /\ lastEntry \in 0..MaxSessions
    /\ registrations \in Seq(Strategies)
    /\ \A i, j \in 1..Registered : registrations[i] = registrations[j] => i = j
    /\ life \in [Strategies -> {"new", "started", "stopped"}]
    /\ subscription \in 0..lastEntry
    /\ opc = "idle" => state \in {"Stopped", "Running"}
    /\ state = "Stopped" => opc = "idle"
    /\ opc = "start" => state = "Starting" /\ oi \in 1..Registered + 1 /\ lastEntry < MaxSessions
    /\ opc \in {"unsubscribe", "barrier"} => state = "Running"
    /\ opc = "unsubscribe" => oi <= lastEntry
    /\ opc = "barrier" => oi = 0
    /\ opc = "idle" => oi = 0
    /\ opc = "stop" => state = "Stopping"
    /\ opc = "undo" => state \in {"Starting", "Running"}
    /\ opc \in {"undo", "stop"} => oi <= Registered
    /\ subscription # 0 <=> opc = "idle" /\ state = "Running"
    /\ \A s \in Strategies :
          life[s] = "started" <=> \E i \in 1..StartedCount : registrations[i] = s

(* The dispatcher's thread: a handler is inside the engine only while a    *)
(* session runs and nobody has passed its barrier, and a strategy is       *)
(* called from nowhere else.                                               *)
HandlerInOrder ==
    /\ entries \subseteq 1..lastEntry
    /\ targets \subseteq 1..lastEntry
    /\ running \in 0..lastEntry /\ running \notin targets
    /\ di \in 0..Registered + 1
    /\ running # 0 \/ targets # {} => event # NoEvent
    /\ di > 0 => /\ running # 0 /\ state = "Running"
                 /\ opc \in {"idle", "unsubscribe", "barrier"}
                 /\ opc = "idle" => subscription = running
    /\ active # None => di \in 1..Registered /\ active = registrations[di]

(* What comes from the feed: an event is a publication that the bus took,  *)
(* and its place says which.                                               *)
OfferedBars == UNION {{BarOf(f.rows[i]) : i \in DOMAIN f.rows} : f \in Files}

Offers == [bar : OfferedBars, sequence : Nat, taken : BOOLEAN]

FeedEvents == [bar : OfferedBars, sequence : Nat, place : Nat \ {0}]

Precedes(e, f) == e.place < f.place

Fed(e) ==
    /\ e \in FeedEvents
    /\ e.place \in 1..Len(offered)
    /\ offered[e.place] = [bar |-> e.bar, sequence |-> e.sequence, taken |-> TRUE]

(* The publications of a symbol are numbered from one, without a hole.     *)
Numbered ==
    /\ counters \in [DOMAIN counters -> Nat]
    /\ offered \in Seq(Offers)
    /\ \A p \in 1..Len(offered) :
          /\ offered[p].bar.symbol \in DOMAIN counters
          /\ offered[p].sequence \in 1..counters[offered[p].bar.symbol]
    /\ \A q \in 1..Len(offered) : \A p \in 1..(q - 1) :
          offered[p].bar.symbol = offered[q].bar.symbol => offered[p].sequence < offered[q].sequence
    /\ \A symbol \in DOMAIN counters : \A n \in 1..counters[symbol] :
          \E p \in 1..Len(offered) : offered[p].bar.symbol = symbol /\ offered[p].sequence = n

(* The bus holds its events in their order, and after the one it delivers  *)
(* it holds all that it took.                                              *)
Queued(p) == \E j \in 1..Len(queue) : queue[j].place = p

FedInOrder ==
    /\ file \in Seq(OfferedBars)
    /\ \A i \in 1..Len(file) : file[i].symbol \in DOMAIN counters
    /\ queue \in Seq(FeedEvents)
    /\ \A i \in 1..Len(queue) : Fed(queue[i])
    /\ \A j \in 1..Len(queue) : \A i \in 1..(j - 1) : Precedes(queue[i], queue[j])
    /\ event # NoEvent =>
          /\ Fed(event) /\ \A j \in 1..Len(queue) : Precedes(event, queue[j])
          /\ \A p \in 1..Len(offered) : offered[p].taken /\ p > event.place => Queued(p)
    /\ queue # <<>> =>
          \A p \in 1..Len(offered) : offered[p].taken /\ p > queue[1].place => Queued(p)

(* What was seen comes before what the bus holds, and none comes after the *)
(* event that is delivered.                                                *)
SeenInOrder ==
    /\ seen \in [Strategies -> Seq(FeedEvents)]
    /\ \A s \in Strategies : \A i \in 1..Len(seen[s]) :
          /\ Fed(seen[s][i]) /\ \A j \in 1..Len(queue) : Precedes(seen[s][i], queue[j])
          /\ event # NoEvent => seen[s][i].place <= event.place
    /\ SeenAsPublished

(* Whether the handler has told a strategy of the event it is at.          *)
Told(i) == i < di \/ (i = di /\ active # None)

(* A session's strategies have seen the same events, but for the event     *)
(* that the handler is at: only those it has told have seen that one.      *)
SeenAlike ==
    /\ opc = "start" => \A s \in Strategies : seen[s] = <<>>
    /\ state \in {"Starting", "Running"} =>
          \A i, j \in 1..Registered :
              /\ (Told(i) <=> Told(j)) => seen[registrations[i]] = seen[registrations[j]]
              /\ Told(i) /\ ~Told(j) =>
                    seen[registrations[i]] = Append(seen[registrations[j]], event)
    /\ di > 0 => \A i \in 1..Registered :
          ~Told(i) => \A k \in 1..Len(seen[registrations[i]]) : seen[registrations[i]][k] # event
    /\ event # NoEvent /\ subscription \in targets =>
          \A s \in Strategies : \A k \in 1..Len(seen[s]) : seen[s][k] # event

(* In a session, what the bus took after the last event a strategy was     *)
(* given is still in the bus, but for the event that it is to be given.    *)
Pending(i) == event # NoEvent /\ (subscription \in targets \/ (di > 0 /\ ~Told(i)))

NoneLeftOut ==
    /\ subscription # 0 => subscription \in entries
    /\ subscription # 0 \/ di > 0 =>
          \A i \in 1..Registered : seen[registrations[i]] # <<>> =>
              \A p \in 1..Len(offered) :
                  offered[p].taken /\ p > LastPlace(registrations[i])
                      => Queued(p) \/ (p = event.place /\ Pending(i))
    /\ active # None => LastPlace(active) = event.place

(* The signals are in the order of their ids and of the events they were   *)
(* emitted for, which are no later than the one that is delivered.         *)
Signal == [id : Nat, strategy : Strategies,
           by : [thread : {"dispatcher", "owner"}, strategy : Strategies],
           during : Nat, after : Nat]

SignalsInOrder ==
    /\ emits \in 0..MaxEmits /\ failures \in 0..MaxFailures
    /\ signalIds \in 0..emits /\ kept \subseteq Strategies
    /\ signals \in Seq(Signal)
    /\ \A i \in 1..Len(signals) :
          /\ signals[i].id \in 1..signalIds
          /\ signals[i].during <= Len(offered)
          /\ \A j \in 1..Len(queue) : signals[i].during < queue[j].place
          /\ event # NoEvent => signals[i].during <= event.place
    /\ SignalsFromCallbacks

EngineInv ==
    /\ OwnerInOrder /\ HandlerInOrder /\ Numbered /\ FedInOrder /\ SeenInOrder /\ SeenAlike
    /\ NoneLeftOut /\ SignalsInOrder

LEMMA AppendOne ==
  ASSUME NEW S, NEW s \in Seq(S), NEW e \in S
  PROVE  /\ Append(s, e) \in Seq(S)
         /\ Len(Append(s, e)) = Len(s) + 1
         /\ Append(s, e)[Len(s) + 1] = e
         /\ \A i \in 1..Len(s) : Append(s, e)[i] = s[i]
OBVIOUS

-----------------------------------------------------------------------------
(* The owner's thread.                                                     *)

ownerInvVars == <<state, opc, oi, lastEntry, registrations, life, subscription>>

LEMMA OwnerUnchanged ==
  ASSUME OwnerInOrder, UNCHANGED ownerInvVars
  PROVE  OwnerInOrder'
BY DEF OwnerInOrder, ownerInvVars, StartedCount, Registered

LEMMA OwnerRegister ==
  ASSUME OwnerInOrder, NEW s \in Strategies, Register(s)
  PROVE  OwnerInOrder'
<1>1. /\ registrations' \in Seq(Strategies) /\ Registered' = Registered + 1
      /\ registrations'[Registered + 1] = s
      /\ \A i \in 1..Registered : registrations'[i] = registrations[i]
  BY AppendOne DEF OwnerInOrder, Register, Registered
<1>2. \A i, j \in 1..Registered' : registrations'[i] = registrations'[j] => i = j
  <2>1. Registered \in Nat /\ DOMAIN registrations = 1..Registered
    BY DEF OwnerInOrder, Registered
  <2>2. \A i \in 1..Registered : registrations[i] # s
    BY <2>1 DEF Register
  <2>3. QED
    BY <1>1, <2>1, <2>2 DEF OwnerInOrder
<1>3. StartedCount = 0 /\ StartedCount' = 0
  BY DEF OwnerInOrder, Register, StartedCount
<1>4. \A t \in Strategies :
         life'[t] = "started" <=> \E i \in 1..StartedCount' : registrations'[i] = t
  BY <1>3 DEF OwnerInOrder, Register
<1>5. Registered \in Nat
  BY DEF OwnerInOrder, Registered
<1>6. QED
  BY <1>1, <1>2, <1>4, <1>5 DEF OwnerInOrder, Register, busVars

LEMMA OwnerStart ==
  ASSUME OwnerInOrder, Start
  PROVE  OwnerInOrder'
<1>1. StartedCount = 0 /\ StartedCount' = 0
  BY DEF OwnerInOrder, Start, StartedCount
<1>2. Registered' = Registered /\ Registered \in Nat
  BY DEF OwnerInOrder, Start, Registered
<1>3. QED
  BY <1>1, <1>2 DEF OwnerInOrder, Start, busVars

LEMMA OwnerOnStart ==
  ASSUME OwnerInOrder, OnStart
  PROVE  OwnerInOrder'
<1>1. Registered' = Registered /\ Registered \in Nat /\ oi \in 1..Registered
  BY DEF OwnerInOrder, OnStart, Registered
<1>2. StartedCount = oi - 1 /\ StartedCount' = oi
  BY <1>1 DEF OwnerInOrder, OnStart, StartedCount
<1>3. registrations[oi] \in Strategies
  BY <1>1 DEF OwnerInOrder, Registered
<1>4. ASSUME NEW s \in Strategies
      PROVE  life'[s] = "started" <=> \E i \in 1..StartedCount' : registrations'[i] = s
  <2>1. life'[s] = IF s = registrations[oi] THEN "started" ELSE life[s]
    BY <1>3 DEF OwnerInOrder, OnStart, Tell
  <2>2. life[s] = "started" <=> \E i \in 1..(oi - 1) : registrations[i] = s
    BY <1>2 DEF OwnerInOrder
  <2>3. registrations' = registrations
    BY DEF OnStart
  <2>4. QED
    BY <1>1, <1>2, <2>1, <2>2, <2>3
<1>5. life' \in [Strategies -> {"new", "started", "stopped"}]
  BY DEF OwnerInOrder, OnStart, Tell
<1>6. QED
  BY <1>1, <1>4, <1>5 DEF OwnerInOrder, OnStart, busVars

LEMMA OwnerStartFails ==
  ASSUME OwnerInOrder, StartFails
  PROVE  OwnerInOrder'
<1>1. Registered' = Registered /\ Registered \in Nat /\ oi \in 1..Registered + 1
  BY DEF OwnerInOrder, StartFails, Registered
<1>2. StartedCount' = StartedCount
  BY <1>1 DEF OwnerInOrder, StartFails, StartedCount
<1>3. QED
  BY <1>1, <1>2 DEF OwnerInOrder, StartFails, busVars

LEMMA OwnerSubscribeEngine ==
  ASSUME OwnerInOrder, SubscribeEngine
  PROVE  OwnerInOrder'
<1>1. Registered' = Registered /\ Registered \in Nat /\ oi = Registered + 1
  BY DEF OwnerInOrder, SubscribeEngine, Registered
<1>2. StartedCount' = StartedCount
  BY <1>1 DEF OwnerInOrder, SubscribeEngine, StartedCount
<1>3. MaxSessions \in Nat
  BY StrategyEngineAssumption
<1>4. QED
  BY <1>1, <1>2, <1>3 DEF OwnerInOrder, SubscribeEngine

LEMMA OwnerStop ==
  ASSUME OwnerInOrder, Stop
  PROVE  OwnerInOrder'
<1>1. Registered' = Registered /\ Registered \in Nat
  BY DEF OwnerInOrder, Stop, Registered
<1>2. StartedCount' = StartedCount
  BY <1>1 DEF OwnerInOrder, Stop, StartedCount
<1>4. QED
  BY <1>1, <1>2 DEF OwnerInOrder, Stop, busVars

LEMMA OwnerUnsubscribe ==
  ASSUME OwnerInOrder, Unsubscribe
  PROVE  OwnerInOrder'
<1>1. Registered' = Registered /\ Registered \in Nat
  BY DEF OwnerInOrder, Unsubscribe, Registered
<1>2. StartedCount' = StartedCount
  BY <1>1 DEF OwnerInOrder, Unsubscribe, StartedCount
<1>4. QED
  BY <1>1, <1>2 DEF OwnerInOrder, Unsubscribe

LEMMA OwnerBeginStopping ==
  ASSUME OwnerInOrder, opc \in {"unsubscribe", "barrier"}, BeginStopping
  PROVE  OwnerInOrder'
<1>1. Registered' = Registered /\ Registered \in Nat
  BY DEF OwnerInOrder, BeginStopping, Registered
<1>2. StartedCount = Registered /\ StartedCount' = Registered
  BY <1>1 DEF OwnerInOrder, BeginStopping, StartedCount, Registered
<1>3. lastEntry' = lastEntry
  BY DEF BeginStopping, busVars
<1>4. QED
  BY <1>1, <1>2, <1>3 DEF OwnerInOrder, BeginStopping, Registered

LEMMA OwnerOnStop ==
  ASSUME OwnerInOrder, OnStop
  PROVE  OwnerInOrder'
<1>1. Registered' = Registered /\ Registered \in Nat /\ oi \in 1..Registered
  BY DEF OwnerInOrder, OnStop, Registered
<1>2. StartedCount = oi /\ StartedCount' = oi - 1
  BY <1>1 DEF OwnerInOrder, OnStop, StartedCount
<1>3. registrations[oi] \in Strategies
  BY <1>1 DEF OwnerInOrder, Registered
<1>4. ASSUME NEW s \in Strategies
      PROVE  life'[s] = "started" <=> \E i \in 1..StartedCount' : registrations'[i] = s
  <2>1. life'[s] = IF s = registrations[oi] THEN "stopped" ELSE life[s]
    BY <1>3 DEF OwnerInOrder, OnStop, Tell
  <2>2. life[s] = "started" <=> \E i \in 1..oi : registrations[i] = s
    BY <1>2 DEF OwnerInOrder
  <2>3. registrations' = registrations
    BY DEF OnStop
  <2>4. \A i, j \in 1..Registered : registrations[i] = registrations[j] => i = j
    BY DEF OwnerInOrder
  <2>5. QED
    BY <1>1, <1>2, <2>1, <2>2, <2>3, <2>4
<1>5. life' \in [Strategies -> {"new", "started", "stopped"}]
  BY DEF OwnerInOrder, OnStop, Tell
<1>6. QED
  BY <1>1, <1>4, <1>5 DEF OwnerInOrder, OnStop, busVars

LEMMA OwnerStopped ==
  ASSUME OwnerInOrder, Stopped
  PROVE  OwnerInOrder'
<1>1. Registered' = Registered /\ Registered \in Nat
  BY DEF OwnerInOrder, Stopped, Registered
<1>2. StartedCount = 0 /\ StartedCount' = 0
  BY <1>1 DEF OwnerInOrder, Stopped, StartedCount
<1>4. QED
  BY <1>1, <1>2 DEF OwnerInOrder, Stopped, busVars

LEMMA OwnerSteps ==
  ASSUME OwnerInOrder, [Next]_vars
  PROVE  OwnerInOrder'
<1>1. CASE UNCHANGED ownerInvVars
  BY <1>1, OwnerUnchanged
<1>2. CASE \E s \in Strategies : Register(s)
  BY <1>2, OwnerRegister
<1>3. CASE Start \/ StartFails \/ Stop
  BY <1>3, OwnerStart, OwnerStartFails, OwnerStop
<1>4. CASE UnsubscribeFails \/ PassBarrier
  BY <1>4, OwnerBeginStopping DEF UnsubscribeFails, PassBarrier
<1>5. CASE OnStart \/ SubscribeEngine \/ Unsubscribe \/ OnStop \/ Stopped
  BY <1>5, OwnerOnStart, OwnerSubscribeEngine, OwnerUnsubscribe, OwnerOnStop, OwnerStopped
<1>6. ASSUME Dispatch \/ Feed \/ UNCHANGED vars
             \/ \E s \in Strategies : \E taken \in BOOLEAN : Emit(s, taken)
      PROVE  UNCHANGED ownerInvVars
  BY <1>6 DEF Dispatch, Feed, vars, ownerInvVars, ownerVars, busVars, Deliver, Invoke,
              OnMarketEvent, CallbackEnds, HandlerEnds, EndDelivery, Emit
<1>7. QED
  BY <1>1, <1>2, <1>3, <1>4, <1>5, <1>6 DEF Next, Continue

-----------------------------------------------------------------------------
(* The dispatcher's thread.                                                *)

handlerInvVars ==
    <<entries, targets, running, di, event, active, lastEntry, state, opc, subscription,
      registrations>>

LEMMA HandlerUnchanged ==
  ASSUME HandlerInOrder, UNCHANGED handlerInvVars
  PROVE  HandlerInOrder'
BY DEF HandlerInOrder, handlerInvVars, Registered

(* Outside a session no handler is inside the engine.                      *)
LEMMA HandlerOutside ==
  ASSUME OwnerInOrder, HandlerInOrder,
         state # "Running" \/ opc \notin {"idle", "unsubscribe", "barrier"} \/ running = 0
  PROVE  di = 0 /\ active = None
BY DEF HandlerInOrder, OwnerInOrder, Registered

LEMMA HandlerRegister ==
  ASSUME OwnerInOrder, HandlerInOrder, NEW s \in Strategies, Register(s)
  PROVE  HandlerInOrder'
<1>1. di = 0 /\ active = None
  BY HandlerOutside DEF Register
<1>2. Registered' \in Nat
  BY DEF OwnerInOrder, Register, Registered
<1>3. UNCHANGED <<entries, targets, running, di, event, active, lastEntry>>
  BY DEF Register, busVars, dispVars
<1>4. 0 \in 0..Registered' + 1
  BY <1>2 DEF Registered
<1>5. QED
  BY <1>1, <1>3, <1>4 DEF HandlerInOrder

(* A step of the owner outside a session.                                  *)
LEMMA HandlerOwner ==
  ASSUME OwnerInOrder, HandlerInOrder,
         Start \/ OnStart \/ StartFails \/ UnsubscribeFails \/ PassBarrier \/ OnStop \/ Stopped
  PROVE  HandlerInOrder'
<1>1. di = 0 /\ active = None
  BY HandlerOutside, StrategyEngineAssumption
     DEF Start, OnStart, StartFails, UnsubscribeFails, PassBarrier, OnStop, Stopped,
         OwnerInOrder, HandlerInOrder, Registered
<1>2. UNCHANGED <<entries, targets, running, di, event, active, lastEntry, registrations>>
  BY DEF Start, OnStart, StartFails, UnsubscribeFails, PassBarrier, BeginStopping, OnStop,
         Stopped, busVars, dispVars
<1>3. QED
  BY <1>1, <1>2 DEF HandlerInOrder, Registered

LEMMA HandlerSubscribeEngine ==
  ASSUME OwnerInOrder, HandlerInOrder, SubscribeEngine
  PROVE  HandlerInOrder'
<1>1. di = 0 /\ active = None
  BY HandlerOutside DEF SubscribeEngine
<1>2. lastEntry \in Nat
  BY StrategyEngineAssumption DEF OwnerInOrder
<1>3. QED
  BY <1>1, <1>2 DEF HandlerInOrder, SubscribeEngine, dispVars, Registered

LEMMA HandlerStop ==
  ASSUME OwnerInOrder, HandlerInOrder, Stop \/ Unsubscribe
  PROVE  HandlerInOrder'
<1>1. UNCHANGED <<targets, running, di, event, active, lastEntry, registrations, state>>
  BY DEF Stop, Unsubscribe, busVars, dispVars
<1>2. entries' \subseteq entries /\ opc' \in {"unsubscribe", "barrier"}
  BY DEF Stop, Unsubscribe, busVars
<1>3. QED
  BY <1>1, <1>2 DEF HandlerInOrder, Registered

LEMMA HandlerDeliver ==
  ASSUME OwnerInOrder, HandlerInOrder, Deliver, event' # NoEvent
  PROVE  HandlerInOrder'
<1>1. running = 0 /\ di = 0
  BY DEF HandlerInOrder, Deliver
<1>2. 0 \notin entries
  BY DEF HandlerInOrder
<1>3. QED
  BY <1>1, <1>2 DEF HandlerInOrder, Deliver, ownerVars, busVars, Registered

LEMMA HandlerInvoke ==
  ASSUME OwnerInOrder, HandlerInOrder, NEW entry \in targets, Invoke(entry)
  PROVE  HandlerInOrder'
<1>1. di = 0 /\ active = None
  BY HandlerOutside DEF Invoke
<1>2. entry \in 1..lastEntry /\ lastEntry \in Nat
  BY StrategyEngineAssumption DEF HandlerInOrder, OwnerInOrder
<1>3. Registered \in Nat /\ Registered' = Registered
  BY DEF OwnerInOrder, Registered, Invoke, ownerVars
<1>4. Live(entry) => state = "Running" /\ opc = "idle"
  BY <1>2 DEF Live, OwnerInOrder
<1>5. QED
  BY <1>1, <1>2, <1>3, <1>4 DEF HandlerInOrder, Invoke, ownerVars, busVars, Live

LEMMA HandlerOnMarketEvent ==
  ASSUME OwnerInOrder, HandlerInOrder, OnMarketEvent \/ CallbackEnds \/ HandlerEnds
  PROVE  HandlerInOrder'
<1>1. UNCHANGED <<entries, targets, event, lastEntry, state, opc, subscription, registrations>>
  BY DEF OnMarketEvent, CallbackEnds, HandlerEnds, ownerVars, busVars, dispVars
<1>2. Registered \in Nat /\ Registered' = Registered
  BY <1>1 DEF OwnerInOrder, Registered
<1>3. CASE OnMarketEvent
  BY <1>1, <1>2, <1>3 DEF HandlerInOrder, OnMarketEvent, dispVars, Registered
<1>4. CASE CallbackEnds
  BY <1>1, <1>2, <1>4 DEF HandlerInOrder, CallbackEnds, Registered
<1>5. CASE HandlerEnds
  <2>1. 0 \notin targets /\ lastEntry \in Nat
    BY StrategyEngineAssumption DEF HandlerInOrder, OwnerInOrder
  <2>2. QED
    BY <1>1, <1>2, <1>5, <2>1 DEF HandlerInOrder, HandlerEnds
<1>6. QED
  BY <1>3, <1>4, <1>5

LEMMA HandlerEndDelivery ==
  ASSUME HandlerInOrder, EndDelivery
  PROVE  HandlerInOrder'
BY DEF HandlerInOrder, EndDelivery, ownerVars, busVars, Registered

LEMMA HandlerSteps ==
  ASSUME OwnerInOrder, HandlerInOrder, [Next]_vars, Deliver => event' # NoEvent
  PROVE  HandlerInOrder'
<1>1. CASE \E s \in Strategies : Register(s)
  BY <1>1, HandlerRegister
<1>2. CASE Start \/ StartFails \/ UnsubscribeFails \/ PassBarrier \/ OnStart \/ OnStop \/ Stopped
  BY <1>2, HandlerOwner
<1>3. CASE SubscribeEngine \/ Stop \/ Unsubscribe
  BY <1>3, HandlerSubscribeEngine, HandlerStop
<1>4. CASE Deliver
  BY <1>4, HandlerDeliver
<1>5. CASE \E entry \in targets : Invoke(entry)
  BY <1>5, HandlerInvoke
<1>6. CASE OnMarketEvent \/ CallbackEnds \/ HandlerEnds
  BY <1>6, HandlerOnMarketEvent
<1>7. CASE EndDelivery
  BY <1>7, HandlerEndDelivery
<1>8. ASSUME Feed \/ UNCHANGED vars \/ \E s \in Strategies : \E taken \in BOOLEAN : Emit(s, taken)
      PROVE  HandlerInOrder'
  <2>1. UNCHANGED handlerInvVars
    BY <1>8 DEF Feed, Emit, vars, handlerInvVars, ownerVars, busVars, dispVars
  <2>2. QED
    BY <2>1, HandlerUnchanged
<1>9. QED
  BY <1>1, <1>2, <1>3, <1>4, <1>5, <1>6, <1>7, <1>8 DEF Next, Continue, Dispatch

-----------------------------------------------------------------------------
(* The events from the feed.                                               *)

LEMMA FedNotNone ==
  ASSUME NEW e, Fed(e)
  PROVE  /\ e \in FeedEvents /\ e # NoEvent
         /\ e.place \in Nat \ {0} /\ e.place \in 1..Len(offered) /\ offered[e.place].taken
         /\ e.bar = offered[e.place].bar /\ e.sequence = offered[e.place].sequence
<1>1. e \in FeedEvents /\ e.place \in Nat \ {0}
  BY DEF Fed, FeedEvents
<1>2. NoEvent.place = 0
  BY DEF NoEvent
<1>3. QED
  BY <1>1, <1>2 DEF Fed

(* A publication is one event.                                             *)
LEMMA PlaceTells ==
  ASSUME NEW e, NEW f, Fed(e), Fed(f), e.place = f.place
  PROVE  e = f
<1>1. e.bar = f.bar /\ e.sequence = f.sequence
  BY FedNotNone
<1>2. e \in FeedEvents /\ f \in FeedEvents
  BY DEF Fed
<1>3. QED
  BY <1>1, <1>2 DEF FeedEvents

LEMMA HeadAndTail ==
  ASSUME NEW S, NEW s \in Seq(S), s # <<>>
  PROVE  /\ Head(s) = s[1] /\ Head(s) \in S
         /\ Tail(s) \in Seq(S) /\ Len(Tail(s)) = Len(s) - 1
         /\ \A i \in 1..Len(Tail(s)) : Tail(s)[i] = s[i + 1]
         /\ Len(s) \in Nat \ {0} /\ 1 \in 1..Len(s)
OBVIOUS

fedInvVars == <<offered, counters, file, queue, event>>

LEMMA FedUnchanged ==
  ASSUME Numbered, FedInOrder, UNCHANGED fedInvVars
  PROVE  Numbered' /\ FedInOrder'
BY DEF Numbered, FedInOrder, fedInvVars, Fed, Queued, Precedes

LEMMA FedDeliver ==
  ASSUME Numbered, FedInOrder, Deliver
  PROVE  /\ Numbered' /\ FedInOrder' /\ event' # NoEvent
         /\ event' = queue[1] /\ 1 \in 1..Len(queue) /\ Fed(event')
         /\ \A j \in 1..Len(queue') : j + 1 \in 1..Len(queue) /\ queue'[j] = queue[j + 1]
         /\ \A q : Queued(q) => q = event'.place \/ Queued(q)'
<1>1. /\ queue' = Tail(queue) /\ event' = queue[1]
      /\ queue' \in Seq(FeedEvents) /\ Len(queue) \in Nat \ {0} /\ 1 \in 1..Len(queue)
      /\ Len(queue') = Len(queue) - 1
      /\ \A i \in 1..Len(queue') : queue'[i] = queue[i + 1]
  BY HeadAndTail DEF FedInOrder, Deliver
<1>2. \A j \in 1..Len(queue') : j + 1 \in 1..Len(queue) /\ queue'[j] = queue[j + 1]
  BY <1>1
<1>3. UNCHANGED <<offered, counters, file>>
  BY DEF Deliver
<1>4. Fed(queue[1]) /\ event' # NoEvent
  BY <1>1, FedNotNone DEF FedInOrder
<1>5. Fed(event)' /\ Fed(event')
  BY <1>1, <1>3, <1>4 DEF Fed
<1>6. ASSUME NEW i \in 1..Len(queue')
      PROVE  Fed(queue[i])'
  <2>1. Fed(queue[i + 1]) /\ queue'[i] = queue[i + 1]
    BY <1>2 DEF FedInOrder
  <2>2. QED
    BY <2>1, <1>3 DEF Fed
<1>7. ASSUME NEW j \in 1..Len(queue'), NEW i \in 1..(j - 1)
      PROVE  Precedes(queue[i], queue[j])'
  <2>1. i + 1 \in 1..((j + 1) - 1) /\ i \in 1..Len(queue')
    BY <1>1
  <2>2. Precedes(queue[i + 1], queue[j + 1])
    BY <1>2, <2>1 DEF FedInOrder
  <2>3. queue'[i] = queue[i + 1] /\ queue'[j] = queue[j + 1]
    BY <1>2, <2>1
  <2>4. QED
    BY <2>2, <2>3 DEF Precedes
<1>8. ASSUME NEW j \in 1..Len(queue')
      PROVE  Precedes(event, queue[j])'
  <2>1. 1 \in 1..((j + 1) - 1)
    BY <1>1
  <2>2. Precedes(queue[1], queue[j + 1])
    BY <1>2, <2>1 DEF FedInOrder
  <2>3. QED
    BY <1>1, <1>2, <2>2 DEF Precedes
<1>9. ASSUME NEW q, Queued(q)
      PROVE  q = event'.place \/ Queued(q)'
  <2>1. PICK j \in 1..Len(queue) : queue[j].place = q
    BY <1>9 DEF Queued
  <2>2. CASE j = 1
    BY <1>1, <2>1, <2>2
  <2>3. CASE j # 1
    <3>1. j - 1 \in 1..Len(queue') /\ queue'[j - 1] = queue[j]
      BY <1>1, <2>1, <2>3
    <3>2. QED
      BY <2>1, <3>1 DEF Queued
  <2>4. QED
    BY <2>2, <2>3
<1>10. ASSUME NEW q \in 1..Len(offered), offered[q].taken, q > event'.place
       PROVE  Queued(q)'
  <2>1. event'.place \in Nat /\ queue # <<>>
    BY <1>1, <1>5, FedNotNone
  <2>2. Queued(q)
    BY <1>1, <1>10, <2>1 DEF FedInOrder
  <2>3. q # event'.place
    BY <1>10, <2>1
  <2>4. QED
    BY <1>9, <2>2, <2>3
<1>11. ASSUME queue' # <<>>, NEW q \in 1..Len(offered), offered[q].taken, q > queue'[1].place
       PROVE  Queued(q)'
  <2>1. 1 \in 1..Len(queue')
    BY <1>1, <1>11
  <2>2. event'.place < queue'[1].place /\ event'.place \in Nat /\ queue'[1].place \in Nat
    <3>1. Precedes(event, queue[1])'
      BY <1>8, <2>1
    <3>2. queue'[1].place = queue[2].place /\ Fed(queue[2])
      BY <1>2, <2>1 DEF FedInOrder
    <3>3. QED
      BY <1>5, <3>1, <3>2, FedNotNone DEF Precedes
  <2>3. QED
    BY <1>10, <1>11, <2>2
<1>12. Numbered'
  BY <1>3 DEF Numbered
<1>13. FedInOrder'
  BY <1>1, <1>3, <1>5, <1>6, <1>7, <1>8, <1>10, <1>11 DEF FedInOrder
<1>14. QED
  BY <1>1, <1>2, <1>4, <1>5, <1>9, <1>12, <1>13

LEMMA FedEndDelivery ==
  ASSUME Numbered, FedInOrder, EndDelivery
  PROVE  Numbered' /\ FedInOrder'
<1>1. UNCHANGED <<offered, counters, file, queue>> /\ event' = NoEvent
  BY DEF EndDelivery, feedVars
<1>2. QED
  BY <1>1 DEF Numbered, FedInOrder, Fed, Queued, Precedes

(* A publication: those before it stay what they are.                      *)
Published(taken) ==
    /\ offered' \in Seq(Offers) /\ Len(offered') = Len(offered) + 1 /\ Len(offered) \in Nat
    /\ \A p \in 1..Len(offered) : offered'[p] = offered[p]
    /\ offered'[Len(offered) + 1].taken = taken
    /\ IF taken
       THEN /\ queue' \in Seq(FeedEvents) /\ Len(queue') = Len(queue) + 1 /\ Len(queue) \in Nat
            /\ \A i \in 1..Len(queue) : queue'[i] = queue[i]
            /\ queue'[Len(queue) + 1].place = Len(offered) + 1
            /\ Fed(queue[Len(queue)])'
       ELSE queue' = queue

LEMMA OfferBar ==
  ASSUME Numbered, FedInOrder, NEW taken \in BOOLEAN, OnBar(taken)
  PROVE  /\ Numbered'
         /\ file' \in Seq(OfferedBars)
         /\ \A i \in 1..Len(file') : file'[i].symbol \in DOMAIN counters'
         /\ UNCHANGED <<offered, queue>> \/ Published(taken)
<1> DEFINE bar == Head(file)
           symbol == bar.symbol
           number == counters[symbol] + 1
           o == [bar |-> bar, sequence |-> number, taken |-> taken]
           new == [bar |-> bar, sequence |-> number, place |-> Len(offered) + 1]
<1>1. /\ bar \in OfferedBars /\ symbol \in DOMAIN counters
      /\ file' \in Seq(OfferedBars)
      /\ \A i \in 1..Len(file') : file'[i].symbol \in DOMAIN counters
  <2>1. /\ bar \in OfferedBars /\ bar = file[1] /\ 1 \in 1..Len(file)
        /\ file' \in Seq(OfferedBars) /\ Len(file) \in Nat \ {0}
        /\ Len(file') = Len(file) - 1
        /\ \A i \in 1..Len(file') : file'[i] = file[i + 1]
    BY HeadAndTail DEF FedInOrder, OnBar
  <2>2. \A i \in 1..Len(file') : i + 1 \in 1..Len(file)
    BY <2>1
  <2>3. QED
    BY <2>1, <2>2 DEF FedInOrder
<1>2. CASE ~Valid(bar)
  <2>1. UNCHANGED <<counters, queue, offered>>
    BY <1>2 DEF OnBar
  <2>2. QED
    BY <1>1, <2>1 DEF Numbered
<1>3. CASE Valid(bar)
  <2>1. /\ counters' = [counters EXCEPT ![symbol] = number]
        /\ offered' = Append(offered, o)
        /\ queue' = IF taken THEN Append(queue, new) ELSE queue
    BY <1>3 DEF OnBar, Count
  <2>2. number \in Nat \ {0} /\ counters[symbol] \in Nat /\ number = counters[symbol] + 1
        /\ Len(offered) \in Nat /\ offered \in Seq(Offers)
        /\ counters \in [DOMAIN counters -> Nat]
    BY <1>1 DEF Numbered
  <2>3. o \in Offers /\ o.bar = bar /\ o.sequence = number /\ o.taken = taken
    BY <1>1, <2>2 DEF Offers
  <2>4. new \in FeedEvents /\ new.place = Len(offered) + 1
        /\ new.bar = bar /\ new.sequence = number
    BY <1>1, <2>2 DEF FeedEvents
  <2> HIDE DEF o
  <2>5. /\ offered' \in Seq(Offers) /\ Len(offered') = Len(offered) + 1
        /\ offered'[Len(offered) + 1] = o
        /\ \A p \in 1..Len(offered) : offered'[p] = offered[p]
    BY <2>1, <2>2, <2>3, AppendOne
  <2>6. /\ DOMAIN counters' = DOMAIN counters /\ counters' \in [DOMAIN counters' -> Nat]
        /\ counters'[symbol] = number
        /\ \A t \in DOMAIN counters : t # symbol => counters'[t] = counters[t]
        /\ \A t \in DOMAIN counters : counters'[t] \in Nat /\ counters[t] \in Nat
                                       /\ counters[t] <= counters'[t]
    BY <1>1, <2>1, <2>2
  <2> HIDE DEF number, new
  <2>7. ASSUME NEW p \in 1..Len(offered')
        PROVE  /\ offered'[p].bar.symbol \in DOMAIN counters'
               /\ offered'[p].sequence \in 1..counters'[offered'[p].bar.symbol]
    <3>1. CASE p \in 1..Len(offered)
      <4>1. /\ offered'[p] = offered[p] /\ offered[p].bar.symbol \in DOMAIN counters
            /\ offered[p].sequence \in 1..counters[offered[p].bar.symbol]
        BY <2>5, <3>1 DEF Numbered
      <4> HIDE DEF bar, symbol
      <4>2. QED
        BY <2>6, <4>1
    <3>2. CASE p = Len(offered) + 1
      BY <1>1, <2>2, <2>3, <2>5, <2>6, <3>2
    <3>3. QED
      BY <2>2, <2>5, <3>1, <3>2
  <2>8. ASSUME NEW q \in 1..Len(offered'), NEW p \in 1..(q - 1),
               offered'[p].bar.symbol = offered'[q].bar.symbol
        PROVE  offered'[p].sequence < offered'[q].sequence
    <3>1. p \in 1..Len(offered) /\ offered'[p] = offered[p]
      BY <2>2, <2>5
    <3>2. CASE q \in 1..Len(offered)
      BY <2>5, <2>8, <3>1, <3>2 DEF Numbered
    <3>3. CASE q = Len(offered) + 1
      <4>1. /\ offered'[q].sequence = number /\ offered[p].bar.symbol = symbol
            /\ offered[p].sequence \in 1..counters[offered[p].bar.symbol]
        BY <2>3, <2>5, <2>8, <3>1, <3>3 DEF Numbered
      <4> HIDE DEF bar, symbol
      <4>2. QED
        BY <2>2, <3>1, <4>1
    <3>4. QED
      BY <2>2, <2>5, <3>2, <3>3
  <2>9. ASSUME NEW t \in DOMAIN counters', NEW n \in 1..counters'[t]
        PROVE  \E p \in 1..Len(offered') :
                   offered'[p].bar.symbol = t /\ offered'[p].sequence = n
    <3>1. CASE n \in 1..counters[t]
      <4>1. PICK p \in 1..Len(offered) : offered[p].bar.symbol = t /\ offered[p].sequence = n
        BY <2>6, <3>1 DEF Numbered
      <4>2. p \in 1..Len(offered') /\ offered'[p] = offered[p]
        BY <2>2, <2>5
      <4>3. QED
        BY <4>1, <4>2
    <3>2. CASE n \notin 1..counters[t]
      <4>1. t = symbol /\ n = number
        <5> HIDE DEF bar, symbol
        <5>1. QED
          BY <2>2, <2>6, <3>2
      <4>2. Len(offered) + 1 \in 1..Len(offered')
        BY <2>2, <2>5
      <4>3. QED
        BY <2>3, <2>5, <4>1, <4>2
    <3>3. QED
      BY <3>1, <3>2
  <2>10. Numbered'
    BY <2>5, <2>6, <2>7, <2>8, <2>9 DEF Numbered
  <2>11. ASSUME taken
         PROVE  /\ queue' \in Seq(FeedEvents) /\ Len(queue') = Len(queue) + 1
                /\ Len(queue) \in Nat
                /\ \A i \in 1..Len(queue) : queue'[i] = queue[i]
                /\ queue'[Len(queue) + 1] = new
    BY <2>1, <2>4, <2>11, AppendOne DEF FedInOrder
  <2>12. ASSUME taken
         PROVE  Fed(queue[Len(queue)])'
    <3>1. queue'[Len(queue')] = new /\ new.place \in 1..Len(offered')
      BY <2>2, <2>4, <2>5, <2>11, <2>12
    <3>2. offered'[new.place] = o
      BY <2>4, <2>5
    <3>3. o = [bar |-> new.bar, sequence |-> new.sequence, taken |-> TRUE]
      BY <2>4, <2>12 DEF o
    <3>4. QED
      BY <2>4, <3>1, <3>2, <3>3 DEF Fed
  <2>13. Published(taken)
    BY <2>1, <2>2, <2>3, <2>4, <2>5, <2>11, <2>12 DEF Published
  <2>14. QED
    BY <1>1, <2>6, <2>10, <2>13
<1>4. QED
  BY <1>2, <1>3

(* After it, what was fed still is, and what the bus holds is in order.    *)
LEMMA FedPublished ==
  ASSUME Numbered, FedInOrder, NEW taken \in BOOLEAN, Published(taken)
  PROVE  /\ \A e : Fed(e) => (e \in FeedEvents /\ e.place \in 1..Len(offered')
                               /\ offered'[e.place] = offered[e.place])
         /\ \A i \in 1..Len(queue') : Fed(queue[i])'
         /\ \A q : Queued(q) => Queued(q)'
         /\ \A q : taken /\ q = Len(offered) + 1 => Queued(q)'
         /\ \A q \in 1..Len(offered') : q \in 1..Len(offered) \/ q = Len(offered) + 1
<1>1. Len(offered) \in Nat /\ Len(offered') = Len(offered) + 1 /\ Len(queue) \in Nat
      /\ \A p \in 1..Len(offered) : offered'[p] = offered[p]
  BY DEF Published, FedInOrder
<1>2. ASSUME NEW e, Fed(e)
      PROVE  /\ e \in FeedEvents /\ e.place \in 1..Len(offered')
             /\ offered'[e.place] = offered[e.place]
  BY <1>1, <1>2 DEF Fed
<1>3. ASSUME NEW i \in 1..Len(queue')
      PROVE  Fed(queue[i])'
  <2>1. CASE i \in 1..Len(queue)
    <3>1. Fed(queue[i]) /\ queue'[i] = queue[i]
      BY <2>1 DEF Published, FedInOrder
    <3>2. QED
      BY <1>2, <3>1 DEF Fed
  <2>2. CASE i \notin 1..Len(queue)
    <3>1. taken /\ i = Len(queue')
      BY <1>1, <2>2 DEF Published
    <3>2. QED
      BY <3>1 DEF Published
  <2>3. QED
    BY <2>1, <2>2
<1>4. ASSUME NEW q, Queued(q)
      PROVE  Queued(q)'
  <2>1. PICK j \in 1..Len(queue) : queue[j].place = q
    BY <1>4 DEF Queued
  <2>2. j \in 1..Len(queue') /\ queue'[j] = queue[j]
    BY <1>1 DEF Published
  <2>3. QED
    BY <2>1, <2>2 DEF Queued
<1>5. ASSUME taken, NEW q, q = Len(offered) + 1
      PROVE  Queued(q)'
  <2>1. /\ Len(queue) + 1 \in 1..Len(queue')
        /\ queue'[Len(queue) + 1].place = Len(offered) + 1
    BY <1>1, <1>5 DEF Published
  <2>2. QED
    BY <1>5, <2>1 DEF Queued
<1>6. QED
  BY <1>1, <1>2, <1>3, <1>4, <1>5

(* A publication comes after all that was fed.                             *)
LEMMA FedBefore ==
  ASSUME Numbered, FedInOrder, NEW taken \in BOOLEAN, Published(taken), NEW e, Fed(e),
         \A j \in 1..Len(queue) : Precedes(e, queue[j])
  PROVE  \A j \in 1..Len(queue') : e.place < queue'[j].place
<1>1. SUFFICES ASSUME NEW j \in 1..Len(queue') PROVE e.place < queue'[j].place
  OBVIOUS
<1>2. CASE j \in 1..Len(queue)
  BY <1>2 DEF Precedes, Published, FedInOrder
<1>3. CASE j \notin 1..Len(queue)
  <2>1. taken /\ j = Len(queue) + 1
    BY <1>3 DEF Published
  <2>2. queue'[j].place = Len(offered) + 1 /\ Len(offered) \in Nat
    BY <2>1 DEF Published
  <2>3. e.place \in 1..Len(offered)
    BY FedNotNone
  <2>4. QED
    BY <2>2, <2>3
<1>4. QED
  BY <1>2, <1>3

(* What the bus took stays in it.                                          *)
LEMMA StillQueued ==
  ASSUME Numbered, FedInOrder, NEW taken \in BOOLEAN, Published(taken),
         NEW q \in 1..Len(offered'), offered'[q].taken,
         q \in 1..Len(offered) => Queued(q)
  PROVE  Queued(q)'
<1>1. CASE q \in 1..Len(offered)
  BY <1>1, FedPublished
<1>2. CASE q = Len(offered) + 1
  <2>1. taken
    BY <1>2 DEF Published
  <2>2. QED
    BY <1>2, <2>1, FedPublished
<1>3. QED
  BY <1>1, <1>2 DEF Published

LEMMA FedOnBar ==
  ASSUME Numbered, FedInOrder, NEW taken \in BOOLEAN, OnBar(taken), event' = event
  PROVE  FedInOrder'
<1>1. /\ Numbered'
      /\ file' \in Seq(OfferedBars)
      /\ \A i \in 1..Len(file') : file'[i].symbol \in DOMAIN counters'
  BY OfferBar
<1>2. CASE UNCHANGED <<offered, queue>>
  BY <1>1, <1>2 DEF FedInOrder, Fed, Queued, Precedes
<1>3. CASE Published(taken)
  <2>1. queue' \in Seq(FeedEvents)
    BY <1>3 DEF Published, FedInOrder
  <2>2. \A i \in 1..Len(queue') : Fed(queue[i])'
    BY <1>3, FedPublished
  <2>3. ASSUME NEW j \in 1..Len(queue'), NEW i \in 1..(j - 1)
        PROVE  Precedes(queue[i], queue[j])'
    <3>1. Len(queue) \in Nat /\ (Len(queue') = Len(queue) \/ Len(queue') = Len(queue) + 1)
      BY <1>3 DEF Published, FedInOrder
    <3>2. i \in 1..Len(queue) /\ queue'[i] = queue[i] /\ Fed(queue[i])
      BY <1>3, <3>1 DEF Published, FedInOrder
    <3>3. CASE j \in 1..Len(queue)
      BY <1>3, <3>2, <3>3 DEF Published, FedInOrder, Precedes
    <3>4. CASE j \notin 1..Len(queue)
      <4>1. queue'[j].place = Len(offered) + 1 /\ Len(offered) \in Nat
        BY <1>3, <3>1, <3>4 DEF Published
      <4>2. queue[i].place \in 1..Len(offered)
        BY <3>2, FedNotNone
      <4>3. QED
        BY <3>2, <4>1, <4>2 DEF Precedes
    <3>5. QED
      BY <3>3, <3>4
  <2>4. ASSUME event' # NoEvent
        PROVE  /\ Fed(event)'
               /\ \A j \in 1..Len(queue') : Precedes(event, queue[j])'
               /\ \A q \in 1..Len(offered') :
                     offered'[q].taken /\ q > event'.place => Queued(q)'
    <3>1. Fed(event) /\ \A j \in 1..Len(queue) : Precedes(event, queue[j])
      BY <2>4 DEF FedInOrder
    <3>2. Fed(event)'
      BY <1>3, <3>1, FedPublished DEF Fed
    <3>3. \A j \in 1..Len(queue') : event.place < queue'[j].place
      BY <1>3, <3>1, FedBefore
    <3>4. ASSUME NEW q \in 1..Len(offered'), offered'[q].taken, q > event'.place
          PROVE  Queued(q)'
      <4>1. q \in 1..Len(offered) => Queued(q)
        BY <1>3, <2>4, <3>4 DEF FedInOrder, Published
      <4>2. QED
        BY <1>3, <3>4, <4>1, StillQueued
    <3>5. QED
      BY <3>2, <3>3, <3>4 DEF Precedes
  <2>5. ASSUME queue' # <<>>, NEW q \in 1..Len(offered'), offered'[q].taken,
               q > queue'[1].place
        PROVE  Queued(q)'
    <3>1. CASE queue = <<>>
      <4>1. Len(queue) = 0 /\ taken
        BY <1>3, <2>5, <3>1 DEF Published
      <4>2. queue'[1].place = Len(offered) + 1 /\ Len(offered) \in Nat
            /\ Len(offered') = Len(offered) + 1
        BY <1>3, <4>1 DEF Published
      <4>3. QED
        BY <2>5, <4>2
    <3>2. CASE queue # <<>>
      <4>1. Len(queue) \in Nat \ {0}
        BY <3>2 DEF FedInOrder
      <4>2. queue'[1] = queue[1]
        BY <1>3, <4>1 DEF Published
      <4>3. q \in 1..Len(offered) => Queued(q)
        BY <1>3, <2>5, <3>2, <4>2 DEF FedInOrder, Published
      <4>4. QED
        BY <1>3, <2>5, <4>3, StillQueued
    <3>3. QED
      BY <3>1, <3>2
  <2>6. QED
    BY <1>1, <2>1, <2>2, <2>3, <2>4, <2>5 DEF FedInOrder
<1>4. QED
  BY <1>2, <1>3, OfferBar

LEMMA FedSteps ==
  ASSUME Numbered, FedInOrder, [Next]_vars
  PROVE  Numbered' /\ FedInOrder'
<1>1. CASE Deliver
  BY <1>1, FedDeliver
<1>2. CASE EndDelivery
  BY <1>2, FedEndDelivery
<1>3. CASE Feed
  BY <1>3, OfferBar, FedOnBar DEF Feed, dispVars
<1>4. ASSUME \/ \E s \in Strategies : Register(s) \/ \E taken \in BOOLEAN : Emit(s, taken)
             \/ Start \/ StartFails \/ Stop \/ UnsubscribeFails \/ Continue
             \/ \E entry \in targets : Invoke(entry)
             \/ OnMarketEvent \/ CallbackEnds \/ HandlerEnds \/ UNCHANGED vars
      PROVE  UNCHANGED fedInvVars
  BY <1>4 DEF Register, Emit, Start, StartFails, Stop, UnsubscribeFails, Continue, Invoke,
              OnMarketEvent, CallbackEnds, HandlerEnds, vars, OnStart, SubscribeEngine,
              Unsubscribe, PassBarrier, BeginStopping, OnStop, Stopped, feedVars, dispVars,
              fedInvVars
<1>5. QED
  BY <1>1, <1>2, <1>3, <1>4, FedUnchanged DEF Next, Dispatch

-----------------------------------------------------------------------------
(* What the strategies have seen.                                          *)

seenInvVars == <<seen, offered, queue, event>>

LEMMA SeenUnchanged ==
  ASSUME SeenInOrder, UNCHANGED seenInvVars
  PROVE  SeenInOrder'
BY DEF SeenInOrder, seenInvVars, Fed, SeenAsPublished, Precedes

LEMMA SeenStart ==
  ASSUME Start
  PROVE  SeenInOrder'
<1>1. seen' = [s \in Strategies |-> <<>>]
  BY DEF Start
<1>2. \A s \in Strategies : seen'[s] = <<>> /\ Len(seen'[s]) = 0 /\ DOMAIN seen'[s] = {}
  BY <1>1
<1>3. seen' \in [Strategies -> Seq(FeedEvents)]
  BY <1>1
<1>4. QED
  BY <1>2, <1>3 DEF SeenInOrder, SeenAsPublished

LEMMA SeenDeliver ==
  ASSUME Numbered, FedInOrder, SeenInOrder, Deliver
  PROVE  SeenInOrder'
<1>1. UNCHANGED <<seen, offered>>
  BY DEF Deliver, historyVars
<1>2. /\ \A j \in 1..Len(queue') : j + 1 \in 1..Len(queue) /\ queue'[j] = queue[j + 1]
      /\ event' = queue[1] /\ 1 \in 1..Len(queue) /\ Fed(event')
  BY FedDeliver
<1>3. ASSUME NEW s \in Strategies, NEW i \in 1..Len(seen[s]), NEW j \in 1..Len(queue')
      PROVE  Precedes(seen[s][i], queue'[j])
  BY <1>2 DEF SeenInOrder
<1>4. ASSUME NEW s \in Strategies, NEW i \in 1..Len(seen[s])
      PROVE  seen[s][i].place <= event'.place
  <2>1. Fed(seen[s][i]) /\ Precedes(seen[s][i], queue[1])
    BY <1>2 DEF SeenInOrder
  <2>2. seen[s][i].place \in Nat /\ event'.place \in Nat
    BY <1>2, <2>1, FedNotNone
  <2>3. QED
    BY <1>2, <2>1, <2>2 DEF Precedes
<1>5. QED
  BY <1>1, <1>3, <1>4 DEF SeenInOrder, Fed, SeenAsPublished, Precedes

(* The event a strategy is told of comes after all it has seen in this     *)
(* session, and none that the bus took lies in between.                    *)
LEMMA TellsNext ==
  ASSUME OwnerInOrder, HandlerInOrder, FedInOrder, SeenInOrder, SeenAlike, NoneLeftOut,
         OnMarketEvent, NEW s, s = registrations[di], NEW k \in 1..Len(seen[s])
  PROVE  /\ seen[s][k].place < event.place
         /\ k = Len(seen[s]) =>
               \A p \in 1..Len(offered) :
                   offered[p].taken /\ p > seen[s][k].place => p >= event.place
<1>1. s \in Strategies /\ di \in 1..Registered /\ event # NoEvent
  BY DEF OnMarketEvent, OwnerInOrder, HandlerInOrder, Registered
<1>2. Fed(event) /\ \A j \in 1..Len(queue) : Precedes(event, queue[j])
  BY <1>1 DEF FedInOrder
<1>3. Fed(seen[s][k]) /\ seen[s][k].place <= event.place
  BY <1>1 DEF SeenInOrder
<1>4. seen[s][k] # event
  BY <1>1 DEF SeenAlike, Told, OnMarketEvent, OwnerInOrder, Registered
<1>5. seen[s][k].place \in Nat /\ event.place \in Nat /\ seen[s][k].place # event.place
  BY <1>2, <1>3, <1>4, FedNotNone, PlaceTells
<1>6. ASSUME k = Len(seen[s]), NEW p \in 1..Len(offered), offered[p].taken,
             p > seen[s][k].place
      PROVE  p >= event.place
  <2>1. LastPlace(registrations[di]) = seen[s][k].place /\ seen[registrations[di]] # <<>>
    <3>1. Len(seen[s]) # 0 /\ seen[s] # <<>>
      BY <1>6
    <3>2. QED
      BY <1>6, <3>1 DEF LastPlace
  <2>2. Queued(p) \/ p = event.place
    BY <1>1, <1>6, <2>1 DEF NoneLeftOut
  <2>3. ASSUME Queued(p)
        PROVE  p > event.place
    <3>1. PICK j \in 1..Len(queue) : queue[j].place = p
      BY <2>3 DEF Queued
    <3>2. QED
      BY <1>2, <3>1 DEF Precedes
  <2>4. QED
    BY <1>5, <2>2, <2>3
<1>7. QED
  BY <1>3, <1>5, <1>6

LEMMA SeenOnMarketEvent ==
  ASSUME OwnerInOrder, HandlerInOrder, Numbered, FedInOrder, SeenInOrder, SeenAlike, NoneLeftOut,
         OnMarketEvent
  PROVE  SeenInOrder'
<1>01. PICK s : s = registrations[di]
  OBVIOUS
<1>1. s \in Strategies /\ di \in 1..Registered /\ event # NoEvent
  BY <1>01 DEF OnMarketEvent, OwnerInOrder, HandlerInOrder, Registered
<1>2. seen' = [seen EXCEPT ![s] = Append(seen[s], event)] /\ UNCHANGED <<offered, queue, event>>
  BY <1>01 DEF OnMarketEvent, feedVars, dispVars
<1>3. /\ Fed(event) /\ event \in FeedEvents /\ event.place \in Nat
      /\ \A j \in 1..Len(queue) : Precedes(event, queue[j])
  BY <1>1, FedNotNone DEF FedInOrder
<1>5. /\ seen' \in [Strategies -> Seq(FeedEvents)]
      /\ \A t \in Strategies : t # s => seen'[t] = seen[t]
      /\ seen'[s] = Append(seen[s], event) /\ seen[s] \in Seq(FeedEvents)
  BY <1>1, <1>2, <1>3 DEF SeenInOrder
<1> DEFINE n == Len(seen[s])
<1>6. /\ Len(seen'[s]) = n + 1 /\ n \in Nat
      /\ seen'[s][n + 1] = event
      /\ \A i \in 1..n : seen'[s][i] = seen[s][i]
      /\ DOMAIN seen'[s] = 1..n + 1 /\ DOMAIN seen[s] = 1..n
  <2>1. seen'[s] \in Seq(FeedEvents)
    BY <1>1, <1>5
  <2>2. QED
    BY <1>3, <1>5, <2>1, AppendOne
<1> HIDE DEF n
<1>7. ASSUME NEW t \in Strategies, NEW i \in 1..Len(seen'[t])
      PROVE  /\ Fed(seen'[t][i]) /\ \A j \in 1..Len(queue) : Precedes(seen'[t][i], queue[j])
             /\ seen'[t][i].place <= event.place
  <2>1. CASE t # s
    BY <1>1, <1>5, <2>1 DEF SeenInOrder
  <2>2. CASE t = s /\ i \in 1..n
    BY <1>1, <1>6, <2>2 DEF SeenInOrder, n
  <2>3. CASE t = s /\ i = n + 1
    BY <1>3, <1>6, <2>3
  <2>4. QED
    BY <1>6, <2>1, <2>2, <2>3
<1>8. ASSUME NEW i \in 1..n, NEW j \in 1..n, i < j
      PROVE  /\ seen[s][i].place < seen[s][j].place
             /\ \A p \in seen[s][i].place..seen[s][j].place :
                   offered[p].taken => \E k \in i..j : seen[s][k].place = p
  <2>1. \A a, b \in DOMAIN seen[s] : a < b =>
           /\ seen[s][a].place < seen[s][b].place
           /\ \A p \in seen[s][a].place..seen[s][b].place :
                 offered[p].taken => \E k \in a..b : seen[s][k].place = p
    BY <1>1, Zenon DEF SeenInOrder, SeenAsPublished
  <2>2. i \in DOMAIN seen[s] /\ j \in DOMAIN seen[s]
    BY <1>6
  <2>3. QED
    BY <1>8, <2>1, <2>2, Zenon
<1>9. ASSUME NEW i \in 1..n
      PROVE  /\ seen[s][i].place < event.place
             /\ \A p \in seen[s][i].place..event.place :
                   offered[p].taken => \E k \in i..(n + 1) : seen'[s][k].place = p
  <2>1. seen[s][i].place < event.place
    BY <1>01, TellsNext DEF n
  <2>2. ASSUME NEW p \in seen[s][i].place..event.place, offered[p].taken
        PROVE  \E k \in i..(n + 1) : seen'[s][k].place = p
    <3>1. n \in 1..n /\ n \in i..(n + 1) /\ n + 1 \in i..(n + 1)
      BY <1>6
    <3>2. seen[s][n].place \in Nat /\ seen[s][i].place \in Nat \ {0}
      <4>1. Fed(seen[s][n]) /\ Fed(seen[s][i])
        BY <1>1, <3>1 DEF SeenInOrder, n
      <4>2. QED
        BY <4>1, FedNotNone
    <3>3. p \in Nat /\ p \in 1..Len(offered) /\ p <= event.place /\ seen[s][i].place <= p
      <4>1. event.place \in 1..Len(offered)
        BY <1>3, FedNotNone
      <4>2. QED
        BY <3>2, <4>1
    <3>4. CASE p > seen[s][n].place
      <4>1. p >= event.place
        BY <1>01, <2>2, <3>1, <3>3, <3>4, TellsNext DEF n
      <4>2. p = event.place
        BY <1>3, <3>3, <4>1
      <4>3. QED
        BY <1>6, <3>1, <4>2
    <3>5. CASE p <= seen[s][n].place /\ i < n
      <4>1. p \in seen[s][i].place..seen[s][n].place
        BY <3>2, <3>3, <3>5
      <4>2. PICK k \in i..n : seen[s][k].place = p
        BY <1>8, <2>2, <3>1, <3>5, <4>1
      <4>3. k \in 1..n /\ k \in i..(n + 1)
        BY <1>6
      <4>4. QED
        BY <1>6, <4>2, <4>3
    <3>6. CASE p <= seen[s][n].place /\ i = n
      <4>1. p = seen[s][n].place
        BY <3>2, <3>3, <3>6
      <4>2. QED
        BY <1>6, <3>1, <4>1
    <3>7. i < n \/ i = n
      BY <1>6
    <3>8. QED
      BY <3>2, <3>3, <3>4, <3>5, <3>6, <3>7
  <2>3. QED
    BY <2>1, <2>2
<1>10. ASSUME NEW t \in Strategies, NEW i \in DOMAIN seen'[t], NEW j \in DOMAIN seen'[t], i < j
       PROVE  /\ seen'[t][i].place < seen'[t][j].place
              /\ \A p \in seen'[t][i].place..seen'[t][j].place :
                    offered[p].taken => \E k \in i..j : seen'[t][k].place = p
  <2>1. CASE t # s
    BY <1>5, <1>10, <2>1 DEF SeenInOrder, SeenAsPublished
  <2>2. CASE t = s /\ j \in 1..n
    <3>1. i \in 1..n /\ seen'[s][i] = seen[s][i] /\ seen'[s][j] = seen[s][j]
      BY <1>6, <1>10, <2>2
    <3>2. \A k \in i..j : seen'[s][k] = seen[s][k]
      BY <1>6, <2>2, <3>1
    <3>3. QED
      BY <1>8, <1>10, <2>2, <3>1, <3>2
  <2>3. CASE t = s /\ j = n + 1
    <3>1. i \in 1..n /\ seen'[s][i] = seen[s][i] /\ seen'[s][j] = event
      BY <1>6, <1>10, <2>3
    <3>2. QED
      BY <1>9, <2>3, <3>1
  <2>4. QED
    BY <1>6, <2>1, <2>2, <2>3
<1>11. SeenAsPublished'
  BY <1>2, <1>10 DEF SeenAsPublished
<1>12. \A t \in Strategies : \A i \in 1..Len(seen'[t]) : Fed(seen[t][i])'
  BY <1>7, <1>2 DEF Fed
<1>13. QED
  BY <1>2, <1>5, <1>7, <1>11, <1>12 DEF SeenInOrder, Precedes

LEMMA SeenFeed ==
  ASSUME Numbered, FedInOrder, SeenInOrder, Feed
  PROVE  SeenInOrder'
<1>1. PICK taken \in BOOLEAN : OnBar(taken)
  BY DEF Feed
<1>2. seen' = seen /\ event' = event
  BY DEF Feed, dispVars, historyVars
<1>3. CASE UNCHANGED <<offered, queue>>
  BY <1>2, <1>3, SeenUnchanged DEF seenInvVars
<1>4. CASE Published(taken)
  <2>1. ASSUME NEW s \in Strategies, NEW i \in 1..Len(seen[s])
        PROVE  /\ Fed(seen[s][i])' /\ seen[s][i].place \in 1..Len(offered)
               /\ \A j \in 1..Len(queue') : seen[s][i].place < queue'[j].place
    <3>1. Fed(seen[s][i]) /\ \A j \in 1..Len(queue) : Precedes(seen[s][i], queue[j])
      BY DEF SeenInOrder
    <3>2. Fed(seen[s][i])'
      BY <1>2, <1>4, <3>1, FedPublished DEF Fed
    <3>3. QED
      BY <1>4, <3>1, <3>2, FedBefore, FedNotNone
  <2>2. ASSUME NEW s \in Strategies, NEW i \in DOMAIN seen[s], NEW j \in DOMAIN seen[s], i < j
        PROVE  /\ seen[s][i].place < seen[s][j].place
               /\ \A p \in seen[s][i].place..seen[s][j].place :
                     offered'[p].taken => \E k \in i..j : seen[s][k].place = p
    <3>1. seen[s][i].place \in 1..Len(offered) /\ seen[s][j].place \in 1..Len(offered)
      BY <2>1 DEF SeenInOrder
    <3>2. Len(offered) \in Nat /\ \A p \in 1..Len(offered) : offered'[p] = offered[p]
      BY <1>4 DEF Published
    <3>3. \A p \in seen[s][i].place..seen[s][j].place : offered'[p] = offered[p]
      BY <3>1, <3>2
    <3>4. QED
      BY <2>2, <3>3 DEF SeenInOrder, SeenAsPublished
  <2>3. SeenAsPublished'
    BY <1>2, <2>2 DEF SeenAsPublished
  <2>4. QED
    BY <1>2, <2>1, <2>3 DEF SeenInOrder, Precedes
<1>5. QED
  BY <1>1, <1>3, <1>4, OfferBar

LEMMA SeenSteps ==
  ASSUME OwnerInOrder, HandlerInOrder, Numbered, FedInOrder, SeenInOrder, SeenAlike, NoneLeftOut,
         [Next]_vars
  PROVE  SeenInOrder'
<1>1. CASE Start
  BY <1>1, SeenStart
<1>2. CASE Deliver
  BY <1>2, SeenDeliver
<1>3. CASE OnMarketEvent
  BY <1>3, SeenOnMarketEvent
<1>4. CASE Feed
  BY <1>4, SeenFeed
<1>5. CASE EndDelivery
  BY <1>5 DEF EndDelivery, SeenInOrder, feedVars, historyVars, Fed, SeenAsPublished, Precedes
<1>6. ASSUME \/ \E s \in Strategies : Register(s) \/ \E taken \in BOOLEAN : Emit(s, taken)
             \/ StartFails \/ Stop \/ UnsubscribeFails \/ Continue
             \/ \E entry \in targets : Invoke(entry)
             \/ CallbackEnds \/ HandlerEnds \/ UNCHANGED vars
      PROVE  UNCHANGED seenInvVars
  BY <1>6 DEF Register, Emit, StartFails, Stop, UnsubscribeFails, Continue, Invoke,
              CallbackEnds, HandlerEnds, vars, OnStart, SubscribeEngine,
              Unsubscribe, PassBarrier, BeginStopping, OnStop, Stopped, feedVars, dispVars,
              historyVars, seenInvVars
<1>7. QED
  BY <1>1, <1>2, <1>3, <1>4, <1>5, <1>6, SeenUnchanged DEF Next, Dispatch

-----------------------------------------------------------------------------
(* What one strategy has seen and another has not.                         *)

alikeInvVars ==
    <<opc, state, seen, registrations, di, active, event, subscription, targets>>

LEMMA AlikeUnchanged ==
  ASSUME SeenAlike, UNCHANGED alikeInvVars
  PROVE  SeenAlike'
BY DEF SeenAlike, alikeInvVars, Told, Registered

(* The owner's steps outside a session, but for one that begins it.        *)
LEMMA AlikeOutside ==
  ASSUME OwnerInOrder, HandlerInOrder, SeenAlike,
         OnStart \/ StartFails \/ UnsubscribeFails \/ PassBarrier \/ OnStop \/ Stopped
  PROVE  SeenAlike'
<1>1. di = 0 /\ active = None
  BY HandlerOutside, StrategyEngineAssumption
     DEF OnStart, StartFails, UnsubscribeFails, PassBarrier, OnStop, Stopped,
         OwnerInOrder, HandlerInOrder, Registered
<1>2. UNCHANGED <<targets, di, event, active, registrations, subscription, seen>>
  BY DEF OnStart, StartFails, UnsubscribeFails, PassBarrier, BeginStopping, OnStop,
         Stopped, busVars, dispVars, historyVars
<1>3. opc' = "start" => opc = "start"
  BY DEF OnStart, StartFails, UnsubscribeFails, PassBarrier, BeginStopping, OnStop, Stopped
<1>4. state' \in {"Starting", "Running"} => state \in {"Starting", "Running"}
  BY DEF OnStart, StartFails, UnsubscribeFails, PassBarrier, BeginStopping, OnStop, Stopped,
         OwnerInOrder
<1>5. QED
  BY <1>1, <1>2, <1>3, <1>4 DEF SeenAlike, Told, Registered

LEMMA AlikeRegister ==
  ASSUME OwnerInOrder, HandlerInOrder, SeenAlike, NEW s \in Strategies, Register(s)
  PROVE  SeenAlike'
<1>1. di = 0
  BY HandlerOutside DEF Register
<1>2. UNCHANGED <<targets, di, event, active, subscription, seen, state, opc>>
  BY DEF Register, dispVars, historyVars
<1>3. QED
  BY <1>1, <1>2 DEF SeenAlike, Register

LEMMA AlikeStart ==
  ASSUME OwnerInOrder, HandlerInOrder, SeenAlike, Start
  PROVE  SeenAlike'
<1>1. di' = 0 /\ active' = None
  BY HandlerOutside DEF Start, dispVars, historyVars
<1>2. \A s \in Strategies : seen'[s] = <<>> /\ Len(seen'[s]) = 0
  BY DEF Start
<1>3. \A i \in 1..Registered' : registrations'[i] \in Strategies /\ i # 0
  BY DEF OwnerInOrder, Start, Registered
<1>4. \A i \in 1..Registered' : ~Told(i)'
  BY <1>1, <1>3 DEF Told
<1>5. \A i \in 1..Registered', j \in 1..Registered' :
         seen'[registrations'[i]] = seen'[registrations'[j]]
  BY <1>2, <1>3
<1>6. QED
  BY <1>1, <1>2, <1>4, <1>5 DEF SeenAlike

LEMMA AlikeSubscribeEngine ==
  ASSUME OwnerInOrder, HandlerInOrder, SeenAlike, SubscribeEngine
  PROVE  SeenAlike'
<1>1. di = 0 /\ active = None
  BY HandlerOutside DEF SubscribeEngine
<1>2. UNCHANGED <<targets, di, event, active, registrations, seen>> /\ opc' = "idle"
  BY DEF SubscribeEngine, dispVars, historyVars
<1>3. subscription' \notin targets
  BY StrategyEngineAssumption DEF OwnerInOrder, HandlerInOrder, SubscribeEngine
<1>4. state \in {"Starting", "Running"}
  BY DEF OwnerInOrder, SubscribeEngine
<1>5. QED
  BY <1>1, <1>2, <1>3, <1>4 DEF SeenAlike, Told, Registered

LEMMA AlikeStop ==
  ASSUME OwnerInOrder, HandlerInOrder, SeenAlike, Stop \/ Unsubscribe
  PROVE  SeenAlike'
<1>1. UNCHANGED <<targets, di, event, active, registrations, seen, state>> /\ opc' # "start"
  BY DEF Stop, Unsubscribe, dispVars, historyVars
<1>2. subscription' = 0 /\ 0 \notin targets
  BY DEF Stop, Unsubscribe, OwnerInOrder, HandlerInOrder
<1>3. QED
  BY <1>1, <1>2 DEF SeenAlike, Told, Registered

LEMMA AlikeDeliver ==
  ASSUME OwnerInOrder, HandlerInOrder, Numbered, FedInOrder, SeenInOrder, SeenAlike, Deliver
  PROVE  SeenAlike'
<1>1. di = 0 /\ active = None
  <2>1. running = 0
    BY DEF HandlerInOrder, Deliver
  <2>2. QED
    BY <2>1, HandlerOutside
<1>2. UNCHANGED <<di, active, registrations, seen, state, opc, subscription>>
  BY DEF Deliver, ownerVars, historyVars
<1>3. ASSUME NEW s \in Strategies, NEW k \in 1..Len(seen[s])
      PROVE  seen[s][k] # event'
  <2>1. event' = queue[1] /\ 1 \in 1..Len(queue)
    BY FedDeliver
  <2>2. Precedes(seen[s][k], queue[1]) /\ Fed(seen[s][k])
    BY <2>1 DEF SeenInOrder
  <2>3. seen[s][k].place \in Nat
    BY <2>2, FedNotNone
  <2>4. QED
    BY <2>1, <2>2, <2>3 DEF Precedes
<1>4. \A i \in 1..Registered : ~Told(i) /\ ~Told(i)'
  BY <1>1, <1>2 DEF Told, OwnerInOrder, Registered
<1>5. QED
  BY <1>1, <1>2, <1>3, <1>4 DEF SeenAlike, Registered

LEMMA AlikeInvoke ==
  ASSUME OwnerInOrder, HandlerInOrder, SeenAlike, NEW entry \in targets, Invoke(entry)
  PROVE  SeenAlike'
<1>1. di = 0 /\ active = None
  BY HandlerOutside DEF Invoke
<1>2. UNCHANGED <<event, active, registrations, seen, state, opc, subscription>>
      /\ targets' \subseteq targets /\ di' \in {0, 1}
  BY DEF Invoke, ownerVars, historyVars
<1>3. \A i \in 1..Registered : ~Told(i) /\ ~Told(i)'
  BY <1>1, <1>2 DEF Told, OwnerInOrder, Registered
<1>4. di' > 0 => subscription \in targets /\ event # NoEvent
  BY DEF Invoke, Live, HandlerInOrder
<1>5. \A i \in 1..Registered : registrations[i] \in Strategies
  BY DEF OwnerInOrder, Registered
<1>6. QED
  BY <1>1, <1>2, <1>3, <1>4, <1>5 DEF SeenAlike, Registered

LEMMA AlikeOnMarketEvent ==
  ASSUME OwnerInOrder, HandlerInOrder, FedInOrder, SeenInOrder, SeenAlike, OnMarketEvent
  PROVE  SeenAlike'
<1>01. PICK s : s = registrations[di]
  OBVIOUS
<1>1. /\ di \in 1..Registered /\ s \in Strategies /\ Registered \in Nat
      /\ \A i \in 1..Registered : registrations[i] \in Strategies
  BY <1>01 DEF OnMarketEvent, OwnerInOrder, Registered
<1>2. UNCHANGED <<targets, di, event, registrations, state, opc, subscription>>
  BY DEF OnMarketEvent, ownerVars, dispVars, historyVars
<1>3. active = None /\ active' = s /\ s # None
  BY <1>01, <1>1, StrategyEngineAssumption DEF OnMarketEvent
<1>4. \A t \in Strategies : seen'[t] = IF t = s THEN Append(seen[s], event) ELSE seen[t]
  BY <1>01 DEF OnMarketEvent, SeenInOrder
<1>5. \A i \in 1..Registered : registrations[i] = s <=> i = di
  BY <1>01, <1>1 DEF OwnerInOrder
<1>6. \A i \in 1..Registered : (Told(i) <=> i < di) /\ (Told(i)' <=> i < di \/ i = di)
  BY <1>2, <1>3 DEF Told
<1>7. state = "Running" /\ opc # "start" /\ subscription \notin targets
  <2>1. 0 \notin targets /\ running \notin targets
    BY DEF HandlerInOrder
  <2>2. QED
    BY <1>1, <2>1 DEF HandlerInOrder, OwnerInOrder
<1>8. \A i, j \in 1..Registered :
         /\ (Told(i) <=> Told(j)) => seen[registrations[i]] = seen[registrations[j]]
         /\ Told(i) /\ ~Told(j) =>
               seen[registrations[i]] = Append(seen[registrations[j]], event)
  BY <1>7 DEF SeenAlike
<1>9. ASSUME NEW i \in 1..Registered, NEW j \in 1..Registered
      PROVE  /\ (Told(i)' <=> Told(j)') => seen'[registrations[i]] = seen'[registrations[j]]
             /\ Told(i)' /\ ~Told(j)' =>
                   seen'[registrations[i]] = Append(seen'[registrations[j]], event)
  <2>1. seen'[registrations[i]] = IF i = di THEN Append(seen[s], event)
                                  ELSE seen[registrations[i]]
    BY <1>1, <1>4, <1>5
  <2>2. seen'[registrations[j]] = IF j = di THEN Append(seen[s], event)
                                  ELSE seen[registrations[j]]
    BY <1>1, <1>4, <1>5
  <2>3. i # di /\ i < di => seen[registrations[i]] = Append(seen[s], event)
    BY <1>01, <1>1, <1>6, <1>8
  <2>4. j # di /\ j < di => seen[registrations[j]] = Append(seen[s], event)
    BY <1>01, <1>1, <1>6, <1>8
  <2>5. i > di => seen[registrations[i]] = seen[s]
    BY <1>01, <1>1, <1>6, <1>8
  <2>6. j > di => seen[registrations[j]] = seen[s]
    BY <1>01, <1>1, <1>6, <1>8
  <2>7. /\ i <= di => seen'[registrations[i]] = Append(seen[s], event)
        /\ i > di => seen'[registrations[i]] = seen[s]
    BY <1>1, <2>1, <2>3, <2>5
  <2>8. /\ j <= di => seen'[registrations[j]] = Append(seen[s], event)
        /\ j > di => seen'[registrations[j]] = seen[s]
    BY <1>1, <2>2, <2>4, <2>6
  <2>9. (Told(i)' <=> i <= di) /\ (Told(j)' <=> j <= di)
    BY <1>1, <1>6
  <2>10. i <= di \/ i > di
    BY <1>1
  <2>11. j <= di \/ j > di
    BY <1>1
  <2>12. ~(i <= di /\ i > di) /\ ~(j <= di /\ j > di)
    BY <1>1
  <2>13. QED
    BY <2>7, <2>8, <2>9, <2>10, <2>11, <2>12, Zenon
<1>10. ASSUME NEW i \in 1..Registered, ~Told(i)'
       PROVE  \A k \in 1..Len(seen'[registrations[i]]) : seen'[registrations[i]][k] # event
  <2>1. ~Told(i) /\ i # di
    BY <1>6, <1>10
  <2>2. seen'[registrations[i]] = seen[registrations[i]]
    BY <1>1, <1>4, <1>5, <2>1
  <2>3. QED
    BY <1>1, <2>1, <2>2 DEF SeenAlike
<1>11. QED
  BY <1>2, <1>7, <1>9, <1>10 DEF SeenAlike, Registered

LEMMA AlikeCallbackEnds ==
  ASSUME OwnerInOrder, HandlerInOrder, SeenAlike, CallbackEnds
  PROVE  SeenAlike'
<1>1. UNCHANGED <<targets, event, registrations, state, opc, subscription, seen>>
  BY DEF CallbackEnds, ownerVars, historyVars
<1>2. di \in 1..Registered /\ active # None /\ active' = None /\ di' = di + 1
  BY DEF CallbackEnds, HandlerInOrder
<1>3. \A i \in 1..Registered : Told(i)' <=> Told(i)
  BY <1>2 DEF Told, OwnerInOrder, Registered
<1>4. QED
  BY <1>1, <1>2, <1>3 DEF SeenAlike, Registered, OwnerInOrder

LEMMA AlikeHandlerEnds ==
  ASSUME OwnerInOrder, HandlerInOrder, SeenAlike, HandlerEnds
  PROVE  SeenAlike'
<1>1. UNCHANGED <<targets, event, registrations, state, opc, subscription, seen, active>>
  BY DEF HandlerEnds, ownerVars, historyVars
<1>2. di' = 0 /\ active = None /\ (di = 0 \/ di > Registered)
  BY DEF HandlerEnds, Registered
<1>3. \A i, j \in 1..Registered : (Told(i) <=> Told(j)) /\ ~Told(i)' /\ ~Told(j)'
  BY <1>1, <1>2 DEF Told, OwnerInOrder, HandlerInOrder, Registered
<1>4. QED
  BY <1>1, <1>2, <1>3 DEF SeenAlike, Registered

LEMMA AlikeEndDelivery ==
  ASSUME OwnerInOrder, HandlerInOrder, SeenAlike, EndDelivery
  PROVE  SeenAlike'
<1>1. UNCHANGED <<targets, di, registrations, state, opc, subscription, seen, active>>
  BY DEF EndDelivery, ownerVars, historyVars
<1>2. di = 0 /\ active = None
  BY HandlerOutside DEF EndDelivery
<1>3. targets = {}
  BY DEF EndDelivery
<1>4. \A i \in 1..Registered : ~Told(i) /\ ~Told(i)'
  BY <1>1, <1>2 DEF Told, OwnerInOrder, Registered
<1>5. QED
  BY <1>1, <1>2, <1>3, <1>4 DEF SeenAlike, Registered

LEMMA AlikeSteps ==
  ASSUME OwnerInOrder, HandlerInOrder, Numbered, FedInOrder, SeenInOrder, SeenAlike, [Next]_vars
  PROVE  SeenAlike'
<1>1. CASE \E s \in Strategies : Register(s)
  BY <1>1, AlikeRegister
<1>2. CASE Start \/ SubscribeEngine \/ Stop \/ Unsubscribe
  BY <1>2, AlikeStart, AlikeSubscribeEngine, AlikeStop
<1>3. CASE OnStart \/ StartFails \/ UnsubscribeFails \/ PassBarrier \/ OnStop \/ Stopped
  BY <1>3, AlikeOutside
<1>4. CASE Deliver
  BY <1>4, AlikeDeliver
<1>5. CASE \E entry \in targets : Invoke(entry)
  BY <1>5, AlikeInvoke
<1>6. CASE OnMarketEvent
  BY <1>6, AlikeOnMarketEvent
<1>7. CASE CallbackEnds \/ HandlerEnds \/ EndDelivery
  BY <1>7, AlikeCallbackEnds, AlikeHandlerEnds, AlikeEndDelivery
<1>8. ASSUME Feed \/ UNCHANGED vars \/ \E s \in Strategies : \E taken \in BOOLEAN : Emit(s, taken)
      PROVE  UNCHANGED alikeInvVars
  BY <1>8 DEF Feed, Emit, vars, alikeInvVars, ownerVars, busVars, dispVars, historyVars
<1>9. QED
  BY <1>1, <1>2, <1>3, <1>4, <1>5, <1>6, <1>7, <1>8, AlikeUnchanged DEF Next, Continue, Dispatch

-----------------------------------------------------------------------------
(* What a session's strategies have yet to be given.                       *)

leftInvVars ==
    <<subscription, entries, di, active, registrations, seen, offered, queue, event, targets>>

LEMMA LeftUnchanged ==
  ASSUME NoneLeftOut, UNCHANGED leftInvVars
  PROVE  NoneLeftOut'
BY DEF NoneLeftOut, leftInvVars, Registered, LastPlace, Queued, Pending, Told

LEMMA LeftOutside ==
  ASSUME OwnerInOrder, HandlerInOrder,
         \/ \E s \in Strategies : Register(s)
         \/ Start \/ OnStart \/ StartFails \/ UnsubscribeFails \/ PassBarrier \/ OnStop \/ Stopped
  PROVE  NoneLeftOut'
<1>1. di = 0 /\ active = None
  BY HandlerOutside, StrategyEngineAssumption
     DEF Register, Start, OnStart, StartFails, UnsubscribeFails, PassBarrier, OnStop, Stopped,
         OwnerInOrder, HandlerInOrder, Registered
<1>2. subscription = 0
  BY DEF Register, Start, OnStart, StartFails, UnsubscribeFails, PassBarrier, OnStop, Stopped,
         OwnerInOrder
<1>3. UNCHANGED <<subscription, di, active>>
  BY DEF Register, Start, OnStart, StartFails, UnsubscribeFails, PassBarrier, BeginStopping,
         OnStop, Stopped, dispVars
<1>4. QED
  BY <1>1, <1>2, <1>3 DEF NoneLeftOut

LEMMA LeftSubscribeEngine ==
  ASSUME OwnerInOrder, HandlerInOrder, SeenAlike, SubscribeEngine
  PROVE  NoneLeftOut'
<1>1. active' = None /\ UNCHANGED <<registrations, seen>>
  BY HandlerOutside DEF SubscribeEngine, historyVars, dispVars
<1>2. subscription' \in entries'
  BY DEF SubscribeEngine
<1>3. \A i \in 1..Registered : seen[registrations[i]] = <<>>
  BY DEF SubscribeEngine, SeenAlike, OwnerInOrder, Registered
<1>4. QED
  BY <1>1, <1>2, <1>3 DEF NoneLeftOut, Registered

LEMMA LeftStop ==
  ASSUME OwnerInOrder, HandlerInOrder, NoneLeftOut, Stop \/ Unsubscribe
  PROVE  NoneLeftOut'
<1>1. UNCHANGED <<di, active, registrations, seen, offered, queue, event, targets>>
  BY DEF Stop, Unsubscribe, dispVars, feedVars, historyVars
<1>2. subscription' = 0
  BY DEF Stop, Unsubscribe, OwnerInOrder
<1>3. di > 0 => subscription \notin targets
  BY DEF Stop, Unsubscribe, HandlerInOrder, OwnerInOrder
<1>4. \A i \in 1..Registered : di > 0 => (Pending(i) => Pending(i)')
  BY <1>1, <1>3 DEF Pending, Told
<1>5. QED
  BY <1>1, <1>2, <1>4 DEF NoneLeftOut, Registered, LastPlace, Queued

LEMMA LeftDeliver ==
  ASSUME OwnerInOrder, HandlerInOrder, Numbered, FedInOrder, NoneLeftOut, Deliver
  PROVE  NoneLeftOut'
<1>1. di = 0 /\ active = None
  <2>1. running = 0
    BY DEF HandlerInOrder, Deliver
  <2>2. QED
    BY <2>1, HandlerOutside
<1>2. UNCHANGED <<di, active, registrations, seen, offered, subscription, entries>>
      /\ targets' = entries /\ event = NoEvent
  BY DEF Deliver, ownerVars, busVars, historyVars
<1>3. event' # NoEvent /\ \A q : Queued(q) => q = event'.place \/ Queued(q)'
  BY FedDeliver
<1>4. subscription # 0 => \A i \in 1..Registered : Pending(i)'
  BY <1>2, <1>3 DEF NoneLeftOut, Pending
<1>5. \A i \in 1..Registered : ~Pending(i)
  BY <1>2 DEF Pending
<1>6. QED
  BY <1>1, <1>2, <1>3, <1>4, <1>5 DEF NoneLeftOut, Registered, LastPlace

LEMMA LeftInvoke ==
  ASSUME OwnerInOrder, HandlerInOrder, NoneLeftOut, NEW entry \in targets, Invoke(entry)
  PROVE  NoneLeftOut'
<1>1. di = 0 /\ active = None
  BY HandlerOutside DEF Invoke
<1>2. UNCHANGED <<active, registrations, seen, offered, queue, event, subscription, entries>>
      /\ targets' = targets \ {entry}
  BY DEF Invoke, ownerVars, busVars, feedVars, historyVars
<1>3. di' > 0 => subscription # 0
  BY DEF Invoke, Live, HandlerInOrder
<1>4. ASSUME subscription # 0, subscription = entry
      PROVE  di' = 1
  BY <1>1, <1>4 DEF Invoke, Live, NoneLeftOut, OwnerInOrder
<1>5. ASSUME subscription # 0, NEW i \in 1..Registered, Pending(i)
      PROVE  Pending(i)'
  <2>1. event # NoEvent /\ subscription \in targets
    BY <1>1, <1>5 DEF Pending
  <2>2. CASE subscription = entry
    <3>1. ~Told(i)'
      BY <1>1, <1>2, <1>4, <1>5, <2>2 DEF Told, OwnerInOrder, Registered
    <3>2. QED
      BY <1>2, <1>4, <1>5, <2>1, <2>2, <3>1 DEF Pending
  <2>3. CASE subscription # entry
    BY <1>2, <2>1, <2>3 DEF Pending
  <2>4. QED
    BY <2>2, <2>3
<1>6. QED
  BY <1>1, <1>2, <1>3, <1>5 DEF NoneLeftOut, Registered, LastPlace, Queued

LEMMA LeftOnMarketEvent ==
  ASSUME OwnerInOrder, HandlerInOrder, FedInOrder, SeenInOrder, NoneLeftOut, OnMarketEvent
  PROVE  NoneLeftOut'
<1>01. PICK s : s = registrations[di]
  OBVIOUS
<1>1. /\ di \in 1..Registered /\ s \in Strategies /\ Registered \in Nat
      /\ \A i \in 1..Registered : registrations[i] \in Strategies
      /\ \A i \in 1..Registered : registrations[i] = s <=> i = di
  BY <1>01 DEF OnMarketEvent, OwnerInOrder, Registered
<1>2. UNCHANGED <<di, registrations, offered, queue, event, targets, subscription, entries>>
  BY DEF OnMarketEvent, ownerVars, busVars, dispVars, feedVars
<1>3. active = None /\ active' = s
  BY <1>01 DEF OnMarketEvent
<1>4. event # NoEvent /\ subscription \notin targets
  <2>1. 0 \notin targets /\ running \notin targets
    BY DEF HandlerInOrder
  <2>2. QED
    BY <1>1, <2>1 DEF HandlerInOrder, OwnerInOrder
<1>5. event \in FeedEvents
  BY <1>4, FedNotNone DEF FedInOrder
<1>6. /\ seen' \in [Strategies -> Seq(FeedEvents)]
      /\ \A t \in Strategies : t # s => seen'[t] = seen[t]
      /\ seen'[s] = Append(seen[s], event) /\ seen[s] \in Seq(FeedEvents)
  BY <1>01, <1>1, <1>5 DEF SeenInOrder, OnMarketEvent
<1>7. seen'[s] # <<>> /\ seen'[s][Len(seen'[s])] = event
  <2>1. Len(seen'[s]) = Len(seen[s]) + 1 /\ Len(seen[s]) \in Nat
        /\ seen'[s][Len(seen[s]) + 1] = event
    BY <1>5, <1>6, AppendOne
  <2>2. QED
    BY <2>1
<1>8. \A t \in {s} : LastPlace(t)' = event.place
  BY <1>7 DEF LastPlace
<1>9. ASSUME NEW i \in 1..Registered, seen'[registrations[i]] # <<>>,
             NEW p \in 1..Len(offered), offered[p].taken,
             \A t \in {registrations[i]} : p > LastPlace(t)'
      PROVE  Queued(p) \/ (p = event.place /\ Pending(i)')
  <2>1. CASE i = di
    <3>1. p > event.place
      BY <1>8, <1>9, <2>1, <1>1
    <3>2. QED
      BY <1>4, <1>9, <3>1 DEF FedInOrder
  <2>2. CASE i # di
    <3>1. seen'[registrations[i]] = seen[registrations[i]]
      BY <1>1, <1>6, <2>2
    <3>2. p > LastPlace(registrations[i])
      BY <1>9, <3>1 DEF LastPlace
    <3>3. Queued(p) \/ (p = event.place /\ Pending(i))
      BY <1>1, <1>9, <3>1, <3>2 DEF NoneLeftOut
    <3>4. Pending(i) => Pending(i)'
      BY <1>2, <1>4, <2>2 DEF Pending, Told
    <3>5. QED
      BY <3>3, <3>4
  <2>3. QED
    BY <2>1, <2>2
<1>10. \A i \in 1..Registered : seen'[registrations[i]] # <<>> =>
          \A p \in 1..Len(offered) :
             offered[p].taken /\ p > LastPlace(registrations[i])'
                => Queued(p) \/ (p = event.place /\ Pending(i)')
  BY <1>2, <1>9
<1>11. LastPlace(active)' = event.place
  BY <1>3, <1>7 DEF LastPlace
<1>12. QED
  BY <1>2, <1>10, <1>11 DEF NoneLeftOut, Registered, Queued

LEMMA LeftCallbackEnds ==
  ASSUME OwnerInOrder, HandlerInOrder, NoneLeftOut, CallbackEnds
  PROVE  NoneLeftOut'
<1>1. UNCHANGED <<registrations, seen, offered, queue, event, targets, subscription, entries>>
  BY DEF CallbackEnds, ownerVars, busVars, feedVars, historyVars
<1>2. di \in 1..Registered /\ active # None /\ active' = None /\ di' = di + 1
  BY DEF CallbackEnds, HandlerInOrder
<1>3. \A i \in 1..Registered : Told(i)' <=> Told(i)
  BY <1>2 DEF Told, OwnerInOrder, Registered
<1>4. \A i \in 1..Registered : Pending(i) => Pending(i)'
  BY <1>1, <1>2, <1>3 DEF Pending, Registered, OwnerInOrder
<1>5. di > 0
  BY <1>2 DEF OwnerInOrder, Registered
<1>6. QED
  BY <1>1, <1>2, <1>4, <1>5 DEF NoneLeftOut, Registered, LastPlace, Queued

LEMMA LeftHandlerEnds ==
  ASSUME OwnerInOrder, HandlerInOrder, NoneLeftOut, HandlerEnds
  PROVE  NoneLeftOut'
<1>1. UNCHANGED <<active, registrations, seen, offered, queue, event, targets, subscription,
                  entries>>
  BY DEF HandlerEnds, ownerVars, busVars, feedVars, historyVars
<1>2. di' = 0 /\ active = None /\ (di = 0 \/ di > Registered)
  BY DEF HandlerEnds, Registered
<1>3. \A i \in 1..Registered : Pending(i) => Pending(i)'
  BY <1>1, <1>2 DEF Pending, Told, OwnerInOrder, HandlerInOrder, Registered
<1>4. QED
  BY <1>1, <1>2, <1>3 DEF NoneLeftOut, Registered, LastPlace, Queued

LEMMA LeftEndDelivery ==
  ASSUME OwnerInOrder, HandlerInOrder, NoneLeftOut, EndDelivery
  PROVE  NoneLeftOut'
<1>1. UNCHANGED <<active, di, registrations, seen, offered, queue, subscription, entries>>
  BY DEF EndDelivery, ownerVars, busVars, feedVars, historyVars
<1>2. di = 0 /\ active = None
  BY HandlerOutside DEF EndDelivery
<1>3. targets = {}
  BY DEF EndDelivery
<1>4. \A i \in 1..Registered : ~Pending(i)
  BY <1>2, <1>3 DEF Pending
<1>5. QED
  BY <1>1, <1>2, <1>4 DEF NoneLeftOut, Registered, LastPlace, Queued

LEMMA LeftFeed ==
  ASSUME Numbered, FedInOrder, NoneLeftOut, Feed
  PROVE  NoneLeftOut'
<1>1. PICK taken \in BOOLEAN : OnBar(taken)
  BY DEF Feed
<1>2. UNCHANGED <<subscription, entries, di, active, registrations, seen, event, targets>>
  BY DEF Feed, ownerVars, busVars, dispVars, historyVars
<1>3. CASE UNCHANGED <<offered, queue>>
  BY <1>2, <1>3, LeftUnchanged DEF leftInvVars
<1>4. CASE Published(taken)
  <2>1. ASSUME NEW p \in 1..Len(offered'), offered'[p].taken, NEW i \in 1..Registered,
               (p \in 1..Len(offered) /\ offered[p].taken)
                  => Queued(p) \/ (p = event.place /\ Pending(i))
        PROVE  Queued(p)' \/ (p = event.place /\ Pending(i))
    <3>1. CASE p \in 1..Len(offered)
      <4>1. offered[p].taken
        BY <1>4, <2>1, <3>1 DEF Published
      <4>2. QED
        BY <1>4, <2>1, <3>1, <4>1, FedPublished
    <3>2. CASE p \notin 1..Len(offered)
      BY <1>4, <2>1, <3>2, StillQueued
    <3>3. QED
      BY <3>1, <3>2
  <2>2. ASSUME subscription # 0 \/ di > 0, NEW i \in 1..Registered,
               seen[registrations[i]] # <<>>, NEW p \in 1..Len(offered'), offered'[p].taken,
               p > LastPlace(registrations[i])
        PROVE  Queued(p)' \/ (p = event.place /\ Pending(i))
    <3>1. (p \in 1..Len(offered) /\ offered[p].taken)
             => Queued(p) \/ (p = event.place /\ Pending(i))
      BY <2>2 DEF NoneLeftOut
    <3>2. QED
      BY <2>1, <2>2, <3>1
  <2>3. \A i \in 1..Registered : Pending(i)' <=> Pending(i)
    BY <1>2 DEF Pending, Told
  <2>4. QED
    BY <1>2, <2>2, <2>3 DEF NoneLeftOut, Registered, LastPlace
<1>5. QED
  BY <1>1, <1>3, <1>4, OfferBar

LEMMA LeftSteps ==
  ASSUME OwnerInOrder, HandlerInOrder, Numbered, FedInOrder, SeenInOrder, SeenAlike, NoneLeftOut,
         [Next]_vars
  PROVE  NoneLeftOut'
<1>1. CASE \/ \E s \in Strategies : Register(s)
           \/ Start \/ OnStart \/ StartFails \/ UnsubscribeFails \/ PassBarrier \/ OnStop
           \/ Stopped
  BY <1>1, LeftOutside
<1>2. CASE SubscribeEngine \/ Stop \/ Unsubscribe
  BY <1>2, LeftSubscribeEngine, LeftStop
<1>3. CASE Deliver
  BY <1>3, LeftDeliver
<1>4. CASE \E entry \in targets : Invoke(entry)
  BY <1>4, LeftInvoke
<1>5. CASE OnMarketEvent
  BY <1>5, LeftOnMarketEvent
<1>6. CASE CallbackEnds \/ HandlerEnds \/ EndDelivery
  BY <1>6, LeftCallbackEnds, LeftHandlerEnds, LeftEndDelivery
<1>7. CASE Feed
  BY <1>7, LeftFeed
<1>8. ASSUME UNCHANGED vars \/ \E s \in Strategies : \E taken \in BOOLEAN : Emit(s, taken)
      PROVE  UNCHANGED leftInvVars
  BY <1>8 DEF Emit, vars, leftInvVars, feedVars, ownerVars, busVars, dispVars, historyVars
<1>9. QED
  BY <1>1, <1>2, <1>3, <1>4, <1>5, <1>6, <1>7, <1>8, LeftUnchanged DEF Next, Continue, Dispatch

-----------------------------------------------------------------------------
(* The signals.                                                            *)

signalInvVars == <<emits, signalIds, signals, kept, offered, queue, event>>

LEMMA SignalsUnchanged ==
  ASSUME SignalsInOrder, UNCHANGED signalInvVars, failures' = failures \/ Fail
  PROVE  SignalsInOrder'
<1>1. failures' \in 0..MaxFailures
  BY StrategyEngineAssumption DEF SignalsInOrder, Fail
<1>2. QED
  BY <1>1 DEF SignalsInOrder, signalInvVars, SignalsFromCallbacks

LEMMA SignalPlace ==
  ASSUME SignalsInOrder, NEW i \in 1..Len(signals)
  PROVE  signals[i].during \in Nat
<1>1. signals[i] \in Signal
  BY DEF SignalsInOrder
<1>2. QED
  BY <1>1 DEF Signal

LEMMA SignalsDeliver ==
  ASSUME Numbered, FedInOrder, SignalsInOrder, Deliver
  PROVE  SignalsInOrder'
<1>1. UNCHANGED <<emits, signalIds, signals, kept, offered, failures>>
  BY DEF Deliver, historyVars, signalVars
<1>2. /\ event' = queue[1] /\ 1 \in 1..Len(queue) /\ event'.place \in Nat
      /\ \A j \in 1..Len(queue') : j + 1 \in 1..Len(queue) /\ queue'[j] = queue[j + 1]
  BY FedDeliver, FedNotNone
<1>3. ASSUME NEW i \in 1..Len(signals)
      PROVE  /\ \A j \in 1..Len(queue') : signals[i].during < queue'[j].place
             /\ signals[i].during <= event'.place
  <2>1. signals[i].during \in Nat
    BY SignalPlace
  <2>2. \A j \in 1..Len(queue) : signals[i].during < queue[j].place
    BY DEF SignalsInOrder
  <2>3. signals[i].during < event'.place
    BY <1>2, <2>2
  <2>4. QED
    BY <1>2, <2>1, <2>2, <2>3
<1>4. QED
  BY <1>1, <1>3 DEF SignalsInOrder, SignalsFromCallbacks

LEMMA SignalsFeed ==
  ASSUME Numbered, FedInOrder, SignalsInOrder, Feed
  PROVE  SignalsInOrder'
<1>1. PICK taken \in BOOLEAN : OnBar(taken)
  BY DEF Feed
<1>2. UNCHANGED <<emits, signalIds, signals, kept, event, failures>>
  BY DEF Feed, dispVars, historyVars, signalVars
<1>3. CASE UNCHANGED <<offered, queue>>
  BY <1>2, <1>3, SignalsUnchanged DEF signalInvVars
<1>4. CASE Published(taken)
  <2>1. ASSUME NEW i \in 1..Len(signals)
        PROVE  /\ signals[i].during <= Len(offered')
               /\ \A j \in 1..Len(queue') : signals[i].during < queue'[j].place
    <3>1. signals[i].during \in Nat /\ signals[i].during <= Len(offered)
          /\ \A j \in 1..Len(queue) : signals[i].during < queue[j].place
      BY SignalPlace DEF SignalsInOrder
    <3>2. Len(offered') = Len(offered) + 1 /\ Len(offered) \in Nat
      BY <1>4 DEF Published
    <3>3. ASSUME NEW j \in 1..Len(queue')
          PROVE  signals[i].during < queue'[j].place
      <4>1. CASE j \in 1..Len(queue)
        <5>1. queue'[j] = queue[j]
          BY <1>4, <4>1 DEF Published
        <5>2. QED
          BY <3>1, <4>1, <5>1
      <4>2. CASE j \notin 1..Len(queue)
        <5>1. queue'[j].place = Len(offered) + 1
          BY <1>4, <4>2 DEF Published
        <5>2. QED
          BY <3>1, <3>2, <5>1
      <4>3. QED
        BY <4>1, <4>2
    <3>4. QED
      BY <3>1, <3>2, <3>3
  <2>2. QED
    BY <1>2, <2>1 DEF SignalsInOrder, SignalsFromCallbacks
<1>5. QED
  BY <1>1, <1>3, <1>4, OfferBar

(* While a strategy is called back, no other code of a strategy runs.      *)
LEMMA OneCaller ==
  ASSUME OwnerInOrder, HandlerInOrder, active # None
  PROVE  /\ Callers = {[thread |-> "dispatcher", strategy |-> active]}
         /\ active \in Strategies /\ event # NoEvent
<1>1. di \in 1..Registered /\ active = registrations[di] /\ Registered \in Nat
  BY DEF HandlerInOrder, OwnerInOrder, Registered
<1>2. opc \notin {"start", "undo", "stop"} /\ event # NoEvent
  BY <1>1 DEF HandlerInOrder
<1>3. active \in Strategies
  BY <1>1 DEF OwnerInOrder, Registered
<1>4. QED
  BY <1>2, <1>3 DEF Callers

LEMMA SignalsEmit ==
  ASSUME OwnerInOrder, HandlerInOrder, Numbered, FedInOrder, NoneLeftOut, SignalsInOrder,
         NEW s \in Strategies, NEW taken \in BOOLEAN, Emit(s, taken)
  PROVE  SignalsInOrder'
<1>1. /\ emits \in Nat /\ emits' = emits + 1 /\ emits' \in 0..MaxEmits
      /\ signalIds \in 0..emits /\ signalIds \in Nat
      /\ UNCHANGED <<failures, kept, offered, queue, event>>
  BY StrategyEngineAssumption DEF SignalsInOrder, Emit, feedVars, dispVars, historyVars
<1>2. /\ signalIds' \in 0..emits' /\ signalIds <= signalIds'
  BY <1>1 DEF Emit
<1>3. ASSUME NEW i \in 1..Len(signals)
      PROVE  signals[i].id \in 1..signalIds'
  <2>1. signals[i].id \in 1..signalIds
    BY DEF SignalsInOrder
  <2>2. QED
    BY <1>1, <1>2, <2>1
<1>4. CASE signals' = signals
  BY <1>1, <1>2, <1>3, <1>4 DEF SignalsInOrder, SignalsFromCallbacks
<1>5. CASE signals' # signals
  <2>1. /\ active = s /\ s # None /\ signalIds' = signalIds + 1
        /\ \E caller \in Callers :
              signals' = Append(signals, [id |-> signalIds + 1, strategy |-> s, by |-> caller,
                                          during |-> event.place, after |-> LastPlace(s)])
    BY <1>5, StrategyEngineAssumption DEF Emit, SinkLive
  <2>2. Callers = {[thread |-> "dispatcher", strategy |-> s]} /\ event # NoEvent
    BY <2>1, OneCaller
  <2> DEFINE new == [id |-> signalIds + 1, strategy |-> s,
                     by |-> [thread |-> "dispatcher", strategy |-> s],
                     during |-> event.place, after |-> LastPlace(s)]
  <2>3. signals' = Append(signals, new)
    BY <2>1, <2>2
  <2>4. LastPlace(s) = event.place
    BY <2>1 DEF NoneLeftOut
  <2>5. /\ Fed(event) /\ event.place \in Nat /\ event.place <= Len(offered)
        /\ \A j \in 1..Len(queue) : event.place < queue[j].place
    BY <2>2, FedNotNone DEF FedInOrder, Precedes, Numbered
  <2>6. /\ new \in Signal /\ new.id = signalIds' /\ new.strategy = s
        /\ new.by = [thread |-> "dispatcher", strategy |-> s]
        /\ new.during = event.place /\ new.after = event.place
    BY <1>1, <2>1, <2>4, <2>5 DEF Signal
  <2> HIDE DEF new
  <2>7. /\ signals' \in Seq(Signal) /\ Len(signals') = Len(signals) + 1 /\ Len(signals) \in Nat
        /\ signals'[Len(signals) + 1] = new
        /\ \A i \in 1..Len(signals) : signals'[i] = signals[i]
        /\ DOMAIN signals' = 1..Len(signals') /\ DOMAIN signals = 1..Len(signals)
    <3>1. signals \in Seq(Signal)
      BY DEF SignalsInOrder
    <3>2. QED
      BY <2>3, <2>6, <3>1, AppendOne
  <2>8. ASSUME NEW i \in 1..Len(signals)
        PROVE  /\ signals'[i] = signals[i]
               /\ signals[i].id \in 1..signalIds
               /\ signals[i].during <= event.place /\ signals[i].during <= Len(offered)
               /\ \A j \in 1..Len(queue) : signals[i].during < queue[j].place
               /\ signals[i].by = [thread |-> "dispatcher", strategy |-> signals[i].strategy]
               /\ signals[i].during = signals[i].after
    BY <2>2, <2>7 DEF SignalsInOrder, SignalsFromCallbacks
  <2>9. ASSUME NEW i \in 1..Len(signals')
        PROVE  /\ signals'[i].id \in 1..signalIds'
               /\ signals'[i].during <= event.place /\ signals'[i].during <= Len(offered)
               /\ \A j \in 1..Len(queue) : signals'[i].during < queue[j].place
               /\ signals'[i].by = [thread |-> "dispatcher", strategy |-> signals'[i].strategy]
               /\ signals'[i].during = signals'[i].after
    <3>1. CASE i \in 1..Len(signals)
      BY <1>3, <2>8, <3>1
    <3>2. CASE i = Len(signals) + 1
      <4>1. signals'[i] = new /\ signalIds' \in 1..signalIds'
        BY <1>1, <2>1, <2>7, <3>2
      <4>2. QED
        BY <2>5, <2>6, <4>1
    <3>3. QED
      BY <2>7, <3>1, <3>2
  <2>10. ASSUME NEW i \in 1..Len(signals'), NEW j \in 1..Len(signals'), i < j
         PROVE  /\ signals'[i].id < signals'[j].id
                /\ signals'[i].during <= signals'[j].during
    <3>1. i \in 1..Len(signals)
      BY <2>7, <2>10
    <3>2. CASE j \in 1..Len(signals)
      BY <2>7, <2>8, <2>10, <3>1, <3>2 DEF SignalsInOrder, SignalsFromCallbacks
    <3>3. CASE j = Len(signals) + 1
      <4>1. signals'[j] = new /\ signals'[i] = signals[i] /\ signals[i].id \in 1..signalIds
            /\ signals[i].during <= event.place
        BY <2>7, <2>8, <3>1, <3>3
      <4>2. QED
        BY <1>1, <2>1, <2>6, <4>1
    <3>4. QED
      BY <2>7, <3>2, <3>3
  <2>11. SignalsFromCallbacks'
    BY <2>7, <2>9, <2>10 DEF SignalsFromCallbacks
  <2>12. kept' \subseteq Strategies
    BY <1>1 DEF SignalsInOrder
  <2>13. \A i \in 1..Len(signals') :
            /\ signals'[i].id \in 1..signalIds'
            /\ signals'[i].during <= Len(offered')
            /\ \A j \in 1..Len(queue') : signals'[i].during < queue'[j].place
            /\ event' # NoEvent => signals'[i].during <= event'.place
    BY <1>1, <2>9
  <2>14. failures' \in 0..MaxFailures /\ signals' \in Seq(Signal)
    BY <1>1, <2>7 DEF SignalsInOrder
  <2>15. QED
    BY <1>1, <1>2, <2>11, <2>12, <2>13, <2>14 DEF SignalsInOrder
<1>6. QED
  BY <1>4, <1>5

LEMMA SignalsSteps ==
  ASSUME OwnerInOrder, HandlerInOrder, Numbered, FedInOrder, NoneLeftOut, SignalsInOrder,
         [Next]_vars
  PROVE  SignalsInOrder'
<1>1. CASE \E s \in Strategies : \E taken \in BOOLEAN : Emit(s, taken)
  BY <1>1, SignalsEmit
<1>2. CASE Deliver
  BY <1>2, SignalsDeliver
<1>3. CASE Feed
  BY <1>3, SignalsFeed
<1>4. CASE OnMarketEvent
  <2>1. UNCHANGED <<emits, signalIds, signals, offered, queue, event, failures>>
    BY <1>4 DEF OnMarketEvent, feedVars, dispVars, signalVars
  <2>2. kept' \subseteq Strategies
    BY <1>4 DEF OnMarketEvent, SignalsInOrder, OwnerInOrder
  <2>3. QED
    BY <2>1, <2>2 DEF SignalsInOrder, SignalsFromCallbacks
<1>5. CASE EndDelivery
  <2>1. UNCHANGED <<emits, signalIds, signals, kept, offered, queue, failures>> /\ event' = NoEvent
    BY <1>5 DEF EndDelivery, feedVars, historyVars, signalVars
  <2>2. QED
    BY <2>1 DEF SignalsInOrder, SignalsFromCallbacks
<1>6. ASSUME \/ \E s \in Strategies : Register(s)
             \/ Start \/ StartFails \/ Stop \/ UnsubscribeFails \/ Continue
             \/ \E entry \in targets : Invoke(entry)
             \/ CallbackEnds \/ HandlerEnds \/ UNCHANGED vars
      PROVE  UNCHANGED signalInvVars /\ (failures' = failures \/ Fail)
  BY <1>6 DEF Register, Start, StartFails, Stop, UnsubscribeFails, Continue, Invoke,
              CallbackEnds, HandlerEnds, vars, OnStart, SubscribeEngine, Unsubscribe,
              PassBarrier, BeginStopping, OnStop, Stopped, feedVars, dispVars, historyVars,
              signalVars, signalInvVars
<1>7. QED
  BY <1>1, <1>2, <1>3, <1>4, <1>5, <1>6, SignalsUnchanged DEF Next, Dispatch

-----------------------------------------------------------------------------
(* The invariant.                                                          *)

LEMMA Reading ==
  ASSUME NEW f \in Files
  PROVE  /\ ReadBarCsv(f) \in Seq(OfferedBars)
         /\ \A i \in 1..Len(ReadBarCsv(f)) : ReadBarCsv(f)[i].symbol \in SymbolsOf(f)
<1>01. PICK n : n = Len(f.rows)
  OBVIOUS
<1>1. n \in Nat /\ DOMAIN f.rows = 1..n
  BY <1>01, FilesAssumption
<1>2. CASE ReadBarCsv(f) = <<>>
  BY <1>2
<1>3. CASE ReadBarCsv(f) # <<>>
  <2>1. ReadBarCsv(f) = [i \in 1..n |-> BarOf(f.rows[i])]
    BY <1>1, <1>3 DEF ReadBarCsv
  <2>2. \A i \in 1..n : BarOf(f.rows[i]) \in OfferedBars /\ BarOf(f.rows[i]).symbol \in SymbolsOf(f)
    BY <1>1 DEF OfferedBars, SymbolsOf
  <2>3. QED
    BY <1>1, <2>1, <2>2
<1>4. QED
  BY <1>2, <1>3

LEMMA EngineInit == Init => EngineInv
<1> SUFFICES ASSUME Init PROVE EngineInv
  OBVIOUS
<1> USE StrategyEngineAssumption
<1>1. OwnerInOrder
  BY DEF Init, OwnerInOrder, StartedCount, Registered
<1>2. HandlerInOrder
  BY DEF Init, HandlerInOrder, Registered
<1>3. Numbered /\ FedInOrder
  <2>1. PICK f \in Files :
           /\ file = ReadBarCsv(f)
           /\ counters = [s \in SymbolsOf(f) |-> 0]
           /\ queue = <<>> /\ offered = <<>>
    BY DEF Init, MarketDataInit
  <2>2. /\ counters \in [DOMAIN counters -> Nat] /\ DOMAIN counters = SymbolsOf(f)
        /\ \A symbol \in DOMAIN counters : counters[symbol] = 0
        /\ queue \in Seq(FeedEvents) /\ Len(queue) = 0
        /\ offered \in Seq(Offers) /\ Len(offered) = 0 /\ event = NoEvent
    BY <2>1 DEF Init
  <2>3. Numbered
    BY <2>2 DEF Numbered
  <2>4. FedInOrder
    BY <2>1, <2>2, Reading DEF FedInOrder
  <2>5. QED
    BY <2>3, <2>4
<1>4. SeenInOrder
  <2>1. \A s \in Strategies : seen[s] = <<>> /\ Len(seen[s]) = 0 /\ DOMAIN seen[s] = {}
    BY DEF Init
  <2>2. seen \in [Strategies -> Seq(FeedEvents)]
    BY DEF Init
  <2>3. QED
    BY <2>1, <2>2 DEF SeenInOrder, SeenAsPublished
<1>5. SeenAlike
  BY DEF Init, SeenAlike
<1>6. NoneLeftOut
  BY DEF Init, NoneLeftOut
<1>7. SignalsInOrder
  <2>1. signals = <<>> /\ Len(signals) = 0 /\ DOMAIN signals = {} /\ signals \in Seq(Signal)
    BY DEF Init
  <2>2. QED
    BY <2>1 DEF Init, SignalsInOrder, SignalsFromCallbacks
<1>8. QED
  BY <1>1, <1>2, <1>3, <1>4, <1>5, <1>6, <1>7 DEF EngineInv

LEMMA EngineStep == EngineInv /\ [Next]_vars => EngineInv'
<1> SUFFICES ASSUME EngineInv, [Next]_vars PROVE EngineInv'
  OBVIOUS
<1>1. OwnerInOrder'
  BY OwnerSteps DEF EngineInv
<1>2. Deliver => event' # NoEvent
  BY FedDeliver DEF EngineInv
<1>3. HandlerInOrder'
  BY <1>2, HandlerSteps DEF EngineInv
<1>4. Numbered' /\ FedInOrder'
  BY FedSteps DEF EngineInv
<1>5. SeenInOrder' /\ SeenAlike'
  BY SeenSteps, AlikeSteps DEF EngineInv
<1>6. NoneLeftOut' /\ SignalsInOrder'
  BY LeftSteps, SignalsSteps DEF EngineInv
<1>7. QED
  BY <1>1, <1>3, <1>4, <1>5, <1>6 DEF EngineInv

LEMMA EngineInvHolds == Spec => []EngineInv
<1>1. Init => EngineInv
  BY EngineInit
<1>2. EngineInv /\ [Next]_vars => EngineInv'
  BY EngineStep
<1>3. QED
  BY <1>1, <1>2, PTL DEF Spec

(* Registered once each, the strategies in use are no more than there are. *)
LEMMA FewRegistered ==
  ASSUME OwnerInOrder
  PROVE  Len(registrations) <= Cardinality(Strategies)
<1> DEFINE n == Len(registrations)
<1>1. n \in Nat /\ registrations \in [1..n -> Strategies]
  BY DEF OwnerInOrder
<1>2. registrations \in Injection(1..n, Strategies)
  BY <1>1 DEF OwnerInOrder, Injection, IsInjective, Registered
<1>3. IsFiniteSet(Strategies)
  BY StrategyEngineAssumption
<1>4. Cardinality(1..n) = n
  <2>1. 1 \in Int /\ n \in Int
    BY <1>1
  <2> HIDE DEF n
  <2>2. Cardinality(1..n) = IF 1 > n THEN 0 ELSE n - 1 + 1
    BY <2>1, FS_Interval, Zenon
  <2>3. QED
    BY <1>1, <2>2
<1>5. Cardinality(1..n) <= Cardinality(Strategies)
  BY <1>2, <1>3, FS_Injection, Zenon
<1>6. QED
  BY <1>4, <1>5

(* No callback of a strategy overlaps another or comes before its start or *)
(* after its stop, whatever fails and however often the engine is stopped  *)
(* and started while the bus delivers; and a session gives a strategy its  *)
(* events in the order in which they were published, none that the bus     *)
(* took left out between the first and the last.                           *)
THEOREM CallbacksStayInOrder == Spec => []CallbacksInOrder
<1>1. ASSUME EngineInv PROVE CallbacksInOrder
  <2> USE <1>1 DEF EngineInv
  <2>1. Registered \in Nat /\ lastEntry \in Nat /\ Len(registrations) <= Cardinality(Strategies)
    BY FewRegistered, StrategyEngineAssumption DEF OwnerInOrder, Registered
  <2>2. active # None => active \in Strategies /\ active = registrations[di] /\ di \in 1..Registered
    BY DEF OwnerInOrder, HandlerInOrder, Registered
  <2>3. oi \in 0..(Registered + 1 + lastEntry)
    BY <2>1 DEF OwnerInOrder
  <2>4. TypeOK
    BY <2>1, <2>2, <2>3
       DEF TypeOK, OwnerInOrder, HandlerInOrder, SignalsInOrder, Registered
  <2>5. EventsWhileStarted
    <3>1. SUFFICES ASSUME active # None
                   PROVE  life[active] = "started" /\ opc \notin {"start", "undo", "stop"}
      BY DEF EventsWhileStarted
    <3>2. /\ state = "Running" /\ opc \in {"idle", "unsubscribe", "barrier"}
          /\ StartedCount = Registered
      BY <2>2, <3>1 DEF HandlerInOrder, StartedCount
    <3>3. QED
      BY <2>2, <3>1, <3>2 DEF OwnerInOrder
  <2>6. NothingHalfStarted
    BY DEF NothingHalfStarted, OwnerInOrder, StartedCount
  <2>7. SeenAsPublished
    BY DEF SeenInOrder
  <2>8. QED
    BY <2>4, <2>5, <2>6, <2>7 DEF CallbacksInOrder
<1>2. QED
  BY <1>1, EngineInvHolds, PTL

(* Every strategy of a session sees its events, and each event once, also  *)
(* when an earlier session's subscription could not be removed.            *)
THEOREM EventsSeenOnceByAll == Spec => []SeenOnceByAll
<1>1. ASSUME EngineInv PROVE SeenOnceByAll
  <2> USE <1>1 DEF EngineInv
  <2>1. AllSeeTheSame
    <3>1. SUFFICES ASSUME state = "Running", di = 0,
                          NEW i \in 1..Registered, NEW j \in 1..Registered
                   PROVE  seen[registrations[i]] = seen[registrations[j]]
      BY DEF AllSeeTheSame, OwnerInOrder, Registered
    <3>2. ~Told(i) /\ ~Told(j)
      BY <3>1 DEF Told, HandlerInOrder, OwnerInOrder, Registered
    <3>3. QED
      BY <3>1, <3>2 DEF SeenAlike
  <2>2. SeenOnce
    <3>1. ASSUME NEW s \in Strategies, NEW a \in DOMAIN seen[s], NEW b \in DOMAIN seen[s],
                 seen[s][a] = seen[s][b]
          PROVE  a = b
      <4>1. a \in 1..Len(seen[s]) /\ b \in 1..Len(seen[s]) /\ seen[s][a].place \in Nat
        BY FedNotNone DEF SeenInOrder
      <4>2. ~(a < b) /\ ~(b < a)
        BY <3>1, <4>1 DEF SeenInOrder, SeenAsPublished
      <4>3. QED
        BY <4>1, <4>2
    <3>2. QED
      BY <3>1 DEF SeenOnce
  <2>3. QED
    BY <2>1, <2>2 DEF SeenOnceByAll
<1>2. QED
  BY <1>1, EngineInvHolds, PTL

(* Every signal the bus took was emitted inside the callback of the        *)
(* strategy whose name it bears, for the event that strategy was given     *)
(* last, and never from an on_stop() that stop() made too early; ids grow  *)
(* and signals keep the order of their events.                             *)
THEOREM SignalsComeFromCallbacks == Spec => []SignalsFromCallbacks
<1>1. EngineInv => SignalsFromCallbacks
  BY DEF EngineInv, SignalsInOrder
<1>2. QED
  BY <1>1, EngineInvHolds, PTL

(* Two publications of a symbol bear different numbers, the later one the  *)
(* greater.                                                                *)
LEMMA NumbersTell ==
  ASSUME Numbered, NEW p \in 1..Len(offered), NEW q \in 1..Len(offered),
         offered[p].bar.symbol = offered[q].bar.symbol
  PROVE  /\ offered[p].sequence \in Nat /\ offered[q].sequence \in Nat
         /\ offered[p].sequence < offered[q].sequence <=> p < q
         /\ offered[p].sequence = offered[q].sequence <=> p = q
<1>1. offered[p].sequence \in Nat /\ offered[q].sequence \in Nat
  <2>1. offered[p] \in Offers /\ offered[q] \in Offers
    BY DEF Numbered
  <2>2. QED
    BY <2>1 DEF Offers
<1>2. p < q => offered[p].sequence < offered[q].sequence
  <2>1. p < q => p \in 1..(q - 1)
    OBVIOUS
  <2>2. QED
    BY <2>1 DEF Numbered
<1>3. q < p => offered[q].sequence < offered[p].sequence
  <2>1. q < p => q \in 1..(p - 1)
    OBVIOUS
  <2>2. QED
    BY <2>1 DEF Numbered
<1>4. p < q \/ p = q \/ q < p
  OBVIOUS
<1>5. QED
  BY <1>1, <1>2, <1>3, <1>4

(* Of two bars of a symbol that a strategy was given in a session, the     *)
(* numbers between theirs that it was not given are those of the bars that *)
(* the bus refused in between: a loss shows, and neither a restart nor a   *)
(* bar that was refused before its number was given looks like one.        *)
THEOREM LossStaysVisible == Spec => []LossIsVisible
<1>1. ASSUME EngineInv PROVE LossIsVisible
  <2> SUFFICES ASSUME NEW s \in Strategies, NEW i \in DOMAIN seen[s], NEW j \in DOMAIN seen[s],
                      i < j, seen[s][i].bar.symbol = seen[s][j].bar.symbol
               PROVE  NumbersMissing(s, seen[s][i], seen[s][j])
                        = NumbersRefused(seen[s][i], seen[s][j])
    BY DEF LossIsVisible
  <2> USE <1>1 DEF EngineInv
  <2> DEFINE e == seen[s][i]
             f == seen[s][j]
             symbol == e.bar.symbol
             given == {seen[s][k].sequence : k \in {k \in DOMAIN seen[s] :
                                                     seen[s][k].bar.symbol = symbol}}
  <2>1. DOMAIN seen[s] = 1..Len(seen[s])
    BY DEF SeenInOrder
  <2>2. \A k \in DOMAIN seen[s] :
           /\ seen[s][k].place \in 1..Len(offered) /\ seen[s][k].place \in Nat
           /\ offered[seen[s][k].place].taken
           /\ offered[seen[s][k].place].bar = seen[s][k].bar
           /\ offered[seen[s][k].place].sequence = seen[s][k].sequence
    BY <2>1, FedNotNone DEF SeenInOrder
  <2>3. /\ e.place < f.place
        /\ \A p \in e.place..f.place :
              offered[p].taken => \E k \in i..j : seen[s][k].place = p
    BY DEF SeenInOrder, SeenAsPublished
  <2>4. /\ e.place \in 1..Len(offered) /\ f.place \in 1..Len(offered)
        /\ offered[e.place].bar.symbol = symbol /\ offered[f.place].bar.symbol = symbol
        /\ offered[e.place].sequence = e.sequence /\ offered[f.place].sequence = f.sequence
    BY <2>2
  <2>5. e.place..f.place \subseteq 1..Len(offered) /\ Len(offered) \in Nat
    BY <2>4 DEF Numbered
  <2>6. Numbered
    OBVIOUS
  <2>7. symbol \in DOMAIN counters /\ f.sequence \in 1..counters[symbol]
        /\ counters[symbol] \in Nat /\ e.sequence \in Nat /\ f.sequence \in Nat
    BY <2>4, NumbersTell DEF Numbered
  <2> DEFINE refused == {p \in e.place..f.place :
                            offered[p].bar.symbol = symbol /\ ~offered[p].taken}
  <2>8. NumbersMissing(s, e, f) = ((e.sequence + 1)..(f.sequence - 1)) \ given
    BY DEF NumbersMissing
  <2>9. NumbersRefused(e, f) = {offered[p].sequence : p \in refused}
    BY DEF NumbersRefused
  <2> HIDE <1>1 DEF e, f, symbol, given, refused
  <2>10. ASSUME NEW n \in ((e.sequence + 1)..(f.sequence - 1)) \ given
         PROVE  \E p \in refused : offered[p].sequence = n
    <3>1. n \in 1..counters[symbol] /\ e.sequence < n /\ n < f.sequence
      BY <2>7
    <3>2. PICK p \in 1..Len(offered) :
             offered[p].bar.symbol = symbol /\ offered[p].sequence = n
      BY <2>6, <2>7, <3>1 DEF Numbered
    <3>3. e.place < p /\ p < f.place
      BY <2>4, <2>6, <3>1, <3>2, NumbersTell
    <3>4. ASSUME offered[p].taken
          PROVE  FALSE
      <4>1. p \in e.place..f.place
        BY <2>4, <3>2, <3>3
      <4>2. PICK k \in i..j : seen[s][k].place = p
        BY <2>3, <3>4, <4>1
      <4>3. k \in DOMAIN seen[s]
        BY <2>1
      <4>4. seen[s][k].bar.symbol = symbol /\ seen[s][k].sequence = n
        BY <2>2, <3>2, <4>2, <4>3
      <4>5. n \in given
        BY <4>3, <4>4 DEF given
      <4>6. QED
        BY <2>10, <4>5
    <3>5. p \in refused
      BY <2>4, <3>2, <3>3, <3>4 DEF refused
    <3>6. QED
      BY <3>2, <3>5
  <2>11. ASSUME NEW p \in refused
         PROVE  offered[p].sequence \in ((e.sequence + 1)..(f.sequence - 1)) \ given
    <3>1. /\ p \in e.place..f.place /\ p \in 1..Len(offered)
          /\ offered[p].bar.symbol = symbol /\ ~offered[p].taken
      BY <2>5 DEF refused
    <3>2. p # e.place /\ p # f.place
      BY <2>1, <2>2, <3>1 DEF e, f
    <3>3. e.place < p /\ p < f.place
      BY <2>4, <3>1, <3>2
    <3>4. /\ e.sequence < offered[p].sequence /\ offered[p].sequence < f.sequence
          /\ offered[p].sequence \in Nat
      BY <2>4, <2>6, <3>1, <3>3, NumbersTell
    <3>5. ASSUME NEW k \in DOMAIN seen[s], seen[s][k].bar.symbol = symbol,
                 seen[s][k].sequence = offered[p].sequence
          PROVE  FALSE
      <4>1. seen[s][k].place \in 1..Len(offered)
            /\ offered[seen[s][k].place].bar.symbol = symbol
            /\ offered[seen[s][k].place].sequence = offered[p].sequence
            /\ offered[seen[s][k].place].taken
        BY <2>2, <3>5
      <4>2. \A q \in 1..Len(offered) :
               offered[q].bar.symbol = symbol /\ offered[q].sequence = offered[p].sequence
                  => q = p
        BY <2>6, <3>1, NumbersTell
      <4>3. QED
        BY <3>1, <4>1, <4>2
    <3>6. offered[p].sequence \notin given
      BY <3>5 DEF given
    <3>7. QED
      BY <2>7, <3>4, <3>6
  <2>12. NumbersMissing(s, e, f) = NumbersRefused(e, f)
    BY <2>8, <2>9, <2>10, <2>11
  <2>13. QED
    BY <2>12 DEF e, f
<1>2. QED
  BY <1>1, EngineInvHolds, PTL
=============================================================================
