--------------------------- MODULE StrategyEngine ---------------------------
(***************************************************************************)
(* StrategyEngine (strategy/strategy_engine.cpp) between a bus and the     *)
(* strategies: it starts them, routes bars to them, takes their signals    *)
(* and stops them, again and again, while the bus keeps delivering.        *)
(*                                                                         *)
(* The bus is what SubscriptionRegistry shows it to be: it delivers to the *)
(* subscriptions it copied, skips those erased since, and unsubscribe() is *)
(* a barrier.  Its mutexes order the owner's writes against the handler's  *)
(* reads, so steps of the two threads interleave.                          *)
(*                                                                         *)
(* unsubscribe() may fail, and then leaves the handler subscribed; as the  *)
(* header demands of such a bus, the handler is not inside the engine at   *)
(* that moment.  A strategy gets its sink in a callback; it may keep it,   *)
(* give it to another, and use it in any of its calls.  The names          *)
(* register_strategy() refuses but a known one, statistics, and a nested   *)
(* on_market_event(), which no bus of the engine makes, are left out.      *)
(* MaxSessions, MaxEmits and MaxFailures bound it.                         *)
(***************************************************************************)
EXTENDS MarketDataService, FiniteSets

CONSTANTS
    Strategies, None,
    MaxSessions, MaxEmits, MaxFailures

ASSUME StrategyEngineAssumption ==
    /\ IsFiniteSet(Strategies) /\ None \notin Strategies
    /\ MaxSessions \in Nat /\ MaxEmits \in Nat /\ MaxFailures \in Nat

VARIABLES
    state,           \* state_
    registrations,   \* registrations_, in order
    signalIds,       \* signal_ids_: the last one given out
    subscription,    \* subscription_ and its gate: 0 when gate_ is null
    active,          \* active_
    opc, oi,         \* where the owner is, and at which strategy
    entries,         \* the bus: its subscriptions, by number
    lastEntry,       \* the bus: the last number given out
    event,           \* the event the dispatcher delivers
    targets,         \* the subscriptions it copied and has not visited
    running,         \* the subscription whose handler runs, or 0
    di,              \* which strategy the handler is at, 0 when it must not enter
    \* What the code does not store:
    life,            \* what each strategy has been told last
    seen,            \* per strategy, the events of this session
    kept,            \* the strategies that were given their sink, and may keep it
    signals,         \* the signals published: id and name, and whose code emitted
                     \* them on which thread, during and after which event
    emits, failures  \* bounds

ownerVars == <<state, registrations, subscription, opc, oi, life>>
busVars == <<entries, lastEntry>>
dispVars == <<event, targets, running, di>>
signalVars == <<signalIds, signals, emits>>
historyVars == <<seen, kept>>
vars == <<feedVars, ownerVars, busVars, dispVars, active, historyVars, signalVars, failures>>

NoEvent == [place |-> 0]

TypeOK ==
    /\ state \in {"Stopped", "Starting", "Running", "Stopping"}
    /\ Len(registrations) <= Cardinality(Strategies)
    /\ signalIds \in 0..emits /\ emits \in 0..MaxEmits /\ failures \in 0..MaxFailures
    /\ subscription \in 0..lastEntry /\ lastEntry \in 0..MaxSessions
    /\ active \in Strategies \cup {None}
    /\ opc \in {"idle", "start", "undo", "unsubscribe", "barrier", "stop"}
    /\ oi \in 0..(Len(registrations) + 1 + lastEntry)
    /\ entries \subseteq 1..lastEntry
    /\ running \in 0..lastEntry /\ di \in 0..Len(registrations) + 1
    /\ life \in [Strategies -> {"new", "started", "stopped"}]
    /\ kept \subseteq Strategies

Init ==
    /\ MarketDataInit
    /\ state = "Stopped" /\ registrations = <<>> /\ signalIds = 0 /\ subscription = 0
    /\ active = None /\ opc = "idle" /\ oi = 0
    /\ entries = {} /\ lastEntry = 0
    /\ event = NoEvent /\ targets = {} /\ running = 0 /\ di = 0
    /\ life = [s \in Strategies |-> "new"] /\ seen = [s \in Strategies |-> <<>>]
    /\ kept = {} /\ signals = <<>> /\ emits = 0 /\ failures = 0

Fail == failures < MaxFailures /\ failures' = failures + 1

Tell(s, what) == life' = [life EXCEPT ![s] = what]

-----------------------------------------------------------------------------
(* The owner: register_strategy(), start() and stop().                     *)

Register(s) ==
    /\ opc = "idle" /\ state = "Stopped"
    /\ \A i \in DOMAIN registrations : registrations[i] # s
    /\ registrations' = Append(registrations, s)
    /\ UNCHANGED <<feedVars, state, subscription, opc, oi, life, busVars, dispVars, active,
                   historyVars, signalVars, failures>>

Start ==
    /\ opc = "idle" /\ state = "Stopped"
    /\ lastEntry < MaxSessions
    /\ state' = "Starting"
    /\ opc' = "start" /\ oi' = 1
    /\ seen' = [s \in Strategies |-> <<>>]
    /\ UNCHANGED <<feedVars, registrations, kept, subscription, life, busVars, dispVars, active,
                   signalVars, failures>>

OnStart ==
    /\ opc = "start" /\ oi <= Len(registrations)
    /\ Tell(registrations[oi], "started")
    /\ oi' = oi + 1
    /\ UNCHANGED <<feedVars, state, registrations, subscription, opc, busVars, dispVars, active,
                   historyVars, signalVars, failures>>

(* on_start() or, once Running is set, subscribe() throws: those started   *)
(* are stopped.                                                            *)
StartFails ==
    /\ opc = "start"
    /\ Fail
    /\ opc' = "undo" /\ oi' = oi - 1
    /\ state' = IF oi > Len(registrations) THEN "Running" ELSE state
    /\ UNCHANGED <<feedVars, registrations, subscription, life, busVars, dispVars, active,
                   historyVars, signalVars>>

(* Running is set and the gate is live before the bus can call.            *)
SubscribeEngine ==
    /\ opc = "start" /\ oi > Len(registrations)
    /\ state' = "Running"
    /\ lastEntry' = lastEntry + 1
    /\ entries' = entries \cup {lastEntry'}
    /\ subscription' = lastEntry'
    /\ opc' = "idle" /\ oi' = 0
    /\ UNCHANGED <<feedVars, registrations, life, dispVars, active, historyVars, signalVars, failures>>

(* stop(): the gate first.                                                 *)
Stop ==
    /\ opc = "idle" /\ state = "Running"
    /\ subscription' = 0
    /\ opc' = "unsubscribe" /\ oi' = subscription
    /\ UNCHANGED <<feedVars, state, registrations, life, busVars, dispVars, active, historyVars,
                   signalVars, failures>>

Unsubscribe ==
    /\ opc = "unsubscribe"
    /\ entries' = entries \ {oi}
    /\ opc' = "barrier" /\ oi' = 0
    /\ UNCHANGED <<feedVars, state, registrations, subscription, life, lastEntry, dispVars,
                   active, historyVars, signalVars, failures>>

BeginStopping ==
    /\ state' = "Stopping"
    /\ opc' = "stop" /\ oi' = Len(registrations)
    /\ UNCHANGED <<feedVars, registrations, subscription, life, busVars, dispVars, active, historyVars,
                   signalVars>>

UnsubscribeFails ==
    /\ opc = "unsubscribe" /\ di = 0
    /\ Fail
    /\ BeginStopping

(* A fault: the unsubscription is not waited for.                          *)
PassAtOnce == opc = "barrier" /\ BeginStopping /\ UNCHANGED failures

PassBarrier == opc = "barrier" /\ running = 0 /\ BeginStopping /\ UNCHANGED failures

(* on_stop(), which may throw: in reverse order.                           *)
OnStop ==
    /\ opc \in {"undo", "stop"} /\ oi > 0
    /\ Tell(registrations[oi], "stopped")
    /\ oi' = oi - 1
    /\ UNCHANGED <<feedVars, state, registrations, subscription, opc, busVars, dispVars, active,
                   historyVars, signalVars, failures>>

Stopped ==
    /\ opc \in {"undo", "stop"} /\ oi = 0
    /\ state' = "Stopped"
    /\ opc' = "idle"
    /\ UNCHANGED <<feedVars, registrations, subscription, oi, life, busVars, dispVars, active,
                   historyVars, signalVars, failures>>

-----------------------------------------------------------------------------
(* The dispatcher and, inside a handler, on_market_event().                *)

Deliver ==
    /\ event = NoEvent /\ queue # <<>>
    /\ event' = Head(queue)
    /\ queue' = Tail(queue)
    /\ targets' = entries
    /\ UNCHANGED <<file, counters, offered, ownerVars, busVars, running, di, active, historyVars, signalVars,
                   failures>>

(* A fault: the handler holds the engine, not a token.                     *)
LiveForEver(entry) == state = "Running" /\ active = None

Live(entry) == subscription = entry /\ state = "Running" /\ active = None

Invoke(entry) ==
    /\ running = 0
    /\ entry \in targets /\ \A e \in targets : entry <= e
    /\ targets' = targets \ {entry}
    /\ running' = IF entry \in entries THEN entry ELSE 0
    /\ di' = IF entry \in entries /\ Live(entry) THEN 1 ELSE 0
    /\ UNCHANGED <<feedVars, ownerVars, busVars, event, active, historyVars, signalVars, failures>>

OnMarketEvent ==
    /\ di \in 1..Len(registrations) /\ active = None
    /\ active' = registrations[di]
    /\ seen' = [seen EXCEPT ![active'] = Append(@, event)]
    /\ kept' = kept \cup {active'}
    /\ UNCHANGED <<feedVars, ownerVars, busVars, dispVars, signalVars, failures>>

(* It returns, or throws and is counted.                                   *)
CallbackEnds ==
    /\ active # None
    /\ active' = None
    /\ di' = di + 1
    /\ UNCHANGED <<feedVars, ownerVars, busVars, event, targets, running, historyVars, signalVars, failures>>

(* A fault: the handler needs a lock that stop() holds.                    *)
HandlerEndsIfLive ==
    /\ running # 0 /\ active = None
    /\ opc = "idle"
    /\ di = 0 \/ di > Len(registrations)
    /\ running' = 0 /\ di' = 0
    /\ UNCHANGED <<feedVars, ownerVars, busVars, event, targets, active, historyVars, signalVars, failures>>

HandlerEnds ==
    /\ running # 0 /\ active = None
    /\ di = 0 \/ di > Len(registrations)
    /\ running' = 0 /\ di' = 0
    /\ UNCHANGED <<feedVars, ownerVars, busVars, event, targets, active, historyVars, signalVars, failures>>

EndDelivery ==
    /\ event # NoEvent /\ targets = {} /\ running = 0
    /\ event' = NoEvent
    /\ UNCHANGED <<feedVars, ownerVars, busVars, targets, running, di, active, historyVars, signalVars,
                   failures>>

-----------------------------------------------------------------------------
(* emit() through the sink of s.                                           *)

(* Whose code is running, and on which thread: the strategy that is being  *)
(* called back, and the one in its on_start() or on_stop().                *)
Callers ==
    (IF active = None THEN {} ELSE {[thread |-> "dispatcher", strategy |-> active]}) \cup
    {[thread |-> "owner", strategy |-> registrations[i]] :
        i \in IF opc \in {"start", "undo", "stop"} THEN {oi} \cap DOMAIN registrations ELSE {}}

LastPlace(s) == IF seen[s] = <<>> THEN 0 ELSE seen[s][Len(seen[s])].place

(* A fault: whenever it is called, it publishes.                           *)
SinkLiveAlways(s) == TRUE

SinkLive(s) == active = s

Emit(s, taken) ==
    /\ s \in kept
    /\ emits < MaxEmits /\ emits' = emits + 1
    /\ \E caller \in Callers :
          IF SinkLive(s)
          THEN /\ signalIds' = signalIds + 1
               /\ signals' = IF ~taken THEN signals
                             ELSE Append(signals, [id |-> signalIds', strategy |-> s,
                                                   by |-> caller, during |-> event.place,
                                                   after |-> LastPlace(s)])
          ELSE UNCHANGED <<signalIds, signals>>
    /\ UNCHANGED <<feedVars, ownerVars, busVars, dispVars, active, historyVars, failures>>

Feed ==
    /\ \E taken \in BOOLEAN : OnBar(taken)
    /\ UNCHANGED <<ownerVars, busVars, dispVars, active, historyVars, signalVars, failures>>

Continue ==
    \/ OnStart \/ SubscribeEngine \/ Unsubscribe \/ PassBarrier \/ OnStop \/ Stopped

Dispatch ==
    \/ Deliver \/ (\E entry \in targets : Invoke(entry))
    \/ OnMarketEvent \/ CallbackEnds \/ HandlerEnds \/ EndDelivery

Next ==
    \/ (\E s \in Strategies : Register(s) \/ \E taken \in BOOLEAN : Emit(s, taken))
    \/ Start \/ StartFails \/ Stop \/ UnsubscribeFails
    \/ Continue \/ Dispatch \/ Feed

Spec == Init /\ [][Next]_vars

(* Both threads keep running, and a callback returns.                      *)
FairSpec == Spec /\ WF_vars(Continue) /\ WF_vars(Dispatch)

-----------------------------------------------------------------------------
(* Properties.                                                             *)

(* An event reaches a strategy only between its on_start() and its         *)
(* on_stop(), and while neither is being called on any strategy.           *)
EventsWhileStarted ==
    active # None => life[active] = "started" /\ opc \notin {"start", "undo", "stop"}

(* Whatever one strategy throws, all of them see the events of a session.  *)
AllSeeTheSame ==
    state = "Running" /\ di = 0 =>
        \A i, j \in DOMAIN registrations : seen[registrations[i]] = seen[registrations[j]]

(* A restart does not deliver twice, even past a failed unsubscribe().     *)
SeenOnce ==
    \A s \in Strategies : \A i, j \in DOMAIN seen[s] : seen[s][i] = seen[s][j] => i = j

(* A stopped engine, also one whose start failed, has left no strategy     *)
(* started and no handler that could reach it.                             *)
NothingHalfStarted ==
    opc = "idle" /\ state = "Stopped" =>
        subscription = 0 /\ \A s \in Strategies : life[s] # "started"

(* A strategy is given events in the order in which they were published,   *)
(* and between two that it is given none is left out that the bus took.    *)
SeenAsPublished ==
    \A s \in Strategies : \A i, j \in DOMAIN seen[s] :
        i < j =>
            /\ seen[s][i].place < seen[s][j].place
            /\ \A p \in seen[s][i].place..seen[s][j].place :
                  offered[p].taken => \E k \in i..j : seen[s][k].place = p

(* A lost bar shows, and nothing else looks like one: of two bars of one   *)
(* symbol that a strategy was given, the numbers between theirs that it    *)
(* was not given are those of the bars of that symbol that the bus refused *)
(* in between.                                                             *)
NumbersMissing(s, e, f) ==
    (e.sequence + 1)..(f.sequence - 1) \ {seen[s][k].sequence :
        k \in {k \in DOMAIN seen[s] : seen[s][k].bar.symbol = e.bar.symbol}}

NumbersRefused(e, f) ==
    {offered[p].sequence : p \in {p \in e.place..f.place :
        offered[p].bar.symbol = e.bar.symbol /\ ~offered[p].taken}}

LossIsVisible ==
    \A s \in Strategies : \A i, j \in DOMAIN seen[s] :
        i < j /\ seen[s][i].bar.symbol = seen[s][j].bar.symbol
            => NumbersMissing(s, seen[s][i], seen[s][j]) = NumbersRefused(seen[s][i], seen[s][j])

(* A signal that the bus took was emitted in a callback, by the strategy   *)
(* whose name it bears, for the event that strategy was given last: the    *)
(* sink only asks whose callback is on the stack, and that no on_stop()    *)
(* runs at that moment, with a sink it kept, is the work of stop()'s       *)
(* barrier.  Ids grow, and signals answer events in their order, over      *)
(* restarts.                                                               *)
SignalsFromCallbacks ==
    /\ \A i \in DOMAIN signals :
          /\ signals[i].by = [thread |-> "dispatcher", strategy |-> signals[i].strategy]
          /\ signals[i].during = signals[i].after
    /\ \A i, j \in DOMAIN signals :
          i < j => signals[i].id < signals[j].id /\ signals[i].during <= signals[j].during

(* stop() returns although events keep arriving.                           *)
StopReturns == opc = "unsubscribe" ~> opc = "idle"

(* A strategy's callbacks never overlap and come in order, through starts  *)
(* that fail half way and unsubscriptions that do not happen: on_start(),  *)
(* then events as they were published, then on_stop().                     *)
CallbacksInOrder == TypeOK /\ EventsWhileStarted /\ NothingHalfStarted /\ SeenAsPublished

(* The events of a session reach every strategy, and each of them once.    *)
SeenOnceByAll == AllSeeTheSame /\ SeenOnce
=============================================================================
