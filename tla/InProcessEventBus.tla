------------------------- MODULE InProcessEventBus -------------------------
(***************************************************************************)
(* InProcessEventBus (src/src/events/event_bus.cpp:76-219): a bounded      *)
(* queue, one dispatcher thread and three condition variables.             *)
(*                                                                         *)
(* Every section the code runs under mutex_ is one action; a notify_* that *)
(* follows the unlock is an action of its own, so another thread may run   *)
(* between the two.  A thread inside a condition-variable wait is in       *)
(* `asleep' until it is notified (or wakes spuriously) and then tests its  *)
(* predicate again.  The dispatcher keeps mutex_ from the end of a         *)
(* delivery to the next test of its predicate (dpc = "loop"); no other     *)
(* thread's section can run in between.                                    *)
(*                                                                         *)
(* Which handlers a delivery runs is SubscriptionRegistry's; here a        *)
(* delivery is the time the handlers of one event take, during which they  *)
(* may publish and may ask for shutdown.  Whether a handler throws changes *)
(* nothing but a statistic.                                                *)
(***************************************************************************)
EXTENDS Naturals, Sequences, FiniteSets

CONSTANTS Clients,      \* the threads other than the dispatcher
          Capacity,     \* options_.capacity
          WhenFull,     \* options_.when_full: "Block" or "Reject"
          MaxEvents     \* bound: events ever accepted

ASSUME BusAssumption ==
    /\ Capacity \in Nat \ {0}
    /\ WhenFull \in {"Block", "Reject"}
    /\ MaxEvents \in Nat
    /\ "dispatcher" \notin Clients

Dispatcher == "dispatcher"
Threads    == Clients \cup {Dispatcher}

VARIABLES state,        \* state_
          queue,        \* queue_, as the sequence numbers of the events
          busy,         \* busy_
          sequence,     \* sequence_ (and stats_.published)
          delivered,    \* stats_.delivered
          event,        \* the event last taken off the queue, 0 before the first
          dpc,          \* where the dispatcher thread is
          pc,           \* where each client thread is
          asleep,       \* the threads blocked in a condition-variable wait
          owed          \* per client, the last event accepted when it began to
                        \* wait for the drain (the code does not store this)

busVars == <<state, queue, busy, sequence, delivered, event>>
vars    == <<busVars, dpc, pc, asleep, owed>>

States    == {"NotStarted", "Running", "Draining", "Stopped"}
ClientPc  == {"idle", "full", "pushed", "shut_empty", "shut_full",
              "drain", "drain_idle", "drain_stopped", "join"}
DispPc    == {"none", "bind", "loop", "empty", "popped", "handler",
              "handler_shut", "exit", "done"}

TypeOK ==
    /\ state \in States
    /\ queue \in Seq(Nat)
    /\ busy \in BOOLEAN
    /\ sequence \in Nat
    /\ delivered \in Nat
    /\ event \in Nat
    /\ dpc \in DispPc
    /\ pc \in [Clients -> ClientPc]
    /\ asleep \subseteq Threads
    /\ owed \in [Clients -> Nat]

Init ==
    /\ state = "NotStarted"
    /\ queue = <<>>
    /\ busy = FALSE
    /\ sequence = 0
    /\ delivered = 0
    /\ event = 0
    /\ dpc = "none"
    /\ pc = [c \in Clients |-> "idle"]
    /\ asleep = {}
    /\ owed = [c \in Clients |-> 0]

Goto(c, l) == pc' = [pc EXCEPT ![c] = l]

(* mutex_ is free for a client's section.                                  *)
MutexFree == dpc # "loop"

(* A fault: while a handler runs, nobody is held to the capacity, instead   *)
(* of the thread that runs it.                                             *)
FullUnlessBusy == ~busy /\ Len(queue) >= Capacity

Full == Len(queue) >= Capacity

(* The bound: an event is counted when it is accepted or its publisher      *)
(* starts to wait.                                                         *)
UnderBound == sequence + Cardinality({c \in Clients : pc[c] = "full"}) < MaxEvents

Push ==
    /\ sequence' = sequence + 1
    /\ queue' = Append(queue, sequence + 1)
    /\ UNCHANGED <<state, busy, delivered, event>>

NotifyAllAt(l) == asleep' = asleep \ {c \in Clients : pc[c] = l}

(* idle_.notify_all(): its waiters are the drains, in either wait.         *)
NotifyDrainers ==
    asleep' = asleep \ {c \in Clients : pc[c] \in {"drain_idle", "drain_stopped"}}

NotifyOneAt(l) ==
    LET waiting == {c \in asleep \cap Clients : pc[c] = l}
    IN  IF waiting = {} THEN UNCHANGED asleep
        ELSE \E c \in waiting : asleep' = asleep \ {c}

-----------------------------------------------------------------------------
(* publish() from a client.  A refused publish changes only stats_.rejected *)
(* and is not an action: not running, or full under Reject.                *)

Publish(c) ==
    /\ pc[c] = "idle" /\ MutexFree
    /\ state = "Running"
    /\ ~Full /\ UnderBound
    /\ Push
    /\ Goto(c, "pushed")
    /\ UNCHANGED <<dpc, asleep, owed>>

PublishBlocks(c) ==
    /\ pc[c] = "idle" /\ MutexFree
    /\ state = "Running"
    /\ Full /\ WhenFull = "Block"
    /\ UnderBound
    /\ Goto(c, "full")
    /\ asleep' = asleep \cup {c}
    /\ UNCHANGED <<busVars, dpc, owed>>

(* A fault: a woken publisher does not test for room again.                *)
PublishResumesUnchecked(c) ==
    /\ pc[c] = "full" /\ c \notin asleep /\ MutexFree
    /\ state = "Running"
    /\ Push
    /\ Goto(c, "pushed")
    /\ UNCHANGED <<dpc, asleep, owed>>

(* not_full_'s predicate, tested by a woken publisher.                     *)
PublishResumes(c) ==
    /\ pc[c] = "full" /\ c \notin asleep /\ MutexFree
    /\ state = "Running"
    /\ ~Full
    /\ Push
    /\ Goto(c, "pushed")
    /\ UNCHANGED <<dpc, asleep, owed>>

PublishSleepsAgain(c) ==
    /\ pc[c] = "full" /\ c \notin asleep /\ MutexFree
    /\ state = "Running"
    /\ Full
    /\ asleep' = asleep \cup {c}
    /\ UNCHANGED <<busVars, dpc, pc, owed>>

PublishRefused(c) ==
    /\ pc[c] = "full" /\ c \notin asleep /\ MutexFree
    /\ state # "Running"
    /\ Goto(c, "idle")
    /\ UNCHANGED <<busVars, dpc, asleep, owed>>

NotifyNotEmpty(c) ==
    /\ pc[c] = "pushed"
    /\ asleep' = asleep \ {Dispatcher}
    /\ Goto(c, "idle")
    /\ UNCHANGED <<busVars, dpc, owed>>

-----------------------------------------------------------------------------
(* start() and request_shutdown().                                         *)

Start(c) ==
    /\ pc[c] = "idle" /\ MutexFree
    /\ state = "NotStarted"
    /\ state' = "Running"
    /\ dpc' = "bind"
    /\ UNCHANGED <<queue, busy, sequence, delivered, event, pc, asleep, owed>>

(* A fault: what is still queued is dropped.                               *)
StopAndDiscard ==
    /\ state' = CASE state = "Running"    -> "Draining"
                  [] state = "NotStarted" -> "Stopped"
                  [] OTHER                -> state
    /\ queue' = <<>>
    /\ UNCHANGED <<busy, sequence, delivered, event>>

(* Under mutex_.                                                           *)
StopAccepting ==
    /\ state' = CASE state = "Running"    -> "Draining"
                  [] state = "NotStarted" -> "Stopped"
                  [] OTHER                -> state
    /\ UNCHANGED <<queue, busy, sequence, delivered, event>>

RequestShutdown(c) ==
    /\ pc[c] = "idle" /\ MutexFree
    /\ StopAccepting
    /\ Goto(c, "shut_empty")
    /\ UNCHANGED <<dpc, asleep, owed>>

ShutdownNotifyNotEmpty(c) ==
    /\ pc[c] = "shut_empty"
    /\ asleep' = asleep \ {Dispatcher}
    /\ Goto(c, "shut_full")
    /\ UNCHANGED <<busVars, dpc, owed>>

ShutdownNotifyNotFull(c) ==
    /\ pc[c] = "shut_full"
    /\ NotifyAllAt("full")
    /\ Goto(c, "idle")
    /\ UNCHANGED <<busVars, dpc, owed>>

-----------------------------------------------------------------------------
(* wait_until_drained().                                                   *)

DrainCall(c) ==
    /\ pc[c] = "idle"
    /\ Goto(c, "drain")
    /\ owed' = [owed EXCEPT ![c] = sequence]
    /\ UNCHANGED <<busVars, dpc, asleep>>

(* A fault: an event being handled does not count.                         *)
QueueEmpty == queue = <<>>

Idle == queue = <<>> /\ ~busy

(* The first wait: idle, or no longer running.                             *)
DrainWaitsForIdle(c) ==
    /\ pc[c] \in {"drain", "drain_idle"} /\ c \notin asleep /\ MutexFree
    /\ state = "Running" /\ ~Idle
    /\ Goto(c, "drain_idle")
    /\ asleep' = asleep \cup {c}
    /\ UNCHANGED <<busVars, dpc, owed>>

DrainReturns(c) ==
    /\ pc[c] \in {"drain", "drain_idle"} /\ c \notin asleep /\ MutexFree
    /\ \/ state = "Running" /\ Idle
       \/ state = "NotStarted"
    /\ Goto(c, "idle")
    /\ UNCHANGED <<busVars, dpc, asleep, owed>>

(* The second wait, for the dispatcher to have stopped.                    *)
DrainWaitsForStop(c) ==
    /\ pc[c] \in {"drain", "drain_idle", "drain_stopped"}
    /\ c \notin asleep /\ MutexFree
    /\ state = "Draining"
    /\ Goto(c, "drain_stopped")
    /\ asleep' = asleep \cup {c}
    /\ UNCHANGED <<busVars, dpc, owed>>

DrainSeesStop(c) ==
    /\ pc[c] \in {"drain", "drain_idle", "drain_stopped"}
    /\ c \notin asleep /\ MutexFree
    /\ state = "Stopped"
    /\ Goto(c, "join")
    /\ UNCHANGED <<busVars, dpc, asleep, owed>>

(* worker_ is joinable until its thread has been joined; join() returns    *)
(* when the thread has ended.  A bus never started has no thread.          *)
Join(c) ==
    /\ pc[c] = "join"
    /\ dpc \in {"none", "done"}
    /\ Goto(c, "idle")
    /\ UNCHANGED <<busVars, dpc, asleep, owed>>

-----------------------------------------------------------------------------
(* The dispatcher thread, run().                                           *)

Lock ==
    /\ dpc \in {"bind", "empty"} /\ Dispatcher \notin asleep
    /\ dpc' = "loop"
    /\ UNCHANGED <<busVars, pc, asleep, owed>>

WaitNotEmpty ==
    /\ dpc = "loop"
    /\ queue = <<>> /\ state = "Running"
    /\ dpc' = "empty"
    /\ asleep' = asleep \cup {Dispatcher}
    /\ UNCHANGED <<busVars, pc, owed>>

Pop ==
    /\ dpc = "loop"
    /\ queue # <<>>
    /\ event' = Head(queue)
    /\ queue' = Tail(queue)
    /\ busy' = TRUE
    /\ dpc' = "popped"
    /\ UNCHANGED <<state, sequence, delivered, pc, asleep, owed>>

(* A fault: the dispatcher does not notify blocked publishers.             *)
ForgetNotFull ==
    /\ dpc = "popped"
    /\ dpc' = "handler"
    /\ UNCHANGED <<busVars, pc, asleep, owed>>

NotifyNotFull ==
    /\ dpc = "popped"
    /\ NotifyOneAt("full")
    /\ dpc' = "handler"
    /\ UNCHANGED <<busVars, pc, owed>>

(* A handler publishes: it never blocks and is not held to the capacity.   *)
(* Its notify_one finds nobody: not_empty_'s only waiter is this thread.   *)
HandlerPublish ==
    /\ dpc = "handler"
    /\ state \in {"Running", "Draining"} /\ UnderBound
    /\ Push
    /\ UNCHANGED <<dpc, pc, asleep, owed>>

HandlerShutdown ==
    /\ dpc = "handler"
    /\ StopAccepting
    /\ dpc' = "handler_shut"
    /\ UNCHANGED <<pc, asleep, owed>>

HandlerShutdownNotify ==
    /\ dpc = "handler_shut"
    /\ NotifyAllAt("full")
    /\ dpc' = "handler"
    /\ UNCHANGED <<busVars, pc, owed>>

(* The handlers are done; mutex_ is taken and kept into the next turn of   *)
(* the loop.  Waiters for idle are notified when nothing is queued.        *)
EndDelivery ==
    /\ dpc = "handler"
    /\ busy' = FALSE
    /\ delivered' = delivered + 1
    /\ IF queue = <<>> THEN NotifyDrainers ELSE UNCHANGED asleep
    /\ dpc' = "loop"
    /\ UNCHANGED <<state, queue, sequence, event, pc, owed>>

Stop ==
    /\ dpc = "loop"
    /\ queue = <<>> /\ state # "Running"
    /\ state' = "Stopped"
    /\ dpc' = "exit"
    /\ UNCHANGED <<queue, busy, sequence, delivered, event, pc, asleep, owed>>

NotifyStopped ==
    /\ dpc = "exit"
    /\ NotifyDrainers
    /\ dpc' = "done"
    /\ UNCHANGED <<busVars, pc, owed>>

-----------------------------------------------------------------------------
(* A condition variable may wake a waiter nobody notified.                 *)
SpuriousWake(t) ==
    /\ t \in asleep
    /\ asleep' = asleep \ {t}
    /\ UNCHANGED <<busVars, dpc, pc, owed>>

(* The steps of a call already made, and the calls a client may make.      *)
Continue(c) ==
    \/ PublishResumes(c) \/ PublishSleepsAgain(c) \/ PublishRefused(c)
    \/ NotifyNotEmpty(c)
    \/ ShutdownNotifyNotEmpty(c) \/ ShutdownNotifyNotFull(c)
    \/ DrainWaitsForIdle(c) \/ DrainReturns(c)
    \/ DrainWaitsForStop(c) \/ DrainSeesStop(c) \/ Join(c)

Call(c) ==
    \/ Publish(c) \/ PublishBlocks(c)
    \/ Start(c) \/ RequestShutdown(c) \/ DrainCall(c)

Handler == HandlerPublish \/ HandlerShutdown

(* The dispatcher's steps that do not depend on what a handler decides.    *)
Dispatch ==
    \/ Lock \/ WaitNotEmpty \/ Pop \/ NotifyNotFull
    \/ HandlerShutdownNotify \/ EndDelivery \/ Stop \/ NotifyStopped

Next ==
    \/ \E c \in Clients : Continue(c) \/ Call(c)
    \/ Handler
    \/ Dispatch
    \/ \E t \in Threads : SpuriousWake(t)

Spec == Init /\ [][Next]_vars

(* A thread that can run runs, a handler returns whatever it calls before, *)
(* and spurious wakeups do not go on for ever.  No client has to call.     *)
Fairness ==
    /\ WF_vars(Dispatch) /\ SF_vars(EndDelivery)
    /\ \A c \in Clients : WF_vars(Continue(c))
    /\ <>[][\A t \in Threads : ~SpuriousWake(t)]_vars

FairSpec == Spec /\ Fairness

-----------------------------------------------------------------------------
(* Properties.                                                             *)

(* The bus implements the contract: events are delivered once each, in     *)
(* publication order, none is lost by a shutdown, nothing is accepted from *)
(* outside once shutdown was requested and nothing at all once stopped.    *)
Contract == INSTANCE EventBusContract WITH
    phase     <- state,
    accepted  <- sequence,
    delivered <- IF busy THEN event - 1 ELSE event,
    handling  <- busy

ImplementsContract == Contract!Spec

(* When wait_until_drained() returns, every event accepted before it was   *)
(* called has been through its handlers.                                   *)
DrainMeansDelivered ==
    [][\A c \in Clients :
          pc[c] \in {"drain", "drain_idle", "join"} /\ pc'[c] = "idle"
             => delivered' >= owed[c]]_vars

(* The step is client c's, and puts an event into the queue.               *)
Pushes(c) == pc[c] # "pushed" /\ pc'[c] = "pushed"

(* No client takes the queue above its capacity, whatever the dispatcher is *)
(* doing at that moment: only the dispatcher's own thread, in a handler,    *)
(* may.  A publisher woken from not_full_ may find that another client, or  *)
(* a handler, has taken the room.                                           *)
OnlyHandlersExceedCapacity ==
    [][Len(queue') > Len(queue) /\ Len(queue') > Capacity
          => dpc = "handler" /\ \A c \in Clients : ~Pushes(c)]_vars

(* How the lifecycle, the thread and the queue hang together: the queue is *)
(* exactly what was accepted and not yet taken, in order; busy_ covers the *)
(* deliveries and nothing else; a stopped bus owes nothing; and there is a *)
(* dispatcher exactly from start() until Stopped.                          *)
QueueIsUntaken ==
    /\ event + Len(queue) = sequence
    /\ \A i \in 1 .. Len(queue) : queue[i] = event + i

DeliveredIsHandled ==
    /\ busy <=> dpc \in {"popped", "handler", "handler_shut"}
    /\ event = IF busy THEN delivered + 1 ELSE delivered

ThreadMatchesState ==
    /\ state = "NotStarted" => dpc = "none" /\ sequence = 0
    /\ state \in {"Running", "Draining"} => dpc \notin {"none", "exit", "done"}
    /\ state = "Stopped" => dpc \in {"none", "exit", "done"} /\ queue = <<>>

DrainersOwed ==
    \A c \in Clients :
        /\ owed[c] <= sequence
        /\ pc[c] = "join" => state = "Stopped"

BusInv == QueueIsUntaken /\ DeliveredIsHandled /\ ThreadMatchesState /\ DrainersOwed

(* Everything accepted is eventually delivered.                            *)
AcceptedIsDelivered ==
    \A n \in 1 .. MaxEvents : (sequence >= n) ~> (delivered >= n)

(* No publisher stays blocked: room or shutdown releases it.               *)
BlockedPublisherReleased ==
    \A c \in Clients : (pc[c] = "full") ~> (pc[c] # "full")

(* wait_until_drained() returns.                                           *)
DrainTerminates ==
    \A c \in Clients :
        (pc[c] \in {"drain", "drain_idle", "drain_stopped", "join"}) ~> (pc[c] = "idle")

(* A shutdown that was requested completes.                                *)
ShutdownCompletes == (state = "Draining") ~> (state = "Stopped")

(* No wakeup is lost: neither the dispatcher on an empty queue nor a       *)
(* publisher on a full one nor a drain sleeps for ever, although each      *)
(* notify comes after the unlock and may find nobody asleep.               *)
NobodySleepsForever ==
    AcceptedIsDelivered /\ BlockedPublisherReleased /\ DrainTerminates /\ ShutdownCompletes
=============================================================================
