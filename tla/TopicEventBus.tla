---------------------------- MODULE TopicEventBus ----------------------------
(***************************************************************************)
(* TopicEventBus (events/topic_event_bus.cpp): the event bus over a        *)
(* message transport that other processes write to as well.                *)
(*                                                                         *)
(* Each section under mutex_ is one action.  publish() holds mutex_ across *)
(* the send, so the dispatcher cannot count a message as read back before  *)
(* it is counted as sent.  A client in idle_.wait_for() is in `asleep'     *)
(* until notify_all() or its timeout.                                      *)
(*                                                                         *)
(* Outside the model: handlers and who they are (SubscriptionRegistry), a  *)
(* subscribe() of the transport that throws, which leaves the bus not      *)
(* started.  MaxSent, MaxForeign, MaxFailures and MaxTimeouts bound it.    *)
(***************************************************************************)
EXTENDS EventCodec, MessageTransport

CONSTANTS
    Clients,         \* the threads other than the dispatcher
    Origin,          \* options_.origin
    Events,          \* what is published: type, time and payload
    ForeignTexts,    \* what other processes write: topic, key, text
    MaxSent, MaxForeign, MaxFailures, MaxTimeouts

ASSUME TopicBusAssumption ==
    /\ MaxSent \in Nat /\ MaxForeign \in Nat /\ MaxFailures \in Nat /\ MaxTimeouts \in Nat
    /\ \A event \in Events :
          /\ event.type \in EventTypes
          /\ event = [type |-> event.type, time |-> event.time, sequence |-> event.sequence,
                      payload |-> [name \in DOMAIN event.payload |-> event.payload[name]]]

(* An origin is one bus's: random_origin().                                *)
ASSUME OriginAssumption == \A message \in ForeignTexts : message.text.origin.is # Origin

VARIABLES
    state,           \* state_
    stop,            \* stop_
    busy,            \* busy_
    sequence,        \* sequence_, sent_own_ and stats_.published
    receivedOwn,     \* stats_.received_own
    timeouts,        \* stats_.drain_timeouts
    dpc,             \* where the dispatcher is
    polled,          \* the place in the log of the message it works on, or 0
    pc,              \* where each client is
    asleep,          \* clients blocked at idle_
    \* What the code does not store:
    published,       \* the events sent, by their sequence number
    handled,         \* the own events handled, in order
    owed,            \* per client that drains, the last event sent when it began
    foreign, failures    \* bounds: messages of others, messages lost

busVars == <<state, stop, busy, sequence, receivedOwn, timeouts>>
historyVars == <<published, handled, owed, foreign, failures>>
vars == <<transportVars, busVars, dpc, polled, pc, asleep, historyVars>>

States == {"NotStarted", "Running", "Draining", "Stopped"}

TypeOK ==
    /\ state \in States
    /\ stop \in BOOLEAN /\ busy \in BOOLEAN
    /\ sequence \in 0..MaxSent
    /\ receivedOwn \in 0..sequence
    /\ timeouts \in 0..MaxTimeouts
    /\ dpc \in {"none", "loop", "poll", "polled", "handler", "notify", "done"}
    /\ polled \in 0..Len(log)
    /\ pc \in [Clients -> {"idle", "wait", "join"}]
    /\ asleep \subseteq Clients
    /\ read \subseteq 1..Len(log)

Init ==
    /\ TransportInit
    /\ state = "NotStarted" /\ stop = FALSE /\ busy = FALSE
    /\ sequence = 0 /\ receivedOwn = 0 /\ timeouts = 0
    /\ dpc = "none" /\ polled = 0
    /\ pc = [c \in Clients |-> "idle"] /\ asleep = {}
    /\ published = <<>> /\ handled = <<>>
    /\ owed = [c \in Clients |-> 0]
    /\ foreign = 0 /\ failures = 0

Goto(c, l) == pc' = [pc EXCEPT ![c] = l]

Leave(c) == Goto(c, "idle") /\ owed' = [owed EXCEPT ![c] = 0]

Message(event) ==
    [topic |-> event.type, key |-> PartitionKey(event), text |-> Encode(Origin, event)]

(* publish() of an event the bus takes: accepted states differ for the     *)
(* dispatcher.  One that is refused, by state or by the transport, changes *)
(* only stats_.rejected: its sequence number is not consumed.              *)
Publish(event) ==
    /\ sequence < MaxSent
    /\ Encodable(event)
    /\ SendMessage(Message([event EXCEPT !.sequence = sequence + 1]))
    /\ sequence' = sequence + 1
    /\ published' = Append(published, [event EXCEPT !.sequence = sequence + 1])
    /\ UNCHANGED <<kind, from, read, state, stop, busy, receivedOwn, timeouts, dpc, polled,
                   pc, asleep, handled, owed, foreign, failures>>

ClientPublish(c) ==
    /\ pc[c] = "idle" /\ state = "Running"
    /\ \E event \in Events : Publish(event)

HandlerPublish ==
    /\ dpc = "handler" /\ state \in {"Running", "Draining"}
    /\ \E event \in Events : Publish(event)

(* start(): the transport subscribes before anything can be published.     *)
Start(c) ==
    /\ pc[c] = "idle" /\ state = "NotStarted"
    /\ Subscribe
    /\ state' = "Running"
    /\ dpc' = "loop"
    /\ UNCHANGED <<stop, busy, sequence, receivedOwn, timeouts, polled, pc, asleep, historyVars>>

RequestShutdown(c) ==
    /\ pc[c] = "idle"
    /\ \/ state = "Running" /\ state' = "Draining"
       \/ state = "NotStarted" /\ state' = "Stopped"
    /\ UNCHANGED <<transportVars, stop, busy, sequence, receivedOwn, timeouts, dpc, polled,
                   pc, asleep, historyVars>>

-----------------------------------------------------------------------------
(* wait_until_drained().  With no dispatcher it returns at once.  The      *)
(* flush() before the wait takes time and changes nothing: what it says is *)
(* ignored.                                                                *)

DrainCall(c) ==
    /\ pc[c] = "idle" /\ dpc # "none"
    /\ Goto(c, "wait")
    /\ owed' = [owed EXCEPT ![c] = sequence]
    /\ UNCHANGED <<transportVars, busVars, dpc, polled, asleep, published, handled, foreign, failures>>

(* A fault: a message being handled does not count.                        *)
AllReceived == receivedOwn + (IF busy THEN 1 ELSE 0) >= sequence

AllHandled == receivedOwn = sequence /\ ~busy

WaitSleeps(c) ==
    /\ pc[c] = "wait" /\ c \notin asleep
    /\ ~AllHandled /\ ~stop
    /\ asleep' = asleep \cup {c}
    /\ UNCHANGED <<transportVars, busVars, dpc, polled, pc, historyVars>>

(* The wait is over; after a shutdown the dispatcher is told to stop.      *)
EndWait(c) ==
    /\ asleep' = asleep \ {c}
    /\ IF state = "Running" THEN Leave(c) /\ UNCHANGED <<state, stop>>
       ELSE /\ stop' = TRUE /\ state' = "Stopped"
            /\ Goto(c, "join") /\ UNCHANGED owed
    /\ UNCHANGED <<transportVars, busy, sequence, receivedOwn, dpc, polled,
                   published, handled, foreign, failures>>

WaitReturns(c) ==
    /\ pc[c] = "wait" /\ c \notin asleep
    /\ AllHandled \/ stop
    /\ EndWait(c)
    /\ UNCHANGED timeouts

(* The predicate is tested once more at the timeout.                       *)
WaitTimesOut(c) ==
    /\ c \in asleep
    /\ IF AllHandled \/ stop THEN UNCHANGED timeouts
       ELSE timeouts < MaxTimeouts /\ timeouts' = timeouts + 1
    /\ EndWait(c)

Join(c) ==
    /\ pc[c] = "join" /\ dpc = "done"
    /\ Leave(c)
    /\ UNCHANGED <<transportVars, busVars, dpc, polled, asleep, published, handled,
                   foreign, failures>>

-----------------------------------------------------------------------------
(* run(), the dispatcher.                                                  *)

TestStop ==
    /\ dpc = "loop"
    /\ dpc' = IF stop THEN "done" ELSE "poll"
    /\ UNCHANGED <<transportVars, busVars, polled, pc, asleep, historyVars>>

(* poll() returned nothing or threw.                                       *)
PollNothing ==
    /\ dpc = "poll"
    /\ dpc' = "loop"
    /\ UNCHANGED <<transportVars, busVars, polled, pc, asleep, historyVars>>

PollMessage ==
    /\ dpc = "poll"
    /\ \E i \in Readables : Poll(i) /\ polled' = i
    /\ dpc' = "polled"
    /\ UNCHANGED <<busVars, pc, asleep, historyVars>>

Text == log[polled].text
IsOwn(text) == text.origin.is = Origin
Own == IsOwn(Text)

(* A fault: the bus is busy from before the message is read.               *)
SkipUndecodableBusy ==
    /\ dpc = "polled" /\ ~Decodes(Text)
    /\ busy' = TRUE
    /\ polled' = 0
    /\ dpc' = "loop"
    /\ UNCHANGED <<transportVars, state, stop, sequence, receivedOwn, timeouts, pc,
                   asleep, historyVars>>

(* A message that cannot be decoded is counted and skipped.                *)
SkipUndecodable ==
    /\ dpc = "polled" /\ ~Decodes(Text)
    /\ polled' = 0
    /\ dpc' = "loop"
    /\ UNCHANGED <<transportVars, busVars, pc, asleep, historyVars>>

BeginDelivery ==
    /\ dpc = "polled" /\ Decodes(Text)
    /\ busy' = TRUE
    /\ dpc' = "handler"
    /\ UNCHANGED <<transportVars, state, stop, sequence, receivedOwn, timeouts, polled, pc,
                   asleep, historyVars>>

EndDelivery ==
    /\ dpc = "handler"
    /\ busy' = FALSE
    /\ receivedOwn' = IF Own THEN receivedOwn + 1 ELSE receivedOwn
    /\ handled' = IF Own THEN Append(handled, Decode(Text)) ELSE handled
    /\ polled' = 0
    /\ dpc' = "notify"
    /\ UNCHANGED <<transportVars, state, stop, sequence, timeouts, pc, asleep,
                   published, owed, foreign, failures>>

(* idle_.notify_all(), after the unlock.                                   *)
NotifyIdle ==
    /\ dpc = "notify"
    /\ asleep' = {}
    /\ dpc' = "loop"
    /\ UNCHANGED <<transportVars, busVars, polled, pc, historyVars>>

-----------------------------------------------------------------------------
(* The broker and the other processes on its topics.                       *)

BrokerAcknowledges ==
    /\ \E i \in 1..Len(inFlight) : Acknowledge(i)
    /\ UNCHANGED <<busVars, dpc, polled, pc, asleep, historyVars>>

DeliveryFails ==
    /\ failures < MaxFailures /\ failures' = failures + 1
    /\ \E i \in 1..Len(inFlight) : FailDelivery(i)
    /\ UNCHANGED <<busVars, dpc, polled, pc, asleep, published, handled, owed, foreign>>

OthersWrite ==
    /\ foreign < MaxForeign /\ foreign' = foreign + 1
    /\ \E message \in ForeignTexts : log' = Append(log, message)
    /\ UNCHANGED <<kind, inFlight, from, read, busVars, dpc, polled, pc, asleep,
                   published, handled, owed, failures>>

Continue(c) == WaitSleeps(c) \/ WaitReturns(c) \/ Join(c)

Call(c) == ClientPublish(c) \/ Start(c) \/ RequestShutdown(c) \/ DrainCall(c)

Dispatch ==
    \/ TestStop \/ PollNothing \/ PollMessage \/ SkipUndecodable
    \/ BeginDelivery \/ EndDelivery \/ NotifyIdle

Next ==
    \/ \E c \in Clients : Call(c) \/ Continue(c) \/ WaitTimesOut(c)
    \/ HandlerPublish \/ Dispatch
    \/ BrokerAcknowledges \/ DeliveryFails \/ OthersWrite

(* Threads keep running, the broker acknowledges what does not fail, and a *)
(* poll does not come back empty for ever while there is a message.        *)
Fairness ==
    /\ WF_vars(Dispatch) /\ SF_vars(PollMessage) /\ SF_vars(EndDelivery)
    /\ WF_vars(BrokerAcknowledges)
    /\ \A c \in Clients : WF_vars(Continue(c))

Spec == Init /\ [][Next]_vars
FairSpec == Spec /\ Fairness

-----------------------------------------------------------------------------
(* Properties.                                                             *)

(* While no drain has timed out, wait_until_drained() returns only when    *)
(* the handlers of everything sent before it was called are done, although *)
(* other processes' messages arrive in between and handlers publish.  One  *)
(* that found the bus shut down returns, timed out or not, only when no    *)
(* handler can run any more.                                               *)
DrainMeansHandled ==
    [][\A c \in Clients :
          pc[c] # "idle" /\ pc'[c] = "idle" =>
             /\ timeouts' = 0 => Len(handled') >= owed[c]
             /\ pc[c] = "join" => dpc' = "done"]_vars

(* What comes back is what was published, byte for byte of meaning, and at *)
(* most once.                                                              *)
ReadBackAsPublished ==
    /\ \A i \in 1..Len(handled) : handled[i] = published[handled[i].sequence]
    /\ \A i, j \in 1..Len(handled) : handled[i].sequence = handled[j].sequence => i = j

(* The events of one type and symbol are handled in publication order.     *)
OrderPerSymbol ==
    \A j \in 1..Len(handled) : \A i \in 1..(j - 1) :
        (/\ handled[i].type = handled[j].type
         /\ PartitionKey(handled[i]) = PartitionKey(handled[j]))
            => handled[i].sequence < handled[j].sequence

(* Nothing this bus sends is missed for having been sent before the        *)
(* subscription took its place in the log.                                 *)
NothingMissed == \A i \in 1..Len(log) : IsOwn(log[i].text) => i > from

(* Only what decodes reaches a handler: nothing unreadable, of another     *)
(* schema, or without a member its type requires.                          *)
HandlersSeeWholeEvents ==
    dpc = "handler" =>
        /\ Text.schema.is = Schema
        /\ DOMAIN Payloads[Text.type.is].required \subseteq DOMAIN Decode(Text).payload

(* With no message lost, a drain ends by itself: the timeout is not what   *)
(* it waits for.  (Once another client's drain has timed out, it may be:   *)
(* stop_ is set without a notification.)                                   *)
DrainEnds ==
    [](failures = 0 /\ timeouts = 0) =>
        \A c \in Clients : (pc[c] = "wait") ~> (pc[c] = "idle")

(* An event comes back whole or not at all: what a handler is given is     *)
(* what one of the publishers gave, once.                                  *)
ReadBackWhole == TypeOK /\ ReadBackAsPublished /\ HandlersSeeWholeEvents

(* The bus reads on from where it subscribed, in the order it published.   *)
ReadInOrder == OrderPerSymbol /\ NothingMissed
=============================================================================
