--------------------------- MODULE MessageTransport ---------------------------
(***************************************************************************)
(* IMessageTransport as one process sees it: the in-memory broker          *)
(* (events/message_transport.cpp) or Kafka (kafka/rdkafka_transport.cpp).  *)
(*                                                                         *)
(* The broker's topics are one log in the order of arrival.  The in-memory *)
(* transport appends at once and reads the log in order.  With Kafka what  *)
(* is sent is in flight until the broker acknowledges it or it fails, and  *)
(* only messages of one topic and key are read in their order.  Offsets    *)
(* are assigned once, by subscribe(), and never committed.                 *)
(***************************************************************************)
EXTENDS Naturals, Sequences, SequencesExt

VARIABLES
    kind,            \* "memory" or "kafka", which never changes
    inFlight,        \* in the producer's queue
    log,             \* the broker's messages: [topic, key, text]
    from,            \* where subscribe() began to read, 0 before
    read             \* the places of the log that poll() has returned

transportVars == <<kind, inFlight, log, from, read>>

TransportInit ==
    /\ kind \in {"memory", "kafka"}
    /\ inFlight = <<>>
    /\ log = <<>>
    /\ from = 0
    /\ read = {}

(* A fault: messages are spread over the partitions.                       *)
AnyPartition(m, n) == FALSE

(* Messages that keep their order.                                         *)
SamePartition(m, n) == m.topic = n.topic /\ m.key = n.key

(* send(): librdkafka queues, the in-memory broker has it at once.         *)
SendMessage(message) ==
    \/ /\ kind = "memory"
       /\ log' = Append(log, message)
       /\ UNCHANGED inFlight
    \/ /\ kind = "kafka"
       /\ inFlight' = Append(inFlight, message)
       /\ UNCHANGED log

(* The broker acknowledges a message, or on_delivery() is told it failed.  *)
FirstInFlight(i) == \A j \in 1..(i - 1) : ~SamePartition(inFlight[j], inFlight[i])

Acknowledge(i) ==
    /\ FirstInFlight(i)
    /\ inFlight' = RemoveAt(inFlight, i)
    /\ log' = Append(log, inFlight[i])
    /\ UNCHANGED <<kind, from, read>>

FailDelivery(i) ==
    /\ inFlight' = RemoveAt(inFlight, i)
    /\ UNCHANGED <<kind, log, from, read>>

(* subscribe(): from the end of every topic as it is now.                  *)
End == Len(log)

Subscribe ==
    /\ from' = End
    /\ UNCHANGED <<kind, inFlight, log, read>>

(* poll(): the next message of some partition, of the log with one reader. *)
Readables ==
    {i \in (from + 1)..Len(log) :
        /\ i \notin read
        /\ \A j \in (from + 1)..(i - 1) :
              j \in read \/ (kind = "kafka" /\ ~SamePartition(log[j], log[i]))}

Poll(i) ==
    /\ i \in Readables
    /\ read' = read \cup {i}
    /\ UNCHANGED <<kind, inFlight, log, from>>
=============================================================================
