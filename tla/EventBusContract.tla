-------------------------- MODULE EventBusContract --------------------------
(***************************************************************************)
(* What IEventBus promises its callers about the events it accepts and     *)
(* about its lifecycle (the contract of                                    *)
(* src/include/trading_engine/events/event_bus.hpp:20-55, items 1 and 4-6, *)
(* and IEventBus itself), with no queue, no threads and no locks.          *)
(*                                                                         *)
(* Events are numbered 1, 2, 3, ... in the order they are accepted, so     *)
(* "delivered up to n" says which ones, in which order, and how often.     *)
(***************************************************************************)
EXTENDS Naturals

VARIABLES phase,        \* "NotStarted", "Running", "Draining" or "Stopped"
          accepted,     \* the number of the last event accepted
          delivered,    \* the number of the last event whose handlers are done
          handling      \* the handlers of event delivered + 1 are running

vars == <<phase, accepted, delivered, handling>>

Init ==
    /\ phase = "NotStarted"
    /\ accepted = 0
    /\ delivered = 0
    /\ handling = FALSE

Start ==
    /\ phase = "NotStarted"
    /\ phase' = "Running"
    /\ UNCHANGED <<accepted, delivered, handling>>

(* From outside, while the bus runs; from a handler, until it stops.       *)
Accept ==
    /\ phase = "Running" \/ (phase = "Draining" /\ handling)
    /\ accepted' = accepted + 1
    /\ UNCHANGED <<phase, delivered, handling>>

BeginHandling ==
    /\ phase \in {"Running", "Draining"}
    /\ ~handling
    /\ delivered < accepted
    /\ handling' = TRUE
    /\ UNCHANGED <<phase, accepted, delivered>>

EndHandling ==
    /\ handling
    /\ handling' = FALSE
    /\ delivered' = delivered + 1
    /\ UNCHANGED <<phase, accepted>>

Shutdown ==
    /\ \/ phase = "Running" /\ phase' = "Draining"
       \/ phase = "NotStarted" /\ phase' = "Stopped"
    /\ UNCHANGED <<accepted, delivered, handling>>

(* The dispatcher stops only once everything accepted has been delivered.  *)
Stop ==
    /\ phase = "Draining"
    /\ ~handling
    /\ delivered = accepted
    /\ phase' = "Stopped"
    /\ UNCHANGED <<accepted, delivered, handling>>

Next == Start \/ Accept \/ BeginHandling \/ EndHandling \/ Shutdown \/ Stop

Spec == Init /\ [][Next]_vars
=============================================================================
