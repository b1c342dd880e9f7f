------------------------- MODULE MCInProcessEventBus -------------------------
(* A bus with room for one event: two publishers block and race for the    *)
(* room, while either may drain it or shut it down.                        *)
EXTENDS InProcessEventBus

CONSTANTS c1, c2

TwoClients == {c1, c2}
=============================================================================
