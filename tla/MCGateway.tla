------------------------------ MODULE MCGateway ------------------------------
(* The websocket in use, and one that was replaced before it closed.         *)
EXTENDS Gateway
CONSTANTS s1, s2
TwoSockets == {s1, s2}
=============================================================================
