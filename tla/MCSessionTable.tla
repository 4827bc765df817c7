--------------------------- MODULE MCSessionTable ---------------------------
(* One or two voice channels, two session objects, one or two operations.      *)
EXTENDS SessionTable
CONSTANTS s1, s2, x, y, o1, o2
TwoSessions == {s1, s2}
OneChannel == {x}
TwoChannels == {x, y}
OneOp == {o1}
TwoOps == {o1, o2}
=============================================================================
