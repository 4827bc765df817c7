--------------------------- MODULE MCVoiceConnect ---------------------------
(* The two connections of two voice channels of a guild.                     *)
EXTENDS VoiceConnect
CONSTANTS v1, v2, x, y, c1, c2, c3, t1, t2
TwoConns == {v1, v2}
TwoChannels == {x, y}
HomeOf == [v \in Conns |-> IF v = v1 THEN x ELSE y]
ThreeCalls == {c1, c2, c3}
TwoTracks == {t1, t2}
=============================================================================
