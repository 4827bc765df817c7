------------------------- MODULE MCSessionSnapshots -------------------------
(* Small instances of SessionSnapshots for TLC.                              *)
EXTENDS SessionSnapshots, TLC
CONSTANTS c1, c2
OneChannel == {c1}
TwoChannels == {c1, c2}
ChannelSymmetry == Permutations(TwoChannels)
=============================================================================
