---------------------------- MODULE MCMusicPlayer ----------------------------
(* Small instances of MusicPlayer for TLC.                                 *)
EXTENDS MusicPlayer, TLC

CONSTANTS yt, http, p1, p2, p3

PlaySymmetry == Permutations(Plays)
==============================================================================
