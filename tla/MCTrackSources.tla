--------------------------- MODULE MCTrackSources ---------------------------
(* TrackSources for TLC: configurations that lack at most two flags. *)
EXTENDS TrackSources
MCConfigs == {f \in SUBSET Flags : Cardinality(Flags \ f) <= 2}
MCShared == {"spotify", "deezer", "stream"}
=============================================================================
