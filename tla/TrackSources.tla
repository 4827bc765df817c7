---------------------------- MODULE TrackSources ----------------------------
(***************************************************************************)
(* Lookups, and the Deezer track one of them found the url for: the stream *)
(* begins when a "stream" lookup is done (_startDeezerPipeline).  It is    *)
(* looked at once no lookup is under way; they share nothing else.         *)
(***************************************************************************)
EXTENDS TrackResolver, DeezerStream

allVars == <<resolverVars, streamVars>>

Starts ==
    /\ \A c \in Lookups : Ended(c)
    /\ \E c \in Lookups : lookup[c].kind = "stream" /\ lookup[c].at = "done"
    /\ mix = "one" /\ StartPipeline /\ UNCHANGED resolverVars

SourcesInit == ResolverInit /\ StreamInit
SourcesNext ==
    \/ ResolverNext /\ UNCHANGED streamVars
    \/ Starts
    \/ StreamNext /\ UNCHANGED resolverVars
SourcesSpec ==
    /\ SourcesInit /\ [][SourcesNext]_allVars
    /\ \A c \in Lookups : WF_allVars(Proceed(c) /\ UNCHANGED streamVars)
    /\ WF_allVars(StreamProceeds /\ UNCHANGED resolverVars)

\* Every query is answered and every stream that was begun settles: no
\* fallback leads back to an earlier one, a ring of radio playlists is
\* followed once, and no ffmpeg is left waiting for a stream that has failed
\* (_resolveTracks, _resolveRadioStreamTrack, _startDeezerEncryptedPipeline).
EverythingSettles == EveryQueryEnds /\ StreamSettles
=============================================================================
