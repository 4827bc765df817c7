---------------------- MODULE MCPlaybackCommands ----------------------
(* PlaybackCommands for TLC: two users, two commands at a time. *)
EXTENDS PlaybackCommands, TLC

\* Which commands meet in one behaviour.
MCMixes == {{"search", "pick"}, {"play", "control"}, {"radio", "join"}, {"playnext", "show"},
            {"play", "vote"}, {"playlist"}, {"party", "help"}}

\* Calls are interchangeable, and so are users: nothing tells one from the other.
Symmetric == Permutations(Calls) \cup Permutations(Users)
=======================================================================
