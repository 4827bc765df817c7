-------------------------- MODULE PlaybackCommands --------------------------
(***************************************************************************)
(* The commands of src/bot/commands/corePlaybackCommands.ts,               *)
(* queueEffectsMiscCommands.ts and of advancedCommands.ts that act on the  *)
(* session of one voice channel, behind the router.                        *)
(*                                                                         *)
(* Of the player they see the queue: the current track, the tracks after   *)
(* it and those before.  How a track is played is module MusicPlayer.      *)
(***************************************************************************)
EXTENDS CommandRouter

CONSTANTS
    LiveSongs,     \* those of Songs that are radio streams
    MaxQueue,      \* maxQueueSize
    MaxTracks      \* how many tracks are made in a behaviour (bound)

ASSUME PlaybackAssumption == LiveSongs \subseteq Songs /\ MaxQueue \in Nat \ {0} /\ MaxTracks \in Nat

VARIABLES
    session,       \* the session of the channel: its number, or None
    made,          \* how many tracks and sessions were made
    player,        \* the queue of the session
    votes,         \* the votes to skip: for which track, and whose
    cast,          \* history: the track each user has voted on last
    used,          \* history: the searches a track was queued from, in order
    handoff,       \* tempDjHandoff
    djs,           \* the users with a dj role, None when no role is set
    party,         \* who has voted in the party of the guild
    monitor        \* diagTrackMonitorsByGuild: the track that is watched

\* A track: its number, its song and who has asked for it.
NoPlayer == [cur |-> None, pending |-> <<>>, past |-> <<>>, on |-> FALSE, skipping |-> FALSE]
NoVotes == [track |-> None, voters |-> {}]

side == <<handoff, djs, party, monitor>>
voteVars == <<votes, cast>>
sessionVars == <<session, made, player, voteVars, used>>
vars == <<router, calls, mix, sessionVars, side>>

Init ==
    /\ RouterInit
    /\ session = None /\ made = 0 /\ player = NoPlayer
    /\ votes = NoVotes /\ cast = [u \in Users |-> None] /\ used = <<>>
    /\ handoff = None /\ party = None /\ monitor = None
    \* Is a dj role set?  Varied where a command of the mix asks.
    /\ djs \in IF mix \cap {"vote", "control", "party"} = {} THEN {None} ELSE {None, {}}

-----------------------------------------------------------------------------
(* The queue, as the commands see it *)

Track(n, song, u) == [id |-> n, song |-> song, by |-> u]
Tracks(c, songs) == [i \in DOMAIN songs |-> Track(made + i, songs[i], calls[c].user)]

\* enqueueResolvedTracks refuses what would not fit.
Fits(tracks) == Len(player.pending) + Len(tracks) <= MaxQueue

\* _hasDuplicateTrack, when dedupe is on.
Distinct(tracks) ==
    SelectSeq(tracks, LAMBDA t : \A q \in (ToSet(player.pending) \cup {player.cur}) \ {None} : q.song # t.song)

\* play(): the next track, unless something plays.
Playing(p) == IF p.on \/ p.pending = <<>> THEN p
              ELSE [p EXCEPT !.cur = Head(p.pending), !.pending = Tail(p.pending), !.on = TRUE]
WithNext(p, tracks) == [p EXCEPT !.pending = tracks \o @]
WithLast(p, tracks) == [p EXCEPT !.pending = @ \o tracks]
Skipped(p) == IF p.on THEN [p EXCEPT !.skipping = TRUE] ELSE p
LivePlays(p) == p.on /\ p.cur.song \in LiveSongs

\* The event trackStart: the votes are for the new track.  The watch of diag
\* ends with its track.
Started(p) == IF p.cur # player.cur /\ p.cur # None
              THEN votes' = [track |-> p.cur.id, voters |-> {}] ELSE UNCHANGED votes
Becomes(p) ==
    /\ player' = p
    /\ Started(p)
    /\ monitor' = IF player.cur # None /\ p.cur # player.cur /\ monitor = player.cur.id THEN None ELSE monitor
    /\ UNCHANGED cast

\* A track ends, or its skip has taken effect; the next begins.
TrackEnds ==
    LET over == [player EXCEPT !.past = Append(@, player.cur), !.cur = None, !.on = FALSE, !.skipping = FALSE]
    IN  /\ player.on
        /\ Becomes(Playing(over))
        /\ UNCHANGED <<router, calls, session, made, used, handoff, djs, party>>

-----------------------------------------------------------------------------
(* Who may do what *)

\* userHasDjAccess: during a handoff one user, otherwise the dj roles.
DjAccess(u) ==
    IF handoff # None /\ handoff.expires > clock THEN handoff.user = u ELSE (djs # None => u \in djs)

BugHalfIsEnough == Cardinality(Users) \div 2

\* computeVoteSkipRequirement, with everyone listening: at least two, at least half.
Required == IF Cardinality(Users) <= 1 THEN 1
            ELSE LET half == (Cardinality(Users) + 1) \div 2 IN IF half > 2 THEN half ELSE 2

\* A command that ends in the step that runs it, as its sender sees it.
Short(c, op) ==
    /\ At(c, "arrived", {op})
    /\ Admit(c)
    /\ Ends(c)
    /\ UNCHANGED <<clock, lockVars, found, begun>>
\* One for djs, that needs a session.
Control(c) ==
    /\ session # None /\ DjAccess(calls[c].user)
    /\ Short(c, "control")
    /\ UNCHANGED <<pages, session, used, handoff, djs, party>>

\* A command that is refused: no session, no track, no access, a bad argument,
\* or another play of the user within the cooldown.
Rejected(c) ==
    /\ calls[c].at = "arrived" /\ calls[c].op \notin Bypass
    /\ Admit(c)
    /\ Ends(c)
    /\ UNCHANGED <<clock, lockVars, found, begun, pages, sessionVars, side>>

-----------------------------------------------------------------------------
(* Commands on the current track and the queue *)

\* registerVoteSkip: votes for another track are forgotten.
Votes(u) == {u} \cup IF votes.track = player.cur.id THEN votes.voters ELSE {}

\* skip, by a dj or by vote.  A second vote of the same user counts for nothing.
Skip(c) ==
    LET u == calls[c].user
    IN  /\ session # None /\ player.cur # None
        /\ Short(c, "vote")
        /\ IF DjAccess(u) THEN player' = Skipped(player) /\ UNCHANGED voteVars
           ELSE /\ cast' = [cast EXCEPT ![u] = player.cur.id]
                /\ IF Cardinality(Votes(u)) >= Required /\ (votes.track # player.cur.id \/ u \notin votes.voters)
                   THEN player' = Skipped(player) /\ votes' = [track |-> player.cur.id, voters |-> {}]
                   ELSE votes' = [track |-> player.cur.id, voters |-> Votes(u)] /\ UNCHANGED player
        /\ UNCHANGED <<pages, session, made, used, side>>

\* What a dj may change without touching the queue.
Setting(c) == Control(c) /\ UNCHANGED <<made, player, voteVars, monitor>>
Pause(c) == Setting(c)
Resume(c) == Setting(c)
Loop(c) == Setting(c)
Volume(c) == Setting(c)
Eq(c) == Setting(c)

\* Shown to anyone.
Shows(c) == Short(c, "show") /\ UNCHANGED <<pages, sessionVars, side>>
Now(c) == Shows(c) /\ player.cur # None
VoteProgress(c) == Shows(c) /\ player.cur # None
Effects(c) == Shows(c) /\ session # None
Ping(c) == Shows(c)
Stats(c) == Shows(c)
Eval(c) == Shows(c)
Reputation(c) == Shows(c)
Taste(c) == Shows(c)

\* Pages that reactions turn.
ShowsPages(c, op) ==
    /\ At(c, "arrived", {op})
    /\ Admit(c)
    /\ Ends(c)
    /\ Paginates(2)
    /\ UNCHANGED <<clock, lockVars, found, begun, sessionVars, side>>
QueueShown(c) == ShowsPages(c, "show") /\ Len(player.pending) > 1
Lyrics(c) == ShowsPages(c, "show")
Help(c) == ShowsPages(c, "help")

\* The current track starts again as another one, for which no one has voted.
Restart(c) ==
    /\ Control(c)
    /\ player.on /\ made < MaxTracks
    /\ made' = made + 1
    /\ Becomes([player EXCEPT !.cur.id = made + 1, !.skipping = FALSE])

Reapplied(c) == IF player.on THEN Restart(c) ELSE Setting(c)
Seek(c) == player.on /\ player.cur.song \notin LiveSongs /\ Restart(c)
Filter(c) == Reapplied(c) \/ Setting(c)
Tempo(c) == Reapplied(c)
Pitch(c) == Reapplied(c)
Mood(c) == Reapplied(c)

\* queuePreviousTrack: in front of the queue, whatever its size.
Previous(c) ==
    /\ Control(c)
    /\ player.past # <<>> /\ made < MaxTracks
    /\ made' = made + 1
    /\ Becomes(Playing(WithNext(player, <<[Last(player.past) EXCEPT !.id = made + 1]>>)))

\* replay: the current track, else the last one, else the last of the stored history.
Replay(c) ==
    IF player.on THEN Restart(c)
    ELSE IF player.past # <<>> THEN Previous(c)
    ELSE /\ Control(c)
         /\ made < MaxTracks /\ made' = made + 1
         /\ \E s \in Songs : LET again == <<Track(made + 1, s, calls[c].user)>>
                             IN  Fits(again) /\ Becomes(Playing(WithNext(player, again)))

Edits(c) == Control(c) /\ UNCHANGED <<made, voteVars, monitor>>
RemoveTrack(c) == Edits(c) /\ \E i \in DOMAIN player.pending : player' = [player EXCEPT !.pending = RemoveAt(@, i)]
Clear(c) == Edits(c) /\ player' = [player EXCEPT !.pending = <<>>]
Shuffle(c) == Edits(c) /\ player' = [player EXCEPT !.pending = Reverse(@)]

\* handoff, for those who manage the guild.
Handoff(c) ==
    /\ session # None
    /\ Short(c, "control")
    /\ handoff' \in {None} \cup [user : Users, expires : {clock + 1}]
    /\ UNCHANGED <<pages, sessionVars, djs, party, monitor>>

\* party: start, vote once, end.
Party(c) ==
    /\ Short(c, "party")
    /\ \/ party' \in {None, {}}
       \/ party # None /\ party' = party \cup {calls[c].user}
    /\ UNCHANGED <<pages, sessionVars, handoff, djs, monitor>>

\* diag track, and cancel.  Only the end of the track ends the watch.
Diag(c) ==
    /\ Short(c, "show")
    /\ \/ monitor # None /\ monitor' = None
       \/ monitor = None /\ session # None /\ player.cur # None /\ monitor' = player.cur.id
    /\ UNCHANGED <<pages, sessionVars, handoff, djs, party>>

\* destroy(): stop() ends no track that anyone hears of.
Destroyed ==
    /\ session' = None /\ player' = NoPlayer /\ votes' = NoVotes /\ handoff' = None
    /\ UNCHANGED <<made, cast, used, djs, party, monitor>>

Leave(c) ==
    /\ session # None /\ DjAccess(calls[c].user)
    /\ Short(c, "control")
    /\ Destroyed
    /\ UNCHANGED pages

-----------------------------------------------------------------------------
(* Commands that wait *)

kept == <<pages, used, handoff, djs, party>>

\* withGuildOpLock, then the progress message and who may be where.
Begins(c) ==
    /\ At(c, "arrived", LongOps \ {"pick"})
    /\ LockFree(KeyOf(calls[c].op)) /\ Admit(c)
    /\ Take(KeyOf(calls[c].op))
    /\ Goto(c, "connect")
    /\ UNCHANGED <<clock, found, begun, pages, sessionVars, side>>

Join(c) ==
    /\ At(c, "arrived", {"join"})
    /\ Admit(c)
    /\ Goto(c, "connect")
    /\ UNCHANGED <<clock, lockVars, found, begun, pages, sessionVars, side>>

\* pick looks the result up before it asks for the lock.
BeginsPick(c) ==
    LET u == calls[c].user
    IN  /\ At(c, "arrived", {"pick"})
        /\ Selectable(u) /\ LockFree("pick") /\ Admit(c)
        /\ Take("pick")
        /\ \E i \in DOMAIN selections[u].tracks :
              calls' = [calls EXCEPT ![c].at = "connect", ![c].search = selections[u].search,
                                     ![c].tracks = <<selections[u].tracks[i]>>]
        /\ UNCHANGED <<clock, found, begun, pages, sessionVars, side>>

\* prepareSessionConnection: the session of the channel, or a new one.
Connects(c) ==
    /\ calls[c].at = "connect"
    /\ \/ session # None /\ UNCHANGED <<session, made>>
       \/ session = None /\ made < MaxTracks /\ session' = made + 1 /\ made' = made + 1
    /\ calls' = [calls EXCEPT ![c].at = "resolve", ![c].session = session', ![c].had = session # None]
    /\ UNCHANGED <<router, player, voteVars, used, side>>

\* The call is over: its lock is free, its user has his answer.
Finishes(c) == Release(c) /\ Ends(c)

\* connectPreparedSession fails: a session it has opened goes, and one it has
\* found goes unless it may yet be used.
ConnectFails(c) ==
    /\ calls[c].at = "resolve"
    /\ Finishes(c)
    /\ \/ calls[c].had /\ UNCHANGED <<sessionVars, side>>
       \/ calls[c].session = session /\ Destroyed
       \/ calls[c].session # session /\ UNCHANGED <<sessionVars, side>>
    /\ UNCHANGED <<clock, gate, found, pages, begun>>

JoinEnds(c) ==
    /\ At(c, "resolve", {"join"})
    /\ Finishes(c)
    /\ UNCHANGED <<clock, gate, found, pages, begun, sessionVars, side>>

\* Nothing was found, everything is in the queue already, the queue is full or
\* guarded, or the permission or the request failed.
NothingQueued(c) ==
    /\ calls[c].at \in {"connect", "resolve"}
    /\ Finishes(c)
    /\ UNCHANGED <<clock, gate, found, pages, begun, sessionVars, side>>

\* The tracks are queued and, if nothing plays, play() starts one; `front' says
\* before the others, `cut' that the live track ends.  The player of a session
\* that has been destroyed plays to no one.
Queues(c, tracks, front, cut) ==
    LET more == IF front THEN WithNext(player, tracks) ELSE WithLast(player, tracks)
    IN  IF calls[c].session # session THEN UNCHANGED <<player, voteVars, monitor>>
        ELSE Fits(tracks) /\ Becomes(IF cut THEN Skipped(more) ELSE Playing(more))

\* What a query resolves to: at most two tracks.
Results == [1..1 -> Songs] \cup {songs \in [1..2 -> Songs] : IsInjective(songs)}

\* play, and the first track of a playlist: live playback is interrupted.
Plays(c) ==
    /\ At(c, "resolve", {"play", "playlist"})
    /\ \E songs \in IF calls[c].op = "play" THEN Results ELSE [1..1 -> Songs] :
          /\ made + Len(songs) <= MaxTracks
          /\ \E tracks \in {Tracks(c, songs), Distinct(Tracks(c, songs))} \ {<<>>} :
                Queues(c, tracks, LivePlays(player), LivePlays(player))
          /\ made' = made + Len(songs)
    /\ Goto(c, "reply")
    /\ UNCHANGED <<clock, gate, lockVars, found, begun, session, kept>>

PlaysNext(c) ==
    /\ At(c, "resolve", {"playnext"})
    /\ \E songs \in Results :
          /\ made + Len(songs) <= MaxTracks
          /\ \E tracks \in {Tracks(c, songs), Distinct(Tracks(c, songs))} \ {<<>>} : Queues(c, tracks, TRUE, FALSE)
          /\ made' = made + Len(songs)
    /\ Goto(c, "reply")
    /\ UNCHANGED <<clock, gate, lockVars, found, begun, session, kept>>

\* radio: not the station that plays or is queued.
NewStation(track) == Distinct(<<track>>)

Radio(c) ==
    /\ At(c, "resolve", {"radio"})
    /\ made < MaxTracks
    /\ \E s \in LiveSongs :
          LET tracks == NewStation(Track(made + 1, s, calls[c].user))
          IN  tracks # <<>> /\ Queues(c, tracks, LivePlays(player), LivePlays(player))
    /\ made' = made + 1
    /\ Goto(c, "reply")
    /\ UNCHANGED <<clock, gate, lockVars, found, begun, session, kept>>

\* The results are kept for the user, then the message with them is sent.
Searches(c) ==
    /\ At(c, "resolve", {"search"})
    /\ \E s \in Songs : /\ SaveSelection(c, <<s>>)
                       /\ calls' = [calls EXCEPT ![c].at = "post", ![c].tracks = <<s>>]
    /\ UNCHANGED <<clock, gate, lockVars, offers, begun, sessionVars, side, pages>>

\* It is sent, and its reactions are awaited; or it fails.
Posts(c) ==
    /\ At(c, "post", {"search"})
    /\ Offer(c) \/ UNCHANGED offers
    /\ Finishes(c)
    /\ UNCHANGED <<clock, gate, selections, pages, begun, sessionVars, side>>

\* The pick is queued, unless dedupe refuses it; the selection goes, be it of a
\* later search.
Picks(c) ==
    LET track == Track(made + 1, calls[c].tracks[1], calls[c].user)
    IN  /\ At(c, "resolve", {"pick"})
        /\ made < MaxTracks /\ made' = made + 1
        /\ Queues(c, <<track>>, FALSE, FALSE)
        /\ used' = Append(used, calls[c].search)
        /\ selections' = ClearSelection(calls[c].user)
        /\ Goto(c, "reply")
        /\ UNCHANGED <<clock, gate, lockVars, offers, begun, pages, session, handoff, djs, party>>

\* The answer is sent.  What is left of a playlist is loaded without the lock.
Replies(c) ==
    /\ calls[c].at = "reply"
    /\ Release(c)
    /\ IF calls[c].op = "playlist" THEN Goto(c, "background") ELSE Ends(c)
    /\ UNCHANGED <<clock, gate, found, pages, begun, sessionVars, side>>

\* enqueueTracksUntilFull: one track, then the message is edited.
Loads(c) ==
    /\ calls[c].at = "background"
    /\ made < MaxTracks /\ made' = made + 1
    /\ \E s \in Songs : LET track == <<Track(made + 1, s, calls[c].user)>>
                        IN  IF calls[c].session # session THEN UNCHANGED player
                            ELSE Fits(track) /\ player' = WithLast(player, track)
    /\ UNCHANGED <<calls, router, session, voteVars, monitor, kept>>

\* All tracks are loaded, the queue is full, or the request failed.
LoadsNoMore(c) ==
    /\ calls[c].at = "background"
    /\ Ends(c)
    /\ UNCHANGED <<router, sessionVars, side>>

\* A reaction on the results of a search.
Reacts(c) ==
    /\ \/ \E u \in Users : SearchReaction(c, u) \/ TurnPage(c, u)
       \/ PageTurns(c)
       \/ ReactionApplies(c, session # None)
       \/ ReactionThrows(c)
    /\ UNCHANGED <<sessionVars, side>>

-----------------------------------------------------------------------------

RouterStep ==
    /\ \/ Tick \/ CleanupEphemeral \/ PruneSelections
       \/ \E c \in Calls : \/ \E u \in Users, op \in Ops : Arrives(c, u, op)
                            \/ Blocked(c) \/ RateLimited(c) \/ AlreadyRunning(c)
    /\ UNCHANGED <<sessionVars, side>>

ShortStep(c) ==
    \/ Rejected(c) \/ Skip(c) \/ Pause(c) \/ Resume(c) \/ Loop(c) \/ Volume(c) \/ Eq(c) \/ Now(c)
    \/ VoteProgress(c) \/ Effects(c) \/ Ping(c) \/ Stats(c) \/ Eval(c) \/ Reputation(c) \/ Taste(c)
    \/ QueueShown(c) \/ Lyrics(c) \/ Help(c) \/ Seek(c) \/ Filter(c) \/ Tempo(c) \/ Pitch(c) \/ Mood(c)
    \/ Previous(c) \/ Replay(c) \/ RemoveTrack(c) \/ Clear(c) \/ Shuffle(c) \/ Handoff(c) \/ Party(c) \/ Diag(c) \/ Leave(c)

LongStep(c) ==
    \/ Begins(c) \/ Join(c) \/ BeginsPick(c) \/ Connects(c) \/ ConnectFails(c) \/ JoinEnds(c)
    \/ NothingQueued(c) \/ Plays(c) \/ PlaysNext(c) \/ Radio(c) \/ Searches(c) \/ Posts(c)
    \/ Picks(c) \/ Replies(c) \/ Loads(c) \/ LoadsNoMore(c)

Next ==
    /\ RouterStep \/ TrackEnds \/ \E c \in Calls : ShortStep(c) \/ LongStep(c) \/ Reacts(c)
    /\ UNCHANGED mix

Spec == Init /\ [][Next]_vars

-----------------------------------------------------------------------------
(* What the commands promise *)

Admitted(t, users) == {i \in DOMAIN log : log[i].user \in users /\ log[i].at \in (t - Window + 1)..t}

\* In no window are more commands of the guild, or of one user, admitted than
\* the limiter allows, whenever its buckets are cleaned.
RateHeld ==
    \A i \in DOMAIN log :
        /\ Cardinality(Admitted(log[i].at, Users)) <= GuildMax
        /\ Cardinality(Admitted(log[i].at, {log[i].user})) <= UserMax

\* _withGuildOpLock: a lock is held only while a command of its name runs, and
\* two of them run at once only after the sweep has taken the lock of one that
\* was too slow.
LocksFollowOps ==
    \A k \in LockKeys :
        /\ locks[k] # None => \E c \in Calls : Runs(c, k)
        /\ k \notin overran => /\ Cardinality({c \in Calls : Runs(c, k)}) <= 1
                              /\ (locks[k] = None => ~\E c \in Calls : Runs(c, k))

\* A track is skipped by vote only when at least half of the listeners, and at
\* least two if there are two, have voted on this very track, however the votes
\* and the changes of track interleave.
VoteSkipsAreMajority ==
    [][\A c \in Calls :
          Skip(c) /\ ~DjAccess(calls[c].user) /\ player'.skipping /\ ~player.skipping =>
              LET voters == {u \in Users : cast'[u] = player.cur.id}
              IN  /\ 2 * Cardinality(voters) >= Cardinality(Users)
                  /\ Cardinality(Users) >= 2 => Cardinality(voters) >= 2]_vars

\* One search is queued from at most once by pick, unless the lock of pick was
\* swept: the selection that is looked up before the lock is taken goes before
\* the lock does.
SelectionUsedOnce == "pick" \notin overran => IsInjective(used)
=============================================================================
