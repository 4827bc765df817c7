----------------------------- MODULE MusicPlayer -----------------------------
(***************************************************************************)
(* The playback lifecycle of one MusicPlayer: src/player/MusicPlayer.ts    *)
(* (play and the startup tokens), musicPlayer/queueLifecycleMethods.ts     *)
(* (skip, seek, stop, the track-close handler), musicPlayer/processUtils   *)
(* and Queue.ts.                                                           *)
(*                                                                         *)
(* play() is one asynchronous function.  Each call that finds a track is a *)
(* playback p \in Plays; the code between two awaits is one action, so the *)
(* actions of several playbacks, the user's commands and the 'close'       *)
(* events of the ffmpeg processes interleave as they do on the Node loop.  *)
(* Playback identifiers are reused once a playback and its process are     *)
(* gone: the two counters of the code are only compared with the value a   *)
(* playback was given, so "the token of p is current" is all they tell.    *)
(***************************************************************************)
EXTENDS Naturals, Sequences, FiniteSets

CONSTANTS
    Songs,            \* what a queue entry plays (its url)
    YouTube,          \* the songs whose source starts with 'youtube'
    Seekable,         \* the songs canSeekCurrentTrack accepts
    Plays,            \* identifiers of playbacks (bound: alive at once)
    None,             \* null
    MaxQueue,         \* maxQueueSize
    MaxHistory,       \* maxHistorySize
    FailLimit,        \* STARTUP_FAILURE_STREAK_LIMIT
    QueueBound,       \* bound on the pending queue, paths without a limit check
    ReuseAfterStop    \* may a command that still holds the session use its
                      \* player after destroy() called stop() ?

ASSUME SongsAssumption == YouTube \subseteq Songs /\ Seekable \subseteq Songs
ASSUME NoneAssumption == None \notin Plays /\ None \notin [song : Songs, retries : 0..1, recovery : 0..1]
ASSUME BoundsAssumption ==
    /\ MaxQueue \in Nat /\ QueueBound \in Nat
    /\ MaxHistory \in Nat /\ FailLimit \in Nat
    /\ ReuseAfterStop \in BOOLEAN

VARIABLES
    queue,            \* Queue.tracks: the pending tracks
    current,          \* Queue.current
    history,          \* trackHistory
    playing, paused,
    skipRequested,
    pendingSeek,      \* pendingSeekTrack
    loopMode,
    failures,         \* consecutiveStartupFailures, saturated at FailLimit
    clock,            \* trackStartedAtMs # null
    play,             \* play[p]: the state of the asynchronous call p
    startupToken,     \* the playback whose startup token is the latest, or None
    playbackToken,    \* the playback whose playback token is the latest, or None
    ffmpeg,           \* this.ffmpeg, named by the playback that spawned it
    proc,             \* proc[p]: the ffmpeg process p spawned
    voice,            \* the playback whose output the voice connection pumps
    stopped,          \* stop() was called
    emitted           \* the events emitted in the last step

queueVars == <<queue, current, history, loopMode>>
flagVars  == <<playing, paused, skipRequested, pendingSeek, failures, clock>>
taskVars  == <<play, startupToken, playbackToken>>
procVars  == <<ffmpeg, proc, voice>>
vars == <<queueVars, flagVars, taskVars, procVars, stopped, emitted>>

-----------------------------------------------------------------------------
Track == [song : Songs, retries : 0..1, recovery : 0..1]
NewTrack(song) == [song |-> song, retries |-> 0, recovery |-> 0]

\* "resolving": the source is being resolved and ffmpeg not spawned;
\* "grace": ffmpeg runs, the pipeline promise is pending;
\* "chunk": waiting for the first PCM chunk; "started": audio flows;
\* "diag": startup failed, waiting for voice.getDiagnostics in the catch block.
Phases == {"idle", "resolving", "grace", "chunk", "diag", "started"}
Pending(p) == play[p].phase \in Phases \ {"idle", "started"}

\* A playback past "idle" has its track, one past "grace" its process.
PlayStates ==
    {r \in [phase : Phases, track : Track \cup {None}, ff : Plays \cup {None}] :
        /\ r.phase # "idle" => r.track \in Track
        /\ r.phase \in {"chunk", "started"} => r.ff \in Plays}
ProcStates == {"none", "running", "killed"}

IdlePlay == [phase |-> "idle", track |-> None, ff |-> None]
Event(type, p) == [type |-> type, play |-> p]

TypeOK ==
    /\ queue \in Seq(Track)
    /\ current \in Track \cup {None}
    /\ history \in Seq(Track) /\ Len(history) <= MaxHistory
    /\ playing \in BOOLEAN /\ paused \in BOOLEAN
    /\ skipRequested \in BOOLEAN /\ clock \in BOOLEAN /\ stopped \in BOOLEAN
    /\ pendingSeek \in Track \cup {None}
    /\ loopMode \in {"off", "track", "queue"}
    /\ failures \in 0..FailLimit
    /\ play \in [Plays -> PlayStates]
    /\ startupToken \in Plays \cup {None}
    /\ playbackToken \in Plays \cup {None}
    /\ ffmpeg \in Plays \cup {None}
    /\ proc \in [Plays -> ProcStates]
    /\ voice \in Plays \cup {None}

Init ==
    /\ queue = <<>> /\ current = None /\ history = <<>> /\ loopMode = "off"
    /\ playing = FALSE /\ paused = FALSE /\ skipRequested = FALSE
    /\ pendingSeek = None /\ failures = 0 /\ clock = FALSE
    /\ play = [p \in Plays |-> IdlePlay]
    /\ startupToken = None /\ playbackToken = None
    /\ ffmpeg = None /\ proc = [p \in Plays |-> "none"] /\ voice = None
    /\ stopped = FALSE /\ emitted = {}

-----------------------------------------------------------------------------
(* Pieces the handlers share.  `pr` is the process table the step works on. *)

\* Definitions named Bug... are faulty variants of the definition that follows
\* them; no specification uses them.

BugCleanupKillsNothing(pr) == pr

\* cleanupProcesses: SIGKILL whatever this.ffmpeg refers to.
Killed(pr) == [q \in Plays |-> IF q = ffmpeg /\ pr[q] = "running" THEN "killed" ELSE pr[q]]

\* _rememberTrack
Remember(track) ==
    LET h == Append(history, track)
    IN  IF Len(h) > MaxHistory THEN SubSeq(h, Len(h) - MaxHistory + 1, Len(h)) ELSE h

\* The part of play() before its first await, entered with pending queue q
\* (not empty), play table t and process table pr.
BeginPlay(q, t, pr) ==
    \E p \in Plays :
        /\ t[p].phase = "idle" /\ play[p].phase = "idle" /\ pr[p] = "none"
        /\ play' = [t EXCEPT ![p] = [phase |-> "resolving", track |-> Head(q), ff |-> None]]
        /\ startupToken' = p /\ playbackToken' = p
        /\ queue' = Tail(q) /\ current' = Head(q)
        /\ playing' = TRUE /\ paused' = FALSE /\ skipRequested' = FALSE
        /\ proc' = Killed(pr) /\ ffmpeg' = None

\* What _handleTrackClose finds when it is entered: the flag it reads as
\* wasSkip, the continuation, the tokens and the voice stream.
NaturalEnd == [skip |-> skipRequested, seek |-> pendingSeek, voice |-> voice,
               startup |-> startupToken, playback |-> playbackToken]
Transition(seek) == [skip |-> TRUE, seek |-> seek, voice |-> None,
                     startup |-> None, playback |-> None]

\* _handleTrackClose past its token check: continue with the seek or recovery
\* clone, the loop clone, or the next track; else the player is idle.
TrackClosed(track, at, endedEarly, t, pr) ==
    LET recovers == /\ at.seek = None /\ ~at.skip /\ endedEarly
                    /\ track.song \in YouTube /\ track.recovery < 1
        loops == at.seek = None /\ ~recovers /\ ~at.skip
        q == CASE at.seek # None -> <<at.seek>> \o queue
               [] recovers -> <<[track EXCEPT !.recovery = 1]>> \o queue
               [] loops /\ loopMode = "track" -> <<track>> \o queue
               [] loops /\ loopMode = "queue" -> Append(queue, track)
               [] OTHER -> queue
        ended == Event("trackEnd", playbackToken)
    IN  /\ pendingSeek' = None /\ clock' = FALSE
        /\ history' = IF at.seek # None \/ recovers THEN history ELSE Remember(track)
        /\ voice' = IF q = <<>> THEN None ELSE at.voice
        /\ \/ /\ q # <<>>
              /\ BeginPlay(q, t, pr)
              /\ emitted' = {ended}
              /\ UNCHANGED failures
           \/ /\ q = <<>>
              /\ queue' = q /\ current' = None /\ playing' = FALSE /\ paused' = FALSE
              /\ play' = t /\ proc' = Killed(pr) /\ ffmpeg' = None /\ failures' = 0
              /\ skipRequested' = at.skip
              /\ startupToken' = at.startup /\ playbackToken' = at.playback
              /\ emitted' = {ended, Event("queueEmpty", playbackToken)}
        /\ UNCHANGED <<loopMode, stopped>>

CanRetry(track) == track.song \in YouTube /\ track.retries < 1

StreakReached(n) == n >= FailLimit

\* An abandoned startup only announces an empty queue to a user who interrupted it.
BugAbortAnnouncesSeekOnly == pendingSeek # None
AbortAnnounced == skipRequested \/ pendingSeek # None

\* The catch block of play() from `const pendingSeekTrack` to its end.
\* outcome: "aborted" (PlaybackStartupAbortedError), "flood" (no audio output)
\* or "other".
FinishCatch(p, outcome, pr) ==
    LET track == play[p].track
        aborted == outcome = "aborted"
        retry == outcome = "flood" /\ CanRetry(track)
        streak == IF aborted THEN failures
                  ELSE IF retry \/ outcome = "other" THEN 0
                  ELSE IF failures < FailLimit THEN failures + 1 ELSE FailLimit
        front == IF aborted /\ pendingSeek # None THEN <<pendingSeek>>
                 ELSE IF retry THEN <<[track EXCEPT !.retries = 1]>> ELSE <<>>
        q == front \o queue
        halts == ~aborted /\ q # <<>> /\ StreakReached(streak)
        t == [play EXCEPT ![p] = IdlePlay]
        error == IF outcome = "other" THEN {Event("trackError", p)} ELSE {}
    IN  /\ failures' = streak /\ pendingSeek' = None /\ clock' = FALSE
        /\ \/ /\ q # <<>> /\ ~halts
              /\ BeginPlay(q, t, pr)
              /\ emitted' = error
              /\ UNCHANGED voice
           \/ /\ q = <<>> \/ halts
              /\ queue' = <<>> /\ current' = None /\ playing' = FALSE /\ paused' = FALSE
              /\ play' = t /\ proc' = Killed(pr) /\ ffmpeg' = None /\ voice' = None
              /\ emitted' = error \cup
                   IF ~aborted \/ AbortAnnounced
                   THEN {Event("queueEmpty", p)} ELSE {}
              /\ UNCHANGED <<skipRequested, startupToken, playbackToken>>
        /\ UNCHANGED <<history, loopMode, stopped>>

\* The catch block before its await: a startup that produced no audio reports
\* trackError unless it will be retried, then awaits voice.getDiagnostics.
AwaitDiagnostics(p, pr) ==
    /\ play' = [play EXCEPT ![p].phase = "diag"]
    /\ proc' = pr
    /\ emitted' = IF CanRetry(play[p].track) THEN {} ELSE {Event("trackError", p)}
    /\ UNCHANGED <<queueVars, flagVars, startupToken, playbackToken, ffmpeg, voice, stopped>>

-----------------------------------------------------------------------------
(* The awaits of play(), in order.                                         *)

\* this.ffmpeg = await this._spawnProcess(...): the assignment replaces
\* whatever this.ffmpeg referred to.
SpawnFfmpeg(p) ==
    /\ play[p].phase = "resolving"
    /\ play' = [play EXCEPT ![p].phase = "grace"]
    /\ proc' = [proc EXCEPT ![p] = "running"]
    /\ ffmpeg' = p
    /\ emitted' = {}
    /\ UNCHANGED <<queueVars, flagVars, startupToken, playbackToken, voice, stopped>>

\* _startYtDlpPipeline: a strategy failed during its grace period; its catch
\* block runs _cleanupProcesses and the next strategy starts from scratch.
RetryStrategy(p) ==
    /\ play[p].phase = "grace"
    /\ play' = [play EXCEPT ![p].phase = "resolving"]
    /\ proc' = [Killed(proc) EXCEPT ![p] = "none"]
    /\ ffmpeg' = None
    /\ emitted' = {}
    /\ UNCHANGED <<queueVars, flagVars, startupToken, playbackToken, voice, stopped>>

\* No pipeline could be started: the catch block runs with a plain error,
\* whether or not the startup was invalidated meanwhile.
PipelineFails(p) ==
    /\ play[p].phase \in {"resolving", "grace"}
    /\ FinishCatch(p, "other", [Killed(proc) EXCEPT ![p] = "none"])

\* The pipeline promise resolved: token check, capture of this.ffmpeg, close
\* listener, voice.sendAudio (its only await is an immediately resolved one,
\* so nothing runs in between), token check, and the wait for a first chunk.
PipelineReady(p) ==
    /\ play[p].phase = "grace"
    /\ \/ /\ startupToken # p
          /\ FinishCatch(p, "aborted", proc)
       \/ /\ startupToken = p /\ ffmpeg # None
          /\ play' = [play EXCEPT ![p].phase = "chunk", ![p].ff = ffmpeg]
          /\ voice' = p
          /\ emitted' = {}
          /\ UNCHANGED <<queueVars, flagVars, startupToken, playbackToken, ffmpeg, proc, stopped>>
       \/ \* no ffmpeg, or voice.sendAudio throws: the room is not connected
          /\ startupToken = p
          /\ FinishCatch(p, "other", proc)

\* _awaitInitialPlaybackChunk resolves with data of a live process.
FirstChunk(p) ==
    /\ play[p].phase = "chunk" /\ proc[play[p].ff] = "running"
    /\ \/ /\ startupToken # p
          /\ FinishCatch(p, "aborted", proc)
       \/ /\ startupToken = p
          /\ play' = [play EXCEPT ![p].phase = "started"]
          /\ failures' = 0 /\ clock' = TRUE
          /\ emitted' = {Event("trackStart", p)}
          /\ UNCHANGED <<queueVars, playing, paused, skipRequested, pendingSeek,
                         startupToken, playbackToken, procVars, stopped>>

BugTimerNeedsDeadProcess(p) ==
    /\ play[p].phase = "chunk" /\ proc[play[p].ff] = "none"
    /\ AwaitDiagnostics(p, proc)

\* _awaitInitialPlaybackChunk rejects on its timer, or with a stream error.
ChunkTimeout(p) ==
    /\ play[p].phase = "chunk"
    /\ AwaitDiagnostics(p, proc)

ChunkStreamError(p) ==
    /\ play[p].phase = "chunk" /\ proc[play[p].ff] = "running"
    /\ FinishCatch(p, "other", proc)

\* The catch block after its await.
DiagnosticsDone(p) ==
    /\ play[p].phase = "diag"
    /\ FinishCatch(p, "flood", proc)

\* The 'close' event of the process spawned by q: it rejects a pending wait for
\* the first chunk, ends a started track whose token is current, and is
\* otherwise ignored.
ProcClose(q) ==
    LET pr == [proc EXCEPT ![q] = "none"] IN
    /\ proc[q] # "none"
    /\ \/ \E p \in Plays :
            /\ play[p].phase = "chunk" /\ play[p].ff = q
            /\ AwaitDiagnostics(p, pr)
       \/ \E p \in Plays, endedEarly \in BOOLEAN :
            /\ play[p].phase = "started" /\ play[p].ff = q /\ playbackToken = p
            /\ TrackClosed(play[p].track, NaturalEnd, endedEarly,
                           [play EXCEPT ![p] = IdlePlay], pr)
       \/ /\ \A p \in Plays : play[p].ff = q =>
                /\ play[p].phase # "chunk"
                /\ play[p].phase = "started" => playbackToken # p
          /\ proc' = pr
          /\ play' = [p \in Plays |-> IF play[p].phase = "started" /\ play[p].ff = q
                                      THEN IdlePlay ELSE play[p]]
          /\ emitted' = {}
          /\ UNCHANGED <<queueVars, flagVars, startupToken, playbackToken, ffmpeg, voice, stopped>>

-----------------------------------------------------------------------------
(* Commands.                                                               *)

Usable == ~stopped \/ ReuseAfterStop

\* enqueueResolvedTracks with one track; dedupe compares urls.
Enqueue(song, playNext, dedupe) ==
    /\ Usable
    /\ Len(queue) + 1 <= MaxQueue
    /\ dedupe => /\ current # None => current.song # song
                 /\ \A i \in DOMAIN queue : queue[i].song # song
    /\ queue' = IF playNext THEN <<NewTrack(song)>> \o queue ELSE Append(queue, NewTrack(song))
    /\ emitted' = {Event("tracksAdded", None)}
    /\ UNCHANGED <<current, history, loopMode, flagVars, taskVars, procVars, stopped>>

\* clearQueue, removeFromQueue and shuffleQueue
EditQueue(q) ==
    /\ Usable
    /\ queue' = q /\ emitted' = {}
    /\ UNCHANGED <<current, history, loopMode, flagVars, taskVars, procVars, stopped>>

ClearQueue == queue # <<>> /\ EditQueue(<<>>)

RemoveFromQueue(i) ==
    /\ i \in 1..Len(queue)
    /\ EditQueue([j \in 1..(Len(queue) - 1) |-> IF j < i THEN queue[j] ELSE queue[j + 1]])

\* one exchange of the Fisher-Yates loop; longer shuffles are sequences of it
ShuffleQueue(i, j) ==
    /\ i \in 1..Len(queue) /\ j \in 1..Len(queue) /\ i < j
    /\ EditQueue([queue EXCEPT ![i] = queue[j], ![j] = queue[i]])

\* queuePreviousTrack has no queue limit of its own.
QueuePreviousTrack ==
    /\ Usable
    /\ history # <<>> /\ Len(queue) < QueueBound
    /\ queue' = <<history[Len(history)]>> \o queue
    /\ emitted' = {Event("tracksAdded", None)}
    /\ UNCHANGED <<current, history, loopMode, flagVars, taskVars, procVars, stopped>>

SetLoopMode(mode) ==
    /\ Usable
    /\ loopMode' = mode /\ emitted' = {}
    /\ UNCHANGED <<queue, current, history, flagVars, taskVars, procVars, stopped>>

BugPlayReenters == Usable
MayPlay == Usable /\ ~playing

\* play() called by a command.
Play ==
    /\ MayPlay
    /\ \/ /\ queue # <<>>
          /\ BeginPlay(queue, play, proc)
          /\ emitted' = {}
          /\ UNCHANGED voice
       \/ /\ queue = <<>>
          /\ current' = None
          /\ proc' = Killed(proc) /\ ffmpeg' = None /\ voice' = None
          /\ emitted' = {Event("queueEmpty", None)}
          /\ UNCHANGED <<queue, playing, paused, skipRequested, taskVars>>
    /\ UNCHANGED <<history, loopMode, pendingSeek, failures, clock, stopped>>

\* The common body of skip, replayCurrentTrack, refreshCurrentTrackProcessing
\* and seekTo: invalidate the startup, silence the voice, kill the processes,
\* and close a track that had started at once, with a fresh playback token.
Interrupt(seek) ==
    /\ Usable /\ playing
    /\ \/ /\ current # None /\ clock
          /\ TrackClosed(current, Transition(seek), FALSE, play, proc)
       \/ /\ current = None \/ ~clock
          /\ startupToken' = None /\ skipRequested' = TRUE /\ pendingSeek' = seek
          /\ voice' = None
          /\ proc' = Killed(proc) /\ ffmpeg' = None
          /\ emitted' = {}
          /\ UNCHANGED <<queueVars, playing, paused, failures, clock, play, playbackToken, stopped>>

BugSkipOnlyBumpsToken ==
    /\ Usable /\ playing
    /\ playbackToken' = None /\ startupToken' = None /\ skipRequested' = TRUE
    /\ proc' = Killed(proc) /\ ffmpeg' = None /\ voice' = None /\ emitted' = {}
    /\ UNCHANGED <<queueVars, playing, paused, pendingSeek, failures, clock, play, stopped>>

\* skip() leaves pendingSeekTrack as it is.
Skip == Interrupt(pendingSeek)
ReplayCurrentTrack == current # None /\ Interrupt(current)
RefreshCurrentTrackProcessing == current # None /\ Interrupt(current)
SeekTo == current # None /\ current.song \in Seekable /\ Interrupt(current)

\* pause() and resume() succeed when a process, a stream or the voice took it.
Pause ==
    /\ Usable /\ playing /\ ~paused
    /\ paused' = TRUE /\ emitted' = {}
    /\ UNCHANGED <<queueVars, playing, skipRequested, pendingSeek, failures, clock,
                   taskVars, procVars, stopped>>

Resume ==
    /\ Usable /\ playing /\ paused
    /\ paused' = FALSE /\ emitted' = {}
    /\ UNCHANGED <<queueVars, playing, skipRequested, pendingSeek, failures, clock,
                   taskVars, procVars, stopped>>

\* stop() bumps the startup token but not the playback token.
Stop ==
    /\ Usable
    /\ startupToken' = None
    /\ skipRequested' = TRUE /\ failures' = 0 /\ pendingSeek' = None
    /\ queue' = <<>> /\ current' = None
    /\ proc' = Killed(proc) /\ ffmpeg' = None /\ voice' = None
    /\ playing' = FALSE /\ paused' = FALSE /\ clock' = FALSE
    /\ stopped' = TRUE /\ emitted' = {}
    /\ UNCHANGED <<history, loopMode, play, playbackToken>>

-----------------------------------------------------------------------------
Startup(p) ==
    \/ SpawnFfmpeg(p) \/ RetryStrategy(p) \/ PipelineFails(p) \/ PipelineReady(p)
    \/ FirstChunk(p) \/ ChunkTimeout(p) \/ ChunkStreamError(p) \/ DiagnosticsDone(p)

Command ==
    \/ \E song \in Songs, playNext \in BOOLEAN, dedupe \in BOOLEAN :
            Enqueue(song, playNext, dedupe)
    \/ ClearQueue \/ QueuePreviousTrack
    \/ \E i \in 1..QueueBound : RemoveFromQueue(i)
    \/ \E i, j \in 1..QueueBound : ShuffleQueue(i, j)
    \/ \E mode \in {"off", "track", "queue"} : SetLoopMode(mode)
    \/ Play \/ Skip \/ ReplayCurrentTrack \/ RefreshCurrentTrackProcessing \/ SeekTo
    \/ Pause \/ Resume \/ Stop

Next ==
    \/ \E p \in Plays : Startup(p) \/ ProcClose(p)
    \/ Command

\* The runtime keeps its promises: a pipeline settles, the chunk timer fires,
\* diagnostics answer and a killed process closes.
Settle(p) == PipelineFails(p) \/ PipelineReady(p) \/ ChunkTimeout(p) \/ DiagnosticsDone(p)
Fairness == \A p \in Plays : WF_vars(Settle(p)) /\ WF_vars(proc[p] = "killed" /\ ProcClose(p))

Spec == Init /\ [][Next]_vars
FairSpec == Spec /\ Fairness

-----------------------------------------------------------------------------
(* Properties.                                                             *)

Emits(type) == \E e \in emitted' : e.type = type

\* play() returns at once while `playing` is set, so a flag nobody will reset
\* silences the player for good.  Whenever it is set, a startup is pending, or
\* a started track holds the current token and its process has yet to close.
NeverStuck ==
    playing => \E p \in Plays :
        \/ Pending(p)
        \/ /\ play[p].phase = "started" /\ playbackToken = p
           /\ play[p].ff # None /\ proc[play[p].ff] # "none"

\* The session arms its idle timer on queueEmpty: it is only emitted by a player
\* that has nothing queued, nothing current and nothing in progress to announce.
QueueEmptyMeansIdle ==
    [][Emits("queueEmpty") => queue' = <<>> /\ current' = None /\ ~playing']_vars

\* The other direction: a player that stops being busy tells the session, or
\* the bot would sit in the voice channel with no timer running.
IdleIsAnnounced ==
    [][playing /\ ~playing' => Emits("queueEmpty") \/ stopped']_vars

\* cleanupProcesses only reaches the process in this.ffmpeg: a running process
\* that this.ffmpeg no longer names would never be killed.
NoOrphanProcess == \A p \in Plays : proc[p] = "running" => ffmpeg = p

\* The clock, the current track and the audible playback agree: what the
\* progress bar shows is what is being heard.
ClockFollowsAudio ==
    clock => \E p \in Plays :
        /\ play[p].phase = "started" /\ playbackToken = p /\ playing
        /\ current = play[p].track /\ voice = p

\* A current track is never dropped without a trace: it reaches the history, is
\* reported by trackError, continues (or is looped) in the queue, or was
\* interrupted on purpose.
TrackAccounted ==
    [][current # None /\ current' # current =>
         \/ skipRequested \/ stopped'
         \/ Emits("trackError") \/ \E p \in Plays : play[p].phase = "diag"
         \/ Emits("trackEnd") /\ history' # <<>> /\ history'[Len(history')] = current
         \/ current' # None /\ current'.song = current.song
         \/ \E i \in DOMAIN queue' : queue'[i].song = current.song]_vars

\* After FailLimit startups in a row without audio the queue is dropped instead
\* of being played through.
StreakHaltsQueue ==
    [][\A p \in Plays :
         play[p].phase = "diag" /\ play'[p].phase = "idle" /\ failures' = FailLimit
         => ~playing' /\ queue' = <<>> /\ Emits("queueEmpty")]_vars

\* Every startup settles: it starts, fails or is abandoned.
StartupSettles == \A p \in Plays : Pending(p) ~> ~Pending(p)

\* test/musicPlayerStartupLifecycle.test.ts: 'stop() aborts startup without
\* emitting startup errors or trackStart'.
StopIsSilent == [][stopped => ~Emits("trackError") /\ ~Emits("trackStart")]_vars

\* The skip command: 'Skip current track'. A startup that skip() invalidated is
\* not started again.
SkippedIsNotRetried ==
    [][\A p \in Plays :
         /\ play[p].phase = "diag" /\ play'[p].phase = "idle" /\ skipRequested
         => current' # [play[p].track EXCEPT !.retries = 1]]_vars

\* Processes, clock and current track belong to the playback that is heard,
\* whatever play(), the close handlers and the commands interleave
\* (cleanupProcesses, play, _handleTrackClose).
PlaybackIsOwned == NoOrphanProcess /\ ClockFollowsAudio

\* The end of a track, of a streak of failures and of the queue never goes by
\* unannounced or unrecorded (_handleTrackClose, the catch block of play).
EndsAreAnnounced == IdleIsAnnounced /\ TrackAccounted /\ StreakHaltsQueue
=============================================================================
