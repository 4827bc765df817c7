-------------------------- MODULE MusicPlayerProofs --------------------------
(***************************************************************************)
(* What holds of the player for any songs, bounds and number of playbacks. *)
(***************************************************************************)
EXTENDS MusicPlayer, SequenceTheorems, TLAPS

USE NoneAssumption, SongsAssumption, BoundsAssumption DEF TypeOK

\* Killing this.ffmpeg turns a process table into a process table and closes no
\* process by itself.
LEMMA KilledType ==
    ASSUME NEW pr \in [Plays -> ProcStates]
    PROVE  /\ Killed(pr) \in [Plays -> ProcStates]
           /\ \A q \in Plays : pr[q] # "none" => Killed(pr)[q] # "none"
  BY DEF Killed, ProcStates

\* The synchronous head of play() keeps every type and leaves a pending startup
\* that owns both tokens.
LEMMA BeginPlayEffect ==
    ASSUME NEW q \in Seq(Track), q # <<>>,
           NEW t \in [Plays -> PlayStates],
           NEW pr \in [Plays -> ProcStates],
           BeginPlay(q, t, pr)
    PROVE  /\ queue' \in Seq(Track) /\ current' \in Track
           /\ playing' = TRUE /\ paused' = FALSE /\ skipRequested' = FALSE
           /\ play' \in [Plays -> PlayStates]
           /\ proc' \in [Plays -> ProcStates] /\ ffmpeg' = None
           /\ \E p \in Plays : /\ play'[p].phase = "resolving"
                               /\ startupToken' = p /\ playbackToken' = p
<1>1. PICK p \in Plays :
        /\ play' = [t EXCEPT ![p] = [phase |-> "resolving", track |-> Head(q), ff |-> None]]
        /\ startupToken' = p /\ playbackToken' = p
        /\ queue' = Tail(q) /\ current' = Head(q)
        /\ playing' = TRUE /\ paused' = FALSE /\ skipRequested' = FALSE
        /\ proc' = Killed(pr) /\ ffmpeg' = None
  BY DEF BeginPlay
<1>2. Head(q) \in Track /\ Tail(q) \in Seq(Track)
  OBVIOUS
<1>3. [phase |-> "resolving", track |-> Head(q), ff |-> None] \in PlayStates
  BY <1>2 DEF PlayStates, Phases
<1>4. play' \in [Plays -> PlayStates] /\ play'[p].phase = "resolving"
  BY <1>1, <1>3
<1>5. proc' \in [Plays -> ProcStates]
  BY <1>1, KilledType
<1> QED
  BY <1>1, <1>2, <1>4, <1>5

\* The two token counters move together: the latest startup is the latest
\* playback, unless it was invalidated.
TokensAgree == startupToken # None => playbackToken = startupToken

Inv == TypeOK /\ TokensAgree /\ NeverStuck

\* A step that enters play() with something queued establishes the invariant,
\* whatever held before.
LEMMA BeginPlayInv ==
    ASSUME NEW q \in Seq(Track), q # <<>>,
           NEW t \in [Plays -> PlayStates],
           NEW pr \in [Plays -> ProcStates],
           BeginPlay(q, t, pr),
           history' \in Seq(Track), Len(history') <= MaxHistory, loopMode' \in {"off", "track", "queue"},
           pendingSeek' \in Track \cup {None}, clock' \in BOOLEAN,
           failures' \in 0..FailLimit, stopped' \in BOOLEAN,
           voice' \in Plays \cup {None}
    PROVE  Inv'
<1>1. PICK p \in Plays : /\ play'[p].phase = "resolving"
                         /\ startupToken' = p /\ playbackToken' = p
  BY BeginPlayEffect
<1>2. TypeOK'
  BY BeginPlayEffect
<1>3. NeverStuck'
  BY <1>1 DEF NeverStuck, Pending, Phases
<1> QED
  BY <1>1, <1>2, <1>3 DEF Inv, TokensAgree

LEMMA EmptyQueue == <<>> \in Seq(Track)
  OBVIOUS

LEMMA SeqFacts ==
    ASSUME NEW q \in Seq(Track), NEW track \in Track
    PROVE  /\ <<track>> \o q \in Seq(Track) /\ <<track>> \o q # <<>>
           /\ Append(q, track) \in Seq(Track)
           /\ <<>> \in Seq(Track)
           /\ <<>> \o q = q
  OBVIOUS

LEMMA RememberType ==
    ASSUME history \in Seq(Track), NEW track \in Track
    PROVE  Remember(track) \in Seq(Track) /\ Len(Remember(track)) <= MaxHistory
<1> DEFINE h == Append(history, track)
<1>1. h \in Seq(Track)
  OBVIOUS
<1>2. CASE Len(h) > MaxHistory
  <2>1. Len(h) - MaxHistory + 1 \in 1..(Len(h) + 1)
    BY <1>1, <1>2
  <2>2. /\ SubSeq(h, Len(h) - MaxHistory + 1, Len(h)) \in Seq(Track)
        /\ Len(SubSeq(h, Len(h) - MaxHistory + 1, Len(h))) <= MaxHistory
    BY <1>1, <2>1, SubSeqProperties
  <2> QED
    BY <1>2, <2>2 DEF Remember
<1>3. CASE ~(Len(h) > MaxHistory)
  BY <1>1, <1>3 DEF Remember
<1> QED
  BY <1>2, <1>3

Entry == [skip : BOOLEAN, seek : Track \cup {None}, voice : Plays \cup {None},
          startup : Plays \cup {None}, playback : Plays \cup {None}]

\* The close of a track leaves the player idle or starting the next track.
LEMMA TrackClosedInv ==
    ASSUME TypeOK,
           NEW track \in Track, NEW at \in Entry, NEW endedEarly \in BOOLEAN,
           at.startup # None => at.playback = at.startup,
           NEW t \in [Plays -> PlayStates],
           NEW pr \in [Plays -> ProcStates],
           TrackClosed(track, at, endedEarly, t, pr)
    PROVE  Inv'
<1> DEFINE recovers == /\ at.seek = None /\ ~at.skip /\ endedEarly
                       /\ track.song \in YouTube /\ track.recovery < 1
           loops == at.seek = None /\ ~recovers /\ ~at.skip
           q == CASE at.seek # None -> <<at.seek>> \o queue
                  [] recovers -> <<[track EXCEPT !.recovery = 1]>> \o queue
                  [] loops /\ loopMode = "track" -> <<track>> \o queue
                  [] loops /\ loopMode = "queue" -> Append(queue, track)
                  [] OTHER -> queue
<1>1. q \in Seq(Track)
  <2>1. at.seek # None => <<at.seek>> \o queue \in Seq(Track)
    BY SeqFacts DEF Entry
  <2>2. [track EXCEPT !.recovery = 1] \in Track
    BY DEF Track
  <2>3. <<[track EXCEPT !.recovery = 1]>> \o queue \in Seq(Track)
    BY <2>2, SeqFacts
  <2>4. <<track>> \o queue \in Seq(Track) /\ Append(queue, track) \in Seq(Track)
    BY SeqFacts
  <2>5. CASE at.seek # None
    BY <2>1, <2>5
  <2>6. CASE at.seek = None /\ recovers
    BY <2>3, <2>6
  <2>7. CASE at.seek = None /\ ~recovers /\ loops /\ loopMode = "track"
    BY <2>4, <2>7
  <2>8. CASE at.seek = None /\ ~recovers /\ loops /\ loopMode = "queue"
    BY <2>4, <2>8
  <2>9. CASE at.seek = None /\ ~recovers /\ ~(loops /\ loopMode = "track")
                /\ ~(loops /\ loopMode = "queue")
    BY <2>9
  <2> QED
    BY <2>5, <2>6, <2>7, <2>8, <2>9
<1>2. history' \in Seq(Track) /\ Len(history') <= MaxHistory
  BY RememberType DEF TrackClosed
<1>3. /\ pendingSeek' = None /\ clock' = FALSE /\ loopMode' = loopMode
      /\ stopped' = stopped /\ voice' \in Plays \cup {None}
  BY DEF TrackClosed, Entry
<1>4. \/ /\ q # <<>> /\ BeginPlay(q, t, pr) /\ failures' = failures
      \/ /\ queue' = <<>> /\ current' = None /\ playing' = FALSE /\ paused' = FALSE
         /\ play' = t /\ proc' = Killed(pr) /\ ffmpeg' = None /\ failures' = 0
         /\ skipRequested' = at.skip
         /\ startupToken' = at.startup /\ playbackToken' = at.playback
  BY DEF TrackClosed
<1>5. CASE q # <<>> /\ BeginPlay(q, t, pr) /\ failures' = failures
  BY <1>1, <1>2, <1>3, <1>5, BeginPlayInv
<1>6. CASE /\ queue' = <<>> /\ current' = None /\ playing' = FALSE /\ paused' = FALSE
           /\ play' = t /\ proc' = Killed(pr) /\ ffmpeg' = None /\ failures' = 0
           /\ skipRequested' = at.skip
           /\ startupToken' = at.startup /\ playbackToken' = at.playback
  <2>1. /\ skipRequested' \in BOOLEAN
        /\ startupToken' \in Plays \cup {None} /\ playbackToken' \in Plays \cup {None}
    BY <1>6 DEF Entry
  <2>2. /\ queue' \in Seq(Track) /\ current' \in Track \cup {None}
        /\ failures' \in 0..FailLimit /\ proc' \in [Plays -> ProcStates]
    BY <1>6, KilledType, SeqFacts
  <2>3. TypeOK'
    BY <1>2, <1>3, <1>6, <2>1, <2>2
  <2> QED
    BY <1>6, <2>3 DEF Inv, TokensAgree, NeverStuck
<1> QED
  BY <1>4, <1>5, <1>6

\* So does the catch block of a startup.
LEMMA FinishCatchInv ==
    ASSUME Inv, NEW p \in Plays, play[p].phase # "idle",
           NEW outcome \in {"aborted", "flood", "other"},
           NEW pr \in [Plays -> ProcStates],
           FinishCatch(p, outcome, pr)
    PROVE  Inv'
<1> DEFINE track == play[p].track
           aborted == outcome = "aborted"
           retry == outcome = "flood" /\ CanRetry(track)
           streak == IF aborted THEN failures
                     ELSE IF retry \/ outcome = "other" THEN 0
                     ELSE IF failures < FailLimit THEN failures + 1 ELSE FailLimit
           front == IF aborted /\ pendingSeek # None THEN <<pendingSeek>>
                    ELSE IF retry THEN <<[track EXCEPT !.retries = 1]>> ELSE <<>>
           q == front \o queue
           t == [play EXCEPT ![p] = IdlePlay]
<1>1. TypeOK
  BY DEF Inv
<1>2. track \in Track
  BY <1>1 DEF PlayStates
<1>3. q \in Seq(Track)
  <2>1. [track EXCEPT !.retries = 1] \in Track
    BY <1>2 DEF Track
  <2>2. front = <<>> \/ \E x \in Track : front = <<x>>
    BY <1>1, <2>1
  <2>3. CASE front = <<>>
    BY <1>1, <2>3, SeqFacts
  <2>4. CASE \E x \in Track : front = <<x>>
    <3> HIDE DEF front
    <3> QED
      BY <1>1, <2>4, SeqFacts
  <2> QED
    BY <2>2, <2>3, <2>4
<1>4. streak \in 0..FailLimit
  BY <1>1
<1>5. t \in [Plays -> PlayStates]
  BY <1>1 DEF PlayStates, IdlePlay, Phases
<1>6. /\ failures' = streak /\ pendingSeek' = None /\ clock' = FALSE
      /\ history' = history /\ loopMode' = loopMode /\ stopped' = stopped
      /\ \/ q # <<>> /\ BeginPlay(q, t, pr) /\ voice' = voice
         \/ /\ queue' = <<>> /\ current' = None /\ playing' = FALSE /\ paused' = FALSE
            /\ play' = t /\ proc' = Killed(pr) /\ ffmpeg' = None /\ voice' = None
            /\ skipRequested' = skipRequested
            /\ startupToken' = startupToken /\ playbackToken' = playbackToken
  BY DEF FinishCatch
<1>7. CASE q # <<>> /\ BeginPlay(q, t, pr) /\ voice' = voice
  BY <1>1, <1>3, <1>4, <1>5, <1>6, <1>7, BeginPlayInv
<1>8. CASE /\ queue' = <<>> /\ current' = None /\ playing' = FALSE /\ paused' = FALSE
           /\ play' = t /\ proc' = Killed(pr) /\ ffmpeg' = None /\ voice' = None
           /\ skipRequested' = skipRequested
           /\ startupToken' = startupToken /\ playbackToken' = playbackToken
  <2>1. /\ queue' \in Seq(Track) /\ failures' \in 0..FailLimit
        /\ proc' \in [Plays -> ProcStates]
    BY <1>4, <1>6, <1>8, KilledType, SeqFacts
  <2>2. TypeOK'
    BY <1>1, <1>5, <1>6, <1>8, <2>1
  <2> QED
    BY <1>8, <2>2 DEF Inv, TokensAgree, NeverStuck
<1> QED
  BY <1>6, <1>7, <1>8

LEMMA AwaitDiagnosticsInv ==
    ASSUME Inv, NEW p \in Plays, play[p].phase = "chunk",
           NEW pr \in [Plays -> ProcStates], AwaitDiagnostics(p, pr)
    PROVE  Inv'
<1>1. /\ play' = [play EXCEPT ![p].phase = "diag"] /\ proc' = pr
      /\ UNCHANGED <<queueVars, flagVars, startupToken, playbackToken, ffmpeg, voice, stopped>>
  BY DEF AwaitDiagnostics
<1>2. play' \in [Plays -> PlayStates] /\ play'[p].phase = "diag"
  BY <1>1 DEF Inv, PlayStates, Phases
<1>3. TypeOK'
  BY <1>1, <1>2 DEF Inv, queueVars, flagVars
<1>4. NeverStuck'
  BY <1>2 DEF NeverStuck, Pending, Phases
<1> QED
  BY <1>1, <1>3, <1>4 DEF Inv, TokensAgree

\* Each await of play() keeps the invariant.
LEMMA StartupInv ==
    ASSUME Inv, NEW p \in Plays, Startup(p)
    PROVE  Inv'
<1>1. CASE SpawnFfmpeg(p)
  <2>1. play' \in [Plays -> PlayStates] /\ play'[p].phase = "grace"
    BY <1>1 DEF Inv, SpawnFfmpeg, PlayStates, Phases
  <2>2. proc' \in [Plays -> ProcStates] /\ ffmpeg' \in Plays \cup {None}
    BY <1>1 DEF Inv, SpawnFfmpeg, ProcStates
  <2>3. TypeOK'
    BY <1>1, <2>1, <2>2 DEF Inv, SpawnFfmpeg, queueVars, flagVars
  <2>4. NeverStuck'
    BY <2>1 DEF NeverStuck, Pending, Phases
  <2> QED
    BY <1>1, <2>3, <2>4 DEF Inv, TokensAgree, SpawnFfmpeg
<1>2. CASE RetryStrategy(p)
  <2>1. play' \in [Plays -> PlayStates] /\ play'[p].phase = "resolving"
    BY <1>2 DEF Inv, RetryStrategy, PlayStates, Phases
  <2>2. proc' \in [Plays -> ProcStates] /\ ffmpeg' \in Plays \cup {None}
    <3>1. Killed(proc) \in [Plays -> ProcStates]
      BY KilledType DEF Inv
    <3> QED
      BY <1>2, <3>1 DEF RetryStrategy, ProcStates
  <2>3. TypeOK'
    BY <1>2, <2>1, <2>2 DEF Inv, RetryStrategy, queueVars, flagVars
  <2>4. NeverStuck'
    BY <2>1 DEF NeverStuck, Pending, Phases
  <2> QED
    BY <1>2, <2>3, <2>4 DEF Inv, TokensAgree, RetryStrategy
<1>3. CASE PipelineFails(p)
  <2>1. Killed(proc) \in [Plays -> ProcStates]
    BY KilledType DEF Inv
  <2>2. [Killed(proc) EXCEPT ![p] = "none"] \in [Plays -> ProcStates]
    BY <2>1 DEF ProcStates
  <2> QED
    BY <1>3, <2>2, FinishCatchInv DEF PipelineFails
<1>4. CASE PipelineReady(p)
  <2>1. proc \in [Plays -> ProcStates] /\ play[p].phase = "grace"
    BY <1>4 DEF Inv, PipelineReady
  <2>2. CASE FinishCatch(p, "aborted", proc) \/ FinishCatch(p, "other", proc)
    BY <2>1, <2>2, FinishCatchInv
  <2>3. CASE /\ ffmpeg # None
             /\ play' = [play EXCEPT ![p].phase = "chunk", ![p].ff = ffmpeg]
             /\ voice' = p
             /\ UNCHANGED <<queueVars, flagVars, startupToken, playbackToken, ffmpeg, proc, stopped>>
    <3>1. play' \in [Plays -> PlayStates] /\ play'[p].phase = "chunk"
      BY <2>1, <2>3 DEF Inv, PlayStates, Phases
    <3>2. TypeOK'
      BY <2>3, <3>1 DEF Inv, queueVars, flagVars
    <3>3. NeverStuck'
      BY <3>1 DEF NeverStuck, Pending, Phases
    <3> QED
      BY <2>3, <3>2, <3>3 DEF Inv, TokensAgree
  <2> QED
    BY <1>4, <2>2, <2>3 DEF PipelineReady
<1>5. CASE FirstChunk(p)
  <2>1. proc \in [Plays -> ProcStates] /\ play[p].phase = "chunk"
    BY <1>5 DEF Inv, FirstChunk
  <2>2. CASE FinishCatch(p, "aborted", proc)
    BY <2>1, <2>2, FinishCatchInv
  <2>3. CASE /\ startupToken = p
             /\ play' = [play EXCEPT ![p].phase = "started"]
             /\ failures' = 0 /\ clock' = TRUE
             /\ UNCHANGED <<queueVars, playing, paused, skipRequested, pendingSeek,
                            startupToken, playbackToken, procVars, stopped>>
    <3>1. /\ play' \in [Plays -> PlayStates] /\ play'[p].phase = "started"
          /\ play'[p].ff = play[p].ff /\ play[p].ff \in Plays
      BY <2>1, <2>3 DEF Inv, PlayStates, Phases
    <3>2. TypeOK'
      BY <2>3, <3>1 DEF Inv, queueVars, procVars
    <3>3. playbackToken' = p
      BY <2>3 DEF Inv, TokensAgree
    <3>4. proc'[play'[p].ff] # "none"
      BY <1>5, <2>3, <3>1 DEF FirstChunk, procVars
    <3>5. NeverStuck'
      BY <3>1, <3>3, <3>4 DEF NeverStuck
    <3> QED
      BY <2>3, <3>2, <3>5 DEF Inv, TokensAgree
  <2> QED
    BY <1>5, <2>2, <2>3 DEF FirstChunk
<1>6. CASE ChunkTimeout(p)
  BY <1>6, AwaitDiagnosticsInv DEF ChunkTimeout, Inv
<1>7. CASE ChunkStreamError(p)
  BY <1>7, FinishCatchInv DEF ChunkStreamError, Inv
<1>8. CASE DiagnosticsDone(p)
  BY <1>8, FinishCatchInv DEF DiagnosticsDone, Inv
<1> QED
  BY <1>1, <1>2, <1>3, <1>4, <1>5, <1>6, <1>7, <1>8 DEF Startup

\* So do the 'close' events.
LEMMA ProcCloseInv ==
    ASSUME Inv, NEW r \in Plays, ProcClose(r)
    PROVE  Inv'
<1> DEFINE pr == [proc EXCEPT ![r] = "none"]
<1>1. TypeOK /\ pr \in [Plays -> ProcStates]
  BY DEF Inv, ProcStates
<1>2. CASE \E p \in Plays : /\ play[p].phase = "chunk" /\ play[p].ff = r
                            /\ AwaitDiagnostics(p, pr)
  BY <1>1, <1>2, AwaitDiagnosticsInv
<1>3. CASE \E p \in Plays, endedEarly \in BOOLEAN :
              /\ play[p].phase = "started" /\ play[p].ff = r /\ playbackToken = p
              /\ TrackClosed(play[p].track, NaturalEnd, endedEarly,
                             [play EXCEPT ![p] = IdlePlay], pr)
  <2>1. PICK p \in Plays, endedEarly \in BOOLEAN :
              /\ play[p].phase = "started"
              /\ TrackClosed(play[p].track, NaturalEnd, endedEarly,
                             [play EXCEPT ![p] = IdlePlay], pr)
    BY <1>3
  <2>2. play[p].track \in Track
    BY <1>1, <2>1 DEF PlayStates
  <2>3. [play EXCEPT ![p] = IdlePlay] \in [Plays -> PlayStates]
    BY <1>1 DEF PlayStates, IdlePlay, Phases
  <2>4. NaturalEnd \in Entry
    BY <1>1 DEF NaturalEnd, Entry
  <2>5. NaturalEnd.startup # None => NaturalEnd.playback = NaturalEnd.startup
    BY DEF NaturalEnd, Inv, TokensAgree
  <2> HIDE DEF pr, TypeOK
  <2> QED
    BY <1>1, <2>1, <2>2, <2>3, <2>4, <2>5, TrackClosedInv
<1>4. CASE /\ \A p \in Plays : play[p].ff = r =>
                /\ play[p].phase # "chunk"
                /\ play[p].phase = "started" => playbackToken # p
           /\ proc' = pr
           /\ play' = [p \in Plays |-> IF play[p].phase = "started" /\ play[p].ff = r
                                       THEN IdlePlay ELSE play[p]]
           /\ UNCHANGED <<queueVars, flagVars, startupToken, playbackToken, ffmpeg, voice, stopped>>
  <2>1. play' \in [Plays -> PlayStates]
    BY <1>1, <1>4 DEF PlayStates, IdlePlay, Phases
  <2>2. TypeOK'
    BY <1>1, <1>4, <2>1 DEF queueVars, flagVars
  <2>3. NeverStuck'
    <3>1. SUFFICES ASSUME playing
                   PROVE  NeverStuck'
      BY <1>4 DEF flagVars, NeverStuck
    <3>2. PICK p \in Plays :
            \/ Pending(p)
            \/ /\ play[p].phase = "started" /\ playbackToken = p
               /\ play[p].ff # None /\ proc[play[p].ff] # "none"
      BY <3>1 DEF Inv, NeverStuck
    <3>3. CASE Pending(p)
      BY <1>4, <3>3 DEF NeverStuck, Pending
    <3>4. CASE /\ play[p].phase = "started" /\ playbackToken = p
               /\ play[p].ff # None /\ proc[play[p].ff] # "none"
      <4>1. play[p].ff # r /\ play[p].ff \in Plays
        BY <1>1, <1>4, <3>4 DEF PlayStates
      <4>2. play'[p] = play[p] /\ proc'[play[p].ff] = proc[play[p].ff]
        BY <1>1, <1>4, <4>1
      <4> QED
        BY <1>4, <3>4, <4>2 DEF NeverStuck
    <3> QED
      BY <3>2, <3>3, <3>4
  <2> QED
    BY <1>4, <2>2, <2>3 DEF Inv, TokensAgree
<1> QED
  BY <1>2, <1>3, <1>4 DEF ProcClose

\* A step that leaves the playbacks, the tokens and the flags alone keeps the
\* invariant as long as it keeps the types of the queue and the processes open.
LEMMA QuietInv ==
    ASSUME Inv, TypeOK', playing' => playing,
           \/ UNCHANGED <<play, startupToken, playbackToken>>
           \/ startupToken' = None /\ UNCHANGED <<play, playbackToken>>,
           \A q \in Plays : proc[q] # "none" => proc'[q] # "none"
    PROVE  Inv'
<1>1. NeverStuck'
  <2>1. SUFFICES ASSUME playing
                 PROVE  NeverStuck'
    BY DEF NeverStuck
  <2>2. PICK p \in Plays :
          \/ Pending(p)
          \/ /\ play[p].phase = "started" /\ playbackToken = p
             /\ play[p].ff # None /\ proc[play[p].ff] # "none"
    BY <2>1 DEF Inv, NeverStuck
  <2>3. play[p].phase = "started" => play[p].ff \in Plays
    BY DEF Inv, PlayStates
  <2> QED
    BY <2>2, <2>3 DEF NeverStuck, Pending
<1>2. TokensAgree'
  BY DEF Inv, TokensAgree
<1> QED
  BY <1>1, <1>2 DEF Inv

\* The commands that only edit the queue, the loop mode or the pause flag.
LEMMA EditInv ==
    ASSUME Inv,
           \/ \E song \in Songs, playNext \in BOOLEAN, dedupe \in BOOLEAN :
                 Enqueue(song, playNext, dedupe)
           \/ ClearQueue \/ QueuePreviousTrack
           \/ \E i \in 1..QueueBound : RemoveFromQueue(i)
           \/ \E i, j \in 1..QueueBound : ShuffleQueue(i, j)
           \/ \E mode \in {"off", "track", "queue"} : SetLoopMode(mode)
           \/ Pause \/ Resume
    PROVE  Inv'
<1>1. TypeOK
  BY DEF Inv
<1>2. ASSUME NEW q \in Seq(Track), EditQueue(q)
      PROVE  Inv'
  <2>1. TypeOK'
    BY <1>1, <1>2 DEF EditQueue, flagVars, taskVars, procVars
  <2> QED
    BY <1>2, <2>1, QuietInv DEF EditQueue, flagVars, taskVars, procVars
<1>3. ASSUME NEW song \in Songs, NEW playNext \in BOOLEAN, NEW dedupe \in BOOLEAN,
             Enqueue(song, playNext, dedupe)
      PROVE  Inv'
  <2>1. NewTrack(song) \in Track
    BY DEF NewTrack, Track
  <2>2. queue' \in Seq(Track)
    BY <1>1, <1>3, <2>1, SeqFacts DEF Enqueue
  <2>3. TypeOK'
    BY <1>1, <1>3, <2>2 DEF Enqueue, flagVars, taskVars, procVars
  <2> QED
    BY <1>3, <2>3, QuietInv DEF Enqueue, flagVars, taskVars, procVars
<1>4. CASE ClearQueue
  BY <1>2, <1>4, EmptyQueue DEF ClearQueue
<1>5. CASE QueuePreviousTrack
  <2>1. history[Len(history)] \in Track
    BY <1>1, <1>5 DEF QueuePreviousTrack
  <2>2. queue' \in Seq(Track)
    BY <1>1, <1>5, <2>1, SeqFacts DEF QueuePreviousTrack
  <2>3. TypeOK'
    BY <1>1, <1>5, <2>2 DEF QueuePreviousTrack, flagVars, taskVars, procVars
  <2> QED
    BY <1>5, <2>3, QuietInv DEF QueuePreviousTrack, flagVars, taskVars, procVars
<1>6. ASSUME NEW i \in 1..QueueBound, RemoveFromQueue(i)
      PROVE  Inv'
  <2>1. [j \in 1..(Len(queue) - 1) |-> IF j < i THEN queue[j] ELSE queue[j + 1]] \in Seq(Track)
    <3>1. Len(queue) - 1 \in Nat
      BY <1>1, <1>6 DEF RemoveFromQueue
    <3>2. \A j \in 1..(Len(queue) - 1) : (IF j < i THEN queue[j] ELSE queue[j + 1]) \in Track
      BY <1>1, <1>6 DEF RemoveFromQueue
    <3> QED
      BY <3>1, <3>2, IsASeq
  <2> QED
    BY <1>2, <1>6, <2>1 DEF RemoveFromQueue
<1>7. ASSUME NEW i \in 1..QueueBound, NEW j \in 1..QueueBound, ShuffleQueue(i, j)
      PROVE  Inv'
  <2>1. [queue EXCEPT ![i] = queue[j], ![j] = queue[i]] \in Seq(Track)
    BY <1>1, <1>7 DEF ShuffleQueue
  <2> QED
    BY <1>2, <1>7, <2>1 DEF ShuffleQueue
<1>8. ASSUME NEW mode \in {"off", "track", "queue"}, SetLoopMode(mode)
      PROVE  Inv'
  <2>1. TypeOK'
    BY <1>1, <1>8 DEF SetLoopMode, flagVars, taskVars, procVars
  <2> QED
    BY <1>8, <2>1, QuietInv DEF SetLoopMode, flagVars, taskVars, procVars
<1>9. CASE Pause \/ Resume
  <2>1. TypeOK'
    BY <1>1, <1>9 DEF Pause, Resume, queueVars, taskVars, procVars
  <2> QED
    BY <1>9, <2>1, QuietInv DEF Pause, Resume, queueVars, taskVars, procVars
<1> QED
  BY <1>3, <1>4, <1>5, <1>6, <1>7, <1>8, <1>9

\* skip, replay, refresh and seek.
LEMMA InterruptInv ==
    ASSUME Inv, NEW seek \in Track \cup {None}, Interrupt(seek)
    PROVE  Inv'
<1>1. TypeOK
  BY DEF Inv
<1>2. CASE /\ current # None
           /\ TrackClosed(current, Transition(seek), FALSE, play, proc)
  <2>1. Transition(seek) \in Entry /\ Transition(seek).startup = None
    BY DEF Transition, Entry
  <2> QED
    BY <1>1, <1>2, <2>1, TrackClosedInv
<1>3. CASE /\ startupToken' = None /\ skipRequested' = TRUE /\ pendingSeek' = seek
           /\ voice' = None
           /\ proc' = Killed(proc) /\ ffmpeg' = None
           /\ UNCHANGED <<queueVars, playing, paused, failures, clock, play, playbackToken, stopped>>
  <2>1. /\ proc' \in [Plays -> ProcStates]
        /\ \A q \in Plays : proc[q] # "none" => proc'[q] # "none"
    BY <1>1, <1>3, KilledType
  <2>2. TypeOK'
    BY <1>1, <1>3, <2>1 DEF queueVars
  <2> QED
    BY <1>3, <2>1, <2>2, QuietInv
<1> QED
  BY <1>2, <1>3 DEF Interrupt

LEMMA CommandInv ==
    ASSUME Inv, Command
    PROVE  Inv'
<1>1. TypeOK
  BY DEF Inv
<1>2. CASE Play
  <2>1. CASE queue # <<>> /\ BeginPlay(queue, play, proc)
    BY <1>1, <1>2, <2>1, BeginPlayInv DEF Play
  <2>2. CASE ~(queue # <<>> /\ BeginPlay(queue, play, proc))
    <3>1. proc' \in [Plays -> ProcStates]
      BY <1>1, <1>2, <2>2, KilledType DEF Play
    <3>2. TypeOK'
      BY <1>1, <1>2, <2>2, <3>1 DEF Play, MayPlay, taskVars
    <3> QED
      BY <1>2, <2>2, <3>2 DEF Play, MayPlay, taskVars, Inv, TokensAgree, NeverStuck
  <2> QED
    BY <2>1, <2>2
<1>3. CASE Skip \/ ReplayCurrentTrack \/ RefreshCurrentTrackProcessing \/ SeekTo
  BY <1>1, <1>3, InterruptInv
     DEF Skip, ReplayCurrentTrack, RefreshCurrentTrackProcessing, SeekTo
<1>4. CASE Stop
  <2>1. proc' \in [Plays -> ProcStates]
    BY <1>1, <1>4, KilledType DEF Stop
  <2>2. queue' \in Seq(Track) /\ failures' \in 0..FailLimit
    BY <1>4, EmptyQueue DEF Stop
  <2>3. /\ skipRequested' \in BOOLEAN /\ playing' \in BOOLEAN /\ paused' \in BOOLEAN
        /\ clock' \in BOOLEAN /\ stopped' \in BOOLEAN
    BY <1>4 DEF Stop
  <2>4. TypeOK'
    BY <1>1, <1>4, <2>1, <2>2, <2>3 DEF Stop
  <2> QED
    BY <1>4, <2>4 DEF Stop, Inv, TokensAgree, NeverStuck
<1> QED
  BY <1>2, <1>3, <1>4, EditInv DEF Command

LEMMA InitInv == Init => Inv
<1> SUFFICES ASSUME Init PROVE Inv
  OBVIOUS
<1>1. IdlePlay \in PlayStates
  BY DEF IdlePlay, PlayStates, Phases
<1>2. queue \in Seq(Track) /\ history \in Seq(Track) /\ Len(history) <= MaxHistory
  BY EmptyQueue DEF Init
<1>3. play \in [Plays -> PlayStates] /\ proc \in [Plays -> ProcStates]
  BY <1>1 DEF Init, ProcStates
<1>4. /\ skipRequested \in BOOLEAN /\ playing \in BOOLEAN /\ paused \in BOOLEAN
      /\ clock \in BOOLEAN /\ stopped \in BOOLEAN
  BY Zenon DEF Init
<1>. failures \in 0..FailLimit
  BY SMT DEF Init
<1>5. TypeOK
  BY <1>2, <1>3, <1>4 DEF Init
<1>6. TokensAgree /\ NeverStuck
  BY DEF Init, TokensAgree, NeverStuck
<1> QED
  BY <1>5, <1>6 DEF Inv

LEMMA StepInv == Inv /\ [Next]_vars => Inv'
<1> SUFFICES ASSUME Inv, [Next]_vars PROVE Inv'
  OBVIOUS
<1>1. CASE Next
  BY <1>1, StartupInv, ProcCloseInv, CommandInv DEF Next
<1>2. CASE UNCHANGED vars
  BY <1>2 DEF vars, queueVars, flagVars, taskVars, procVars, Inv, TokensAgree,
              NeverStuck, Pending
<1> QED
  BY <1>1, <1>2

\* Every variable keeps its type, for any songs, bounds and playbacks.
THEOREM TypeCorrect == Spec => []TypeOK
<1>1. Inv => TypeOK
  BY DEF Inv
<1> QED
  BY <1>1, InitInv, StepInv, PTL DEF Spec

\* The player is never stuck busy: MusicPlayer.play() is refused only while a
\* startup or the close of a started track is still to come.
THEOREM PlayerNeverStuck == Spec => []NeverStuck
<1>1. Inv => NeverStuck
  BY DEF Inv
<1> QED
  BY <1>1, InitInv, StepInv, PTL DEF Spec

-----------------------------------------------------------------------------
Idle == queue' = <<>> /\ current' = None /\ ~playing'

\* queueEmpty, on which the session arms its idle timer, is only ever emitted
\* by a step that leaves the player with nothing queued, current or playing.
THEOREM QueueEmptyIsIdle == Spec => QueueEmptyMeansIdle
<1>1. \A p \in Plays : \A outcome, pr : FinishCatch(p, outcome, pr) /\ Emits("queueEmpty") => Idle
  BY DEF FinishCatch, Emits, Event, Idle
<1>2. \A p \in Plays : \A pr : ~(AwaitDiagnostics(p, pr) /\ Emits("queueEmpty"))
  BY DEF AwaitDiagnostics, Emits, Event
<1>3. \A track, at, endedEarly, t, pr :
        TrackClosed(track, at, endedEarly, t, pr) /\ Emits("queueEmpty") => Idle
  BY DEF TrackClosed, Emits, Event, Idle
<1>4. ASSUME NEW p \in Plays, Startup(p), Emits("queueEmpty")
      PROVE  Idle
  <2>1. ~SpawnFfmpeg(p) /\ ~RetryStrategy(p)
    BY <1>4 DEF SpawnFfmpeg, RetryStrategy, Emits
  <2>2. CASE PipelineFails(p) \/ ChunkStreamError(p) \/ DiagnosticsDone(p)
    BY <1>1, <1>4, <2>2 DEF PipelineFails, ChunkStreamError, DiagnosticsDone
  <2>3. CASE PipelineReady(p)
    BY <1>1, <1>4, <2>3 DEF PipelineReady, Emits
  <2>4. CASE FirstChunk(p)
    BY <1>1, <1>4, <2>4 DEF FirstChunk, Emits, Event
  <2>5. ~ChunkTimeout(p)
    BY <1>2, <1>4 DEF ChunkTimeout
  <2> QED
    BY <1>4, <2>1, <2>2, <2>3, <2>4, <2>5 DEF Startup
<1>5. ASSUME NEW r \in Plays, ProcClose(r), Emits("queueEmpty")
      PROVE  Idle
  BY <1>2, <1>3, <1>5 DEF ProcClose, Emits
<1>6. ASSUME NEW seek, Interrupt(seek), Emits("queueEmpty")
      PROVE  Idle
  BY <1>3, <1>6 DEF Interrupt, Emits
<1>7. ASSUME Command, Emits("queueEmpty")
      PROVE  Idle
  <2>1. CASE Play
    <3>1. CASE queue = <<>>
      BY <2>1, <3>1, <1>7 DEF Play, MayPlay, Idle
    <3>2. CASE queue # <<>>
      BY <2>1, <3>2, <1>7 DEF Play, Emits
    <3> QED
      BY <3>1, <3>2
  <2>2. CASE Skip \/ ReplayCurrentTrack \/ RefreshCurrentTrackProcessing \/ SeekTo
    BY <1>6, <1>7, <2>2 DEF Skip, ReplayCurrentTrack, RefreshCurrentTrackProcessing, SeekTo
  <2>3. ASSUME NEW q PROVE ~EditQueue(q)
    BY <1>7 DEF EditQueue, Emits
  <2>4. \A song, playNext, dedupe : ~Enqueue(song, playNext, dedupe)
    BY <1>7 DEF Enqueue, Emits, Event
  <2>5. /\ ~QueuePreviousTrack /\ ~Pause /\ ~Resume /\ ~Stop
        /\ \A mode : ~SetLoopMode(mode)
    BY <1>7 DEF QueuePreviousTrack, Pause, Resume, Stop, SetLoopMode, Emits, Event
  <2>6. ~ClearQueue /\ (\A i : ~RemoveFromQueue(i)) /\ (\A i, j : ~ShuffleQueue(i, j))
    BY <2>3 DEF ClearQueue, RemoveFromQueue, ShuffleQueue
  <2> QED
    BY <1>7, <2>1, <2>2, <2>4, <2>5, <2>6 DEF Command
<1>8. [Next]_vars => [Emits("queueEmpty") => Idle]_vars
  BY <1>4, <1>5, <1>7 DEF Next
<1> QED
  BY <1>8, PTL DEF Spec, QueueEmptyMeansIdle, Idle

-----------------------------------------------------------------------------
(* Who owns what is heard.  The startup that is pending is the only one, and *)
(* it has the tokens, the track and the voice, unless a user interrupted it; *)
(* a player whose session is gone is left alone, which is what keeps play()  *)
(* from being entered next to an abandoned startup (ReuseAfterStop).         *)

\* A pending startup has the playback token; its player is busy, with its track,
\* or someone interrupted it; before it spawns ffmpeg, no process runs.
Alone(p) ==
    /\ playbackToken = p
    /\ playing \/ stopped
    /\ startupToken # p => skipRequested
    /\ startupToken = p => playing /\ current = play[p].track
    /\ startupToken = p /\ play[p].phase = "chunk" => voice = p
    /\ play[p].phase = "resolving" => \A q \in Plays : proc[q] # "running"

\* A started playback with the token is the one the clock runs for.
ClockRuns == \A p \in Plays : play[p].phase = "started" /\ playbackToken = p => clock \/ current = None

Owned ==
    /\ \A p \in Plays : Pending(p) => Alone(p)
    /\ NoOrphanProcess /\ ClockFollowsAudio /\ ClockRuns
    /\ pendingSeek # None => playing /\ skipRequested
    /\ current # None => playing

\* No playback of the table t is starting up.
Settled(t) == \A p \in Plays : t[p].phase \in {"idle", "started"}

\* Of the processes of the table pr, only this.ffmpeg runs.
OnlyFfmpeg(pr) == \A p \in Plays : pr[p] = "running" => ffmpeg = p

LEMMA KilledAll ==
    ASSUME NEW pr \in [Plays -> ProcStates], OnlyFfmpeg(pr)
    PROVE  \A p \in Plays : Killed(pr)[p] # "running"
  BY DEF Killed, OnlyFfmpeg

LEMMA PendingPhases ==
    ASSUME TypeOK, NEW p \in Plays
    PROVE  Pending(p) <=> play[p].phase \notin {"idle", "started"}
  BY DEF Pending, Phases, PlayStates

\* While the clock runs, or the player rests with its session, nothing is starting up.
LEMMA NothingPending ==
    ASSUME TypeOK, Owned, clock \/ (~playing /\ ~stopped)
    PROVE  Settled(play)
<1> SUFFICES ASSUME NEW p \in Plays, Pending(p) PROVE FALSE
  BY PendingPhases DEF Settled
<1>1. Alone(p)
  BY DEF Owned
<1>2. CASE clock
  BY <1>1, <1>2 DEF Owned, ClockFollowsAudio, Alone, Pending, Phases
<1>3. CASE ~playing /\ ~stopped
  BY <1>1, <1>3 DEF Alone
<1> QED
  BY <1>2, <1>3

\* play() entered while nothing is starting up owns what it starts.
LEMMA BeginOwned ==
    ASSUME NEW q, NEW t \in [Plays -> PlayStates], NEW pr \in [Plays -> ProcStates],
           Settled(t), OnlyFfmpeg(pr), BeginPlay(q, t, pr),
           clock' = FALSE, pendingSeek' = None
    PROVE  Owned'
<1>1. PICK p \in Plays :
        /\ play' = [t EXCEPT ![p] = [phase |-> "resolving", track |-> Head(q), ff |-> None]]
        /\ startupToken' = p /\ playbackToken' = p
        /\ current' = Head(q) /\ playing' = TRUE
        /\ proc' = Killed(pr) /\ ffmpeg' = None
  BY DEF BeginPlay
<1>2. /\ play'[p] = [phase |-> "resolving", track |-> Head(q), ff |-> None]
      /\ \A r \in Plays \ {p} : play'[r].phase \in {"idle", "started"}
  BY <1>1 DEF Settled
<1>3. \A r \in Plays : proc'[r] # "running"
  BY <1>1, KilledAll
<1>4. Alone(p)'
  BY <1>1, <1>2, <1>3 DEF Alone
<1>5. \A r \in Plays : Pending(r)' => r = p
  BY <1>2 DEF Pending, Phases
<1>6. NoOrphanProcess' /\ ClockFollowsAudio' /\ ClockRuns'
  BY <1>1, <1>2, <1>3 DEF NoOrphanProcess, ClockFollowsAudio, ClockRuns
<1> QED
  BY <1>1, <1>4, <1>5, <1>6 DEF Owned

\* A step that leaves the player idle with nothing starting up.
LEMMA IdleOwned ==
    ASSUME NEW t \in [Plays -> PlayStates], NEW pr \in [Plays -> ProcStates],
           Settled(t), OnlyFfmpeg(pr), play' = t, proc' = Killed(pr),
           clock' = FALSE, pendingSeek' = None, current' = None
    PROVE  Owned'
<1>1. \A p \in Plays : ~Pending(p)'
  BY DEF Settled, Pending, Phases
<1>2. NoOrphanProcess' /\ ClockFollowsAudio' /\ ClockRuns'
  BY KilledAll DEF NoOrphanProcess, ClockFollowsAudio, ClockRuns
<1> QED
  BY <1>1, <1>2 DEF Owned

LEMMA ClosedOwned ==
    ASSUME NEW track, NEW at, NEW endedEarly, NEW t \in [Plays -> PlayStates],
           NEW pr \in [Plays -> ProcStates], Settled(t), OnlyFfmpeg(pr),
           TrackClosed(track, at, endedEarly, t, pr)
    PROVE  Owned'
<1>1. clock' = FALSE /\ pendingSeek' = None
  BY DEF TrackClosed
<1>2. \/ \E q : BeginPlay(q, t, pr)
      \/ play' = t /\ proc' = Killed(pr) /\ current' = None
  BY DEF TrackClosed
<1> QED
  BY <1>1, <1>2, BeginOwned, IdleOwned

\* The startup whose catch block ends was the only one.
LEMMA CatchOwned ==
    ASSUME Inv, Owned, NEW p \in Plays, Pending(p), NEW outcome,
           NEW pr \in [Plays -> ProcStates], OnlyFfmpeg(pr), FinishCatch(p, outcome, pr)
    PROVE  Owned'
<1> DEFINE t == [play EXCEPT ![p] = IdlePlay]
<1>1. t \in [Plays -> PlayStates] /\ t[p].phase = "idle" /\ \A r \in Plays \ {p} : t[r] = play[r]
  BY DEF Inv, PlayStates, IdlePlay, Phases
<1>2. Settled(t)
  BY <1>1, PendingPhases DEF Settled, Inv, Owned, Alone
<1>3. clock' = FALSE /\ pendingSeek' = None
  BY DEF FinishCatch
<1>4. \/ \E q : BeginPlay(q, t, pr)
      \/ play' = t /\ proc' = Killed(pr) /\ current' = None
  BY DEF FinishCatch
<1> QED
  BY <1>1, <1>2, <1>3, <1>4, BeginOwned, IdleOwned

\* A step of the only startup there is, which stays pending.
LEMMA OnwardOwned ==
    ASSUME Inv, Owned, NEW p \in Plays, Pending(p), \A q \in Plays \ {p} : play'[q] = play[q],
           Pending(p)', Alone(p)', NoOrphanProcess',
           UNCHANGED <<playbackToken, playing, current, clock, pendingSeek, skipRequested>>
    PROVE  Owned'
<1>1. \A q \in Plays \ {p} : play'[q] = play[q] /\ ~Pending(q)
  BY DEF Owned, Alone
<1>2. \A q \in Plays : Pending(q)' => Alone(q)'
  BY <1>1 DEF Pending
<1>3. ~clock /\ ~(play'[p].phase = "started")
  BY NothingPending, PendingPhases DEF Inv, Settled, Pending, Phases
<1>4. ClockFollowsAudio' /\ ClockRuns'
  BY <1>1, <1>3 DEF ClockFollowsAudio, ClockRuns, Owned
<1> QED
  BY <1>2, <1>4 DEF Owned

LEMMA DiagnosticsOwned ==
    ASSUME Inv, Owned, NEW p \in Plays, play[p].phase = "chunk",
           NEW pr \in [Plays -> ProcStates], OnlyFfmpeg(pr), AwaitDiagnostics(p, pr)
    PROVE  Owned'
<1>1. /\ play' = [play EXCEPT ![p].phase = "diag"] /\ proc' = pr
      /\ UNCHANGED <<queueVars, flagVars, startupToken, playbackToken, ffmpeg, voice, stopped>>
  BY DEF AwaitDiagnostics
<1>2. Pending(p) /\ Alone(p)
  BY DEF Pending, Phases, Owned
<1>3. /\ play'[p].phase = "diag" /\ play'[p].track = play[p].track
      /\ \A q \in Plays \ {p} : play'[q] = play[q]
  BY <1>1 DEF Inv, PlayStates
<1>4. Pending(p)' /\ Alone(p)'
  BY <1>1, <1>2, <1>3 DEF Pending, Phases, Alone, queueVars, flagVars
<1>5. NoOrphanProcess'
  BY <1>1 DEF NoOrphanProcess, OnlyFfmpeg
<1> QED
  BY <1>1, <1>2, <1>3, <1>4, <1>5, OnwardOwned DEF queueVars, flagVars

LEMMA StartupOwned ==
    ASSUME Inv, Owned, NEW p \in Plays, Startup(p)
    PROVE  Owned'
<1>1. /\ OnlyFfmpeg(proc) /\ proc \in [Plays -> ProcStates]
      /\ Killed(proc) \in [Plays -> ProcStates]
      /\ [Killed(proc) EXCEPT ![p] = "none"] \in [Plays -> ProcStates]
      /\ \A q \in Plays : [Killed(proc) EXCEPT ![p] = "none"][q] # "running"
  <2>1. OnlyFfmpeg(proc) /\ proc \in [Plays -> ProcStates]
    BY DEF Owned, NoOrphanProcess, OnlyFfmpeg, Inv
  <2>2. Killed(proc) \in [Plays -> ProcStates] /\ \A q \in Plays : Killed(proc)[q] # "running"
    BY <2>1, KilledType, KilledAll
  <2> QED
    BY <2>1, <2>2 DEF ProcStates
<1>2. OnlyFfmpeg([Killed(proc) EXCEPT ![p] = "none"])
  BY <1>1 DEF OnlyFfmpeg
<1>3. CASE SpawnFfmpeg(p)
  <2>1. /\ play[p].phase = "resolving" /\ play' = [play EXCEPT ![p].phase = "grace"]
        /\ proc' = [proc EXCEPT ![p] = "running"] /\ ffmpeg' = p
        /\ UNCHANGED <<queueVars, flagVars, startupToken, playbackToken, voice, stopped>>
    BY <1>3 DEF SpawnFfmpeg
  <2>2. Pending(p) /\ Alone(p)
    BY <2>1 DEF Pending, Phases, Owned
  <2>3. /\ play'[p].phase = "grace" /\ play'[p].track = play[p].track
        /\ \A q \in Plays \ {p} : play'[q] = play[q]
    BY <2>1 DEF Inv, PlayStates
  <2>4. Pending(p)' /\ Alone(p)'
    BY <2>1, <2>2, <2>3 DEF Pending, Phases, Alone, queueVars, flagVars
  <2>5. NoOrphanProcess'
    BY <1>1, <2>1, <2>2 DEF NoOrphanProcess, Alone
  <2> QED
    BY <2>1, <2>2, <2>3, <2>4, <2>5, OnwardOwned DEF queueVars, flagVars
<1>4. CASE RetryStrategy(p)
  <2>1. /\ play[p].phase = "grace" /\ play' = [play EXCEPT ![p].phase = "resolving"]
        /\ proc' = [Killed(proc) EXCEPT ![p] = "none"] /\ ffmpeg' = None
        /\ UNCHANGED <<queueVars, flagVars, startupToken, playbackToken, voice, stopped>>
    BY <1>4 DEF RetryStrategy
  <2>2. Pending(p) /\ Alone(p)
    BY <2>1 DEF Pending, Phases, Owned
  <2>3. /\ play'[p].phase = "resolving" /\ play'[p].track = play[p].track
        /\ \A q \in Plays \ {p} : play'[q] = play[q]
    BY <2>1 DEF Inv, PlayStates
  <2>4. Pending(p)' /\ Alone(p)' /\ NoOrphanProcess'
    BY <1>1, <2>1, <2>2, <2>3 DEF Pending, Phases, Alone, queueVars, flagVars, NoOrphanProcess
  <2> QED
    BY <2>1, <2>2, <2>3, <2>4, OnwardOwned DEF queueVars, flagVars
<1>5. CASE PipelineFails(p)
  <2>1. Pending(p) /\ FinishCatch(p, "other", [Killed(proc) EXCEPT ![p] = "none"])
    BY <1>5 DEF PipelineFails, Pending, Phases
  <2> QED
    BY <1>1, <1>2, <2>1, CatchOwned
<1>6. CASE PipelineReady(p)
  <2>1. Pending(p) /\ Alone(p) /\ play[p].phase = "grace"
    BY <1>6 DEF PipelineReady, Pending, Phases, Owned
  <2>2. CASE \E outcome : FinishCatch(p, outcome, proc)
    BY <1>1, <2>1, <2>2, CatchOwned
  <2>3. CASE /\ play' = [play EXCEPT ![p].phase = "chunk", ![p].ff = ffmpeg] /\ voice' = p
             /\ UNCHANGED <<queueVars, flagVars, startupToken, playbackToken, ffmpeg, proc, stopped>>
    <3>1. /\ play'[p].phase = "chunk" /\ play'[p].track = play[p].track
          /\ \A q \in Plays \ {p} : play'[q] = play[q]
      BY <2>3 DEF Inv, PlayStates
    <3>2. Pending(p)' /\ Alone(p)' /\ NoOrphanProcess'
      BY <2>1, <2>3, <3>1 DEF Pending, Phases, Alone, queueVars, flagVars, Owned, NoOrphanProcess
    <3> QED
      BY <2>1, <2>3, <3>1, <3>2, OnwardOwned DEF queueVars, flagVars
  <2> QED
    BY <1>6, <2>2, <2>3 DEF PipelineReady
<1>7. CASE FirstChunk(p)
  <2>1. Pending(p) /\ Alone(p) /\ play[p].phase = "chunk"
    BY <1>7 DEF FirstChunk, Pending, Phases, Owned
  <2>2. CASE FinishCatch(p, "aborted", proc)
    BY <1>1, <2>1, <2>2, CatchOwned
  <2>3. CASE /\ startupToken = p /\ play' = [play EXCEPT ![p].phase = "started"] /\ clock' = TRUE
             /\ UNCHANGED <<queueVars, playing, paused, skipRequested, pendingSeek,
                            startupToken, playbackToken, procVars, stopped>>
    <3>1. /\ play'[p].phase = "started" /\ play'[p].track = play[p].track
          /\ \A q \in Plays \ {p} : play'[q] = play[q] /\ ~Pending(q)
      BY <2>1, <2>3 DEF Inv, PlayStates, Owned, Alone
    <3>2. \A q \in Plays : ~Pending(q)'
      BY <3>1 DEF Pending, Phases
    <3>3. ClockFollowsAudio' /\ ClockRuns'
      BY <2>1, <2>3, <3>1 DEF ClockFollowsAudio, ClockRuns, Alone, queueVars, procVars
    <3>4. NoOrphanProcess' /\ (pendingSeek' # None => playing' /\ skipRequested')
          /\ (current' # None => playing')
      BY <2>3 DEF Owned, NoOrphanProcess, queueVars, procVars
    <3> QED
      BY <3>2, <3>3, <3>4 DEF Owned
  <2> QED
    BY <1>7, <2>2, <2>3 DEF FirstChunk
<1>8. CASE ChunkTimeout(p)
  BY <1>1, <1>8, DiagnosticsOwned DEF ChunkTimeout
<1>9. CASE ChunkStreamError(p) \/ DiagnosticsDone(p)
  <2>1. Pending(p) /\ \E outcome : FinishCatch(p, outcome, proc)
    BY <1>9 DEF ChunkStreamError, DiagnosticsDone, Pending, Phases
  <2> QED
    BY <1>1, <2>1, CatchOwned
<1> QED
  BY <1>3, <1>4, <1>5, <1>6, <1>7, <1>8, <1>9 DEF Startup

\* When a started playback that has the token closes, nothing is starting up.
LEMMA CloseSettles ==
    ASSUME Inv, Owned, NEW p \in Plays, play[p].phase = "started", playbackToken = p
    PROVE  Settled(play) /\ Settled([play EXCEPT ![p] = IdlePlay])
<1>1. \A q \in Plays : ~Pending(q)
  BY DEF Owned, Alone, Pending, Phases
<1>2. Settled(play)
  BY <1>1, PendingPhases DEF Settled, Inv
<1> QED
  BY <1>2 DEF Settled, IdlePlay, Inv

LEMMA ProcCloseOwned ==
    ASSUME Inv, Owned, NEW r \in Plays, ProcClose(r)
    PROVE  Owned'
<1> DEFINE pr == [proc EXCEPT ![r] = "none"]
<1>1. pr \in [Plays -> ProcStates] /\ OnlyFfmpeg(pr)
  BY DEF Inv, ProcStates, OnlyFfmpeg, Owned, NoOrphanProcess
<1>2. CASE \E p \in Plays : play[p].phase = "chunk" /\ AwaitDiagnostics(p, pr)
  BY <1>1, <1>2, DiagnosticsOwned
<1>3. CASE \E p \in Plays, endedEarly \in BOOLEAN :
              /\ play[p].phase = "started" /\ playbackToken = p
              /\ TrackClosed(play[p].track, NaturalEnd, endedEarly, [play EXCEPT ![p] = IdlePlay], pr)
  <2>1. PICK p \in Plays, endedEarly \in BOOLEAN :
              /\ play[p].phase = "started" /\ playbackToken = p
              /\ TrackClosed(play[p].track, NaturalEnd, endedEarly, [play EXCEPT ![p] = IdlePlay], pr)
    BY <1>3
  <2>2. [play EXCEPT ![p] = IdlePlay] \in [Plays -> PlayStates]
    BY DEF Inv, PlayStates, IdlePlay, Phases
  <2>3. Settled([play EXCEPT ![p] = IdlePlay])
    BY <2>1, CloseSettles
  <2> HIDE DEF pr
  <2> QED
    BY <1>1, <2>1, <2>2, <2>3, ClosedOwned
<1>4. CASE /\ \A p \in Plays : play[p].ff = r /\ play[p].phase = "started" => playbackToken # p
           /\ proc' = pr
           /\ play' = [p \in Plays |-> IF play[p].phase = "started" /\ play[p].ff = r
                                       THEN IdlePlay ELSE play[p]]
           /\ UNCHANGED <<queueVars, flagVars, startupToken, playbackToken, ffmpeg, voice, stopped>>
  <2>1. \A p \in Plays :
           \/ play'[p] = play[p]
           \/ play[p].phase = "started" /\ playbackToken # p /\ play'[p].phase = "idle"
    BY <1>4 DEF IdlePlay
  <2>2. \A p \in Plays : Pending(p)' => Alone(p)'
    <3> SUFFICES ASSUME NEW p \in Plays, Pending(p)' PROVE Alone(p)'
      OBVIOUS
    <3>1. play'[p] = play[p] /\ Alone(p)
      BY <2>1 DEF Pending, Phases, Owned
    <3>2. \A q \in Plays : proc'[q] = "running" => proc[q] = "running"
      BY <1>4 DEF Inv
    <3> QED
      BY <1>4, <3>1, <3>2 DEF Alone, queueVars, flagVars
  <2>3. NoOrphanProcess'
    BY <1>1, <1>4 DEF OnlyFfmpeg, NoOrphanProcess
  <2>4. ClockFollowsAudio' /\ ClockRuns'
    BY <1>4, <2>1 DEF Owned, ClockFollowsAudio, ClockRuns, queueVars, flagVars
  <2> QED
    BY <1>4, <2>2, <2>3, <2>4 DEF Owned, queueVars, flagVars
<1> QED
  BY <1>2, <1>3, <1>4 DEF ProcClose

LEMMA InterruptOwned ==
    ASSUME Inv, Owned, NEW seek, Interrupt(seek)
    PROVE  Owned'
<1>1. OnlyFfmpeg(proc) /\ proc \in [Plays -> ProcStates] /\ play \in [Plays -> PlayStates] /\ playing
  BY DEF Owned, NoOrphanProcess, OnlyFfmpeg, Inv, Interrupt
<1>2. CASE clock /\ TrackClosed(current, Transition(seek), FALSE, play, proc)
  BY <1>1, <1>2, NothingPending, ClosedOwned DEF Inv
<1>3. CASE /\ current = None \/ ~clock
           /\ startupToken' = None /\ skipRequested' = TRUE
           /\ proc' = Killed(proc)
           /\ UNCHANGED <<queueVars, playing, paused, failures, clock, play, playbackToken, stopped>>
  <2>1. ~clock
    BY <1>3 DEF Inv, Owned, ClockFollowsAudio, PlayStates, Track
  <2>2. \A q \in Plays : proc'[q] # "running"
    BY <1>1, <1>3, KilledAll
  <2>3. \A p \in Plays : Pending(p)' => Alone(p)'
    BY <1>3, <2>2 DEF Owned, Pending, Alone
  <2>4. NoOrphanProcess' /\ ClockFollowsAudio' /\ ClockRuns'
    BY <1>3, <2>1, <2>2 DEF Owned, NoOrphanProcess, ClockFollowsAudio, ClockRuns, queueVars
  <2> QED
    BY <1>1, <1>3, <2>3, <2>4 DEF Owned, queueVars
<1> QED
  BY <1>2, <1>3 DEF Interrupt

\* Commands that only edit the queue, the loop mode or the pause flag.
LEMMA EditOwned ==
    ASSUME Inv, Owned, UNCHANGED <<current, playing, skipRequested, pendingSeek, clock,
                                   taskVars, procVars, stopped>>
    PROVE  Owned'
  BY DEF Owned, Pending, Alone, NoOrphanProcess, ClockFollowsAudio, ClockRuns, taskVars, procVars

LEMMA CommandOwned ==
    ASSUME ~ReuseAfterStop, Inv, Owned, Command
    PROVE  Owned'
<1>1. OnlyFfmpeg(proc) /\ proc \in [Plays -> ProcStates] /\ play \in [Plays -> PlayStates]
  BY DEF Owned, NoOrphanProcess, OnlyFfmpeg, Inv
<1>2. CASE Play
  <2>1. ~playing /\ ~stopped /\ ~clock /\ pendingSeek = None /\ UNCHANGED <<clock, pendingSeek>>
    BY <1>2 DEF Play, MayPlay, Usable, Inv, Owned, ClockFollowsAudio
  <2>2. Settled(play)
    BY <2>1, NothingPending DEF Inv
  <2>3. CASE BeginPlay(queue, play, proc)
    BY <1>1, <2>1, <2>2, <2>3, BeginOwned DEF Inv
  <2>4. CASE current' = None /\ proc' = Killed(proc) /\ UNCHANGED taskVars
    BY <1>1, <2>1, <2>2, <2>4, IdleOwned DEF Inv, taskVars
  <2> QED
    BY <1>2, <2>3, <2>4 DEF Play
<1>3. CASE Skip \/ ReplayCurrentTrack \/ RefreshCurrentTrackProcessing \/ SeekTo
  BY <1>3, InterruptOwned DEF Skip, ReplayCurrentTrack, RefreshCurrentTrackProcessing, SeekTo
<1>4. CASE Stop
  <2>1. /\ startupToken' = None /\ skipRequested' = TRUE /\ pendingSeek' = None /\ current' = None
        /\ proc' = Killed(proc) /\ clock' = FALSE /\ stopped' = TRUE
        /\ UNCHANGED <<play, playbackToken>>
    BY <1>4 DEF Stop
  <2>2. \A q \in Plays : proc'[q] # "running"
    BY <1>1, <2>1, KilledAll
  <2>3. \A p \in Plays : Pending(p)' => Alone(p)'
    BY <2>1, <2>2 DEF Owned, Pending, Alone, Inv
  <2>4. NoOrphanProcess' /\ ClockFollowsAudio' /\ ClockRuns'
    BY <2>1, <2>2 DEF NoOrphanProcess, ClockFollowsAudio, ClockRuns
  <2> QED
    BY <2>1, <2>3, <2>4 DEF Owned
<1>5. ASSUME NEW q, EditQueue(q) PROVE Owned'
  BY <1>5, EditOwned DEF EditQueue, flagVars
<1>6. CASE \E song \in Songs, playNext \in BOOLEAN, dedupe \in BOOLEAN : Enqueue(song, playNext, dedupe)
  BY <1>6, EditOwned DEF Enqueue, flagVars
<1>7. CASE ClearQueue \/ QueuePreviousTrack \/ \E mode \in {"off", "track", "queue"} : SetLoopMode(mode)
  BY <1>5, <1>7, EditOwned DEF ClearQueue, QueuePreviousTrack, SetLoopMode, flagVars
<1>8. CASE \/ \E i \in 1..QueueBound : RemoveFromQueue(i)
           \/ \E i, j \in 1..QueueBound : ShuffleQueue(i, j)
  BY <1>5, <1>8 DEF RemoveFromQueue, ShuffleQueue
<1>9. CASE Pause \/ Resume
  BY <1>9, EditOwned DEF Pause, Resume, queueVars
<1> QED
  BY <1>2, <1>3, <1>4, <1>6, <1>7, <1>8, <1>9 DEF Command

LEMMA InitOwned == Init => Owned
<1> SUFFICES ASSUME Init PROVE Owned
  OBVIOUS
<1>1. \A p \in Plays : play[p].phase = "idle" /\ proc[p] = "none"
  BY DEF Init, IdlePlay
<1>2. \A p \in Plays : ~Pending(p)
  BY <1>1 DEF Pending, Phases
<1>3. clock = FALSE /\ pendingSeek = None /\ current = None
  BY Zenon DEF Init
<1> QED
  BY <1>1, <1>2, <1>3 DEF Owned, NoOrphanProcess, ClockFollowsAudio, ClockRuns

LEMMA OwnedStep == ASSUME ~ReuseAfterStop, Inv, Owned, [Next]_vars PROVE Owned'
<1>1. CASE Next
  BY <1>1, StartupOwned, ProcCloseOwned, CommandOwned DEF Next
<1>2. CASE UNCHANGED vars
  BY <1>2, EditOwned DEF vars, queueVars, flagVars, taskVars, procVars
<1> QED
  BY <1>1, <1>2

LEMMA OwnedAlways == ASSUME ~ReuseAfterStop PROVE Spec => [](Inv /\ Owned)
<1>1. Init => Inv /\ Owned
  BY InitInv, InitOwned
<1>2. Inv /\ Owned /\ [Next]_vars => (Inv /\ Owned)'
  BY StepInv, OwnedStep
<1> QED
  BY <1>1, <1>2, PTL DEF Spec

\* A running ffmpeg is always this.ffmpeg, so cleanupProcesses can kill it, and the
\* clock runs exactly for the track that is heard, whatever playbacks, commands and
\* close events interleave, as long as nobody uses the player of a destroyed session.
THEOREM PlaybackOwned == ASSUME ~ReuseAfterStop PROVE Spec => []PlaybackIsOwned
<1>1. Owned => PlaybackIsOwned
  BY DEF Owned, PlaybackIsOwned
<1> QED
  BY <1>1, OwnedAlways, PTL

-----------------------------------------------------------------------------
(* Nothing ends unannounced.                                               *)

\* The catch block leaves a player that plays on, or says queueEmpty: a startup
\* is only given up for one that someone interrupted.
LEMMA CatchAnnounces ==
    ASSUME Owned, NEW p \in Plays, Pending(p), NEW outcome, NEW pr,
           outcome = "aborted" => startupToken # p, FinishCatch(p, outcome, pr), ~playing'
    PROVE  Emits("queueEmpty")
<1>1. outcome = "aborted" => AbortAnnounced
  BY DEF Owned, Alone, AbortAnnounced
<1>2. ~(\E q, t : BeginPlay(q, t, pr))
  BY DEF BeginPlay
<1>3. Event("queueEmpty", p) \in emitted'
  BY <1>1, <1>2 DEF FinishCatch
<1> QED
  BY <1>3 DEF Emits, Event

LEMMA CloseAnnounces ==
    ASSUME NEW track, NEW at, NEW endedEarly, NEW t, NEW pr,
           TrackClosed(track, at, endedEarly, t, pr), ~playing'
    PROVE  Emits("queueEmpty")
<1>1. ~(\E q : BeginPlay(q, t, pr))
  BY DEF BeginPlay
<1>2. Event("queueEmpty", playbackToken) \in emitted'
  BY <1>1 DEF TrackClosed
<1> QED
  BY <1>2 DEF Emits, Event

LEMMA IdleStep ==
    ASSUME Inv, Owned, Next, playing, ~playing'
    PROVE  Emits("queueEmpty") \/ stopped'
<1>1. ASSUME NEW p \in Plays, Startup(p) PROVE Emits("queueEmpty")
  <2>1. ~SpawnFfmpeg(p) /\ ~RetryStrategy(p) /\ ~ChunkTimeout(p)
    BY DEF SpawnFfmpeg, RetryStrategy, ChunkTimeout, AwaitDiagnostics, flagVars
  <2>2. CASE PipelineFails(p) \/ ChunkStreamError(p) \/ DiagnosticsDone(p)
    <3>1. Pending(p) /\ \E outcome, pr : outcome # "aborted" /\ FinishCatch(p, outcome, pr)
      BY <2>2 DEF PipelineFails, ChunkStreamError, DiagnosticsDone, Pending, Phases
    <3> QED
      BY <3>1, CatchAnnounces
  <2>3. CASE PipelineReady(p) \/ FirstChunk(p)
    <3>1. Pending(p) /\ \E outcome, pr : /\ outcome = "aborted" => startupToken # p
                                         /\ FinishCatch(p, outcome, pr)
      BY <2>3 DEF PipelineReady, FirstChunk, flagVars, Pending, Phases
    <3> QED
      BY <3>1, CatchAnnounces
  <2> QED
    BY <1>1, <2>1, <2>2, <2>3 DEF Startup
<1>2. ASSUME NEW r \in Plays, ProcClose(r) PROVE Emits("queueEmpty")
  BY <1>2, CloseAnnounces DEF ProcClose, AwaitDiagnostics, flagVars
<1>3. ASSUME Command PROVE Emits("queueEmpty") \/ stopped'
  <2>1. \A seek : Interrupt(seek) => Emits("queueEmpty")
    BY CloseAnnounces DEF Interrupt
  <2>2. \A q : ~EditQueue(q)
    BY DEF EditQueue, flagVars
  <2>3. /\ ~QueuePreviousTrack /\ ~Pause /\ ~Resume /\ ~Play
        /\ \A mode : ~SetLoopMode(mode)
        /\ \A song, playNext, dedupe : ~Enqueue(song, playNext, dedupe)
    BY DEF QueuePreviousTrack, Pause, Resume, Play, MayPlay, SetLoopMode, Enqueue, flagVars
  <2>4. ~ClearQueue /\ (\A i : ~RemoveFromQueue(i)) /\ (\A i, j : ~ShuffleQueue(i, j))
    BY <2>2 DEF ClearQueue, RemoveFromQueue, ShuffleQueue
  <2>5. Stop => stopped'
    BY DEF Stop
  <2> QED
    BY <1>3, <2>1, <2>3, <2>4, <2>5
       DEF Command, Skip, ReplayCurrentTrack, RefreshCurrentTrackProcessing, SeekTo
<1> QED
  BY <1>1, <1>2, <1>3 DEF Next

\* What TrackAccounted allows to happen to a current track that goes.
Traced ==
    \/ skipRequested \/ stopped'
    \/ Emits("trackError") \/ \E p \in Plays : play[p].phase = "diag"
    \/ Emits("trackEnd") /\ history' # <<>> /\ history'[Len(history')] = current
    \/ current' # None /\ current'.song = current.song
    \/ \E i \in DOMAIN queue' : queue'[i].song = current.song

LEMMA CatchTraced ==
    ASSUME Owned, NEW p \in Plays, Pending(p), NEW outcome \in {"aborted", "flood", "other"}, NEW pr,
           outcome = "aborted" => startupToken # p, outcome = "flood" => play[p].phase = "diag",
           FinishCatch(p, outcome, pr)
    PROVE  Traced
<1>1. CASE outcome = "aborted"
  BY <1>1 DEF Owned, Alone, Traced
<1>2. CASE outcome = "flood"
  BY <1>2 DEF Traced
<1>3. CASE outcome = "other"
  <2>1. Event("trackError", p) \in emitted'
    BY <1>3 DEF FinishCatch
  <2>2. Emits("trackError")
    BY <2>1 DEF Emits, Event
  <2> QED
    BY <2>2 DEF Traced
<1> QED
  BY <1>1, <1>2, <1>3

LEMMA RememberLast ==
    ASSUME history \in Seq(Track), NEW track \in Track, MaxHistory > 0
    PROVE  Remember(track) # <<>> /\ Remember(track)[Len(Remember(track))] = track
<1> DEFINE h == Append(history, track)
<1>1. h \in Seq(Track) /\ Len(h) > 0 /\ h[Len(h)] = track
  OBVIOUS
<1>2. CASE Len(h) > MaxHistory
  <2> DEFINE n == Len(h) - MaxHistory + 1
  <2>1. n \in 1..Len(h) /\ Len(h) \in 1..Len(h)
    BY <1>1, <1>2
  <2>2. /\ SubSeq(h, n, Len(h)) \in Seq(Track) /\ Len(SubSeq(h, n, Len(h))) = Len(h) - n + 1
        /\ \A i \in 1..(Len(h) - n + 1) : SubSeq(h, n, Len(h))[i] = h[n + i - 1]
    BY <1>1, <2>1, SubSeqProperties
  <2>3. Len(h) - n + 1 = MaxHistory /\ n + MaxHistory - 1 = Len(h)
    BY <1>1
  <2>4. Remember(track) = SubSeq(h, n, Len(h))
    BY <1>2 DEF Remember
  <2> HIDE DEF n, h
  <2> QED
    BY <1>1, <2>2, <2>3, <2>4
<1>3. CASE ~(Len(h) > MaxHistory)
  BY <1>1, <1>3 DEF Remember
<1> QED
  BY <1>2, <1>3

LEMMA CloseTraced ==
    ASSUME TypeOK, current # None, MaxHistory > 0,
           NEW at, at.seek # None => skipRequested \/ at.seek = current,
           NEW endedEarly, NEW t, NEW pr, TrackClosed(current, at, endedEarly, t, pr)
    PROVE  Traced
<1>1. current \in Track
  OBVIOUS
<1>2. CASE skipRequested
  BY <1>2 DEF Traced
<1>3. CASE at.seek # None /\ ~skipRequested
  <2>1. BeginPlay(<<current>> \o queue, t, pr)
    BY <1>1, <1>3, SeqFacts DEF TrackClosed
  <2>2. current' = current
    BY <1>1, <2>1 DEF BeginPlay
  <2> QED
    BY <2>2 DEF Traced
<1>4. CASE /\ at.seek = None
           /\ ~at.skip /\ endedEarly /\ current.song \in YouTube /\ current.recovery < 1
  <2>1. [current EXCEPT !.recovery = 1] \in Track
    BY <1>1 DEF Track
  <2>2. BeginPlay(<<[current EXCEPT !.recovery = 1]>> \o queue, t, pr)
    BY <1>4, <2>1, SeqFacts DEF TrackClosed
  <2>3. current' = [current EXCEPT !.recovery = 1]
    BY <2>1, <2>2 DEF BeginPlay
  <2>4. current'.song = current.song /\ current' # None
    BY <1>1, <2>1, <2>3 DEF Track
  <2> QED
    BY <2>4 DEF Traced
<1>5. CASE /\ at.seek = None
           /\ ~(~at.skip /\ endedEarly /\ current.song \in YouTube /\ current.recovery < 1)
  <2>1. history' = Remember(current) /\ Event("trackEnd", playbackToken) \in emitted'
    BY <1>5 DEF TrackClosed
  <2>2. history' # <<>> /\ history'[Len(history')] = current
    BY <1>1, <2>1, RememberLast
  <2>3. Emits("trackEnd")
    BY <2>1 DEF Emits, Event
  <2> QED
    BY <2>2, <2>3 DEF Traced
<1> QED
  BY <1>2, <1>3, <1>4, <1>5

LEMMA TrackStep ==
    ASSUME MaxHistory > 0, Inv, Owned, Next, current # None, current' # current
    PROVE  Traced
<1>1. playing /\ TypeOK /\ (pendingSeek # None => skipRequested)
  BY DEF Owned, Inv
<1>2. ASSUME NEW p \in Plays, Startup(p) PROVE Traced
  <2>1. ~SpawnFfmpeg(p) /\ ~RetryStrategy(p) /\ ~ChunkTimeout(p)
    BY DEF SpawnFfmpeg, RetryStrategy, ChunkTimeout, AwaitDiagnostics, queueVars
  <2>2. CASE PipelineFails(p) \/ ChunkStreamError(p)
    <3>1. Pending(p) /\ \E pr : FinishCatch(p, "other", pr)
      BY <2>2 DEF PipelineFails, ChunkStreamError, Pending, Phases
    <3> QED
      BY <3>1, CatchTraced
  <2>3. CASE PipelineReady(p) \/ FirstChunk(p)
    <3>1. Pending(p) /\ \E outcome \in {"aborted", "other"} :
                           /\ outcome = "aborted" => startupToken # p
                           /\ \E pr : FinishCatch(p, outcome, pr)
      BY <2>3 DEF PipelineReady, FirstChunk, queueVars, Pending, Phases
    <3> QED
      BY <3>1, CatchTraced
  <2>4. CASE DiagnosticsDone(p)
    BY <2>4 DEF DiagnosticsDone, Traced
  <2> QED
    BY <1>2, <2>1, <2>2, <2>3, <2>4 DEF Startup
<1>3. ASSUME NEW r \in Plays, ProcClose(r) PROVE Traced
  <2>1. PICK p \in Plays :
           /\ play[p].phase = "started" /\ playbackToken = p
           /\ \E endedEarly, t, pr : TrackClosed(play[p].track, NaturalEnd, endedEarly, t, pr)
    BY <1>3 DEF ProcClose, AwaitDiagnostics, queueVars
  <2>2. play[p].track = current
    BY <2>1 DEF Owned, ClockRuns, ClockFollowsAudio
  <2>3. NaturalEnd.seek # None => skipRequested
    BY <1>1 DEF NaturalEnd
  <2> QED
    BY <1>1, <2>1, <2>2, <2>3, CloseTraced
<1>4. ASSUME NEW seek, seek # None => skipRequested \/ seek = current, Interrupt(seek)
      PROVE  Traced
  <2>1. TrackClosed(current, Transition(seek), FALSE, play, proc)
    BY <1>4 DEF Interrupt, queueVars
  <2>2. Transition(seek).seek = seek
    BY DEF Transition
  <2> QED
    BY <1>1, <1>4, <2>1, <2>2, CloseTraced
<1>5. ASSUME Command PROVE Traced
  <2>1. CASE Skip \/ ReplayCurrentTrack \/ RefreshCurrentTrackProcessing \/ SeekTo
    BY <1>1, <1>4, <2>1 DEF Skip, ReplayCurrentTrack, RefreshCurrentTrackProcessing, SeekTo
  <2>2. \A q : ~EditQueue(q)
    BY DEF EditQueue
  <2>3. /\ ~QueuePreviousTrack /\ ~Pause /\ ~Resume /\ ~Play
        /\ \A mode : ~SetLoopMode(mode)
        /\ \A song, playNext, dedupe : ~Enqueue(song, playNext, dedupe)
    BY <1>1 DEF QueuePreviousTrack, Pause, Resume, Play, MayPlay, SetLoopMode, Enqueue, queueVars
  <2>4. ~ClearQueue /\ (\A i : ~RemoveFromQueue(i)) /\ (\A i, j : ~ShuffleQueue(i, j))
    BY <2>2 DEF ClearQueue, RemoveFromQueue, ShuffleQueue
  <2>5. Stop => Traced
    BY DEF Stop, Traced
  <2> QED
    BY <1>5, <2>1, <2>3, <2>4, <2>5 DEF Command
<1> QED
  BY <1>2, <1>3, <1>5 DEF Next

\* Entering play() makes no playback idle.
LEMMA BeginKeepsIdle ==
    ASSUME NEW q, NEW t \in [Plays -> PlayStates], NEW pr, BeginPlay(q, t, pr),
           NEW p \in Plays, play'[p].phase = "idle"
    PROVE  t[p].phase = "idle"
  BY DEF BeginPlay

\* A playback that waits for diagnostics is only ended by its own catch block.
LEMMA DiagnosedEnds ==
    ASSUME Inv, Next, NEW p \in Plays, play[p].phase = "diag", play'[p].phase = "idle"
    PROVE  DiagnosticsDone(p)
<1>1. play \in [Plays -> PlayStates]
  BY DEF Inv
<1>2. ASSUME NEW t \in [Plays -> PlayStates], t[p].phase # "idle", NEW q, NEW pr
      PROVE  ~BeginPlay(q, t, pr) /\ play' # t
  BY <1>2, BeginKeepsIdle
<1>3. ASSUME NEW r \in Plays, r # p PROVE ~(\E outcome, pr : FinishCatch(r, outcome, pr))
  <2>1. /\ [play EXCEPT ![r] = IdlePlay] \in [Plays -> PlayStates]
        /\ [play EXCEPT ![r] = IdlePlay][p].phase = "diag"
    BY <1>1, <1>3 DEF PlayStates, IdlePlay, Phases
  <2> QED
    BY <1>2, <2>1 DEF FinishCatch
<1>4. ASSUME NEW r \in Plays, NEW pr PROVE ~AwaitDiagnostics(r, pr)
  <2>1. [play EXCEPT ![r].phase = "diag"][p].phase = "diag"
    BY <1>1 DEF PlayStates
  <2> QED
    BY <2>1 DEF AwaitDiagnostics
<1>5. ASSUME NEW r \in Plays, Startup(r) PROVE DiagnosticsDone(p)
  <2>1. CASE r = p
    BY <1>5, <2>1 DEF Startup, SpawnFfmpeg, RetryStrategy, PipelineFails, PipelineReady, FirstChunk,
       ChunkTimeout, ChunkStreamError
  <2>2. CASE r # p
    <3>1. ~PipelineFails(r) /\ ~ChunkStreamError(r) /\ ~DiagnosticsDone(r) /\ ~ChunkTimeout(r)
      BY <1>3, <1>4, <2>2 DEF PipelineFails, ChunkStreamError, DiagnosticsDone, ChunkTimeout
    <3>2. ~PipelineReady(r) /\ ~FirstChunk(r)
      BY <1>1, <1>3, <2>2 DEF PipelineReady, FirstChunk
    <3>3. ~SpawnFfmpeg(r) /\ ~RetryStrategy(r)
      BY <1>1, <2>2 DEF SpawnFfmpeg, RetryStrategy
    <3> QED
      BY <1>5, <3>1, <3>2, <3>3 DEF Startup
  <2> QED
    BY <2>1, <2>2
<1>6. ASSUME NEW r \in Plays PROVE ~ProcClose(r)
  <2>1. ASSUME NEW s \in Plays, play[s].phase = "started"
        PROVE  ~(\E track, at, endedEarly, pr :
                    TrackClosed(track, at, endedEarly, [play EXCEPT ![s] = IdlePlay], pr))
    <3>1. /\ [play EXCEPT ![s] = IdlePlay] \in [Plays -> PlayStates]
          /\ [play EXCEPT ![s] = IdlePlay][p].phase = "diag"
      BY <1>1, <2>1 DEF PlayStates, IdlePlay, Phases
    <3>2. \A track, at, endedEarly, t, pr :
             TrackClosed(track, at, endedEarly, t, pr) => (\E q : BeginPlay(q, t, pr)) \/ play' = t
      BY DEF TrackClosed
    <3> QED
      BY <1>2, <3>1, <3>2
  <2> QED
    BY <1>4, <2>1 DEF ProcClose
<1>7. ~Command
  <2>1. \A seek : ~Interrupt(seek)
    BY <1>1, <1>2 DEF Interrupt, TrackClosed
  <2>2. \A q : ~EditQueue(q)
    BY DEF EditQueue, taskVars
  <2>3. ~Play
    BY <1>1, <1>2 DEF Play, taskVars
  <2>4. /\ ~QueuePreviousTrack /\ ~Pause /\ ~Resume /\ ~Stop
        /\ \A mode : ~SetLoopMode(mode)
        /\ \A song, playNext, dedupe : ~Enqueue(song, playNext, dedupe)
    BY DEF QueuePreviousTrack, Pause, Resume, Stop, SetLoopMode, Enqueue, taskVars
  <2>5. ~ClearQueue /\ (\A i : ~RemoveFromQueue(i)) /\ (\A i, j : ~ShuffleQueue(i, j))
    BY <2>2 DEF ClearQueue, RemoveFromQueue, ShuffleQueue
  <2> QED
    BY <2>1, <2>3, <2>4, <2>5
       DEF Command, Skip, ReplayCurrentTrack, RefreshCurrentTrackProcessing, SeekTo
<1> QED
  BY <1>5, <1>6, <1>7 DEF Next

LEMMA StreakStep ==
    ASSUME Inv, Next, NEW p \in Plays, play[p].phase = "diag", play'[p].phase = "idle",
           failures' = FailLimit
    PROVE  ~playing' /\ queue' = <<>> /\ Emits("queueEmpty")
<1>1. FinishCatch(p, "flood", proc)
  BY DiagnosedEnds DEF DiagnosticsDone
<1>2. StreakReached(failures')
  BY DEF StreakReached
<1>3. /\ ~playing' /\ queue' = <<>> /\ Event("queueEmpty", p) \in emitted'
  BY <1>1, <1>2 DEF FinishCatch
<1> QED
  BY <1>3 DEF Emits, Event

\* A player that stops being busy tells its session; a current track that goes is in
\* the history, reported, continued, queued or was interrupted on purpose; a streak
\* of FailLimit startups without audio ends the queue.  The history must keep at
\* least one track (maxHistorySize is 100 unless an embedder says otherwise).
THEOREM EndsAnnounced ==
    ASSUME ~ReuseAfterStop, MaxHistory > 0
    PROVE  Spec => EndsAreAnnounced
<1>1. Inv /\ Owned /\ [Next]_vars => [playing /\ ~playing' => Emits("queueEmpty") \/ stopped']_vars
  BY IdleStep
<1>2. Inv /\ Owned /\ [Next]_vars => [current # None /\ current' # current => Traced]_vars
  BY TrackStep
<1>3. Inv /\ Owned /\ [Next]_vars =>
        [\A p \in Plays :
           play[p].phase = "diag" /\ play'[p].phase = "idle" /\ failures' = FailLimit
           => ~playing' /\ queue' = <<>> /\ Emits("queueEmpty")]_vars
  BY StreakStep
<1>4. Spec => IdleIsAnnounced
  BY <1>1, OwnedAlways, PTL DEF Spec, IdleIsAnnounced
<1>5. Spec => TrackAccounted
  BY <1>2, OwnedAlways, PTL DEF Spec, TrackAccounted, Traced
<1>6. Spec => StreakHaltsQueue
  BY <1>3, OwnedAlways, PTL DEF Spec, StreakHaltsQueue
<1> QED
  BY <1>4, <1>5, <1>6 DEF EndsAreAnnounced
==============================================================================
