----------------------------- MODULE AudioPump -----------------------------
(***************************************************************************)
(* The audio pump of one src/voice/VoiceConnection.ts: sendAudio, stopAudio, *)
(* pauseAudio, resumeAudio and the loop of _pumpPcmStream, which cuts a PCM  *)
(* stream into frames for the LiveKit audio source.                          *)
(*                                                                         *)
(* sendAudio starts a pump and never awaits it; several can be alive, the    *)
(* older ones having lost their token.  A pump is cut where it awaits.  Its  *)
(* identifier is reused when it is gone: the token counter is only ever      *)
(* compared with the value a pump was given.  Sound is counted in units,     *)
(* FrameUnits to a frame, and the source's queue in frames.                  *)
(***************************************************************************)
EXTENDS Naturals, FiniteSets

CONSTANTS
    Pumps,         \* identifiers of pumps (bound: alive at once)
    None,
    FrameUnits,    \* BYTES_PER_FRAME
    Target,        \* TARGET_QUEUE_MS and MAX_QUEUE_MS, which are equal, in frames
    ChunkSizes,    \* sizes of the chunks of a stream, in units
    StreamUnits,   \* bound on the length of a stream
    Failures       \* may streams and the source fail ?

ASSUME PumpAssumption ==
    /\ None \notin Pumps
    /\ FrameUnits \in Nat \ {0} /\ Target \in Nat \ {0}
    /\ ChunkSizes \subseteq Nat /\ StreamUnits \in Nat
    /\ Failures \in BOOLEAN

VARIABLES
    current,    \* the pump whose token equals audioPumpToken, or None
    stream,     \* currentAudioStream, named by its pump
    paused,     \* playbackPaused
    pump,       \* pump[p]: the state of a _pumpPcmStream
    queued,     \* queuedDuration of the source, in frames
    overrun     \* frames captured since the last pauseAudio, saturated at 3

vars == <<current, stream, paused, pump, queued, overrun>>

\* "chunk": awaiting a chunk; "held1", "held2": in pauseWaiters, before the chunk
\* is taken and before a frame is cut; "taken", "frame": past that wait;
\* "playout": awaiting waitForPlayout; "captured", "padded": awaiting captureFrame.
Phases == {"idle", "chunk", "held1", "taken", "held2", "frame", "playout", "captured", "padded"}
PumpStates ==
    [phase : Phases, chunk : ChunkSizes \cup {0}, pending : Nat, inputPaused : BOOLEAN,
     fed : 0..StreamUnits, out : Nat]
Idle == [phase |-> "idle", chunk |-> 0, pending |-> 0, inputPaused |-> FALSE, fed |-> 0, out |-> 0]
Running(p) == pump[p].phase # "idle"
Held(p) == pump[p].phase \in {"held1", "held2"}

TypeOK ==
    /\ current \in Pumps \cup {None} /\ stream \in Pumps \cup {None}
    /\ paused \in BOOLEAN /\ queued \in 0..(Target + 2) /\ overrun \in 0..3
    /\ pump \in [Pumps -> PumpStates]

Init ==
    /\ current = None /\ stream = None /\ paused = FALSE
    /\ pump = [p \in Pumps |-> Idle]
    /\ queued = 0 /\ overrun = 0

-----------------------------------------------------------------------------
\* _flushPauseWaiters: every waiting pump may go on.
Flushed(t) ==
    [p \in Pumps |-> [t[p] EXCEPT !.phase = IF @ = "held1" THEN "taken"
                                           ELSE IF @ = "held2" THEN "frame" ELSE @]]

BugStopKeepsWaiters ==
    /\ current' = None /\ stream' = None /\ paused' = FALSE /\ queued' = 0
    /\ UNCHANGED <<pump, overrun>>

\* stopAudio, _stopAudioPump
StopAudio ==
    /\ current' = None /\ stream' = None /\ paused' = FALSE
    /\ pump' = Flushed(pump) /\ queued' = 0
    /\ UNCHANGED overrun

\* sendAudio: the current pump is stopped and p started.
SendAudio(p) ==
    /\ pump[p].phase = "idle"
    /\ current' = p /\ stream' = p /\ paused' = FALSE
    /\ pump' = [Flushed(pump) EXCEPT ![p].phase = "chunk"]
    /\ queued' = 0 /\ UNCHANGED overrun

PauseAudio ==
    /\ ~paused /\ paused' = TRUE /\ overrun' = 0
    /\ UNCHANGED <<current, stream, pump, queued>>

ResumeAudio ==
    /\ paused /\ paused' = FALSE /\ pump' = Flushed(pump)
    /\ UNCHANGED <<current, stream, queued, overrun>>

-----------------------------------------------------------------------------
Command == StopAudio \/ PauseAudio \/ ResumeAudio \/ \E p \in Pumps : SendAudio(p)

BugFinishAlwaysClears(p) ==
    /\ pump' = [pump EXCEPT ![p] = Idle]
    /\ stream' = None

\* The pump returns or throws; the finally block runs.
Finish(p) ==
    /\ pump' = [pump EXCEPT ![p] = Idle]
    /\ stream' = IF current = p THEN None ELSE stream

\* _waitWhilePaused
WhilePaused(p, s, hold, go) ==
    [s EXCEPT !.phase = IF paused /\ current = p THEN hold ELSE go]

\* The head of the inner loop, with the pump in state s: another frame is cut, or
\* the next chunk awaited.
LoopHead(p, s) ==
    IF s.pending >= FrameUnits /\ current = p
    THEN WhilePaused(p, s, "held2", "frame") ELSE [s EXCEPT !.phase = "chunk"]

\* A chunk arrives.  (The async iterator of a Node stream delivers chunks
\* whether or not pause() was called.)
Chunk(p, n) ==
    /\ pump[p].phase = "chunk" /\ pump[p].fed + n <= StreamUnits
    /\ IF current # p
       THEN Finish(p)
       ELSE /\ pump' = [pump EXCEPT ![p] = WhilePaused(p, [pump[p] EXCEPT !.chunk = n, !.fed = @ + n],
                                                       "held1", "taken")]
            /\ UNCHANGED stream
    /\ UNCHANGED <<current, paused, queued, overrun>>

\* The chunk is appended to what is pending; too much of it pauses the input.
Taken(p) ==
    /\ pump[p].phase = "taken"
    /\ IF current # p
       THEN Finish(p)
       ELSE LET pending == pump[p].pending + pump[p].chunk
                full == pending >= Target * FrameUnits \/ queued >= Target
            IN  /\ pump' = [pump EXCEPT ![p] =
                     IF pump[p].chunk = 0 THEN [pump[p] EXCEPT !.phase = "chunk"]
                     ELSE LoopHead(p, [pump[p] EXCEPT !.pending = pending, !.chunk = 0,
                                                      !.inputPaused = @ \/ full])]
                /\ UNCHANGED stream
    /\ UNCHANGED <<current, paused, queued, overrun>>

\* captureFrame is called with the pump in state s: a frame joins the queue.
Capture(p, s, next) ==
    /\ queued' = queued + 1
    /\ overrun' = IF paused /\ overrun < 3 THEN overrun + 1 ELSE overrun
    /\ pump' = [pump EXCEPT ![p] = [s EXCEPT !.phase = next, !.out = s.out + 1]]

BugFrameOfStalePump(p) ==
    /\ pump[p].phase = "frame" /\ queued <= Target
    /\ Capture(p, [pump[p] EXCEPT !.pending = @ - FrameUnits], "captured")
    /\ UNCHANGED <<current, stream, paused>>

\* A frame is cut: it waits for the queue to play out if that is too long.
Frame(p) ==
    /\ pump[p].phase = "frame"
    /\ LET cut == [pump[p] EXCEPT !.pending = @ - FrameUnits]
       IN  \/ /\ current # p
              /\ pump' = [pump EXCEPT ![p].phase = "chunk"]
              /\ UNCHANGED <<queued, overrun>>
           \/ /\ current = p /\ queued > Target
              /\ pump' = [pump EXCEPT ![p] = [cut EXCEPT !.phase = "playout"]]
              /\ UNCHANGED <<queued, overrun>>
           \/ current = p /\ queued <= Target /\ Capture(p, cut, "captured")
    /\ UNCHANGED <<current, stream, paused>>

\* waitForPlayout resolves, or the poll finds the token gone and throws.
PlayedOut(p) ==
    /\ pump[p].phase = "playout"
    /\ \/ current = p /\ queued = 0 /\ Capture(p, pump[p], "captured") /\ UNCHANGED stream
       \/ current # p /\ Finish(p) /\ UNCHANGED <<queued, overrun>>
    /\ UNCHANGED <<current, paused>>

\* captureFrame resolves: the input is resumed when little is left.
Captured(p) ==
    /\ pump[p].phase = "captured"
    /\ IF current # p
       THEN Finish(p)
       ELSE LET little == pump[p].pending <= Target * FrameUnits /\ queued <= Target
            IN  /\ pump' = [pump EXCEPT ![p] = LoopHead(p, [pump[p] EXCEPT !.inputPaused = @ /\ ~little])]
                /\ UNCHANGED stream
    /\ UNCHANGED <<current, paused, queued, overrun>>

\* The stream ends: what is pending is padded to a frame.  A stream destroyed by
\* _stopAudioPump ends, or throws and is not padded either.
EndOfStream(p) ==
    /\ pump[p].phase = "chunk"
    /\ IF pump[p].pending > 0 /\ current = p
       THEN Capture(p, [pump[p] EXCEPT !.pending = 0], "padded") /\ UNCHANGED stream
       ELSE Finish(p) /\ UNCHANGED <<queued, overrun>>
    /\ UNCHANGED <<current, paused>>

Padded(p) ==
    /\ pump[p].phase = "padded" /\ Finish(p)
    /\ UNCHANGED <<current, paused, queued, overrun>>

\* The stream fails, or the source rejects a frame (it was closed).
PumpFails(p) ==
    /\ Failures /\ pump[p].phase \in {"chunk", "playout", "captured", "padded"} /\ Finish(p)
    /\ UNCHANGED <<current, paused, queued, overrun>>

\* The source plays a frame.
Playout ==
    /\ queued > 0 /\ queued' = queued - 1
    /\ UNCHANGED <<current, stream, paused, pump, overrun>>

Step(p) ==
    \/ Taken(p) \/ Frame(p) \/ PlayedOut(p) \/ Captured(p) \/ EndOfStream(p) \/ Padded(p)
    \/ \E n \in ChunkSizes : Chunk(p, n)

Next ==
    \/ Command
    \/ Playout
    \/ \E p \in Pumps : Step(p) \/ PumpFails(p)

Spec == Init /\ [][Next]_vars

\* A stream that was destroyed ends, the source answers, Node runs what is ready.
FairSpec == Spec /\ \A p \in Pumps : WF_vars(current # p /\ Step(p))

-----------------------------------------------------------------------------
(* Properties.                                                             *)

\* No lost wake-up: a pump only sleeps while playback is paused and it holds the
\* token, so resumeAudio or the next stopAudio finds it.
NobodyForgotten == \A p \in Pumps : Held(p) => paused /\ current = p

\* isStreaming tells the truth: the current stream is the one of the running
\* pump that holds the token, and that pump is never without it.
StreamOwned ==
    \A p \in Pumps : (stream = p) <=> (current = p /\ Running(p))

\* Only the pump that holds the token is heard.
OnlyCurrentIsHeard ==
    [][queued' > queued => current # None /\ pump'[current].out = pump[current].out + 1]_vars

\* pauseAudio takes effect: at most the frame being captured and the padded end
\* of the stream are still played.
PauseTakesEffect == paused => overrun <= 2

\* A stream that is pumped to its end is heard completely, its last units padded
\* to a frame.
EverythingPlayed ==
    [][\A p \in Pumps :
         (EndOfStream(p) \/ Padded(p)) /\ pump'[p].phase = "idle" /\ current = p =>
           pump[p].out * FrameUnits \in pump[p].fed .. (pump[p].fed + FrameUnits - 1)]_vars

\* A pump that lost its token ends.
StalePumpsEnd == \A p \in Pumps : Running(p) /\ current # p ~> ~Running(p)

\* The pump that holds the token is the one that streams, and none sleeps where
\* resumeAudio or _stopAudioPump would not find it.
PumpSound == NobodyForgotten /\ StreamOwned

\* A pump ends when it should and as it should: a replaced one in the end, one
\* whose stream has ended after all of it was played, and none plays on through a
\* pause (_pumpPcmStream, _waitWhilePaused, _assertPumpActive).
PumpsEndRightly == StalePumpsEnd /\ EverythingPlayed /\ []PauseTakesEffect

\* test/voiceConnectionPumpBackpressure.test.ts: the pump resumes the input it
\* has paused.  It does not wait for a chunk of an input it holds back.
InputFlows == \A p \in Pumps : pump[p].phase = "chunk" /\ current = p => ~pump[p].inputPaused
=============================================================================
