---------------------------- MODULE StreamProofs ----------------------------
(***************************************************************************)
(* Theorems about a track on its way to the room: how it is looked up      *)
(* (TrackResolver), the stream that feeds ffmpeg (DeezerStream), and the   *)
(* one that is captured into the room (AudioPump, first).  None knows of   *)
(* the others.                                                             *)
(*                                                                         *)
(* AudioPump, for any number of pumps, any frame size, queue limit and     *)
(* stream, with or without failures: a frame is only cut from a full one   *)
(* (FrameReady), and only the padded end of a stream, after which its pump *)
(* is done, goes over the limit of the queue (QueueRoom): with these the   *)
(* type invariant is inductive.  NobodyForgotten and StreamOwned are       *)
(* inductive on top of it.                                                 *)
(***************************************************************************)
EXTENDS AudioPump, TrackSources, SequenceTheorems, FiniteSetTheorems, WellFoundedInduction, TLAPS

\* A pump about to cut a frame has one pending.
FrameReady == \A p \in Pumps : pump[p].phase \in {"held2", "frame"} => pump[p].pending >= FrameUnits

\* While the pump with the token can still capture, the queue has room for it.
QueueRoom ==
    \A p \in Pumps : current = p /\ pump[p].phase \notin {"padded", "idle"} => queued <= Target + 1

Inv == TypeOK /\ FrameReady /\ QueueRoom /\ NobodyForgotten /\ StreamOwned

-----------------------------------------------------------------------------
\* What _flushPauseWaiters leaves: pumps of the same state that do not sleep.
LEMMA FlushedPumps ==
    ASSUME TypeOK, FrameReady, NEW p \in Pumps
    PROVE  /\ Flushed(pump)[p] \in PumpStates
           /\ Flushed(pump)[p].phase \notin {"held1", "held2"}
           /\ Flushed(pump)[p].phase = "idle" <=> pump[p].phase = "idle"
           /\ Flushed(pump)[p].phase = "padded" <=> pump[p].phase = "padded"
           /\ Flushed(pump)[p].phase = "frame" => Flushed(pump)[p].pending >= FrameUnits
<1>1. pump[p] \in PumpStates
  BY DEF TypeOK
<1>2. Flushed(pump)[p] \in PumpStates
  BY <1>1 DEF Flushed, PumpStates, Phases
<1>3. Flushed(pump)[p].pending = pump[p].pending
  BY <1>1 DEF Flushed, PumpStates
<1> QED
  BY <1>1, <1>2, <1>3 DEF Flushed, FrameReady, PumpStates, Phases

\* What _waitWhilePaused makes of a pump.
LEMMA WaitingPump ==
    ASSUME NEW p, NEW s \in PumpStates, NEW hold \in Phases, NEW go \in Phases
    PROVE  /\ WhilePaused(p, s, hold, go) \in PumpStates
           /\ WhilePaused(p, s, hold, go).pending = s.pending
           /\ WhilePaused(p, s, hold, go).phase = IF paused /\ current = p THEN hold ELSE go
BY DEF WhilePaused, PumpStates

LEMMA EmptyQueue == Target \in Nat /\ 0 \in 0..(Target + 2) /\ 0 \in 0..3
BY PumpAssumption

LEMMA InitInv == Init => Inv
<1> SUFFICES ASSUME Init PROVE Inv
  OBVIOUS
<1>1. Idle \in PumpStates /\ Idle.phase = "idle"
  BY PumpAssumption DEF Idle, PumpStates, Phases
<1>2. \A p \in Pumps : pump[p].phase = "idle" /\ current # p /\ stream # p
  BY <1>1, PumpAssumption DEF Init
<1>3. TypeOK
  BY <1>1, EmptyQueue DEF Init, TypeOK
<1>4. FrameReady /\ QueueRoom /\ NobodyForgotten /\ StreamOwned
  BY <1>2 DEF FrameReady, QueueRoom, NobodyForgotten, StreamOwned, Held, Running
<1> QED
  BY <1>3, <1>4 DEF Inv

\* The commands of the player.
LEMMA CommandInv ==
    ASSUME Inv, Command
    PROVE  Inv'
<1> USE PumpAssumption
<1>1. TypeOK /\ FrameReady /\ QueueRoom /\ NobodyForgotten /\ StreamOwned
  BY DEF Inv
<1>2. Flushed(pump) \in [Pumps -> PumpStates]
  BY <1>1, FlushedPumps DEF Flushed
<1>3. CASE StopAudio
  <2>1. TypeOK'
    BY <1>1, <1>2, <1>3, EmptyQueue DEF TypeOK, StopAudio
  <2>2. FrameReady' /\ NobodyForgotten'
    BY <1>1, <1>3, FlushedPumps DEF FrameReady, NobodyForgotten, StopAudio, Held
  <2>4. QueueRoom'
    BY <1>3 DEF QueueRoom, StopAudio
  <2>3. StreamOwned'
    BY <1>3 DEF StopAudio, StreamOwned
  <2> QED
    BY <2>1, <2>2, <2>3, <2>4 DEF Inv
<1>4. ASSUME NEW p \in Pumps, SendAudio(p)
      PROVE  Inv'
  <2>1. pump' = [Flushed(pump) EXCEPT ![p].phase = "chunk"]
    BY <1>4 DEF SendAudio
  <2>2. pump'[p] \in PumpStates /\ pump'[p].phase = "chunk"
    BY <1>2, <2>1 DEF PumpStates, Phases
  <2>3. \A q \in Pumps \ {p} : pump'[q] = Flushed(pump)[q]
    BY <1>2, <2>1
  <2>4. pump' \in [Pumps -> PumpStates]
    BY <1>2, <2>1, <2>2, <2>3
  <2>5. TypeOK'
    BY <1>1, <1>4, <2>4, EmptyQueue DEF TypeOK, SendAudio
  <2>6. FrameReady' /\ NobodyForgotten'
    BY <1>1, <2>2, <2>3, FlushedPumps DEF FrameReady, NobodyForgotten, Held
  <2>8. QueueRoom'
    BY <1>4 DEF QueueRoom, SendAudio
  <2>7. StreamOwned'
    BY <1>1, <1>4, <2>2 DEF SendAudio, StreamOwned, Running
  <2> QED
    BY <2>5, <2>6, <2>7, <2>8 DEF Inv
<1>5. CASE PauseAudio
  BY <1>1, <1>5
     DEF PauseAudio, Inv, TypeOK, FrameReady, QueueRoom, NobodyForgotten, StreamOwned, Held, Running
<1>6. CASE ResumeAudio
  <2>1. TypeOK'
    BY <1>1, <1>2, <1>6 DEF TypeOK, ResumeAudio
  <2>2. FrameReady' /\ QueueRoom' /\ NobodyForgotten' /\ StreamOwned'
    BY <1>1, <1>6, FlushedPumps
       DEF FrameReady, QueueRoom, NobodyForgotten, StreamOwned, ResumeAudio, Held, Running
  <2> QED
    BY <2>1, <2>2 DEF Inv
<1> QED
  BY <1>3, <1>4, <1>5, <1>6 DEF Command

-----------------------------------------------------------------------------
\* A step that takes one running pump to another running state, sets nothing
\* else than the queue, and lets the pump sleep or cut only as it may.
LEMMA PumpMoves ==
    ASSUME Inv, NEW p \in Pumps, Running(p), NEW s \in PumpStates,
           s.phase # "idle",
           s.phase \in {"held1", "held2"} => paused /\ current = p,
           s.phase \in {"held2", "frame"} => s.pending >= FrameUnits,
           pump' = [pump EXCEPT ![p] = s], UNCHANGED <<current, stream, paused>>,
           queued' \in 0..(Target + 2), overrun' \in 0..3, QueueRoom'
    PROVE  Inv'
<1>1. TypeOK /\ FrameReady /\ NobodyForgotten /\ StreamOwned
  BY DEF Inv
<1>2. TypeOK'
  BY <1>1 DEF TypeOK
<1>3. FrameReady' /\ NobodyForgotten' /\ StreamOwned'
  BY <1>1 DEF TypeOK, FrameReady, NobodyForgotten, StreamOwned, Held, Running
<1> QED
  BY <1>2, <1>3 DEF Inv

\* A step that leaves the queue alone keeps its room when the pump goes on.
LEMMA QueueKept ==
    ASSUME Inv, NEW p \in Pumps, Running(p), pump[p].phase # "padded", NEW s \in PumpStates,
           pump' = [pump EXCEPT ![p] = s], UNCHANGED <<current, queued>>
    PROVE  QueueRoom'
BY DEF Inv, TypeOK, QueueRoom, Running

\* A pump that returns gives up the stream if it holds the token.
LEMMA PumpFinishes ==
    ASSUME Inv, NEW p \in Pumps, Finish(p), UNCHANGED <<current, paused, queued, overrun>>
    PROVE  Inv'
<1>1. TypeOK /\ FrameReady /\ QueueRoom /\ NobodyForgotten /\ StreamOwned
  BY DEF Inv
<1>2. Idle \in PumpStates /\ Idle.phase = "idle"
  BY PumpAssumption DEF Idle, PumpStates, Phases
<1>3. pump' \in [Pumps -> PumpStates] /\ pump'[p].phase = "idle"
  BY <1>1, <1>2 DEF Finish, TypeOK
<1>4. \A q \in Pumps \ {p} : pump'[q] = pump[q]
  BY <1>1 DEF Finish, TypeOK
<1>5. TypeOK'
  BY <1>1, <1>3 DEF Finish, TypeOK
<1>6. FrameReady' /\ NobodyForgotten' /\ QueueRoom'
  BY <1>1, <1>3, <1>4 DEF FrameReady, QueueRoom, NobodyForgotten, Held
<1>7. StreamOwned'
  BY <1>1, <1>3, <1>4, PumpAssumption DEF Finish, StreamOwned, Running
<1> QED
  BY <1>5, <1>6, <1>7 DEF Inv

\* The head of the inner loop sleeps only when it may, with a frame pending.
LEMMA LoopHeadState ==
    ASSUME NEW p \in Pumps, NEW s \in PumpStates
    PROVE  /\ LoopHead(p, s) \in PumpStates
           /\ LoopHead(p, s).phase \in {"held2", "frame", "chunk"}
           /\ LoopHead(p, s).phase = "held2" => paused /\ current = p
           /\ LoopHead(p, s).phase \in {"held2", "frame"} => LoopHead(p, s).pending >= FrameUnits
<1>1. "held2" \in Phases /\ "frame" \in Phases
  BY DEF Phases
<1>2. CASE s.pending >= FrameUnits /\ current = p
  BY <1>1, <1>2, WaitingPump DEF LoopHead
<1>3. CASE ~(s.pending >= FrameUnits /\ current = p)
  <2>1. LoopHead(p, s) = [s EXCEPT !.phase = "chunk"]
    BY <1>3 DEF LoopHead
  <2> QED
    BY <2>1 DEF PumpStates, Phases
<1> QED
  BY <1>2, <1>3

LEMMA ChunkInv ==
    ASSUME Inv, NEW p \in Pumps, NEW n \in ChunkSizes, Chunk(p, n)
    PROVE  Inv'
<1>1. pump[p] \in PumpStates /\ Running(p) /\ pump[p].phase = "chunk"
  BY DEF Inv, TypeOK, Chunk, Running
<1>2. queued \in 0..(Target + 2) /\ overrun \in 0..3
  BY DEF Inv, TypeOK
<1>3. CASE current # p
  BY <1>3, PumpFinishes DEF Chunk
<1>4. CASE current = p
  <2> DEFINE t == [pump[p] EXCEPT !.chunk = n, !.fed = @ + n]
             s == WhilePaused(p, t, "held1", "taken")
  <2>1. t \in PumpStates
    <3>1. pump[p].fed + n \in 0..StreamUnits
      BY <1>1, PumpAssumption DEF PumpStates, Chunk
    <3> QED
      BY <1>1, <3>1 DEF PumpStates
  <2>2. s \in PumpStates /\ s.phase = IF paused /\ current = p THEN "held1" ELSE "taken"
    <3>1. "held1" \in Phases /\ "taken" \in Phases
      BY DEF Phases
    <3> HIDE DEF t
    <3> QED
      BY <2>1, <3>1, WaitingPump
  <2>3. pump' = [pump EXCEPT ![p] = s] /\ UNCHANGED <<current, stream, paused, queued, overrun>>
    BY <1>4 DEF Chunk
  <2> HIDE DEF s, t
  <2>4. QueueRoom'
    BY <1>1, <2>2, <2>3, QueueKept
  <2> QED
    BY <1>1, <1>2, <1>4, <2>2, <2>3, <2>4, PumpMoves
<1> QED
  BY <1>3, <1>4

LEMMA TakenInv ==
    ASSUME Inv, NEW p \in Pumps, Taken(p)
    PROVE  Inv'
<1>1. pump[p] \in PumpStates /\ Running(p) /\ pump[p].phase = "taken"
  BY DEF Inv, TypeOK, Taken, Running
<1>2. queued \in 0..(Target + 2) /\ overrun \in 0..3
  BY DEF Inv, TypeOK
<1>3. CASE current # p
  BY <1>3, PumpFinishes DEF Taken
<1>4. CASE current = p /\ pump[p].chunk = 0
  <2> DEFINE s == [pump[p] EXCEPT !.phase = "chunk"]
  <2>1. s \in PumpStates /\ s.phase = "chunk"
    BY <1>1 DEF PumpStates, Phases
  <2>2. pump' = [pump EXCEPT ![p] = s] /\ UNCHANGED <<current, stream, paused, queued, overrun>>
    BY <1>1, <1>4 DEF Taken, Inv, TypeOK
  <2> HIDE DEF s
  <2>3. QueueRoom'
    BY <1>1, <2>1, <2>2, QueueKept
  <2> QED
    BY <1>1, <1>2, <2>1, <2>2, <2>3, PumpMoves
<1>5. CASE current = p /\ pump[p].chunk # 0
  <2> DEFINE kept == pump[p].pending + pump[p].chunk
             full == kept >= Target * FrameUnits \/ queued >= Target
             t == [pump[p] EXCEPT !.pending = kept, !.chunk = 0, !.inputPaused = @ \/ full]
             s == LoopHead(p, t)
  <2>1. t \in PumpStates
    <3>1. kept \in Nat
      <4>1. ChunkSizes \cup {0} \subseteq Nat
        BY PumpAssumption
      <4>2. pump[p].pending \in Nat /\ pump[p].chunk \in Nat
        BY <1>1, <4>1 DEF PumpStates
      <4> QED
        BY <4>2
    <3>2. (pump[p].inputPaused \/ full) \in BOOLEAN
      OBVIOUS
    <3> HIDE DEF kept, full
    <3> QED
      BY <1>1, <3>1, <3>2 DEF PumpStates
  <2>2. pump' = [pump EXCEPT ![p] = s] /\ UNCHANGED <<current, stream, paused, queued, overrun>>
    BY <1>5 DEF Taken
  <2> HIDE DEF t
  <2>3. /\ s \in PumpStates /\ s.phase \in {"held2", "frame", "chunk"}
        /\ s.phase = "held2" => paused /\ current = p
        /\ s.phase \in {"held2", "frame"} => s.pending >= FrameUnits
    BY <2>1, LoopHeadState
  <2> HIDE DEF s
  <2>4. QueueRoom'
    BY <1>1, <2>2, <2>3, QueueKept
  <2> QED
    BY <1>1, <1>2, <2>2, <2>3, <2>4, PumpMoves
<1> QED
  BY <1>3, <1>4, <1>5

\* captureFrame with the pump in state s puts one frame into the queue.
LEMMA CaptureInv ==
    ASSUME Inv, NEW p \in Pumps, Running(p), current = p,
           NEW s \in PumpStates, NEW next \in {"captured", "padded"},
           queued <= Target \/ (next = "padded" /\ queued <= Target + 1),
           Capture(p, s, next), UNCHANGED <<current, stream, paused>>
    PROVE  Inv'
<1> DEFINE t == [s EXCEPT !.phase = next, !.out = s.out + 1]
<1>1. t \in PumpStates /\ t.phase = next
  <2>1. next \in Phases /\ s.out + 1 \in Nat
    BY DEF PumpStates, Phases
  <2> QED
    BY <2>1 DEF PumpStates
<1>2. pump' = [pump EXCEPT ![p] = t]
  BY DEF Capture
<1> HIDE DEF t
<1>3. queued \in 0..(Target + 2) /\ overrun \in 0..3 /\ pump \in [Pumps -> PumpStates]
  BY DEF Inv, TypeOK
<1>4. queued' = queued + 1 /\ Target \in Nat
  BY PumpAssumption DEF Capture
<1>5. queued' \in 0..(Target + 2) /\ (next # "padded" => queued' <= Target + 1)
  BY <1>3, <1>4
<1>6. overrun' \in 0..3
  <2>1. CASE paused /\ overrun < 3
    BY <1>3, <2>1 DEF Capture
  <2>2. CASE ~(paused /\ overrun < 3)
    BY <1>3, <2>2 DEF Capture
  <2> QED
    BY <2>1, <2>2
<1>7. QueueRoom'
  BY <1>1, <1>2, <1>3, <1>5 DEF QueueRoom
<1> QED
  BY <1>1, <1>2, <1>5, <1>6, <1>7, PumpMoves

LEMMA FrameInv ==
    ASSUME Inv, NEW p \in Pumps, Frame(p)
    PROVE  Inv'
<1> DEFINE cut == [pump[p] EXCEPT !.pending = @ - FrameUnits]
<1>1. pump[p] \in PumpStates /\ Running(p) /\ pump[p].phase = "frame"
  BY DEF Inv, TypeOK, Frame, Running
<1>2. queued \in 0..(Target + 2) /\ overrun \in 0..3
  BY DEF Inv, TypeOK
<1>3. cut \in PumpStates
  <2>1. pump[p].pending \in Nat /\ pump[p].pending >= FrameUnits
    BY <1>1 DEF Inv, FrameReady, PumpStates
  <2>2. pump[p].pending - FrameUnits \in Nat
    BY <2>1, PumpAssumption
  <2> QED
    BY <1>1, <2>2 DEF PumpStates
<1>4. CASE current # p
  <2> DEFINE s == [pump[p] EXCEPT !.phase = "chunk"]
  <2>1. s \in PumpStates /\ s.phase = "chunk"
    BY <1>1 DEF PumpStates, Phases
  <2>2. pump' = [pump EXCEPT ![p] = s] /\ UNCHANGED <<current, stream, paused, queued, overrun>>
    BY <1>4, <1>1 DEF Frame, Inv, TypeOK
  <2> HIDE DEF s
  <2>3. QueueRoom'
    BY <1>1, <2>1, <2>2, QueueKept
  <2> QED
    BY <1>1, <1>2, <2>1, <2>2, <2>3, PumpMoves
<1>5. CASE current = p /\ queued > Target
  <2> DEFINE s == [cut EXCEPT !.phase = "playout"]
  <2>1. s \in PumpStates /\ s.phase = "playout"
    BY <1>3 DEF PumpStates, Phases
  <2>2. pump' = [pump EXCEPT ![p] = s] /\ UNCHANGED <<current, stream, paused, queued, overrun>>
    BY <1>2, <1>5, PumpAssumption DEF Frame
  <2> HIDE DEF s
  <2>3. QueueRoom'
    BY <1>1, <2>1, <2>2, QueueKept
  <2> QED
    BY <1>1, <1>2, <2>1, <2>2, <2>3, PumpMoves
<1>6. CASE current = p /\ ~(queued > Target)
  <2>1. Capture(p, cut, "captured") /\ UNCHANGED <<current, stream, paused>>
    BY <1>6 DEF Frame
  <2>2. queued <= Target
    BY <1>2, <1>6, PumpAssumption
  <2> HIDE DEF cut
  <2> QED
    BY <1>1, <1>3, <1>6, <2>1, <2>2, CaptureInv
<1> QED
  BY <1>4, <1>5, <1>6

LEMMA PlayedOutInv ==
    ASSUME Inv, NEW p \in Pumps, PlayedOut(p)
    PROVE  Inv'
<1>1. pump[p] \in PumpStates /\ Running(p)
  BY DEF Inv, TypeOK, PlayedOut, Running
<1>2. CASE current = p
  <2>1. queued = 0 /\ Capture(p, pump[p], "captured") /\ UNCHANGED <<current, stream, paused>>
    BY <1>2 DEF PlayedOut
  <2>2. queued <= Target
    BY <2>1, PumpAssumption
  <2> QED
    BY <1>1, <1>2, <2>1, <2>2, CaptureInv
<1>3. CASE current # p
  BY <1>3, PumpFinishes DEF PlayedOut
<1> QED
  BY <1>2, <1>3

LEMMA CapturedInv ==
    ASSUME Inv, NEW p \in Pumps, Captured(p)
    PROVE  Inv'
<1>1. pump[p] \in PumpStates /\ Running(p) /\ pump[p].phase = "captured"
  BY DEF Inv, TypeOK, Captured, Running
<1>2. queued \in 0..(Target + 2) /\ overrun \in 0..3
  BY DEF Inv, TypeOK
<1>3. CASE current # p
  BY <1>3, PumpFinishes DEF Captured
<1>4. CASE current = p
  <2> DEFINE little == pump[p].pending <= Target * FrameUnits /\ queued <= Target
             t == [pump[p] EXCEPT !.inputPaused = @ /\ ~little]
             s == LoopHead(p, t)
  <2>1. t \in PumpStates
    <3>1. (pump[p].inputPaused /\ ~little) \in BOOLEAN
      OBVIOUS
    <3> HIDE DEF little
    <3> QED
      BY <1>1, <3>1 DEF PumpStates
  <2>2. pump' = [pump EXCEPT ![p] = s] /\ UNCHANGED <<current, stream, paused, queued, overrun>>
    BY <1>4 DEF Captured
  <2> HIDE DEF t
  <2>3. /\ s \in PumpStates /\ s.phase \in {"held2", "frame", "chunk"}
        /\ s.phase = "held2" => paused /\ current = p
        /\ s.phase \in {"held2", "frame"} => s.pending >= FrameUnits
    BY <2>1, LoopHeadState
  <2> HIDE DEF s
  <2>4. QueueRoom'
    BY <1>1, <2>2, <2>3, QueueKept
  <2> QED
    BY <1>1, <1>2, <2>2, <2>3, <2>4, PumpMoves
<1> QED
  BY <1>3, <1>4

LEMMA EndOfStreamInv ==
    ASSUME Inv, NEW p \in Pumps, EndOfStream(p)
    PROVE  Inv'
<1>1. pump[p] \in PumpStates /\ Running(p) /\ pump[p].phase = "chunk"
  BY DEF Inv, TypeOK, EndOfStream, Running
<1>2. CASE pump[p].pending > 0 /\ current = p
  <2> DEFINE s == [pump[p] EXCEPT !.pending = 0]
  <2>1. s \in PumpStates
    BY <1>1 DEF PumpStates
  <2>2. Capture(p, s, "padded") /\ UNCHANGED <<current, stream, paused>>
    BY <1>2 DEF EndOfStream
  <2>3. queued <= Target + 1
    BY <1>1, <1>2 DEF Inv, QueueRoom
  <2> HIDE DEF s
  <2> QED
    BY <1>1, <1>2, <2>1, <2>2, <2>3, CaptureInv
<1>3. CASE ~(pump[p].pending > 0 /\ current = p)
  BY <1>3, PumpFinishes DEF EndOfStream
<1> QED
  BY <1>2, <1>3

LEMMA NextInv == Inv /\ [Next]_vars => Inv'
<1> SUFFICES ASSUME Inv, [Next]_vars PROVE Inv'
  OBVIOUS
<1>1. CASE Command
  BY <1>1, CommandInv
<1>2. CASE Playout
  <2>1. queued' \in 0..(Target + 2) /\ queued' <= queued
    BY <1>2, PumpAssumption DEF Playout, Inv, TypeOK
  <2>2. UNCHANGED <<current, stream, paused, pump, overrun>>
    BY <1>2 DEF Playout
  <2>3. TypeOK' /\ QueueRoom'
    BY <2>1, <2>2, PumpAssumption DEF Inv, TypeOK, QueueRoom
  <2>4. FrameReady' /\ NobodyForgotten' /\ StreamOwned'
    BY <2>2 DEF Inv, FrameReady, NobodyForgotten, StreamOwned, Held, Running
  <2> QED
    BY <2>3, <2>4 DEF Inv
<1>3. ASSUME NEW p \in Pumps, Step(p)
      PROVE  Inv'
  <2>1. CASE Padded(p)
    BY <2>1, PumpFinishes DEF Padded
  <2> QED
    BY <1>3, <2>1, ChunkInv, TakenInv, FrameInv, PlayedOutInv, CapturedInv, EndOfStreamInv DEF Step
<1>4. ASSUME NEW p \in Pumps, PumpFails(p)
      PROVE  Inv'
  BY <1>4, PumpFinishes DEF PumpFails
<1>5. CASE UNCHANGED vars
  BY <1>5 DEF vars, Inv, TypeOK, FrameReady, QueueRoom, NobodyForgotten, StreamOwned, Held, Running
<1> QED
  BY <1>1, <1>2, <1>3, <1>4, <1>5 DEF Next

-----------------------------------------------------------------------------
(* The theorems.                                                           *)

LEMMA SpecInv == Spec => []Inv
<1> QED
  BY InitInv, NextInv, PTL DEF Spec

\* The types of the state of sendAudio, pauseAudio and _pumpPcmStream: among
\* them that the source never queues more than one frame over its limit but for
\* the padded end of a stream.
THEOREM TypeCorrect == Spec => []TypeOK
<1>1. Inv => TypeOK
  BY DEF Inv
<1> QED
  BY <1>1, SpecInv, PTL

\* A pump only sleeps in pauseWaiters while playback is paused and it holds the
\* token: _flushPauseWaiters reaches every sleeper.
THEOREM NoLostWakeUp == Spec => []NobodyForgotten
<1>1. Inv => NobodyForgotten
  BY DEF Inv
<1> QED
  BY <1>1, SpecInv, PTL

\* currentAudioStream is the stream of the running pump that holds the token:
\* isStreaming is true exactly as long as such a pump runs.
THEOREM StreamIsOwned == Spec => []StreamOwned
<1>1. Inv => StreamOwned
  BY DEF Inv
<1> QED
  BY <1>1, SpecInv, PTL

\* A capture is a frame of the pump it is made for.
LEMMA CaptureHeard ==
    ASSUME Inv, NEW p \in Pumps, current = p, NEW s, s.out = pump[p].out, s \in PumpStates,
           NEW next, Capture(p, s, next)
    PROVE  current # None /\ pump'[current].out = pump[current].out + 1
<1>1. pump' = [pump EXCEPT ![p] = [s EXCEPT !.phase = next, !.out = s.out + 1]]
  BY DEF Capture
<1>2. pump'[p].out = s.out + 1
  BY <1>1 DEF Inv, TypeOK, PumpStates
<1> QED
  BY <1>2, PumpAssumption

\* Only the pump that holds the token adds a frame to the source's queue: a
\* replaced _pumpPcmStream is never heard again.
THEOREM OnlyCurrentHeard == Spec => OnlyCurrentIsHeard
<1> DEFINE Heard == queued' > queued => current # None /\ pump'[current].out = pump[current].out + 1
<1>1. ASSUME Inv, [Next]_vars
      PROVE  Heard
  <2> SUFFICES ASSUME queued' > queued
               PROVE  current # None /\ pump'[current].out = pump[current].out + 1
    OBVIOUS
  <2>1. queued \in Nat
    BY <1>1, PumpAssumption DEF Inv, TypeOK
  <2>2. PICK p \in Pumps : Frame(p) \/ PlayedOut(p) \/ EndOfStream(p)
    <3>1. ~Command
      BY <2>1 DEF Command, StopAudio, SendAudio, PauseAudio, ResumeAudio
    <3>2. ~Playout /\ ~UNCHANGED vars
      BY <2>1 DEF Playout, vars
    <3>3. PICK p \in Pumps : Step(p) \/ PumpFails(p)
      BY <1>1, <3>1, <3>2 DEF Next
    <3>4. queued' # queued
      BY <2>1
    <3>5. ~PumpFails(p) /\ ~Taken(p) /\ ~Captured(p) /\ ~Padded(p) /\ \A n \in ChunkSizes : ~Chunk(p, n)
      BY <3>4, Zenon DEF PumpFails, Taken, Captured, Padded, Chunk
    <3> QED
      BY <3>3, <3>5 DEF Step
  <2>3. pump[p] \in PumpStates
    BY <1>1 DEF Inv, TypeOK
  <2>4. CASE Frame(p)
    <3> DEFINE cut == [pump[p] EXCEPT !.pending = @ - FrameUnits]
    <3>1. current = p /\ Capture(p, cut, "captured")
      BY <2>1, <2>4 DEF Frame
    <3>2. pump[p].pending - FrameUnits \in Nat
      <4>1. pump[p].pending \in Nat /\ pump[p].pending >= FrameUnits
        BY <1>1, <2>3, <2>4 DEF Inv, FrameReady, PumpStates, Frame
      <4> QED
        BY <4>1, PumpAssumption
    <3>3. cut \in PumpStates /\ cut.out = pump[p].out
      BY <2>3, <3>2 DEF PumpStates
    <3> HIDE DEF cut
    <3> QED
      BY <1>1, <3>1, <3>3, CaptureHeard
  <2>5. CASE PlayedOut(p)
    <3>1. current = p /\ Capture(p, pump[p], "captured")
      BY <2>1, <2>5 DEF PlayedOut
    <3> QED
      BY <1>1, <2>3, <3>1, CaptureHeard
  <2>6. CASE EndOfStream(p)
    <3> DEFINE rest == [pump[p] EXCEPT !.pending = 0]
    <3>1. current = p /\ Capture(p, rest, "padded")
      BY <2>1, <2>6 DEF EndOfStream
    <3>2. rest \in PumpStates /\ rest.out = pump[p].out
      BY <2>3 DEF PumpStates
    <3> HIDE DEF rest
    <3> QED
      BY <1>1, <3>1, <3>2, CaptureHeard
  <2> QED
    BY <2>2, <2>4, <2>5, <2>6
<1>2. Inv /\ [Next]_vars => [Heard]_vars
  BY <1>1
<1> QED
  BY <1>2, SpecInv, PTL DEF Spec, OnlyCurrentIsHeard

\* Both together: the pump that holds the token streams, and no other sleeps.
THEOREM PumpIsSound == Spec => []PumpSound
<1>1. NobodyForgotten /\ StreamOwned => PumpSound
  BY DEF PumpSound
<1> QED
  BY <1>1, NoLostWakeUp, StreamIsOwned, PTL

-----------------------------------------------------------------------------
(***************************************************************************)
(* DeezerStream, for a file, stripe, buffer and pieces of any size and any *)
(* number of broken connections.  What was pushed, what the transform      *)
(* keeps and what the reader has buffered are consecutive parts of the     *)
(* file that end where the reader is (BytesInOrder), and the server is     *)
(* there too while bytes arrive (ReaderInPlace).                           *)
(***************************************************************************)

\* Whole stripes and a rest, of bytes.
LEMMA Division ==
    ASSUME NEW n \in Nat
    PROVE  /\ n \div Stripe \in Nat /\ n % Stripe \in 0..(Stripe - 1)
           /\ n = (n \div Stripe) * Stripe + (n % Stripe)
BY StreamAssumption

\* The stripe of a byte, counted from the first of a stripe.
LEMMA Quotient ==
    ASSUME NEW q \in Nat, NEW r \in 0..(Stripe - 1)
    PROVE  (q * Stripe + r) \div Stripe = q
BY StreamAssumption

LEMMA QuotientShift ==
    ASSUME NEW b \in Nat, NEW n \in Nat
    PROVE  (b * Stripe + n) \div Stripe = b + n \div Stripe
BY StreamAssumption

\* Stripes that fit into n bytes are whole stripes of them.
LEMMA WholeStripes ==
    ASSUME NEW b \in Nat, NEW n \in Nat, b * Stripe <= n
    PROVE  b * Stripe <= (n \div Stripe) * Stripe
BY StreamAssumption

\* The types of what the stream keeps.
StreamTypes ==
    /\ raw \in RawStates /\ offset \in 0..FileSize /\ server \in Nat /\ block \in Nat
    /\ buffer \in Seq(Nat) /\ pending \in Seq(Nat) /\ out \in Seq(Nat \X BOOLEAN)

\* The reader will write nothing more, and nothing of it is left to pass.
Given == {"failed", "closed", "whole"}

\* While bytes arrive they are those the reader is waiting for; a body only
\* ends at the end of the file.
ReaderInPlace ==
    /\ raw \in {"reads", "full"} => server = offset
    /\ raw \in {"ended", "whole"} => offset = FileSize
    /\ raw \in Given => buffer = <<>>

\* out, pending and buffer are consecutive bytes of the file, whole stripes in
\* out and less than one in pending, and none is missing up to the reader.
BytesInOrder ==
    /\ raw # "whole" => Len(out) = block * Stripe /\ Len(pending) < Stripe
    /\ Len(out) <= offset
    /\ raw \notin Given => Len(out) + Len(pending) + Len(buffer) = offset
    /\ \A i \in DOMAIN pending : pending[i] = Len(out) + i
    /\ \A i \in DOMAIN buffer : buffer[i] = Len(out) + Len(pending) + i

StreamInv == StreamTypes /\ ReaderInPlace /\ BytesInOrder /\ StreamIsWhole

\* Facts about sequences: a joined pair, the rest after n, a listed function.
LEMMA Joined ==
    ASSUME NEW T, NEW s \in Seq(T), NEW t \in Seq(T)
    PROVE  /\ s \o t \in Seq(T) /\ Len(s \o t) = Len(s) + Len(t)
           /\ \A i \in 1..Len(s) : (s \o t)[i] = s[i]
           /\ \A i \in 1..Len(t) : (s \o t)[Len(s) + i] = t[i]
OBVIOUS

LEMMA JoinedBytes ==
    ASSUME NEW s \in Seq(Nat), NEW t \in Seq(Nat)
    PROVE  /\ s \o t \in Seq(Nat) /\ Len(s \o t) = Len(s) + Len(t)
           /\ \A i \in 1..Len(s) : (s \o t)[i] = s[i]
           /\ \A i \in 1..Len(t) : (s \o t)[Len(s) + i] = t[i]
BY Joined

LEMMA JoinedPushes ==
    ASSUME NEW s \in Seq(Nat \X BOOLEAN), NEW t \in Seq(Nat \X BOOLEAN)
    PROVE  /\ s \o t \in Seq(Nat \X BOOLEAN) /\ Len(s \o t) = Len(s) + Len(t)
           /\ \A i \in 1..Len(s) : (s \o t)[i] = s[i]
           /\ \A i \in 1..Len(t) : (s \o t)[Len(s) + i] = t[i]
BY Joined

LEMMA Rest ==
    ASSUME NEW T, NEW s \in Seq(T), NEW n \in Nat, n <= Len(s)
    PROVE  /\ SubSeq(s, n + 1, Len(s)) \in Seq(T) /\ Len(SubSeq(s, n + 1, Len(s))) = Len(s) - n
           /\ \A i \in 1..(Len(s) - n) : SubSeq(s, n + 1, Len(s))[i] = s[n + i]
OBVIOUS

LEMMA Listed ==
    ASSUME NEW n \in Nat, NEW T, NEW f \in [1..n -> T]
    PROVE  f \in Seq(T) /\ Len(f) = n
OBVIOUS

\* The n bytes after byte a.
LEMMA BytesFrom ==
    ASSUME NEW a \in Nat, NEW n \in Nat
    PROVE  /\ Bytes(a + 1, a + n) \in Seq(Nat)
           /\ Len(Bytes(a + 1, a + n)) = n
           /\ \A i \in 1..n : Bytes(a + 1, a + n)[i] = a + i
<1> DEFINE k == IF a + n < a + 1 THEN 0 ELSE a + n - (a + 1) + 1
<1>1. k = n
  OBVIOUS
<1>2. Bytes(a + 1, a + n) = [i \in 1..n |-> a + 1 + i - 1]
  BY <1>1 DEF Bytes
<1>3. \A i \in 1..n : a + 1 + i - 1 = a + i /\ a + i \in Nat
  OBVIOUS
<1> QED
  BY <1>2, <1>3

\* The stream begins with nothing read, kept or pushed.
LEMMA StreamInitInv == StreamInit => StreamInv
BY StreamAssumption DEF StreamInit, StreamInv, StreamTypes, ReaderInPlace, BytesInOrder, StreamIsWhole, RawStates, Given

\* What the steps that move no byte have in common.
LEMMA Unmoved ==
    ASSUME StreamInv, raw' \in RawStates \ {"whole"}, raw \notin Given,
           UNCHANGED <<offset, block, out, pending>>,
           \/ UNCHANGED buffer /\ raw' \notin Given
           \/ buffer' = <<>> /\ raw' \in Given,
           server' \in Nat,
           raw' \in {"reads", "full"} => server' = offset,
           raw' = "ended" => offset = FileSize
    PROVE  StreamInv'
<1>1. StreamTypes'
  <2>1. CASE buffer' = <<>>
    BY <2>1 DEF StreamInv, StreamTypes
  <2>2. CASE buffer' = buffer
    BY <2>2 DEF StreamInv, StreamTypes
  <2> QED
    BY <2>1, <2>2 DEF StreamInv, StreamTypes
<1>2. ReaderInPlace'
  BY DEF ReaderInPlace, Given
<1>3. BytesInOrder'
  <2>1. CASE UNCHANGED buffer /\ raw' \notin Given
    BY <2>1 DEF BytesInOrder, StreamInv, Given
  <2>2. CASE buffer' = <<>> /\ raw' \in Given
    BY <2>2 DEF BytesInOrder, StreamInv, Given
  <2> QED
    BY <2>1, <2>2
<1>4. StreamIsWhole'
  BY DEF StreamIsWhole, StreamInv
<1> QED
  BY <1>1, <1>2, <1>3, <1>4 DEF StreamInv

\* An answer that is taken begins where the reader is (Honoured).
LEMMA ConnectInv == StreamInv /\ Connect => StreamInv'
<1> SUFFICES ASSUME StreamInv, Connect PROVE StreamInv'
  OBVIOUS
<1>1. raw = "connects" /\ UNCHANGED <<offset, pending, block, out>> /\ server \in Nat /\ offset \in Nat
  BY DEF Connect, StreamInv, StreamTypes
<1>2. CASE UNCHANGED server /\ (Fails \/ Retries(attempts))
  <2>1. \/ raw' = "failed" /\ buffer' = <<>>
        \/ raw' = "waits" /\ UNCHANGED buffer
    BY <1>2 DEF Fails, Retries
  <2> QED
    BY <1>1, <1>2, <2>1, Unmoved DEF Given, RawStates
<1>3. ASSUME NEW start \in {0, offset} \cup (IF offset > 1 THEN {offset - 1} ELSE {}),
             Honoured(IF start = 0 THEN 200 ELSE 206, start),
             raw' = "reads", server' = start, UNCHANGED buffer
      PROVE  StreamInv'
  <2>1. start = offset
    BY <1>1, <1>3 DEF Honoured
  <2> QED
    BY <1>1, <1>3, <2>1, Unmoved DEF Given, RawStates
<1> QED
  BY <1>2, <1>3 DEF Connect

\* What arrives follows what is buffered.
LEMMA ArrivesInv == \A n \in Pieces : StreamInv /\ Arrives(n) => StreamInv'
<1> SUFFICES ASSUME NEW n \in Pieces, StreamInv, Arrives(n) PROVE StreamInv'
  OBVIOUS
<1> DEFINE new == Bytes(server + 1, server + n)
<1>1. n \in Nat \ {0} /\ server \in Nat /\ server = offset /\ server + n <= FileSize /\ FileSize \in Nat
  BY StreamAssumption DEF StreamInv, StreamTypes, ReaderInPlace, Arrives
<1>2. new \in Seq(Nat) /\ Len(new) = n /\ \A i \in 1..n : new[i] = server + i
  BY <1>1, BytesFrom
<1>3. /\ buffer \in Seq(Nat) /\ pending \in Seq(Nat) /\ out \in Seq(Nat \X BOOLEAN)
      /\ Len(out) + Len(pending) + Len(buffer) = offset
      /\ raw = "reads" /\ raw' \in {"reads", "full"}
      /\ buffer' = buffer \o new /\ server' = offset' /\ offset' = offset + n
      /\ UNCHANGED <<pending, block, out>>
  BY <1>1 DEF StreamInv, StreamTypes, BytesInOrder, Arrives, Given
<1> HIDE DEF new
<1>a. /\ Len(out) \in Nat /\ Len(pending) \in Nat /\ Len(buffer) \in Nat
      /\ Len(out) + Len(pending) + Len(buffer) = server
  BY <1>1, <1>3
<1>4. /\ buffer' \in Seq(Nat) /\ Len(buffer') = Len(buffer) + n
      /\ \A i \in 1..Len(buffer) : buffer'[i] = buffer[i]
      /\ \A i \in 1..n : buffer'[Len(buffer) + i] = new[i]
  BY <1>2, <1>3, JoinedBytes
<1>5. ASSUME NEW i \in DOMAIN buffer' PROVE buffer'[i] = Len(out) + Len(pending) + i
  <2>1. CASE i <= Len(buffer)
    <3>1. buffer'[i] = buffer[i] /\ i \in DOMAIN buffer
      BY <1>3, <1>4, <1>5, <2>1
    <3> QED
      BY <3>1 DEF StreamInv, BytesInOrder
  <2>2. CASE i > Len(buffer)
    <3> DEFINE j == i - Len(buffer)
    <3>1. j \in 1..n /\ i = Len(buffer) + j /\ Len(buffer) \in Nat
      BY <1>1, <1>3, <1>4, <1>5, <2>2
    <3>2. buffer'[i] = server + j
      BY <1>2, <1>4, <3>1
    <3> HIDE DEF j
    <3>3. server + j = Len(out) + Len(pending) + i
      BY <1>a, <3>1
    <3> QED
      BY <3>2, <3>3
  <2> QED
    BY <1>4, <1>5, <2>1, <2>2
<1>6. StreamTypes'
  BY <1>1, <1>3, <1>4 DEF StreamInv, StreamTypes, RawStates
<1>7. BytesInOrder'
  <2>1. Len(out') = Len(out) /\ Len(pending') = Len(pending) /\ Len(buffer') = Len(buffer) + n /\ offset' = server + n
    BY <1>1, <1>3, <1>4
  <2>2. /\ Len(out') <= offset'
        /\ Len(out') + Len(pending') + Len(buffer') = offset'
    BY <1>1, <1>a, <2>1
  <2> QED
    BY <1>3, <1>5, <2>2 DEF StreamInv, BytesInOrder, Given
<1> QED
  BY <1>3, <1>6, <1>7 DEF StreamInv, ReaderInPlace, StreamIsWhole, Given

\* What is pushed lies in the stripes of the file, and is of one of them.
LEMMA PassesInv == \A n \in Pieces : StreamInv /\ Passes(n) => StreamInv'
<1> SUFFICES ASSUME NEW n \in Pieces, StreamInv, Passes(n) PROVE StreamInv'
  OBVIOUS
<1> DEFINE bytes == pending \o SubSeq(buffer, 1, n)
           whole == Len(bytes) \div Stripe
           some == whole * Stripe
<1>1. /\ n \in Nat \ {0} /\ n <= Len(buffer) /\ Stripe \in Nat \ {0} /\ FileSize \in Nat
      /\ buffer \in Seq(Nat) /\ pending \in Seq(Nat) /\ out \in Seq(Nat \X BOOLEAN)
      /\ block \in Nat /\ offset \in 0..FileSize
  BY StreamAssumption DEF StreamInv, StreamTypes, Passes
<1>2. raw \notin Given
  BY <1>1 DEF StreamInv, ReaderInPlace
<1>3. Len(out) = block * Stripe
  BY <1>2 DEF StreamInv, BytesInOrder, Given
<1>b. Len(pending) < Stripe /\ Len(out) + Len(pending) + Len(buffer) = offset
  BY <1>2 DEF StreamInv, BytesInOrder, Given
<1>4. bytes \in Seq(Nat) /\ Len(bytes) = Len(pending) + n
  BY <1>1
<1>5. ASSUME NEW i \in 1..Len(bytes) PROVE bytes[i] = Len(out) + i
  <2>1. CASE i <= Len(pending)
    <3>1. bytes[i] = pending[i] /\ i \in DOMAIN pending
      BY <1>1, <1>4, <2>1
    <3> QED
      BY <3>1 DEF StreamInv, BytesInOrder
  <2>2. CASE i > Len(pending)
    <3>1. i - Len(pending) \in 1..n
      BY <1>1, <1>4, <2>2
    <3>2. bytes[i] = buffer[i - Len(pending)] /\ i - Len(pending) \in DOMAIN buffer
      BY <1>1, <1>4, <2>2, <3>1
    <3> QED
      BY <1>1, <1>4, <3>1, <3>2 DEF StreamInv, BytesInOrder
  <2> QED
    BY <1>1, <1>4, <2>1, <2>2
<1>6. /\ out' = out \o Stripes(bytes)
      /\ block' = block + whole
      /\ pending' = SubSeq(bytes, some + 1, Len(bytes))
      /\ buffer' = SubSeq(buffer, n + 1, Len(buffer))
      /\ raw' = IF raw = "full" /\ buffer' = <<>> THEN "reads" ELSE raw
      /\ UNCHANGED <<offset, server>>
  BY DEF Passes
<1> HIDE DEF bytes
<1>7. whole \in Nat /\ some \in Nat /\ some <= Len(bytes) /\ Len(bytes) - some < Stripe
  <2>1. Len(bytes) \in Nat
    BY <1>4
  <2>2. whole \in Nat /\ Len(bytes) = whole * Stripe + (Len(bytes) % Stripe) /\ Len(bytes) % Stripe \in 0..(Stripe - 1)
    BY <2>1, Division
  <2>3. whole * Stripe \in Nat
    BY <1>1, <2>2
  <2> HIDE DEF bytes, whole
  <2> QED
    BY <1>1, <2>1, <2>2, <2>3
<1>8. Stripes(bytes) = [i \in 1..some |-> <<bytes[i], Clear(block + (i - 1) \div Stripe)>>]
  BY DEF Stripes
<1> HIDE DEF whole, some
<1>9. ASSUME NEW i \in 1..some
      PROVE  <<bytes[i], Clear(block + (i - 1) \div Stripe)>> \in Nat \X BOOLEAN
  <2>1. i \in 1..Len(bytes)
    BY <1>4, <1>7, <1>9
  <2> QED
    BY <1>4, <2>1, ElementOfSeq DEF Clear
<1>10. Stripes(bytes) \in Seq(Nat \X BOOLEAN) /\ Len(Stripes(bytes)) = some
  BY <1>7, <1>8, <1>9, Listed
<1>11. /\ out' \in Seq(Nat \X BOOLEAN) /\ Len(out') = Len(out) + some
       /\ \A i \in 1..Len(out) : out'[i] = out[i]
       /\ \A i \in 1..some : out'[Len(out) + i] = Stripes(bytes)[i]
  BY <1>1, <1>6, <1>10, JoinedPushes
<1>12. /\ pending' \in Seq(Nat) /\ Len(pending') = Len(bytes) - some
       /\ \A i \in 1..(Len(bytes) - some) : pending'[i] = bytes[some + i]
  BY <1>4, <1>6, <1>7, Rest
<1>13. /\ buffer' \in Seq(Nat) /\ Len(buffer') = Len(buffer) - n
       /\ \A i \in 1..(Len(buffer) - n) : buffer'[i] = buffer[n + i]
  BY <1>1, <1>6, Rest
<1>c. /\ Len(out) \in Nat /\ Len(pending) \in Nat /\ Len(buffer) \in Nat /\ Len(bytes) \in Nat
      /\ Len(out') \in Nat /\ Len(pending') \in Nat /\ Len(buffer') \in Nat
  BY <1>1, <1>4, <1>11, <1>12, <1>13
<1>d. /\ Len(bytes) = Len(pending) + n /\ some \in Nat /\ some <= Len(bytes) /\ Len(bytes) - some < Stripe
      /\ Len(out') = Len(out) + some /\ Len(pending') = Len(bytes) - some /\ Len(buffer') = Len(buffer) - n
  BY <1>4, <1>7, <1>11, <1>12, <1>13
<1>e. n \in Nat
  BY <1>1
<1>14. Len(out') = block' * Stripe
  <2>1. block * Stripe + some = (block + whole) * Stripe
    BY <1>1, <1>7 DEF some
  <2> QED
    BY <1>3, <1>6, <1>11, <2>1
<1>15. Len(out') + Len(pending') = Len(out) + Len(pending) + n
  BY <1>1, <1>c, <1>d
<1>16. raw' \in RawStates /\ raw' \notin Given
  BY <1>2, <1>6 DEF StreamInv, StreamTypes, RawStates, Given
<1>17. StreamTypes'
  <2>1. server' \in Nat /\ block' \in Nat /\ offset' \in 0..FileSize
    <3>1. server' = server /\ offset' = offset /\ block' = block + whole
      BY <1>6
    <3> QED
      BY <1>1, <1>7, <3>1 DEF StreamInv, StreamTypes
  <2> QED
    BY <1>11, <1>12, <1>13, <1>16, <2>1 DEF StreamTypes
<1>18. ReaderInPlace'
  BY <1>6, <1>16 DEF StreamInv, ReaderInPlace, Given
<1>19. BytesInOrder'
  <2>1. \A i \in DOMAIN pending' : pending'[i] = Len(out') + i
    <3> SUFFICES ASSUME NEW i \in 1..(Len(bytes) - some) PROVE pending'[i] = Len(out') + i
      BY <1>12
    <3>1. pending'[i] = bytes[some + i] /\ some + i \in 1..Len(bytes)
      BY <1>12, <1>c, <1>d
    <3>2. Len(out) + (some + i) = Len(out') + i
      BY <1>c, <1>d
    <3> QED
      BY <1>5, <3>1, <3>2
  <2>2. \A i \in DOMAIN buffer' : buffer'[i] = Len(out') + Len(pending') + i
    <3> SUFFICES ASSUME NEW i \in 1..(Len(buffer) - n) PROVE buffer'[i] = Len(out') + Len(pending') + i
      BY <1>13
    <3>1. buffer'[i] = buffer[n + i] /\ n + i \in DOMAIN buffer
      BY <1>1, <1>13, <1>c
    <3>2. buffer[n + i] = Len(out) + Len(pending) + (n + i)
      BY <3>1 DEF StreamInv, BytesInOrder
    <3>3. Len(out) + Len(pending) + (n + i) = Len(out') + Len(pending') + i
      BY <1>c, <1>d, <1>e
    <3> QED
      BY <3>1, <3>2, <3>3
  <2>3. Len(out') + Len(pending') + Len(buffer') = offset
    BY <1>b, <1>c, <1>d, <1>e
  <2>4. Len(out') <= offset' /\ Len(pending') < Stripe
    <3>1. offset' = offset /\ offset \in Nat
      BY <1>1, <1>6
    <3> QED
      BY <1>c, <1>d, <2>3, <3>1
  <2> QED
    BY <1>6, <1>14, <1>16, <2>1, <2>2, <2>3, <2>4 DEF BytesInOrder, Given
<1>20. StreamIsWhole'
  <2> SUFFICES ASSUME NEW i \in 1..(Len(out) + some)
               PROVE  out'[i] = <<i, i <= (FileSize \div Stripe) * Stripe /\ ((i - 1) \div Stripe) % 3 = 0>>
    BY <1>11, <1>16 DEF StreamIsWhole, Given
  <2>1. CASE i <= Len(out)
    <3>1. out'[i] = out[i] /\ i \in DOMAIN out
      BY <1>1, <1>11, <2>1
    <3> QED
      BY <3>1 DEF StreamInv, StreamIsWhole
  <2>2. CASE i > Len(out)
    <3> DEFINE j == i - Len(out)
    <3>1. j \in 1..some /\ j - 1 \in Nat /\ i = block * Stripe + j
      BY <1>1, <1>3, <1>c, <1>d, <2>2
    <3>2. out'[i] = <<bytes[j], Clear(block + (j - 1) \div Stripe)>>
      <4>1. out'[i] = Stripes(bytes)[j]
        BY <1>3, <1>11, <3>1
      <4> QED
        BY <1>8, <3>1, <4>1
    <3>3. bytes[j] = i
      <4>1. bytes[j] = Len(out) + j
        BY <1>5, <1>c, <1>d, <3>1
      <4> QED
        BY <1>3, <3>1, <4>1
    <3>4. (i - 1) \div Stripe = block + (j - 1) \div Stripe
      <4>1. i - 1 = block * Stripe + (j - 1)
        BY <1>1, <3>1
      <4> QED
        BY <1>1, <3>1, <4>1, QuotientShift
    <3>5. i <= (FileSize \div Stripe) * Stripe
      <4>1. i <= block' * Stripe /\ block' * Stripe <= FileSize /\ block' \in Nat
        BY <1>1, <1>6, <1>7, <1>11, <1>14, <1>19, <1>17 DEF BytesInOrder, StreamTypes
      <4>2. block' * Stripe <= (FileSize \div Stripe) * Stripe
        BY <1>1, <4>1, WholeStripes
      <4>3. (FileSize \div Stripe) * Stripe \in Nat /\ block' * Stripe \in Nat
        <5>1. FileSize \div Stripe \in Nat
          BY <1>1, Division
        <5>2. \A x \in Nat : x * Stripe \in Nat
          BY <1>1
        <5> QED
          BY <4>1, <5>1, <5>2
      <4> HIDE DEF some
      <4>4. \A x, y, z \in Nat : x <= y /\ y <= z => x <= z
        OBVIOUS
      <4> QED
        BY <4>1, <4>2, <4>3, <4>4
    <3> QED
      BY <3>2, <3>3, <3>4, <3>5 DEF Clear
  <2> QED
    BY <1>1, <1>7, <2>1, <2>2
<1> QED
  BY <1>17, <1>18, <1>19, <1>20 DEF StreamInv

\* The rest that is flushed is less than a stripe, and the end of the file.
LEMMA FlushInv == StreamInv /\ Flush => StreamInv'
<1> SUFFICES ASSUME StreamInv, Flush PROVE StreamInv'
  OBVIOUS
<1> DEFINE rest == [i \in 1..Len(pending) |-> <<pending[i], FALSE>>]
<1>1. /\ raw = "ended" /\ buffer = <<>> /\ out' = out \o rest /\ pending' = <<>> /\ raw' = "whole"
      /\ UNCHANGED <<offset, server, buffer, block>>
  BY DEF Flush
<1>2. /\ pending \in Seq(Nat) /\ out \in Seq(Nat \X BOOLEAN) /\ block \in Nat
      /\ Stripe \in Nat \ {0} /\ FileSize \in Nat
  BY StreamAssumption DEF StreamInv, StreamTypes
<1>3. Len(out) = block * Stripe /\ offset = FileSize
  BY <1>1 DEF StreamInv, BytesInOrder, ReaderInPlace
<1>a. Len(out) \in Nat /\ Len(pending) \in Nat
  BY <1>2
<1>b. Len(pending) < Stripe /\ Len(out) + Len(pending) = FileSize
  <2>1. Len(buffer) = 0 /\ Len(out) + Len(pending) + Len(buffer) = offset /\ Len(pending) < Stripe
    BY <1>1 DEF StreamInv, BytesInOrder, Given
  <2> QED
    BY <1>2, <1>3, <1>a, <2>1
<1>4. rest \in Seq(Nat \X BOOLEAN) /\ Len(rest) = Len(pending)
  <2>1. \A i \in 1..Len(pending) : pending[i] \in Nat
    BY <1>2, ElementOfSeq
  <2>2. rest \in [1..Len(pending) -> Nat \X BOOLEAN]
    BY <2>1
  <2> HIDE DEF rest
  <2> QED
    BY <1>a, <2>2, Listed
<1>5. /\ out' \in Seq(Nat \X BOOLEAN) /\ Len(out') = FileSize
      /\ \A i \in 1..Len(out) : out'[i] = out[i]
      /\ \A i \in 1..Len(pending) : out'[Len(out) + i] = rest[i]
  <2> HIDE DEF rest
  <2>1. Len(rest) = Len(pending) /\ rest \in Seq(Nat \X BOOLEAN) /\ out' = out \o rest
    BY <1>1, <1>4
  <2>2. /\ out' \in Seq(Nat \X BOOLEAN) /\ Len(out') = Len(out) + Len(rest)
        /\ \A i \in 1..Len(out) : out'[i] = out[i]
        /\ \A i \in 1..Len(rest) : out'[Len(out) + i] = rest[i]
    BY <1>2, <2>1, JoinedPushes
  <2> QED
    BY <1>a, <1>b, <2>1, <2>2
<1>6. StreamTypes'
  BY <1>1, <1>5 DEF StreamInv, StreamTypes, RawStates
<1>7. ReaderInPlace' /\ BytesInOrder'
  BY <1>1, <1>2, <1>3, <1>5 DEF ReaderInPlace, BytesInOrder, Given
<1>8. FileSize \div Stripe = block
  <2>1. FileSize = block * Stripe + Len(pending) /\ Len(pending) \in 0..(Stripe - 1)
    BY <1>2, <1>3, <1>a, <1>b
  <2> QED
    BY <1>2, <2>1, Quotient
<1>9. ASSUME NEW i \in 1..FileSize
      PROVE  out'[i] = <<i, i <= (FileSize \div Stripe) * Stripe /\ ((i - 1) \div Stripe) % 3 = 0>>
  <2>1. CASE i <= Len(out)
    <3>1. out'[i] = out[i] /\ i \in DOMAIN out
      BY <1>2, <1>5, <2>1
    <3> QED
      BY <3>1 DEF StreamInv, StreamIsWhole
  <2>2. CASE i > Len(out)
    <3>1. i - Len(out) \in 1..Len(pending)
      BY <1>2, <1>a, <1>b, <2>2
    <3>2. out'[i] = <<pending[i - Len(out)], FALSE>>
      <4>1. i = Len(out) + (i - Len(out))
        BY <1>2, <3>1
      <4>2. out'[Len(out) + (i - Len(out))] = rest[i - Len(out)]
        BY <1>5, <3>1
      <4> QED
        BY <3>1, <4>1, <4>2
    <3>3. pending[i - Len(out)] = i
      BY <1>2, <3>1 DEF StreamInv, BytesInOrder
    <3>4. ~(i <= (FileSize \div Stripe) * Stripe)
      <4>1. (FileSize \div Stripe) * Stripe = Len(out)
        BY <1>3, <1>8
      <4> QED
        BY <1>a, <2>2, <4>1
    <3> QED
      BY <3>2, <3>3, <3>4
  <2> QED
    BY <1>2, <2>1, <2>2
<1>10. StreamIsWhole'
  BY <1>5, <1>9 DEF StreamIsWhole
<1> QED
  BY <1>6, <1>7, <1>10 DEF StreamInv

\* A closed reader forgets what was not pushed.
LEMMA CloseInv == StreamInv /\ CloseStream => StreamInv'
<1> SUFFICES ASSUME StreamInv, CloseStream PROVE StreamInv'
  OBVIOUS
<1>1. /\ raw' = "closed" /\ buffer' = <<>> /\ pending' = <<>> /\ raw # "whole"
      /\ UNCHANGED <<offset, server, block, out>>
  BY DEF CloseStream
<1> QED
  BY <1>1, StreamAssumption
  DEF StreamInv, StreamTypes, ReaderInPlace, BytesInOrder, StreamIsWhole, RawStates, Given

\* Every step keeps the invariant.
LEMMA StreamStep == StreamInv /\ [StartPipeline \/ StreamNext]_streamVars => StreamInv'
<1> SUFFICES ASSUME StreamInv, [StartPipeline \/ StreamNext]_streamVars PROVE StreamInv'
  OBVIOUS
<1> USE DEF StreamInv
<1>1. CASE UNCHANGED <<raw, offset, server, buffer, pending, block, out>>
  BY <1>1 DEF StreamTypes, ReaderInPlace, BytesInOrder, StreamIsWhole
<1>2. CASE StartPipeline \/ BackoffEnds
  <2>1. server \in Nat
    BY DEF StreamTypes
  <2> QED
    BY <1>2, <2>1, Unmoved DEF StartPipeline, BackoffEnds, Given, RawStates
<1>3. CASE BodyEnds
  <2>1. server \in Nat /\ offset = FileSize
    BY <1>3 DEF StreamTypes, ReaderInPlace, BodyEnds
  <2> QED
    BY <1>3, <2>1, Unmoved DEF BodyEnds, Given, RawStates
<1>4. CASE BodyBreaks
  <2>1. /\ server \in Nat /\ raw = "reads" /\ UNCHANGED <<offset, server, pending, block, out>>
        /\ \/ raw' = "failed" /\ buffer' = <<>>
           \/ raw' = "waits" /\ UNCHANGED buffer
    BY <1>4 DEF StreamTypes, BodyBreaks, Retries, Fails
  <2> QED
    BY <2>1, Unmoved DEF Given, RawStates
<1>5. CASE Spawned \/ StartupTimeout \/ UNCHANGED streamVars
  BY <1>1, <1>5 DEF Spawned, StartupTimeout, streamVars
<1> QED
  BY <1>2, <1>3, <1>4, <1>5, ConnectInv, ArrivesInv, PassesInv, FlushInv, CloseInv
  DEF StreamNext, StreamProceeds

\* ffmpeg gets the bytes of the file from the first on, each once and in order
\* and decrypted exactly where they are encrypted, however often the download
\* broke off and whatever ranges the server answered with (the reader and the
\* transform of deezer.ts), and all of them if it is told the end.
THEOREM StreamWhole == StreamSpec => []StreamIsWhole
<1>1. StreamInv => StreamIsWhole
  BY DEF StreamInv
<1> QED
  BY <1>1, StreamInitInv, StreamStep, PTL DEF StreamSpec

-----------------------------------------------------------------------------
(***************************************************************************)
(* Lookups (TrackResolver), for any number of them, any collections, flags, *)
(* workers and rings of radio playlists.  Each row of the routes is checked *)
(* once (RouteRows): where it leads, which flags are then known to be set,  *)
(* and that a search ends with nothing only after YouTube was asked.  With  *)
(* what a lookup keeps along its way (Keeps, Ordered, Timely) the invariant *)
(* LookupInv is inductive; it is about each lookup alone, under the flags   *)
(* and the clock.                                                           *)
(***************************************************************************)

ArlPlaces == {"dz_url", "dz_media", "dz_url_again", "dz_media_again", "dz_legacy", "dz_entries"}
VideoPlaces == {"video_playdl", "list_second", "list_last", "list_entries", "second_entries"}
AlbumPlaces == {"amz_list", "amz_deezer", "amz_deezer_entries"}
Mirrors == {"mirror", "cross", "amz_mirror"}

\* The flags that are set whenever a lookup is at a place.
Carries(at) ==
    CASE at \in ArlPlaces -> {"arl", "deezer"}
      [] at \in VideoPlaces -> {"ytPlayback"}
      [] at = "text_playdl" -> YouTube
      [] at \in {"dz_track", "dz_list", "amz_deezer_entries"} -> {"deezer"}
      [] OTHER -> {}

\* The places of the queries that must not end before YouTube was asked.
SearchKinds == {"text", "playlist", "audius", "audiomack", "mixcloud", "jiosaavn",
                "amazon", "amazonList", "apple", "appleOther"}
SearchPlaces ==
    {"text", "text_ytdlp", "text_playdl", "video", "video_playdl", "list", "list_second", "list_last",
     "list_entries", "second_entries", "search", "audius", "audius_list", "audius_entries", "audiomack",
     "mixcloud", "jiosaavn", "jiosaavn_again", "mirror", "import_entries", "amz_track", "amz_list",
     "amz_list_page", "amz_deezer", "amz_mirror", "amz_page", "amz_entries", "amz_deezer_entries",
     "page_search", "apple_track"}

Places ==
    SearchPlaces \cup ArlPlaces \cup Mirrors \cup Loops \cup Ends \cup
    {"unused", "begins", "radio", "url", "url_info", "sc_track", "sc_set", "sc_track_playdl", "sc_set_playdl",
     "sp_track", "sp_list", "sp_artist", "sp_track_again", "sp_list_again", "dz_track", "dz_list",
     "dz_track_playdl", "dz_list_playdl", "td_track", "td_list", "bandcamp", "apple_list"}
Sources == {"deezer", "search", "video", "web", "soundcloud", "audius"}

FlagsKnown(at) == Carries(at) \cup Needs(at)
RowFlags(e) ==
    /\ Carries(e.to) \subseteq FlagsKnown(e.at)
    /\ e.to = "done" /\ e.got = "video" => "ytPlayback" \in FlagsKnown(e.at)
    /\ e.to = "done" /\ e.got = "search" =>
          ("ytSearch" \in FlagsKnown(e.at) /\ "ytPlayback" \in FlagsKnown(e.at)) \/ e.at \in Mirrors
    /\ e.to = "done" /\ e.got = "deezer" =>
          ("arl" \in FlagsKnown(e.at) /\ "deezer" \in FlagsKnown(e.at)) \/ e.at \in {"mirror", "amz_mirror"}
RowPlaces(e) ==
    /\ e.at \notin Ends \cup {"begins", "unused"}
    /\ e.to \in AlbumPlaces => e.at \in AlbumPlaces
    /\ e.to = "radio" => e.at = "url"
    /\ e.to \notin {"url", "begins", "unused"}
    /\ e.to = "done" => e.to \notin Loops
RowSearches(e) ==
    e.at \in SearchPlaces =>
        /\ e.to \in SearchPlaces \cup Ends
        /\ e.to \in {"nothing", "throw"} =>
              Asks(e.at) /\ e.got # "deezer" /\ e.at \in {"text_playdl", "search", "page_search"} \cup Mirrors
IsRow(e) ==
    /\ e.to \in Places \cup {"no_url"}
    /\ e.to = "done" => e.got \in Sources
RowFits(e) == IsRow(e) /\ RowFlags(e) /\ RowPlaces(e) /\ RowSearches(e)

USE DEF From, RowFits, IsRow, RowFlags, RowPlaces, RowSearches, FlagsKnown, Carries, Needs, ArlPlaces, VideoPlaces,
        AlbumPlaces, Mirrors, SearchPlaces, YouTube, Loops, Ends, Asks, Places, Sources

\* The rows of the tables, one by one.
LEMMA TextRows == \A e \in Text \cup YouTubeSearch : RowFits(e)
<1>1. \A e \in Text \cup YouTubeSearch : IsRow(e)
  BY DEF Text, YouTubeSearch
<1>2. \A e \in Text \cup YouTubeSearch : RowFlags(e)
  BY DEF Text, YouTubeSearch
<1>3. \A e \in Text \cup YouTubeSearch : RowPlaces(e)
  BY DEF Text, YouTubeSearch
<1>4. \A e \in Text \cup YouTubeSearch : RowSearches(e)
  BY DEF Text, YouTubeSearch
<1> HIDE DEF RowFlags, RowPlaces, RowSearches, IsRow
<1> QED
  BY <1>1, <1>2, <1>3, <1>4

LEMMA VideoRows == \A e \in Video \cup Playlist : RowFits(e)
<1>1. \A e \in Video \cup Playlist : IsRow(e)
  BY DEF Video, Playlist
<1>2. \A e \in Video \cup Playlist : RowFlags(e)
  BY DEF Video, Playlist
<1>3. \A e \in Video \cup Playlist : RowPlaces(e)
  BY DEF Video, Playlist
<1>4. \A e \in Video \cup Playlist : RowSearches(e)
  BY DEF Video, Playlist
<1> HIDE DEF RowFlags, RowPlaces, RowSearches, IsRow
<1> QED
  BY <1>1, <1>2, <1>3, <1>4

LEMMA UrlRows == \A e \in FallbackSearch \cup Url \cup AudioFile : RowFits(e)
<1>1. \A e \in FallbackSearch \cup Url \cup AudioFile : IsRow(e)
  BY DEF FallbackSearch, Url, AudioFile
<1>2. \A e \in FallbackSearch \cup Url \cup AudioFile : RowFlags(e)
  BY DEF FallbackSearch, Url, AudioFile
<1>3. \A e \in FallbackSearch \cup Url \cup AudioFile : RowPlaces(e)
  BY DEF FallbackSearch, Url, AudioFile
<1>4. \A e \in FallbackSearch \cup Url \cup AudioFile : RowSearches(e)
  BY DEF FallbackSearch, Url, AudioFile
<1> HIDE DEF RowFlags, RowPlaces, RowSearches, IsRow
<1> QED
  BY <1>1, <1>2, <1>3, <1>4

LEMMA SoundCloudRows == \A e \in SoundCloudDirect \cup SoundCloud : RowFits(e)
<1>1. \A e \in SoundCloudDirect \cup SoundCloud : IsRow(e)
  BY DEF SoundCloudDirect, SoundCloud
<1>2. \A e \in SoundCloudDirect \cup SoundCloud : RowFlags(e)
  BY DEF SoundCloudDirect, SoundCloud
<1>3. \A e \in SoundCloudDirect \cup SoundCloud : RowPlaces(e)
  BY DEF SoundCloudDirect, SoundCloud
<1>4. \A e \in SoundCloudDirect \cup SoundCloud : RowSearches(e)
  BY DEF SoundCloudDirect, SoundCloud
<1> HIDE DEF RowFlags, RowPlaces, RowSearches, IsRow
<1> QED
  BY <1>1, <1>2, <1>3, <1>4

LEMMA SpotifyRows == \A e \in Spotify \cup NoMarket : RowFits(e)
<1>1. \A e \in Spotify \cup NoMarket : IsRow(e)
  BY DEF Spotify, NoMarket
<1>2. \A e \in Spotify \cup NoMarket : RowFlags(e)
  BY DEF Spotify, NoMarket
<1>3. \A e \in Spotify \cup NoMarket : RowPlaces(e)
  BY DEF Spotify, NoMarket
<1>4. \A e \in Spotify \cup NoMarket : RowSearches(e)
  BY DEF Spotify, NoMarket
<1> HIDE DEF RowFlags, RowPlaces, RowSearches, IsRow
<1> QED
  BY <1>1, <1>2, <1>3, <1>4

LEMMA DeezerRows == \A e \in DeezerDirect \cup DeezerPlaydl : RowFits(e)
<1>1. \A e \in DeezerDirect \cup DeezerPlaydl : IsRow(e)
  BY DEF DeezerDirect, DeezerPlaydl
<1>2. \A e \in DeezerDirect \cup DeezerPlaydl : RowFlags(e)
  BY DEF DeezerDirect, DeezerPlaydl
<1>3. \A e \in DeezerDirect \cup DeezerPlaydl : RowPlaces(e)
  BY DEF DeezerDirect, DeezerPlaydl
<1>4. \A e \in DeezerDirect \cup DeezerPlaydl : RowSearches(e)
  BY DEF DeezerDirect, DeezerPlaydl
<1> HIDE DEF RowFlags, RowPlaces, RowSearches, IsRow
<1> QED
  BY <1>1, <1>2, <1>3, <1>4

LEMMA DeezerUrlRows == \A e \in DeezerUrl \cup DeezerLegacy : RowFits(e)
<1>1. \A e \in DeezerUrl \cup DeezerLegacy : IsRow(e)
  BY DEF DeezerUrl, DeezerLegacy
<1>2. \A e \in DeezerUrl \cup DeezerLegacy : RowFlags(e)
  BY DEF DeezerUrl, DeezerLegacy
<1>3. \A e \in DeezerUrl \cup DeezerLegacy : RowPlaces(e)
  BY DEF DeezerUrl, DeezerLegacy
<1>4. \A e \in DeezerUrl \cup DeezerLegacy : RowSearches(e)
  BY DEF DeezerUrl, DeezerLegacy
<1> HIDE DEF RowFlags, RowPlaces, RowSearches, IsRow
<1> QED
  BY <1>1, <1>2, <1>3, <1>4

LEMMA AudiusRows == \A e \in Audius \cup TidalTrack \cup TidalList : RowFits(e)
<1>1. \A e \in Audius \cup TidalTrack \cup TidalList : IsRow(e)
  BY DEF Audius, TidalTrack, TidalList
<1>2. \A e \in Audius \cup TidalTrack \cup TidalList : RowFlags(e)
  BY DEF Audius, TidalTrack, TidalList
<1>3. \A e \in Audius \cup TidalTrack \cup TidalList : RowPlaces(e)
  BY DEF Audius, TidalTrack, TidalList
<1>4. \A e \in Audius \cup TidalTrack \cup TidalList : RowSearches(e)
  BY DEF Audius, TidalTrack, TidalList
<1> HIDE DEF RowFlags, RowPlaces, RowSearches, IsRow
<1> QED
  BY <1>1, <1>2, <1>3, <1>4

LEMMA ImportRows == \A e \in Bandcamp \cup Audiomack \cup Mixcloud \cup JioSaavn : RowFits(e)
<1>1. \A e \in Bandcamp \cup Audiomack \cup Mixcloud \cup JioSaavn : IsRow(e)
  BY DEF Bandcamp, Audiomack, Mixcloud, JioSaavn
<1>2. \A e \in Bandcamp \cup Audiomack \cup Mixcloud \cup JioSaavn : RowFlags(e)
  BY DEF Bandcamp, Audiomack, Mixcloud, JioSaavn
<1>3. \A e \in Bandcamp \cup Audiomack \cup Mixcloud \cup JioSaavn : RowPlaces(e)
  BY DEF Bandcamp, Audiomack, Mixcloud, JioSaavn
<1>4. \A e \in Bandcamp \cup Audiomack \cup Mixcloud \cup JioSaavn : RowSearches(e)
  BY DEF Bandcamp, Audiomack, Mixcloud, JioSaavn
<1> HIDE DEF RowFlags, RowPlaces, RowSearches, IsRow
<1> QED
  BY <1>1, <1>2, <1>3, <1>4

LEMMA AmazonRows == \A e \in AmazonTrack \cup AmazonList \cup AmazonAlbum \cup AmazonPage : RowFits(e)
<1>1. \A e \in AmazonTrack \cup AmazonList \cup AmazonAlbum \cup AmazonPage : IsRow(e)
  BY DEF AmazonTrack, AmazonList, AmazonAlbum, AmazonPage
<1>2. \A e \in AmazonTrack \cup AmazonList \cup AmazonAlbum \cup AmazonPage : RowFlags(e)
  BY DEF AmazonTrack, AmazonList, AmazonAlbum, AmazonPage
<1>3. \A e \in AmazonTrack \cup AmazonList \cup AmazonAlbum \cup AmazonPage : RowPlaces(e)
  BY DEF AmazonTrack, AmazonList, AmazonAlbum, AmazonPage
<1>4. \A e \in AmazonTrack \cup AmazonList \cup AmazonAlbum \cup AmazonPage : RowSearches(e)
  BY DEF AmazonTrack, AmazonList, AmazonAlbum, AmazonPage
<1> HIDE DEF RowFlags, RowPlaces, RowSearches, IsRow
<1> QED
  BY <1>1, <1>2, <1>3, <1>4

LEMMA AppleRows == \A e \in Apple \cup PageSearch : RowFits(e)
<1>1. \A e \in Apple \cup PageSearch : IsRow(e)
  BY DEF Apple, PageSearch
<1>2. \A e \in Apple \cup PageSearch : RowFlags(e)
  BY DEF Apple, PageSearch
<1>3. \A e \in Apple \cup PageSearch : RowPlaces(e)
  BY DEF Apple, PageSearch
<1>4. \A e \in Apple \cup PageSearch : RowSearches(e)
  BY DEF Apple, PageSearch
<1> HIDE DEF RowFlags, RowPlaces, RowSearches, IsRow
<1> QED
  BY <1>1, <1>2, <1>3, <1>4

LEMMA MirrorRows == \A e \in Mirror : RowFits(e)
<1>1. \A e \in Mirror : IsRow(e)
  BY DEF Mirror
<1>2. \A e \in Mirror : RowFlags(e)
  BY DEF Mirror
<1>3. \A e \in Mirror : RowPlaces(e)
  BY DEF Mirror
<1>4. \A e \in Mirror : RowSearches(e)
  BY DEF Mirror
<1> HIDE DEF RowFlags, RowPlaces, RowSearches, IsRow
<1> QED
  BY <1>1, <1>2, <1>3, <1>4

\* Every row of the routes fits.
LEMMA RouteRows == \A e \in Route : RowFits(e)
<1> HIDE DEF RowFits
<1> QED
  BY TextRows, VideoRows, UrlRows, SoundCloudRows, SpotifyRows, DeezerRows, DeezerUrlRows, AudiusRows,
     ImportRows, AmazonRows, AppleRows, MirrorRows DEF Route

\* Where a stage leads whose flags are not set: to one that needs none of them, or
\* to a throw, and of the searches only those of YouTube throw.
LEMMA WithoutFits ==
    ASSUME NEW at
    PROVE  LET to == Without(at) IN
           /\ to \in Places /\ to \notin Loops \cup AlbumPlaces \cup {"url", "radio", "begins", "unused", "done", "nothing"}
           /\ Carries(to) = {}
           /\ at \in SearchPlaces /\ at \in Stages =>
                to \in SearchPlaces \/ (to = "throw" /\ Needs(at) \subseteq YouTube)
BY DEF Without

\* The loops that stop when enough is found have one worker.
UntilLoops == {"list_entries", "sc_entries", "dz_entries", "audius_entries", "amz_deezer_entries", "apple_entries"}
LoopTakes(l) ==
    LET p == Loop(l) IN
    /\ p.take = (IF l \in UntilLoops THEN "until" ELSE "first")
    /\ l \in UntilLoops => p.workers = 1
    /\ p.workers \in Nat \ {0} /\ p.least \in {0, 1}
LoopEnds(l) ==
    LET p == Loop(l) IN
    /\ p.empty \in Places /\ p.empty \notin Loops \cup AlbumPlaces \cup {"url", "radio", "begins", "unused", "done", "no_url"}
    /\ Carries(p.empty) \subseteq Carries(l)
    /\ l \in SearchPlaces =>
          p.empty \in SearchPlaces \/ (p.empty = "nothing" /\ p.least = 1 /\ p.each = MirrorAnswers)
LoopEach(l) ==
    LET p == Loop(l) IN
    \/ p.each = MirrorAnswers
    \/ p.each = CrossAnswers
    \/ p.each \subseteq {"video", "fails"} /\ "ytPlayback" \in Carries(l)
    \/ p.each = {"deezer", "fails"} /\ l \in {"dz_entries", "amz_deezer_entries"}
    \/ p.each \subseteq {"soundcloud", "audius", "fails"}
LoopFits(l) == LoopTakes(l) /\ LoopEnds(l) /\ LoopEach(l)

\* Every loop fits: how much it takes, where it leads without a track, what its entries may yield.
LEMMA LoopsFit == \A l \in Loops : LoopFits(l)
<1>0. Workers \in Nat \ {0}
  BY ResolverAssumption
<1>1. LoopFits("list_entries")
  BY <1>0 DEF Loop, LoopFits, LoopTakes, LoopEnds, LoopEach, UntilLoops
<1>2. LoopFits("second_entries")
  BY <1>0 DEF Loop, LoopFits, LoopTakes, LoopEnds, LoopEach, UntilLoops
<1>3. LoopFits("sc_entries")
  BY <1>0 DEF Loop, LoopFits, LoopTakes, LoopEnds, LoopEach, UntilLoops
<1>4. LoopFits("sc_playdl_entries")
  BY <1>0 DEF Loop, LoopFits, LoopTakes, LoopEnds, LoopEach, UntilLoops
<1>5. LoopFits("sp_entries")
  BY <1>0 DEF Loop, LoopFits, LoopTakes, LoopEnds, LoopEach, UntilLoops
<1>6. LoopFits("dz_entries")
  BY <1>0 DEF Loop, LoopFits, LoopTakes, LoopEnds, LoopEach, UntilLoops
<1>7. LoopFits("cross_entries")
  BY <1>0 DEF Loop, LoopFits, LoopTakes, LoopEnds, LoopEach, UntilLoops
<1>8. LoopFits("audius_entries")
  BY <1>0 DEF Loop, LoopFits, LoopTakes, LoopEnds, LoopEach, UntilLoops
<1>9. LoopFits("td_entries")
  BY <1>0 DEF Loop, LoopFits, LoopTakes, LoopEnds, LoopEach, UntilLoops
<1>10. LoopFits("import_entries")
  BY <1>0 DEF Loop, LoopFits, LoopTakes, LoopEnds, LoopEach, UntilLoops
<1>11. LoopFits("amz_deezer_entries")
  BY <1>0 DEF Loop, LoopFits, LoopTakes, LoopEnds, LoopEach, UntilLoops
<1>12. LoopFits("amz_entries")
  BY <1>0 DEF Loop, LoopFits, LoopTakes, LoopEnds, LoopEach, UntilLoops
<1>13. LoopFits("apple_entries")
  BY <1>0 DEF Loop, LoopFits, LoopTakes, LoopEnds, LoopEach, UntilLoops
<1> HIDE DEF LoopFits
<1> QED
  BY <1>1, <1>2, <1>3, <1>4, <1>5, <1>6, <1>7, <1>8, <1>9, <1>10, <1>11, <1>12, <1>13

HIDE DEF From, RowFits, IsRow, RowFlags, RowPlaces, RowSearches, FlagsKnown, Carries, Needs, ArlPlaces, VideoPlaces,
        AlbumPlaces, Mirrors, SearchPlaces, YouTube, Loops, Ends, Asks, Places, Sources

-----------------------------------------------------------------------------
\* A set of numbers has a least one: induction over the numbers, as a fact.
LEMMA LeastNumber ==
    ASSUME NEW T \in SUBSET Nat, T # {}
    PROVE  \E x \in T : \A y \in T : x <= y
<1> DEFINE R == OpToRel(<, Nat)
<1>1. IsWellFoundedOn(R, Nat)
  BY NatLessThanWellFounded
<1>2. R = {ss \in Nat \X Nat : ss[1] < ss[2]}
  BY DEF OpToRel
<1> HIDE DEF R
<1>3. T \subseteq Nat
  OBVIOUS
<1>4. \E x \in T : \A y \in T : ~(<<y, x>> \in R)
  BY ONLY <1>3, T # {}, <1>1, WFMin
<1>5. PICK x \in T : \A y \in T : ~(<<y, x>> \in R)
  BY <1>4
<1>6. ASSUME NEW y \in T PROVE x <= y
  <2>1. x \in Nat /\ y \in Nat
    BY <1>3
  <2>2. ~(y < x)
    BY <1>2, <1>5, <2>1
  <2> QED
    BY <2>1, <2>2
<1> QED
  BY <1>6

\* The k-th of the elements of a finite set of numbers.
LEMMA PlaceExists ==
    ASSUME NEW m \in Nat, NEW F \in SUBSET (1..m), NEW k \in 1..Cardinality(F)
    PROVE  \E i \in F : Cardinality({j \in F : j <= i}) = k
<1> DEFINE UpTo(n) == {j \in F : j <= n}
           T == {n \in Nat : Cardinality(UpTo(n)) >= k}
<1>0. \A j \in F : j \in Nat /\ 1 <= j /\ j <= m
  OBVIOUS
<1>1. IsFiniteSet(F) /\ Cardinality(F) \in Nat
  <2>1. IsFiniteSet(1..m)
    BY FS_Interval
  <2>2. IsFiniteSet(F)
    BY <2>1, FS_Subset
  <2> QED
    BY <2>2, FS_CardinalityType
<1>k. k \in Nat
  <2> DEFINE c == Cardinality(F)
  <2>1. c \in Nat /\ k \in 1..c
    BY <1>1
  <2> HIDE DEF c
  <2> QED
    BY <2>1
<1>2. ASSUME NEW n PROVE IsFiniteSet(UpTo(n)) /\ Cardinality(UpTo(n)) \in Nat
  <2>1. UpTo(n) \in SUBSET F
    OBVIOUS
  <2> QED
    BY <1>1, <2>1, FS_Subset, FS_CardinalityType
<1>3. m \in T
  <2>1. UpTo(m) = F
    BY <1>0
  <2> QED
    BY <1>1, <2>1
<1>4. PICK n \in T : \A y \in T : n <= y
  <2>1. T \in SUBSET Nat /\ T # {}
    BY <1>3
  <2> HIDE DEF T
  <2> QED
    BY <2>1, LeastNumber
<1>5. n # 0
  <2>0. \A j \in F : ~(j <= 0)
    BY <1>0
  <2>1. UpTo(0) = {}
    BY <2>0
  <2>2. Cardinality(UpTo(0)) = 0
    BY <2>1, FS_EmptySet
  <2> QED
    BY <2>2
<1>6. n - 1 \in Nat /\ n - 1 \notin T
  <2>1. n \in Nat
    OBVIOUS
  <2>2. n - 1 \in Nat /\ ~(n <= n - 1)
    BY <1>5, <2>1
  <2> QED
    BY <1>4, <2>2
<1>7. Cardinality(UpTo(n - 1)) < k
  <2> DEFINE c == Cardinality(UpTo(n - 1))
  <2>1. c \in Nat /\ ~(c >= k)
    BY <1>2, <1>6
  <2>2. k \in Nat
    BY <1>1
  <2> HIDE DEF c
  <2>3. c < k
    BY <2>1, <2>2
  <2> QED
    BY <2>3 DEF c
<1>8. CASE n \in F
  <2>1. UpTo(n) = UpTo(n - 1) \cup {n} /\ n \notin UpTo(n - 1)
    <3>1. n \in Nat /\ n - 1 \in Nat
      BY <1>6
    <3>2. \A j \in F : j <= n <=> j <= n - 1 \/ j = n
      BY <3>1, <1>0
    <3>3. ~(n <= n - 1)
      BY <3>1
    <3> QED
      BY <3>2, <3>3, <1>8
  <2>2. Cardinality(UpTo(n)) = Cardinality(UpTo(n - 1)) + 1
    <3> DEFINE U == UpTo(n - 1)
    <3>1. IsFiniteSet(U)
      BY <1>2
    <3>2. UpTo(n) = U \cup {n} /\ n \notin U
      BY <2>1
    <3> HIDE DEF U, UpTo
    <3>3. Cardinality(U \cup {n}) = Cardinality(U) + 1
      BY <3>1, <3>2, FS_AddElement
    <3> QED
      BY <3>2, <3>3 DEF U
  <2>3. Cardinality(UpTo(n)) >= k
    OBVIOUS
  <2>4. Cardinality(UpTo(n)) = k
    <3> DEFINE c == Cardinality(UpTo(n))
               d == Cardinality(UpTo(n - 1))
    <3>1. c \in Nat /\ d \in Nat /\ k \in Nat
      BY <1>k, <1>2
    <3> HIDE DEF c, d
    <3>2. c = d + 1 /\ c >= k /\ d < k
      BY <2>2, <2>3, <1>7 DEF c, d
    <3>3. c = k
      BY <3>1, <3>2
    <3> QED
      BY <3>3 DEF c
  <2> QED
    BY <1>8, <2>4
<1>9. CASE n \notin F
  <2>1. UpTo(n) = UpTo(n - 1)
    <3>1. n \in Nat /\ n - 1 \in Nat
      BY <1>6
    <3>2. \A j \in F : j <= n <=> j <= n - 1
      BY <3>1, <1>0, <1>9
    <3> QED
      BY <3>2
  <2> QED
    <3> DEFINE d == Cardinality(UpTo(n - 1))
    <3>1. d < k /\ d \in Nat /\ k \in Nat
      BY <1>k, <1>2, <1>7
    <3>2. d >= k
      BY <2>1
    <3> HIDE DEF d
    <3> QED
      BY <3>1, <3>2
<1> QED
  BY <1>8, <1>9

\* A loop's results: each entry is open, a miss, or itself.
Filed(s) == \A i \in DOMAIN s : s[i] \in {Hole, Null, i}

\* What was found is a finite set of places.
LEMMA FoundSet ==
    ASSUME NEW s \in Seq(Nat)
    PROVE  /\ Found(s) \in SUBSET (1..Len(s)) /\ IsFiniteSet(Found(s))
           /\ Cardinality(Found(s)) \in Nat /\ Cardinality(Found(s)) <= Len(s)
<1>1. Found(s) \in SUBSET (1..Len(s)) /\ Len(s) \in Nat
  BY DEF Found
<1>2. IsFiniteSet(1..Len(s)) /\ Cardinality(1..Len(s)) = Len(s)
  <2> DEFINE n == Len(s)
  <2>1. n \in Nat
    BY <1>1
  <2> HIDE DEF n
  <2>2. IsFiniteSet(1..n) /\ Cardinality(1..n) = n
    BY <2>1, FS_Interval
  <2> QED
    BY <2>2 DEF n
<1>3. IsFiniteSet(Found(s)) /\ Cardinality(Found(s)) <= Len(s)
  BY <1>1, <1>2, FS_Subset
<1> QED
  BY <1>1, <1>3, FS_CardinalityType

\* What is kept of the results comes in the order of its places, each once.
LEMMA KeptInOrder ==
    ASSUME NEW s \in Seq(Nat), Filed(s)
    PROVE  /\ Kept(s) \in Seq(Nat) /\ Len(Kept(s)) = Cardinality(Found(s))
           /\ \A i, j \in DOMAIN Kept(s) : i < j => Kept(s)[i] < Kept(s)[j]
<1> DEFINE F == Found(s)
           place(k) == CHOOSE i \in F : Cardinality({j \in F : j <= i}) = k
<1>1. F \in SUBSET (1..Len(s)) /\ IsFiniteSet(F) /\ Cardinality(F) \in Nat /\ Len(s) \in Nat
  BY FoundSet
<1>2. \A k \in 1..Cardinality(F) : place(k) \in F /\ Cardinality({j \in F : j <= place(k)}) = k
  <2> SUFFICES ASSUME NEW k \in 1..Cardinality(F)
               PROVE  place(k) \in F /\ Cardinality({j \in F : j <= place(k)}) = k
    OBVIOUS
  <2> DEFINE m == Len(s)
  <2>1. m \in Nat /\ F \in SUBSET (1..m)
    BY <1>1
  <2> HIDE DEF F, m
  <2>2. \E i \in F : Cardinality({j \in F : j <= i}) = k
    BY <2>1, PlaceExists
  <2> QED
    BY <2>2
<1>3. Kept(s) = [k \in 1..Cardinality(F) |-> s[place(k)]]
  BY DEF Kept
<1>4. \A i \in F : s[i] = i /\ i \in Nat
  BY <1>1 DEF Found, Filed
<1> HIDE DEF F, place
<1>5. Kept(s) \in [1..Cardinality(F) -> Nat]
  BY <1>2, <1>3, <1>4
<1>6. Kept(s) \in Seq(Nat) /\ Len(Kept(s)) = Cardinality(F) /\ DOMAIN Kept(s) = 1..Cardinality(F)
  BY <1>1, <1>5
<1>7. ASSUME NEW a \in 1..Cardinality(F), NEW b \in 1..Cardinality(F), a < b
      PROVE  place(a) < place(b)
  <2>1. place(a) \in Nat /\ place(b) \in Nat
    BY <1>2, <1>4
  <2>2. SUFFICES ASSUME place(b) <= place(a) PROVE FALSE
    BY <2>1
  <2>3. {j \in F : j <= place(b)} \in SUBSET {j \in F : j <= place(a)}
    BY <2>1, <2>2, <1>4
  <2>4. IsFiniteSet({j \in F : j <= place(a)})
    <3>1. {j \in F : j <= place(a)} \in SUBSET F
      OBVIOUS
    <3> QED
      BY <1>1, <3>1, FS_Subset
  <2>5. Cardinality({j \in F : j <= place(b)}) <= Cardinality({j \in F : j <= place(a)})
    BY <2>3, <2>4, FS_Subset
  <2> QED
    BY <1>2, <1>7, <2>5
<1>8. \A a, b \in 1..Cardinality(F) : a < b => Kept(s)[a] < Kept(s)[b]
  BY <1>2, <1>3, <1>4, <1>7
<1> QED
  BY <1>6, <1>8 DEF F

-----------------------------------------------------------------------------
SpotifyKinds == {"spotify", "spotifyList", "spotifyArtist"}
TidalKinds == {"tidal", "tidalList"}
GuessKinds == {"soundcloud", "soundcloudSet", "deezer", "deezerList"}

Lookup ==
    [kind : Kinds, at : Places, guess : BOOLEAN, watch : BOOLEAN, limit : Nat, sent : BOOLEAN, asked : Nat,
     busy : SUBSET Nat, next : Nat, results : Seq(Nat), url : Nat, visited : SUBSET Nat, youtube : BOOLEAN,
     by : SUBSET Sources]

\* The lookup r may be at the place `at' under the flags f.
Fits(r, at, f) ==
    /\ Carries(at) \subseteq f
    /\ at \in AlbumPlaces => r.kind = "amazonList"
    /\ at \in {"url", "radio"} => r.url \in Streams
    /\ at = "begins" /\ r.kind = "stream" => Flags \subseteq f
    /\ r.kind \in SpotifyKinds => "spotify" \in f \/ at \in {"begins", "sp_track", "sp_list", "sp_artist", "throw"}
    /\ r.kind \in TidalKinds => "tidal" \in f \/ at \in {"begins", "td_track", "td_list", "throw"}
    /\ r.kind \in SearchKinds =>
          /\ at \in SearchPlaces \cup Ends \cup {"begins", "unused"}
          /\ at \in {"nothing", "throw"} /\ YouTube \subseteq f => r.youtube
\* Its tracks are from sources that the flags f allow.
Founded(r, f) ==
    /\ "search" \in r.by => YouTube \subseteq f
    /\ "video" \in r.by => "ytPlayback" \in f
    /\ "deezer" \in r.by => "deezer" \in f /\ ("arl" \in f \/ r.kind = "amazonList")
\* What a lookup keeps wherever it goes.
Keeps(r, f) ==
    /\ r \in Lookup /\ Founded(r, f)
    /\ r.guess => r.kind \in GuessKinds
    /\ r.at \notin {"begins", "unused"} => r.limit \in 1..MaxTracks
\* The loop it is in, and the tracks it ends with.
Ordered(r) ==
    /\ r.at \in Loops =>
          /\ Len(r.results) \in 1..MaxItems /\ Filed(r.results)
          /\ r.busy \subseteq 1..Len(r.results) /\ r.next # 0
          /\ IF r.at \in UntilLoops THEN (\E j \in Nat : r.busy = {j}) /\ Cardinality(Found(r.results)) < r.limit
             ELSE Len(r.results) <= r.limit
    /\ r.at = "done" =>
          /\ Len(r.results) <= r.limit
          /\ \A i, j \in DOMAIN r.results : i < j => r.results[i] < r.results[j]
\* A request for a token is no older than its timeout.
Timely(r, t) == r.asked # 0 => r.asked <= t /\ t <= r.asked + Timeout /\ Uses(r.at) # "none"
Right(r, f, t) == Keeps(r, f) /\ Fits(r, r.at, f) /\ Ordered(r) /\ Timely(r, t)

Session == [until : Nat, good : Nat]
\* A session is kept no longer than it is good.
TokensRight == tokens \in [{"spotify", "deezer"} -> Session] /\ \A p \in {"spotify", "deezer"} : tokens[p].until <= tokens[p].good
LookupInv ==
    /\ flags \subseteq Flags /\ now \in Nat \ {0} /\ TokensRight
    /\ links \in [Streams -> Streams \cup {Dead}]
    /\ lookup \in [Lookups -> Lookup]
    /\ \A c \in Lookups : Right(lookup[c], flags, now)

-----------------------------------------------------------------------------

\* Where a lookup lands it may be, if it may be where it was led: a throw that is caught included.
LEMMA LandingFits ==
    ASSUME NEW r, NEW f, NEW to \in Places \cup {"no_url"}, Fits(r, to, f), r.guess => r.kind \in GuessKinds
    PROVE  Landing(r, to) \in Places /\ Fits(r, Landing(r, to), f)
           /\ (Landing(r, to) \in Loops \cup {"done"} => to = Landing(r, to))
           /\ (Landing(r, to) \in {"begins", "unused"} => to = Landing(r, to))
<1>1. CASE to = "no_url"
  <2>1. r.kind \notin SearchKinds
    BY <1>1 DEF Fits, SearchPlaces, Ends
  <2>2. Landing(r, to) \in {"throw", "dz_track_playdl"} /\ (Landing(r, to) = "throw" => r.kind = "stream")
    BY <1>1 DEF Landing
  <2>3. r.kind \in SpotifyKinds => "spotify" \in f
    BY <1>1 DEF Fits
  <2>4. r.kind \in TidalKinds => "tidal" \in f
    BY <1>1 DEF Fits
  <2> QED
    BY <2>1, <2>2, <2>3, <2>4 DEF Fits, Carries, ArlPlaces, VideoPlaces, AlbumPlaces, Places, Ends, Loops
<1>2. CASE to = "throw" /\ r.guess
  <2>1. Landing(r, to) = "search"
    BY <1>2 DEF Landing
  <2>2. r.kind \notin SpotifyKinds \cup TidalKinds \cup SearchKinds
    BY <1>2 DEF SpotifyKinds, TidalKinds, SearchKinds, GuessKinds
  <2> QED
    BY <2>1, <2>2 DEF Fits, Carries, ArlPlaces, VideoPlaces, AlbumPlaces, Places, SearchPlaces, Loops
<1>3. CASE to # "no_url" /\ ~(to = "throw" /\ r.guess)
  BY <1>3 DEF Landing
<1> QED
  BY <1>1, <1>2, <1>3

\* n is the lookup r, arrived at a place and stripped of what it did before.
Arrived(n, r, at) ==
    /\ n \in Lookup /\ n.at = at /\ (n.guess => r.guess) /\ n.kind = r.kind /\ n.url = r.url
    /\ n.youtube = r.youtube /\ n.by = r.by /\ n.limit = r.limit
    /\ n.asked = 0 /\ n.results = <<>> /\ n.sent = FALSE /\ n.busy = {}

LEMMA ArriveRecord ==
    ASSUME NEW r \in Lookup, NEW to, Landing(r, to) \in Places
    PROVE  Arrived(Arrive(r, to), r, Landing(r, to))
<1> DEFINE g == r.guess /\ to # "throw"
           e == <<>>
           x == [r EXCEPT !.at = Landing(r, to), !.guess = g, !.sent = FALSE, !.asked = 0,
                          !.busy = {}, !.next = 0, !.results = e]
<1>1. g \in BOOLEAN /\ (g => r.guess)
  OBVIOUS
<1>2. Arrive(r, to) = x
  BY DEF Arrive
<1>3. e \in Seq(Nat)
  OBVIOUS
<1> HIDE DEF g, e
<1>4. x \in Lookup
  BY <1>1, <1>3 DEF Lookup
<1>5. x.at = Landing(r, to) /\ x.guess = g /\ x.kind = r.kind /\ x.url = r.url /\ x.youtube = r.youtube
      /\ x.by = r.by /\ x.limit = r.limit /\ x.asked = 0 /\ x.results = e /\ x.sent = FALSE /\ x.busy = {}
  BY <1>1 DEF Lookup
<1> HIDE DEF x
<1> QED
  BY <1>1, <1>2, <1>4, <1>5 DEF e, Arrived

\* A lookup that arrives at a stage or an end is right.
LEMMA ArriveRight ==
    ASSUME NEW r, NEW f, NEW t, Keeps(r, f), r.limit \in 1..MaxTracks,
           NEW to \in (Places \cup {"no_url"}) \ (Loops \cup {"begins", "unused"}), Fits(r, to, f)
    PROVE  Right(Arrive(r, to), f, t) /\ ~Arrive(r, to).sent
<1> DEFINE n == Arrive(r, to)
<1>0. n = Arrive(r, to)
  OBVIOUS
<1> HIDE DEF n
<1>1. Landing(r, to) \in Places /\ Fits(r, Landing(r, to), f) /\ Landing(r, to) \notin Loops \cup {"begins", "unused"}
  BY LandingFits DEF Keeps
<1>2. r \in Lookup
  BY DEF Keeps
<1>3. Arrived(n, r, Landing(r, to))
  BY <1>0, <1>1, <1>2, ArriveRecord
<1>4. n \in Lookup /\ n.at = Landing(r, to) /\ n.kind = r.kind /\ n.url = r.url /\ n.youtube = r.youtube
      /\ n.by = r.by /\ n.limit = r.limit /\ (n.guess => r.guess) /\ n.asked = 0 /\ n.results = <<>> /\ n.sent = FALSE
  BY <1>3 DEF Arrived
<1>5. Fits(n, n.at, f)
  BY <1>1, <1>4 DEF Fits
<1>6. Keeps(n, f)
  BY <1>4 DEF Keeps, Founded
<1>7. Ordered(n)
  <2>1. n.limit \in Nat /\ Len(n.results) = 0 /\ DOMAIN n.results = {}
    BY <1>4, ResolverAssumption
  <2> QED
    BY <1>1, <1>4, <2>1 DEF Ordered
<1>8. Timely(n, t)
  BY <1>4 DEF Timely
<1> QED
  BY <1>4, <1>5, <1>6, <1>7, <1>8 DEF Right, n

\* A loop over n entries, of which at least as many as it promises.
LEMMA TakeUpRight ==
    ASSUME NEW r, NEW t, Keeps(r, flags), r.limit \in 1..MaxTracks,
           NEW l \in Loops, Fits(r, l, flags), NEW n \in Loop(l).least..MaxItems
    PROVE  Right(TakeUp(r, l, n), flags, t) /\ ~TakeUp(r, l, n).sent
<1> DEFINE p == Loop(l)
           m == IF p.take = "first" /\ n > r.limit THEN r.limit ELSE n
           w == IF m < p.workers THEN m ELSE p.workers
           a == Arrive(r, l)
           b == [a EXCEPT !.busy = 1..w, !.next = w + 1, !.results = [i \in 1..m |-> Hole]]
<1>1. LoopFits(l)
  BY LoopsFit
<1>2. TakeUp(r, l, n) = IF m = 0 THEN Arrive(r, p.empty) ELSE b
  BY DEF TakeUp
<1>3. p.workers \in Nat \ {0} /\ p.least \in {0, 1} /\ MaxItems \in Nat /\ MaxTracks \in Nat
  BY <1>1, ResolverAssumption DEF LoopFits, LoopTakes
<1>4. n \in Nat /\ p.least <= n /\ n <= MaxItems /\ r.limit \in Nat /\ 1 <= r.limit
  <2> DEFINE q == p.least
             x == r.limit
  <2>1. q \in Nat /\ n \in q..MaxItems /\ x \in 1..MaxTracks
    BY <1>3
  <2> HIDE DEF q, x
  <2>2. n \in Nat /\ q <= n /\ n <= MaxItems /\ x \in Nat /\ 1 <= x
    BY <1>3, <2>1
  <2> QED
    BY <2>2 DEF q, x
<1>5. CASE m = 0
  <2>1. n = 0 /\ p.least = 0
    BY <1>3, <1>4, <1>5
  <2>2. p.empty \in (Places \cup {"no_url"}) \ (Loops \cup {"begins", "unused"})
    BY <1>1 DEF LoopFits, LoopEnds
  <2>3. Fits(r, p.empty, flags)
    <3>1. Carries(p.empty) \subseteq flags
      BY <1>1 DEF LoopFits, LoopEnds, Fits
    <3>2. p.empty \notin AlbumPlaces \cup {"url", "radio", "begins"}
      BY <1>1 DEF LoopFits, LoopEnds
    <3>3. l \notin {"begins", "unused", "sp_track", "sp_list", "sp_artist", "td_track", "td_list", "throw"} \cup Ends
      BY DEF Loops, Ends
    <3>4. r.kind \in SearchKinds => l \in SearchPlaces
      BY <3>3 DEF Fits
    <3>5. l \in SearchPlaces => p.empty \in SearchPlaces
      BY <1>1, <2>1 DEF LoopFits, LoopEnds
    <3>6. "nothing" \notin SearchPlaces /\ "throw" \notin SearchPlaces
      BY DEF SearchPlaces
    <3> QED
      BY <3>1, <3>2, <3>3, <3>4, <3>5, <3>6 DEF Fits
  <2> HIDE DEF p
  <2>4. Right(Arrive(r, p.empty), flags, t) /\ ~Arrive(r, p.empty).sent
    BY <2>2, <2>3, ArriveRight
  <2> QED
    BY <1>2, <1>5, <2>4
<1>6. CASE m # 0
  <2>1. m \in 1..MaxItems /\ w \in 1..m /\ (p.take = "first" => m <= r.limit) /\ (p.workers = 1 => w = 1)
    BY <1>3, <1>4, <1>6
  <2>2. r \in Lookup /\ l \in Places /\ l # "no_url" /\ l # "throw"
    BY DEF Keeps, Loops, Places
  <2> HIDE DEF m, w
  <2> DEFINE s == [i \in 1..m |-> Hole]
  <2>3. s \in Seq(Nat) /\ Len(s) = m /\ DOMAIN s = 1..m
    <3>1. m \in Nat /\ Hole \in Nat
      BY <1>3, <2>1 DEF Hole
    <3> HIDE DEF Hole
    <3> QED
      BY <3>1
  <2>4. a.at = l /\ a \in Lookup /\ a.kind = r.kind /\ a.url = r.url /\ a.youtube = r.youtube /\ a.by = r.by
        /\ a.limit = r.limit /\ (a.guess => r.guess) /\ a.asked = 0 /\ a.sent = FALSE
    <3>1. Landing(r, l) = l
      BY <2>2 DEF Landing
    <3>2. a = Arrive(r, l)
      OBVIOUS
    <3> HIDE DEF a
    <3>3. Arrived(a, r, l)
      BY <2>2, <3>1, <3>2, ArriveRecord
    <3> QED
      BY <3>3 DEF Arrived
  <2>5. w \in Nat /\ w + 1 \in Nat /\ w + 1 # 0 /\ 1..w \in SUBSET Nat /\ 1..w \subseteq 1..m
    BY <1>3, <2>1
  <2> HIDE DEF a, s
  <2>6. b = [a EXCEPT !.busy = 1..w, !.next = w + 1, !.results = s]
    BY DEF s
  <2> HIDE DEF b
  <2>7. b \in Lookup
    BY <2>3, <2>4, <2>5, <2>6 DEF Lookup
  <2>8. b.at = l /\ b.kind = r.kind /\ b.url = r.url /\ b.youtube = r.youtube /\ b.by = r.by /\ b.limit = r.limit
        /\ (b.guess => r.guess) /\ b.asked = 0 /\ b.sent = FALSE /\ b.busy = 1..w /\ b.next = w + 1 /\ b.results = s
    BY <2>4, <2>6 DEF Lookup
  <2>9. Fits(b, b.at, flags)
    BY <2>8 DEF Fits
  <2>10. Keeps(b, flags)
    BY <2>7, <2>8 DEF Keeps, Founded
  <2>11. Ordered(b)
    <3>1. Len(s) \in 1..MaxItems /\ Filed(s) /\ Found(s) = {}
      <4>1. \A i \in DOMAIN s : s[i] = Hole
        BY <2>3 DEF s
      <4> QED
        BY <2>1, <2>3, <4>1 DEF Filed, Found
    <3>2. Cardinality(Found(s)) = 0
      BY <3>1, FS_EmptySet
    <3>3. CASE l \in UntilLoops
      <4>1. w = 1 /\ 1..w = {1}
        BY <1>1, <2>1, <3>3 DEF LoopFits, LoopTakes
      <4>2. Cardinality(Found(s)) < r.limit
        BY <1>4, <3>2
      <4> QED
        BY <2>3, <2>5, <2>8, <3>1, <3>3, <4>1, <4>2 DEF Ordered, Loops
    <3>4. CASE l \notin UntilLoops
      <4>1. m <= r.limit
        BY <1>1, <2>1, <3>4 DEF LoopFits, LoopTakes
      <4> QED
        BY <2>3, <2>5, <2>8, <3>1, <3>4, <4>1 DEF Ordered, Loops
    <3> QED
      BY <3>3, <3>4
  <2>12. Timely(b, t)
    BY <2>8 DEF Timely
  <2> QED
    BY <1>2, <1>6, <2>8, <2>9, <2>10, <2>11, <2>12 DEF Right
<1> QED
  BY <1>5, <1>6

\* Whatever leads on: the lookup is right where it gets, and has sent nothing.
LEMMA GoesRight ==
    ASSUME NEW c, NEW r, NEW t, Keeps(r, flags), r.limit \in 1..MaxTracks,
           NEW to \in (Places \cup {"no_url"}) \ {"begins", "unused"}, Fits(r, to, flags), Goes(c, r, to)
    PROVE  \E n : Right(n, flags, t) /\ ~n.sent /\ lookup' = [lookup EXCEPT ![c] = n]
<1>1. CASE to \in Loops
  <2>1. PICK n \in Loop(to).least..MaxItems : lookup' = [lookup EXCEPT ![c] = TakeUp(r, to, n)]
    BY <1>1 DEF Goes
  <2>2. Right(TakeUp(r, to, n), flags, t) /\ ~TakeUp(r, to, n).sent
    BY <1>1, TakeUpRight
  <2> QED
    BY <2>1, <2>2
<1>2. CASE to \notin Loops
  <2>1. lookup' = [lookup EXCEPT ![c] = Arrive(r, to)]
    BY <1>2 DEF Goes
  <2>2. Right(Arrive(r, to), flags, t) /\ ~Arrive(r, to).sent
    BY <1>2, ArriveRight
  <2> QED
    BY <2>1, <2>2
<1> QED
  BY <1>1, <1>2

\* Every request leaves with a session that is good.
SendsFresh == \A c \in Lookups : ~lookup[c].sent /\ lookup'[c].sent => now < tokens'[Uses(lookup[c].at)].good

\* A step of one lookup, to a record n.
LEMMA OneLookup ==
    ASSUME LookupInv, NEW c \in Lookups, NEW n, Right(n, flags, now), lookup' = [lookup EXCEPT ![c] = n],
           UNCHANGED <<flags, links, now>>, TokensRight',
           ~lookup[c].sent /\ n.sent => now < tokens'[Uses(lookup[c].at)].good
    PROVE  LookupInv' /\ SendsFresh
<1>1. n \in Lookup
  BY DEF Right, Keeps
<1>2. lookup \in [Lookups -> Lookup] /\ \A d \in Lookups : Right(lookup[d], flags, now)
  BY DEF LookupInv
<1>3. lookup' \in [Lookups -> Lookup] /\ \A d \in Lookups : lookup'[d] = IF d = c THEN n ELSE lookup[d]
  BY <1>1, <1>2
<1>4. \A d \in Lookups : Right(lookup'[d], flags', now')
  <2> SUFFICES ASSUME NEW d \in Lookups PROVE Right(lookup'[d], flags, now)
    OBVIOUS
  <2>1. CASE d = c
    BY <1>3, <2>1
  <2>2. CASE d # c
    BY <1>2, <1>3, <2>2
  <2> QED
    BY <2>1, <2>2
<1>5. LookupInv'
  BY <1>3, <1>4 DEF LookupInv
<1>6. SendsFresh
  BY <1>3 DEF SendsFresh
<1> QED
  BY <1>5, <1>6

\* A lookup moves on, sending nothing.
LEMMA OneGoes ==
    ASSUME LookupInv, NEW c \in Lookups, UNCHANGED <<flags, links, now>>, TokensRight',
           \E n : Right(n, flags, now) /\ ~n.sent /\ lookup' = [lookup EXCEPT ![c] = n]
    PROVE  LookupInv' /\ SendsFresh
BY OneLookup

\* Where the queries start.
LEMMA EntryFits ==
    ASSUME NEW k \in Kinds
    PROVE  /\ Entry[k] \in Places \ (Loops \cup Ends \cup {"begins", "unused"}) /\ Entry[k] # "no_url"
           /\ Carries(Entry[k]) \subseteq (IF k = "stream" THEN {"arl", "deezer"}
                                           ELSE IF k \in {"deezer", "deezerList"} THEN {"deezer"} ELSE {})
           /\ Entry[k] \in AlbumPlaces => k = "amazonList"
           /\ Entry[k] \in {"url", "radio"} => k \in {"url", "stations"}
           /\ k \in SpotifyKinds => Entry[k] \in {"sp_track", "sp_list", "sp_artist"}
           /\ k \in TidalKinds => Entry[k] \in {"td_track", "td_list"}
           /\ k \in SearchKinds => Entry[k] \in SearchPlaces
BY DEF Entry, Kinds, Places, SearchPlaces, Loops, Ends, Carries, ArlPlaces, VideoPlaces, AlbumPlaces, SpotifyKinds,
       TidalKinds, SearchKinds

\* The steps of a lookup, one by one.
LEMMA BeginRight ==
    ASSUME LookupInv, NEW c \in Lookups, Begin(c)
    PROVE  LookupInv' /\ SendsFresh
<1> DEFINE q == lookup[c]
           k == q.kind
<1>1. q \in Lookup /\ Right(q, flags, now) /\ q.at = "begins" /\ k \in Kinds
  BY DEF LookupInv, Begin, Lookup
<1>2. PICK known \in BOOLEAN, watch \in BOOLEAN, asked \in 0..MaxTracks + 1 : Begins(c, known, watch, asked)
  BY Zenon DEF Begin, Begins
<1> DEFINE guessed == k = "spotifyArtist" \/ (k \in Classified /\ ~known)
           lim == IF guessed \/ k = "audius" THEN MaxTracks ELSE LimitOf(asked)
           g == guessed /\ k \in {"soundcloud", "soundcloudSet", "deezer", "deezerList"}
           u == IF k \in {"stations", "url"} THEN 1 ELSE 0
           r == [q EXCEPT !.limit = lim, !.watch = watch, !.url = u, !.guess = g]
           off == k \in {"deezer", "deezerList"} /\ "deezer" \notin flags
<1>3. lim \in 1..MaxTracks /\ lim \in Nat
  BY ResolverAssumption DEF LimitOf
<1>4. g \in BOOLEAN /\ (g => k \in GuessKinds) /\ u \in Nat /\ (k \in {"stations", "url"} => u \in Streams)
  BY ResolverAssumption DEF GuessKinds
<1>5. \/ off /\ lookup' = [lookup EXCEPT ![c] = Arrive(r, "throw")]
      \/ /\ k = "playlist" /\ "ytPlayback" \in flags
         /\ \/ lookup' = [lookup EXCEPT ![c] = Arrive([r EXCEPT !.by = {"video"}], "done")]
            \/ lookup' = [lookup EXCEPT ![c] = Arrive(r, "video")]
      \/ ~off /\ lookup' = [lookup EXCEPT ![c] = Arrive(r, Entry[k])]
  BY <1>2 DEF Begins
<1> HIDE DEF lim, g, u, q, guessed
<1>6. r \in Lookup /\ r.limit = lim /\ r.url = u /\ r.guess = g /\ r.kind = k /\ r.by = q.by
  BY <1>1, <1>3, <1>4 DEF Lookup
<1>7. Keeps(r, flags) /\ r.limit \in 1..MaxTracks
  <2>1. Founded(r, flags)
    BY <1>1, <1>6 DEF Right, Keeps, Founded
  <2> QED
    BY <1>3, <1>4, <1>6, <2>1 DEF Keeps
<1>8. UNCHANGED <<flags, links, now>> /\ TokensRight'
  BY DEF Begin, LookupInv, TokensRight
<1>9. Fits(q, "begins", flags)
  BY <1>1 DEF Right
<1> HIDE DEF r, k
<1>10. CASE off /\ lookup' = [lookup EXCEPT ![c] = Arrive(r, "throw")]
  <2>1. Fits(r, "throw", flags)
    BY <1>6, <1>10 DEF Fits, SearchKinds, SpotifyKinds, TidalKinds, Carries, ArlPlaces, VideoPlaces, AlbumPlaces
  <2>2. "throw" \in (Places \cup {"no_url"}) \ (Loops \cup {"begins", "unused"})
    BY DEF Places, Ends, Loops
  <2> HIDE DEF off
  <2>3. Right(Arrive(r, "throw"), flags, now) /\ ~Arrive(r, "throw").sent
    BY <1>7, <2>1, <2>2, ArriveRight
  <2> QED
    BY <1>8, <1>10, <2>3, OneGoes
<1>11. CASE k = "playlist" /\ "ytPlayback" \in flags
            /\ lookup' = [lookup EXCEPT ![c] = Arrive([r EXCEPT !.by = {"video"}], "done")]
  <2> DEFINE v == [r EXCEPT !.by = {"video"}]
  <2>1. v \in Lookup /\ v.by = {"video"} /\ v.limit = r.limit /\ v.guess = r.guess /\ v.kind = r.kind /\ v.at = r.at
    BY <1>6 DEF Lookup, Sources
  <2> HIDE DEF v
  <2>2. Keeps(v, flags) /\ v.limit \in 1..MaxTracks
    BY <1>7, <1>11, <2>1 DEF Keeps, Founded
  <2>3. Fits(v, "done", flags)
    BY <1>6, <1>11, <2>1 DEF Fits, Ends, SpotifyKinds, TidalKinds, Carries, ArlPlaces, VideoPlaces, AlbumPlaces
  <2>4. "done" \in (Places \cup {"no_url"}) \ (Loops \cup {"begins", "unused"})
    BY DEF Places, Ends, Loops
  <2>5. Right(Arrive(v, "done"), flags, now) /\ ~Arrive(v, "done").sent
    BY <2>2, <2>3, <2>4, ArriveRight
  <2> QED
    BY <1>8, <1>11, <2>5, OneGoes DEF v
<1>12. CASE k = "playlist" /\ "ytPlayback" \in flags /\ lookup' = [lookup EXCEPT ![c] = Arrive(r, "video")]
  <2>1. Fits(r, "video", flags)
    BY <1>6, <1>12 DEF Fits, SearchPlaces, SpotifyKinds, TidalKinds, Carries, ArlPlaces, VideoPlaces, AlbumPlaces
  <2>2. "video" \in (Places \cup {"no_url"}) \ (Loops \cup {"begins", "unused"})
    BY DEF Places, SearchPlaces, Loops
  <2>3. Right(Arrive(r, "video"), flags, now) /\ ~Arrive(r, "video").sent
    BY <1>7, <2>1, <2>2, ArriveRight
  <2> QED
    BY <1>8, <1>12, <2>3, OneGoes
<1>13. CASE ~off /\ lookup' = [lookup EXCEPT ![c] = Arrive(r, Entry[k])]
  <2> DEFINE to == Entry[k]
  <2>0. k \in Kinds
    BY <1>1 DEF k
  <2>1. to \in Places \ (Loops \cup Ends \cup {"begins", "unused"}) /\ to # "no_url"
    BY <2>0, EntryFits
  <2>2. Carries(to) \subseteq flags
    <3>1. k = "stream" => Flags \subseteq flags
      BY <1>9 DEF Fits, k
    <3> QED
      BY <1>13, <2>0, <3>1, EntryFits DEF Flags
  <2>3. /\ to \in AlbumPlaces => k = "amazonList"
        /\ to \in {"url", "radio"} => k \in {"url", "stations"}
        /\ k \in SpotifyKinds => to \in {"sp_track", "sp_list", "sp_artist"}
        /\ k \in TidalKinds => to \in {"td_track", "td_list"}
        /\ k \in SearchKinds => to \in SearchPlaces
    BY <2>0, EntryFits
  <2> HIDE DEF to, off
  <2>4. to \notin {"nothing", "throw"}
    BY <2>1 DEF Ends
  <2>5. Fits(r, to, flags)
    BY <1>4, <1>6, <2>1, <2>2, <2>3, <2>4 DEF Fits
  <2>6. Right(Arrive(r, to), flags, now) /\ ~Arrive(r, to).sent
    BY <1>7, <2>1, <2>5, ArriveRight
  <2> QED
    BY <1>8, <1>13, <2>6, OneGoes DEF to
<1> QED
  BY <1>5, <1>10, <1>11, <1>12, <1>13

LEMMA RefuseRight ==
    ASSUME LookupInv, NEW c \in Lookups, Refuse(c)
    PROVE  LookupInv' /\ SendsFresh
<1> DEFINE q == lookup[c]
           to == Without(q.at)
<1>1. Right(q, flags, now) /\ q.at \in Stages /\ ~(Needs(q.at) \subseteq flags) /\ Goes(c, q, to)
  BY DEF LookupInv, Refuse
<1>2. q.at \notin Ends \cup {"begins", "unused"}
  BY <1>1, RouteRows DEF Stages, RowFits, RowPlaces
<1>3. /\ to \in Places /\ to \notin Loops \cup AlbumPlaces \cup {"url", "radio", "begins", "unused", "done", "nothing"}
      /\ Carries(to) = {}
      /\ q.at \in SearchPlaces => to \in SearchPlaces \/ (to = "throw" /\ Needs(q.at) \subseteq YouTube)
  BY <1>1, WithoutFits
<1>4. /\ q.at \in {"sp_track", "sp_list", "sp_artist", "td_track", "td_list"} => to = "throw"
      /\ "throw" \notin SearchPlaces
  BY DEF Without, SearchPlaces
<1>5. Keeps(q, flags) /\ q.limit \in 1..MaxTracks /\ Fits(q, q.at, flags)
  BY <1>1, <1>2 DEF Right, Keeps
<1> HIDE DEF q, to
<1>6. Fits(q, to, flags)
  <2>1. q.kind \in SpotifyKinds => "spotify" \in flags \/ to = "throw"
    BY <1>2, <1>4, <1>5 DEF Fits, Ends
  <2>2. q.kind \in TidalKinds => "tidal" \in flags \/ to = "throw"
    BY <1>2, <1>4, <1>5 DEF Fits, Ends
  <2>3. q.kind \in SearchKinds => q.at \in SearchPlaces
    BY <1>2, <1>5 DEF Fits
  <2>4. q.kind \in SearchKinds /\ to \in {"nothing", "throw"} => ~(YouTube \subseteq flags)
    BY <1>1, <1>3, <1>4, <2>3
  <2>5. q.kind \in SearchKinds => to \in SearchPlaces \cup Ends
    BY <1>3, <2>3 DEF Ends
  <2> QED
    BY <1>3, <2>1, <2>2, <2>4, <2>5 DEF Fits
<1>7. UNCHANGED <<flags, links, now>> /\ TokensRight'
  BY DEF Refuse, LookupInv, TokensRight
<1>8. \E n : Right(n, flags, now) /\ ~n.sent /\ lookup' = [lookup EXCEPT ![c] = n]
  BY <1>1, <1>3, <1>5, <1>6, GoesRight
<1> QED
  BY <1>7, <1>8, OneGoes

LEMMA GetTokenRight ==
    ASSUME LookupInv, NEW c \in Lookups, GetToken(c)
    PROVE  LookupInv' /\ SendsFresh
<1> DEFINE q == lookup[c]
           p == Uses(q.at)
           a == [q EXCEPT !.sent = TRUE]
           b == [q EXCEPT !.asked = now]
<1>1. q \in Lookup /\ Right(q, flags, now) /\ p # "none" /\ now \in Nat
  BY DEF LookupInv, GetToken
<1>2. p \in {"spotify", "deezer"}
  BY <1>1 DEF Uses
<1>3. \/ tokens[p].until > now + Margin(p) /\ lookup' = [lookup EXCEPT ![c] = a]
      \/ lookup' = [lookup EXCEPT ![c] = b]
  BY DEF GetToken
<1>4. UNCHANGED <<flags, links, now>> /\ TokensRight' /\ tokens' = tokens
  BY DEF GetToken, LookupInv, TokensRight
<1>5. a \in Lookup /\ b \in Lookup
  BY <1>1 DEF Lookup
<1>6. /\ a.kind = q.kind /\ a.at = q.at /\ a.guess = q.guess /\ a.limit = q.limit /\ a.asked = q.asked /\ a.busy = q.busy
      /\ a.next = q.next /\ a.results = q.results /\ a.url = q.url /\ a.youtube = q.youtube /\ a.by = q.by
  BY <1>1 DEF Lookup
<1>7. /\ b.kind = q.kind /\ b.at = q.at /\ b.guess = q.guess /\ b.limit = q.limit /\ b.asked = now /\ b.busy = q.busy
      /\ b.next = q.next /\ b.results = q.results /\ b.url = q.url /\ b.youtube = q.youtube /\ b.by = q.by
      /\ b.sent = q.sent
  BY <1>1 DEF Lookup
<1>8. TokensRight
  BY DEF LookupInv
<1> HIDE DEF a, b, q, p
<1>9. Right(a, flags, now)
  BY <1>1, <1>5, <1>6 DEF Right, Keeps, Founded, Fits, Ordered, Timely
<1>10. Right(b, flags, now)
  <2>1. Keeps(b, flags) /\ Fits(b, b.at, flags) /\ Ordered(b)
    BY <1>1, <1>5, <1>7 DEF Right, Keeps, Founded, Fits, Ordered
  <2>2. Timely(b, now)
    BY <1>1, <1>7, ResolverAssumption DEF Timely, p
  <2> QED
    BY <2>1, <2>2 DEF Right
<1>11. CASE tokens[p].until > now + Margin(p) /\ lookup' = [lookup EXCEPT ![c] = a]
  <2>1. now < tokens[p].good
    <3>1. tokens[p].until \in Nat /\ tokens[p].good \in Nat /\ tokens[p].until <= tokens[p].good /\ Margin(p) \in {0, 1}
      BY <1>2, <1>8 DEF TokensRight, Session, Margin
    <3> QED
      BY <1>1, <1>11, <3>1
  <2> QED
    BY <1>4, <1>9, <1>11, <2>1, OneLookup DEF p, q
<1>12. CASE lookup' = [lookup EXCEPT ![c] = b]
  BY <1>4, <1>7, <1>10, <1>12, OneLookup DEF q
<1> QED
  BY <1>3, <1>11, <1>12

LEMMA TokenAnswerRight ==
    ASSUME LookupInv, NEW c \in Lookups, TokenAnswer(c)
    PROVE  LookupInv' /\ SendsFresh
<1> DEFINE q == lookup[c]
           p == Uses(q.at)
<1>1. q \in Lookup /\ Right(q, flags, now) /\ q.asked # 0 /\ now \in Nat /\ TokensRight
  BY DEF LookupInv, TokenAnswer
<1>2. p \in {"spotify", "deezer"} /\ q.asked \in Nat /\ q.asked <= now /\ now <= q.asked + Timeout
  BY <1>1 DEF Right, Timely, Uses, Lookup
<1>3. UNCHANGED <<flags, links, now>>
  BY DEF TokenAnswer
<1>4. /\ q.at \notin Ends \cup Loops \cup {"begins", "unused"} /\ q.at \notin SearchPlaces
      /\ p = "spotify" => q.at \notin {"td_track", "td_list"}
      /\ p = "deezer" => q.at \notin {"sp_track", "sp_list", "sp_artist", "td_track", "td_list"}
  BY <1>2 DEF Uses, Ends, Loops, SearchPlaces
<1>5. CASE \E given \in q.asked..now :
             /\ tokens' = [tokens EXCEPT ![p] = [until |-> Until(q.asked), good |-> given + Life]]
             /\ lookup' = [lookup EXCEPT ![c].sent = TRUE, ![c].asked = 0]
  <2> DEFINE n == [q EXCEPT !.sent = TRUE, !.asked = 0]
  <2>1. PICK given \in q.asked..now :
          /\ tokens' = [tokens EXCEPT ![p] = [until |-> Until(q.asked), good |-> given + Life]]
          /\ lookup' = [lookup EXCEPT ![c].sent = TRUE, ![c].asked = 0]
    BY <1>5
  <2>2. n \in Lookup
    BY <1>1 DEF Lookup
  <2>3. /\ n.kind = q.kind /\ n.at = q.at /\ n.guess = q.guess /\ n.limit = q.limit /\ n.asked = 0 /\ n.busy = q.busy
        /\ n.next = q.next /\ n.results = q.results /\ n.url = q.url /\ n.youtube = q.youtube /\ n.by = q.by
    BY <1>1 DEF Lookup
  <2>4. lookup' = [lookup EXCEPT ![c] = n]
    <3>1. lookup \in [Lookups -> Lookup]
      BY DEF LookupInv
    <3> QED
      BY <2>1, <3>1
  <2> HIDE DEF n, q, p
  <2>5. Right(n, flags, now)
    BY <1>1, <2>2, <2>3 DEF Right, Keeps, Founded, Fits, Ordered, Timely
  <2>6. given \in Nat /\ Life \in Nat /\ Timeout \in Nat /\ Timeout < Life /\ q.asked <= given
    BY <1>1, <1>2, ResolverAssumption
  <2>7. now < given + Life /\ Until(q.asked) \in Nat /\ given + Life \in Nat /\ Until(q.asked) <= given + Life
    BY <1>1, <1>2, <2>6 DEF Until
  <2> DEFINE s == [until |-> Until(q.asked), good |-> given + Life]
  <2>8. s \in Session /\ s.until <= s.good /\ now < s.good
    BY <2>7 DEF Session
  <2> HIDE DEF s
  <2>9. TokensRight' /\ now < tokens'[p].good
    <3>1. tokens' = [tokens EXCEPT ![p] = s]
      BY <2>1 DEF s
    <3> QED
      BY <1>1, <1>2, <2>8, <3>1 DEF TokensRight
  <2> QED
    BY <1>3, <2>4, <2>5, <2>9, OneLookup DEF q, p
<1>6. CASE Goes(c, q, IF p = "deezer" THEN "no_url" ELSE "throw") /\ UNCHANGED tokens
  <2> DEFINE to == IF p = "deezer" THEN "no_url" ELSE "throw"
  <2>1. Keeps(q, flags) /\ q.limit \in 1..MaxTracks /\ Fits(q, q.at, flags)
    BY <1>1, <1>4 DEF Right, Keeps
  <2>2. q.kind \notin SearchKinds
    BY <1>4, <2>1 DEF Fits
  <2>3. to \in (Places \cup {"no_url"}) \ {"begins", "unused"} /\ Goes(c, q, to)
    BY <1>6 DEF Places, Ends
  <2>4. Fits(q, to, flags)
    BY <1>2, <1>4, <2>1, <2>2 DEF Fits, Carries, ArlPlaces, VideoPlaces, AlbumPlaces, Ends
  <2>5. TokensRight'
    BY <1>1, <1>6 DEF TokensRight
  <2> HIDE DEF q, to
  <2>6. \E n : Right(n, flags, now) /\ ~n.sent /\ lookup' = [lookup EXCEPT ![c] = n]
    BY <2>1, <2>3, <2>4, GoesRight
  <2> QED
    BY <1>3, <2>5, <2>6, OneGoes
<1> QED
  BY <1>5, <1>6 DEF TokenAnswer

LEMMA AnswerRight ==
    ASSUME LookupInv, NEW c \in Lookups, Answer(c)
    PROVE  LookupInv' /\ SendsFresh
<1> DEFINE q == lookup[c]
<1>1. q \in Lookup /\ Right(q, flags, now) /\ TokensRight /\ Needs(q.at) \subseteq flags
      /\ UNCHANGED <<flags, links, now>>
  BY DEF LookupInv, Answer, Ready
<1>2. PICK e \in Route : Answered(c, e)
  BY DEF Answer
<1>3. RowFits(e) /\ e.at = q.at /\ MayAnswer(c, e.got)
  BY <1>2, RouteRows DEF Answered
<1>4. e.at \notin Ends \cup {"begins", "unused"}
  BY <1>3 DEF RowFits, RowPlaces
<1>5. Keeps(q, flags) /\ Fits(q, e.at, flags) /\ q.limit \in 1..MaxTracks /\ FlagsKnown(e.at) \subseteq flags
  BY <1>1, <1>3, <1>4 DEF Right, Keeps, Fits, FlagsKnown
<1> DEFINE asks == Asks(e.at) /\ (e.at \in {"text_playdl", "search", "page_search"} \/ YouTube \subseteq flags)
           by == IF e.to = "done" THEN {e.got} ELSE q.by
           yt == q.youtube \/ (asks /\ e.got # "deezer")
           r == [q EXCEPT !.by = by, !.youtube = yt]
<1>6. Goes(c, r, e.to) /\ tokens' = IF Drops(e.at, e.got) THEN [tokens EXCEPT !["deezer"] = [until |-> 0, good |-> 0]] ELSE tokens
  BY <1>2 DEF Answered
<1>7. TokensRight'
  <2> DEFINE z == [until |-> 0, good |-> 0]
  <2>1. z \in Session /\ z.until <= z.good
    BY DEF Session
  <2> HIDE DEF z
  <2>2. tokens' = tokens \/ tokens' = [tokens EXCEPT !["deezer"] = z]
    BY <1>6 DEF z
  <2> QED
    BY <1>1, <2>1, <2>2 DEF TokensRight
<1>8. yt \in BOOLEAN /\ (q.youtube => yt) /\ (asks /\ e.got # "deezer" => yt)
  BY <1>1 DEF Lookup
<1>9. by \in SUBSET Sources
  BY <1>1, <1>3 DEF Lookup, RowFits, IsRow
<1> HIDE DEF q, by, yt
<1>10. r \in Lookup /\ r.by = by /\ r.youtube = yt /\ r.kind = q.kind /\ r.guess = q.guess /\ r.limit = q.limit
       /\ r.at = q.at /\ r.url = q.url
  BY <1>1, <1>8, <1>9 DEF Lookup
<1> HIDE DEF r
<1>11. Founded(r, flags)
  <2>1. CASE e.to # "done"
    BY <1>5, <1>10, <2>1 DEF by, Keeps, Founded
  <2>2. CASE e.to = "done"
    <3>1. by = {e.got} /\ RowFlags(e)
      BY <1>3, <2>2 DEF by, RowFits
    <3>2. ASSUME e.got = "search" PROVE YouTube \subseteq flags
      <4>1. CASE e.at \notin Mirrors
        BY <1>5, <2>2, <3>1, <3>2, <4>1 DEF RowFlags, YouTube
      <4>2. CASE e.at \in Mirrors
        BY <1>3, <3>2, <4>2 DEF MayAnswer, MirrorAnswers, CrossAnswers, Mirrors, q
      <4> QED
        BY <4>1, <4>2
    <3>3. ASSUME e.got = "video" PROVE "ytPlayback" \in flags
      BY <1>5, <2>2, <3>1, <3>3 DEF RowFlags
    <3>4. ASSUME e.got = "deezer" PROVE "arl" \in flags /\ "deezer" \in flags
      <4>1. CASE e.at \notin {"mirror", "amz_mirror"}
        BY <1>5, <2>2, <3>1, <3>4, <4>1 DEF RowFlags
      <4>2. CASE e.at \in {"mirror", "amz_mirror"}
        BY <1>3, <3>4, <4>2 DEF MayAnswer, MirrorAnswers, CrossAnswers, q
      <4> QED
        BY <4>1, <4>2
    <3> QED
      BY <1>10, <3>1, <3>2, <3>3, <3>4 DEF Founded
  <2> QED
    BY <2>1, <2>2
<1>12. Keeps(r, flags) /\ r.limit \in 1..MaxTracks
  BY <1>5, <1>10, <1>11 DEF Keeps
<1>13. Fits(r, e.to, flags)
  <2>1. Carries(e.to) \subseteq flags
    BY <1>3, <1>5 DEF RowFits, RowFlags
  <2>2. /\ e.to \in AlbumPlaces => r.kind = "amazonList"
        /\ e.to \in {"url", "radio"} => r.url \in Streams
        /\ e.to # "begins"
    BY <1>3, <1>5, <1>10 DEF RowFits, RowPlaces, Fits
  <2>3. r.kind \in SpotifyKinds => "spotify" \in flags
    <3>1. e.at \in {"sp_track", "sp_list", "sp_artist"} => "spotify" \in flags
      BY <1>1, <1>3 DEF Needs
    <3> QED
      BY <1>4, <1>5, <1>10, <3>1 DEF Fits, Ends
  <2>4. r.kind \in TidalKinds => "tidal" \in flags
    <3>1. e.at \in {"td_track", "td_list"} => "tidal" \in flags
      BY <1>1, <1>3 DEF Needs
    <3> QED
      BY <1>4, <1>5, <1>10, <3>1 DEF Fits, Ends
  <2>5. r.kind \in SearchKinds => e.at \in SearchPlaces
    BY <1>4, <1>5, <1>10 DEF Fits
  <2>6. r.kind \in SearchKinds =>
          /\ e.to \in SearchPlaces \cup Ends
          /\ e.to \in {"nothing", "throw"} /\ YouTube \subseteq flags => yt
    BY <1>3, <1>8, <2>5 DEF RowFits, RowSearches
  <2> QED
    BY <1>10, <2>1, <2>2, <2>3, <2>4, <2>6 DEF Fits
<1>14. e.to \in (Places \cup {"no_url"}) \ {"begins", "unused"}
  BY <1>3 DEF RowFits, IsRow, RowPlaces
<1>15. \E n : Right(n, flags, now) /\ ~n.sent /\ lookup' = [lookup EXCEPT ![c] = n]
  BY <1>6, <1>12, <1>13, <1>14, GoesRight
<1> QED
  BY <1>1, <1>7, <1>15, OneGoes

\* What one more answered entry makes of the results.
LEMMA PlaceFiles ==
    ASSUME NEW s \in Seq(Nat), Filed(s), Len(s) <= MaxItems, NEW i \in 1..Len(s), NEW v \in {Null, i}
    PROVE  LET res == Place(s, i, v) IN
           /\ res \in Seq(Nat) /\ Len(res) = Len(s) /\ Filed(res)
           /\ Cardinality(Found(res)) <= Cardinality(Found(s)) + 1
           /\ (v = i => Found(res) # {})
<1> DEFINE res == Place(s, i, v)
<1>1. res = [s EXCEPT ![i] = v]
  BY DEF Place
<1>2. i \in Nat /\ i # 0 /\ i <= MaxItems /\ v \in Nat /\ Len(s) \in Nat /\ MaxItems \in Nat
  BY ResolverAssumption DEF Null
<1>3. res \in Seq(Nat) /\ Len(res) = Len(s) /\ DOMAIN res = DOMAIN s /\ i \in DOMAIN s
      /\ res[i] = v /\ \A j \in DOMAIN s : j # i => res[j] = s[j]
  BY <1>1, <1>2
<1> HIDE DEF res
<1>4. Filed(res)
  <2>1. ASSUME NEW j \in DOMAIN res PROVE res[j] \in {Hole, Null, j}
    BY <1>3, <2>1 DEF Filed
  <2> QED
    BY <2>1 DEF Filed
<1>5. Found(res) \subseteq Found(s) \cup {i}
  BY <1>3 DEF Found
<1>6. Cardinality(Found(res)) <= Cardinality(Found(s)) + 1
  <2> DEFINE A == Found(s)
             B == Found(res)
  <2>1. IsFiniteSet(A) /\ Cardinality(A) \in Nat
    BY FoundSet
  <2>2. IsFiniteSet(B) /\ Cardinality(B) \in Nat
    BY <1>3, FoundSet
  <2>3. B \subseteq A \cup {i}
    BY <1>5
  <2> HIDE DEF A, B
  <2>4. IsFiniteSet(A \cup {i}) /\ Cardinality(A \cup {i}) <= Cardinality(A) + 1
    <3>1. CASE i \in A
      <4>1. A \cup {i} = A /\ Cardinality(A) <= Cardinality(A) + 1
        BY <2>1, <3>1
      <4> QED
        BY ONLY <2>1, <4>1
    <3>2. CASE i \notin A
      <4>1. IsFiniteSet(A \cup {i}) /\ Cardinality(A \cup {i}) = Cardinality(A) + 1
        BY <2>1, <3>2, FS_AddElement
      <4> QED
        BY <2>1, <4>1
    <3> QED
      BY <3>1, <3>2
  <2>5. Cardinality(B) <= Cardinality(A \cup {i}) /\ Cardinality(A \cup {i}) \in Nat
    BY <2>3, <2>4, FS_Subset, FS_CardinalityType
  <2>6. Cardinality(B) <= Cardinality(A) + 1
    <3> DEFINE a == Cardinality(A)
               b == Cardinality(B)
               d == Cardinality(A \cup {i})
    <3>1. a \in Nat /\ b \in Nat /\ d \in Nat /\ b <= d /\ d <= a + 1
      BY <2>1, <2>2, <2>4, <2>5
    <3> HIDE DEF a, b, d
    <3>2. b <= a + 1
      BY <3>1
    <3> QED
      BY <3>2 DEF a, b
  <2> QED
    BY <2>6 DEF A, B
<1>7. v = i => i \in Found(res)
  BY <1>2, <1>3 DEF Found, Hole, Null
<1> QED
  BY <1>3, <1>4, <1>6, <1>7 DEF res

LEMMA ItemRight ==
    ASSUME LookupInv, NEW c \in Lookups, NEW i, Item(c, i)
    PROVE  LookupInv' /\ SendsFresh
<1> DEFINE q == lookup[c]
           l == q.at
           s == q.results
<1>1. q \in Lookup /\ Right(q, flags, now) /\ l \in Loops /\ i \in q.busy
      /\ UNCHANGED <<flags, links, now>> /\ TokensRight'
  BY DEF LookupInv, Item, TokensRight
<1>2. PICK got \in Loop(l).each : Yields(c, i, got)
  BY DEF Item
<1>3. LoopFits(l)
  BY <1>1, LoopsFit
<1>4. l \notin Ends \cup {"begins", "unused"} \cup {"sp_track", "sp_list", "sp_artist", "td_track", "td_list"}
  BY <1>1 DEF Loops, Ends
<1>5. Keeps(q, flags) /\ Fits(q, l, flags) /\ Ordered(q) /\ q.limit \in 1..MaxTracks /\ q.limit \in Nat
  BY <1>1, <1>4, ResolverAssumption DEF Right, Keeps
<1>6. /\ s \in Seq(Nat) /\ Len(s) \in 1..MaxItems /\ Len(s) <= MaxItems /\ Len(s) \in Nat /\ Filed(s)
      /\ q.busy \subseteq 1..Len(s) /\ i \in 1..Len(s) /\ q.next \in Nat /\ q.next # 0
  BY <1>1, <1>5, ResolverAssumption DEF Ordered, Lookup
<1> DEFINE v == IF got = "fails" THEN Null ELSE i
           res == Place(s, i, v)
           full == Loop(l).take = "until" /\ Cardinality(Found(res)) >= q.limit
           more == q.next <= Len(res) /\ ~full
           busy == (q.busy \ {i}) \cup IF more THEN {q.next} ELSE {}
           by == IF got = "fails" THEN q.by ELSE q.by \cup {got}
           next == IF more THEN q.next + 1 ELSE q.next
           yt == q.youtube \/ ("search" \in Loop(l).each /\ got # "deezer")
           r == [q EXCEPT !.by = by, !.busy = busy, !.next = next, !.results = res, !.youtube = yt]
<1>7. lookup' = [lookup EXCEPT ![c] =
           IF busy # {} THEN r
           ELSE IF Found(res) = {} THEN Arrive(r, Loop(l).empty)
           ELSE [Arrive(r, "done") EXCEPT !.results = Kept(res)]]
  BY <1>2, Zenon DEF Yields
<1>8. /\ res \in Seq(Nat) /\ Len(res) = Len(s) /\ Filed(res)
      /\ Cardinality(Found(res)) <= Cardinality(Found(s)) + 1
      /\ (got # "fails" => Found(res) # {})
  <2>1. v \in {Null, i} /\ (got # "fails" => v = i)
    OBVIOUS
  <2> HIDE DEF v, s
  <2> QED
    BY <1>6, <2>1, PlaceFiles
<1>9. by \in SUBSET Sources /\ Founded([q EXCEPT !.by = by], flags) /\ q.by \subseteq by
  <2>1. q.by \in SUBSET Sources
    BY <1>1 DEF Lookup
  <2>2. LoopEach(l)
    BY <1>3 DEF LoopFits
  <2>3. got # "fails" =>
          /\ got \in Sources
          /\ got = "search" => YouTube \subseteq flags
          /\ got = "video" => "ytPlayback" \in flags
          /\ got = "deezer" => "deezer" \in flags /\ ("arl" \in flags \/ q.kind = "amazonList")
    <3>1. Carries(l) \subseteq flags /\ (l = "amz_deezer_entries" => q.kind = "amazonList")
      BY <1>5 DEF Fits, AlbumPlaces
    <3>2. Carries("dz_entries") = {"arl", "deezer"}
      BY DEF Carries, ArlPlaces, VideoPlaces
    <3>3. Carries("amz_deezer_entries") = {"deezer"}
      BY DEF Carries, ArlPlaces, VideoPlaces
    <3>4. CASE Loop(l).each \in {MirrorAnswers, CrossAnswers}
      BY <3>4 DEF MirrorAnswers, CrossAnswers, Sources
    <3>5. CASE Loop(l).each \subseteq {"video", "fails"} /\ "ytPlayback" \in Carries(l)
      BY <3>1, <3>5 DEF Sources
    <3>6. CASE Loop(l).each = {"deezer", "fails"} /\ l \in {"dz_entries", "amz_deezer_entries"}
      BY <3>1, <3>2, <3>3, <3>6 DEF Sources
    <3>7. CASE Loop(l).each \subseteq {"soundcloud", "audius", "fails"}
      BY <3>7 DEF Sources
    <3> QED
      BY <2>2, <3>4, <3>5, <3>6, <3>7 DEF LoopEach
  <2>4. by \in SUBSET Sources /\ q.by \subseteq by /\ (\A x \in by : x \in q.by \/ (x = got /\ got # "fails"))
    BY <2>1, <2>3
  <2> HIDE DEF by, q
  <2>5. [q EXCEPT !.by = by].by = by /\ [q EXCEPT !.by = by].kind = q.kind
    BY <1>1 DEF Lookup
  <2>6. Founded(q, flags)
    BY <1>5 DEF Keeps
  <2> QED
    BY <2>3, <2>4, <2>5, <2>6 DEF Founded
<1>10. yt \in BOOLEAN /\ (q.youtube => yt) /\ ("search" \in Loop(l).each /\ got # "deezer" => yt)
  BY <1>1 DEF Lookup
<1>11. /\ busy \subseteq 1..Len(res) /\ busy \in SUBSET Nat /\ next \in Nat /\ next # 0
       /\ busy \subseteq (q.busy \ {i}) \cup {q.next} /\ (q.next \in busy /\ q.next \notin q.busy \ {i} => ~full)
  <2>1. Len(res) \in Nat /\ q.next \in Nat /\ q.next # 0
    BY <1>6, <1>8
  <2>2. q.busy \subseteq 1..Len(res)
    BY <1>6, <1>8
  <2>3. more => q.next \in 1..Len(res)
    BY <2>1
  <2>4. 1..Len(res) \subseteq Nat
    BY <2>1
  <2> HIDE DEF res, q, full
  <2> QED
    BY <2>1, <2>2, <2>3, <2>4
<1>12. l \in Places
  BY <1>1 DEF Places
<1> HIDE DEF q, by, yt, busy, next, res, more
<1>13. r \in Lookup /\ r.by = by /\ r.youtube = yt /\ r.kind = q.kind /\ r.guess = q.guess /\ r.limit = q.limit
       /\ r.at = l /\ r.url = q.url /\ r.busy = busy /\ r.next = next /\ r.results = res /\ r.asked = q.asked
       /\ r.sent = q.sent
  BY <1>1, <1>8, <1>9, <1>10, <1>11, <1>12 DEF Lookup
<1>14. Founded(r, flags)
  <2>1. [q EXCEPT !.by = by].by = by /\ [q EXCEPT !.by = by].kind = q.kind
    BY <1>1 DEF Lookup
  <2> HIDE DEF r
  <2> QED
    BY <1>9, <1>13, <2>1 DEF Founded
<1> HIDE DEF r
<1>15. Keeps(r, flags) /\ r.limit \in 1..MaxTracks
  BY <1>5, <1>13, <1>14 DEF Keeps
<1>16. r.kind \in SpotifyKinds => "spotify" \in flags
  BY <1>4, <1>5, <1>13 DEF Fits, Ends
<1>17. r.kind \in TidalKinds => "tidal" \in flags
  BY <1>4, <1>5, <1>13 DEF Fits, Ends
<1>18. r.kind \in SearchKinds => l \in SearchPlaces
  BY <1>4, <1>5, <1>13 DEF Fits
<1>19. Cardinality(Found(res)) \in Nat /\ Cardinality(Found(s)) \in Nat /\ Cardinality(Found(res)) <= Len(res)
  BY <1>6, <1>8, FoundSet
<1>20. CASE busy # {}
  <2>1. Fits(r, l, flags)
    BY <1>4, <1>5, <1>13 DEF Fits, Ends
  <2>2. Timely(r, now)
    BY <1>1, <1>13 DEF Right, Timely
  <2>3. Ordered(r)
    <3>1. CASE l \in UntilLoops
      <4>1. Loop(l).take = "until" /\ (\E j \in Nat : q.busy = {j})
        BY <1>1, <1>3, <1>5, <3>1 DEF LoopFits, LoopTakes, Ordered
      <4>2. q.busy \ {i} = {}
        BY <1>1, <4>1
      <4>3. busy = {q.next} /\ ~full
        BY <1>11, <1>20, <4>2
      <4>4. Cardinality(Found(res)) < r.limit
        BY <1>5, <1>13, <1>19, <4>1, <4>3
      <4> QED
        BY <1>1, <1>4, <1>6, <1>8, <1>11, <1>13, <3>1, <4>3, <4>4 DEF Ordered, Ends
    <3>2. CASE l \notin UntilLoops
      <4>1. Len(s) <= r.limit
        BY <1>1, <1>5, <1>13, <3>2 DEF Ordered
      <4> QED
        BY <1>1, <1>4, <1>6, <1>8, <1>11, <1>13, <3>2, <4>1 DEF Ordered, Ends
    <3> QED
      BY <3>1, <3>2
  <2>4. Right(r, flags, now)
    BY <1>13, <1>15, <2>1, <2>2, <2>3 DEF Right
  <2>5. lookup' = [lookup EXCEPT ![c] = r]
    BY <1>7, <1>20
  <2> QED
    BY <1>1, <1>13, <2>4, <2>5, OneLookup DEF q
<1>21. CASE busy = {} /\ Found(res) = {}
  <2> DEFINE to == Loop(l).empty
  <2>1. /\ to \in Places \ (Loops \cup {"begins", "unused"}) /\ to \notin AlbumPlaces \cup {"url", "radio", "done"}
        /\ Carries(to) \subseteq Carries(l)
        /\ l \in SearchPlaces =>
             to \in SearchPlaces \/ (to = "nothing" /\ Loop(l).each = MirrorAnswers)
    BY <1>3 DEF LoopFits, LoopEnds
  <2>2. Carries(to) \subseteq flags
    BY <1>5, <2>1 DEF Fits
  <2>3. got = "fails"
    BY <1>8, <1>21
  <2>4. r.kind \in SearchKinds =>
          /\ to \in SearchPlaces \cup Ends
          /\ to \in {"nothing", "throw"} /\ YouTube \subseteq flags => r.youtube
    <3>1. "nothing" \notin SearchPlaces /\ "throw" \notin SearchPlaces
      BY DEF SearchPlaces
    <3>2. YouTube \subseteq flags => "search" \in MirrorAnswers
      BY DEF MirrorAnswers, CrossAnswers
    <3> QED
      BY <1>10, <1>13, <1>18, <2>1, <2>3, <3>1, <3>2 DEF Ends
  <2> HIDE DEF to, l
  <2>5. Fits(r, to, flags)
    BY <1>16, <1>17, <2>1, <2>2, <2>4 DEF Fits
  <2>6. Right(Arrive(r, to), flags, now) /\ ~Arrive(r, to).sent
    BY <1>15, <2>1, <2>5, ArriveRight
  <2>7. lookup' = [lookup EXCEPT ![c] = Arrive(r, to)]
    BY <1>7, <1>21 DEF to
  <2> QED
    BY <1>1, <2>6, <2>7, OneGoes
<1>22. CASE busy = {} /\ Found(res) # {}
  <2> DEFINE d == Arrive(r, "done")
             n == [d EXCEPT !.results = Kept(res)]
  <2>1. Landing(r, "done") = "done" /\ "done" \in Places /\ "done" \notin Loops
    BY DEF Landing, Places, Ends, Loops
  <2>2. Arrived(d, r, "done")
    BY <1>15, <2>1, ArriveRecord DEF Keeps
  <2>3. Kept(res) \in Seq(Nat) /\ Len(Kept(res)) = Cardinality(Found(res))
        /\ \A j, k \in DOMAIN Kept(res) : j < k => Kept(res)[j] < Kept(res)[k]
    BY <1>8, KeptInOrder
  <2> HIDE DEF d
  <2>4. n \in Lookup
    BY <2>2, <2>3 DEF Arrived, Lookup
  <2>5. n.at = "done" /\ (n.guess => r.guess) /\ n.kind = r.kind /\ n.url = r.url /\ n.youtube = r.youtube
        /\ n.by = r.by /\ n.limit = r.limit /\ n.asked = 0 /\ n.results = Kept(res) /\ n.sent = FALSE
    BY <2>2 DEF Arrived, Lookup
  <2> HIDE DEF n
  <2>6. Fits(n, "done", flags)
    <3>1. Carries("done") = {}
      BY DEF Carries, ArlPlaces, VideoPlaces
    <3>2. "done" \notin AlbumPlaces /\ "done" \in Ends
      BY DEF AlbumPlaces, Ends
    <3> QED
      BY <1>16, <1>17, <2>5, <3>1, <3>2 DEF Fits
  <2>7. Cardinality(Found(res)) <= r.limit
    <3>1. CASE l \in UntilLoops
      <4>1. Cardinality(Found(s)) < q.limit
        BY <1>1, <1>5, <3>1 DEF Ordered
      <4> DEFINE x == Cardinality(Found(res))
                 y == Cardinality(Found(s))
                 z == q.limit
      <4>2. x \in Nat /\ y \in Nat /\ z \in Nat /\ x <= y + 1 /\ y < z
        BY <1>5, <1>8, <1>19, <4>1
      <4> HIDE DEF x, y, z
      <4>3. x <= z
        BY <4>2
      <4> QED
        BY <1>13, <4>3 DEF x, z
    <3>2. CASE l \notin UntilLoops
      <4>1. Len(s) <= q.limit
        BY <1>1, <1>5, <3>2 DEF Ordered
      <4> DEFINE x == Cardinality(Found(res))
                 y == Len(s)
                 z == q.limit
      <4>2. x \in Nat /\ y \in Nat /\ z \in Nat /\ x <= y /\ y <= z
        BY <1>5, <1>6, <1>8, <1>19, <4>1
      <4> HIDE DEF x, y, z
      <4>3. x <= z
        BY <4>2
      <4> QED
        BY <1>13, <4>3 DEF x, z
    <3> QED
      BY <3>1, <3>2
  <2>8. Right(n, flags, now)
    <3>1. Keeps(n, flags)
      BY <1>15, <2>4, <2>5 DEF Keeps, Founded
    <3>2. Ordered(n)
      BY <2>1, <2>3, <2>5, <2>7 DEF Ordered
    <3>3. Timely(n, now)
      BY <2>5 DEF Timely
    <3> QED
      BY <2>5, <2>6, <3>1, <3>2, <3>3 DEF Right
  <2>9. lookup' = [lookup EXCEPT ![c] = n]
    BY <1>7, <1>22 DEF n, d
  <2> QED
    BY <1>1, <2>5, <2>8, <2>9, OneGoes
<1> QED
  BY <1>20, <1>21, <1>22

\* A radio url is followed to another, to a stream or to play-dl.
LEMMA RadioRight ==
    ASSUME LookupInv, NEW c \in Lookups, Radio(c)
    PROVE  LookupInv' /\ SendsFresh
<1> DEFINE q == lookup[c]
           w == [Arrive(q, "done") EXCEPT !.by = {"web"}]
           n == [q EXCEPT !.url = links[q.url], !.visited = @ \cup {q.url}]
<1>1. q \in Lookup /\ Right(q, flags, now) /\ q.at = "radio"
      /\ UNCHANGED <<flags, links, now>> /\ TokensRight' /\ links \in [Streams -> Streams \cup {Dead}]
  BY DEF LookupInv, Radio, TokensRight
<1>2. \/ lookup' = [lookup EXCEPT ![c] = w]
      \/ lookup' = [lookup EXCEPT ![c] = Arrive(q, "url_info")]
      \/ links[q.url] # Dead /\ lookup' = [lookup EXCEPT ![c] = n]
  BY DEF Radio
<1>3. Keeps(q, flags) /\ Fits(q, "radio", flags) /\ q.limit \in 1..MaxTracks /\ q.url \in Streams
  BY <1>1 DEF Right, Keeps, Fits
<1>4. "radio" \notin SearchPlaces \cup Ends \cup AlbumPlaces \cup Loops /\ "radio" \in Places
  BY DEF SearchPlaces, Ends, AlbumPlaces, Loops, Places
<1>5. q.kind \notin SearchKinds /\ (q.kind \in SpotifyKinds => "spotify" \in flags)
      /\ (q.kind \in TidalKinds => "tidal" \in flags)
  BY <1>3, <1>4 DEF Fits
<1>6. Carries("done") = {} /\ Carries("url_info") = {}
  BY DEF Carries, ArlPlaces, VideoPlaces
<1>7. CASE lookup' = [lookup EXCEPT ![c] = Arrive(q, "url_info")]
  <2>1. Fits(q, "url_info", flags) /\ "url_info" \in (Places \cup {"no_url"}) \ (Loops \cup {"begins", "unused"})
    BY <1>5, <1>6 DEF Fits, AlbumPlaces, Places, Loops
  <2> HIDE DEF q
  <2>2. Right(Arrive(q, "url_info"), flags, now) /\ ~Arrive(q, "url_info").sent
    BY <1>3, <2>1, ArriveRight
  <2> QED
    BY <1>1, <1>7, <2>2, OneGoes
<1>8. CASE lookup' = [lookup EXCEPT ![c] = w]
  <2> DEFINE d == Arrive(q, "done")
  <2>1. Fits(q, "done", flags) /\ "done" \in (Places \cup {"no_url"}) \ (Loops \cup {"begins", "unused"})
        /\ Landing(q, "done") = "done" /\ "done" \in Places
    BY <1>5, <1>6 DEF Fits, AlbumPlaces, Places, Loops, Ends, Landing
  <2>2. Arrived(d, q, "done") /\ Right(d, flags, now)
    BY <1>1, <1>3, <2>1, ArriveRecord, ArriveRight
  <2> HIDE DEF d
  <2>3. w = [d EXCEPT !.by = {"web"}]
    BY DEF d
  <2>4. d \in Lookup /\ d.at = "done" /\ d.asked = 0 /\ d.sent = FALSE
    BY <2>2 DEF Arrived
  <2> HIDE DEF w
  <2>5. w \in Lookup /\ w.by = {"web"} /\ w.kind = d.kind /\ w.at = d.at /\ w.guess = d.guess /\ w.limit = d.limit
        /\ w.asked = d.asked /\ w.sent = d.sent /\ w.results = d.results /\ w.url = d.url /\ w.youtube = d.youtube
        /\ w.busy = d.busy /\ w.next = d.next
    BY <2>3, <2>4 DEF Lookup, Sources
  <2>6. Right(w, flags, now)
    BY <2>2, <2>5 DEF Right, Keeps, Founded, Fits, Ordered, Timely
  <2> QED
    BY <1>1, <1>8, <2>4, <2>5, <2>6, OneGoes
<1>9. CASE links[q.url] # Dead /\ lookup' = [lookup EXCEPT ![c] = n]
  <2>1. links[q.url] \in Streams /\ Streams \subseteq Nat
    BY <1>1, <1>3, <1>9, ResolverAssumption
  <2> DEFINE u == links[q.url]
  <2>2. n \in Lookup /\ n.url = u /\ n.kind = q.kind /\ n.at = q.at /\ n.guess = q.guess /\ n.limit = q.limit
        /\ n.asked = q.asked /\ n.sent = q.sent /\ n.results = q.results /\ n.youtube = q.youtube /\ n.by = q.by
        /\ n.busy = q.busy /\ n.next = q.next
    BY <1>1, <1>3, <2>1 DEF Lookup
  <2> HIDE DEF n, u, q
  <2>3. u \in Streams
    BY <2>1 DEF u
  <2>4. Right(n, flags, now)
    BY <1>1, <2>2, <2>3 DEF Right, Keeps, Founded, Fits, Ordered, Timely
  <2> QED
    BY <1>1, <1>9, <2>2, <2>4, OneLookup DEF q
<1> QED
  BY <1>2, <1>7, <1>8, <1>9

\* Time passes no further than the requests for tokens allow.
LEMMA TickRight ==
    ASSUME LookupInv, Tick
    PROVE  LookupInv' /\ SendsFresh
<1>1. UNCHANGED <<flags, mix, lookup, links, tokens>> /\ now' = now + 1 /\ now \in Nat \ {0} /\ now' \in Nat \ {0}
  BY DEF Tick, LookupInv
<1>2. ASSUME NEW c \in Lookups PROVE Right(lookup[c], flags, now + 1)
  <2>1. Right(lookup[c], flags, now) /\ lookup[c] \in Lookup
    BY DEF LookupInv
  <2>2. lookup[c].asked # 0 => now < lookup[c].asked + Timeout
    BY DEF Tick
  <2>3. Timely(lookup[c], now + 1)
    <3>1. lookup[c].asked \in Nat /\ Timeout \in Nat
      BY <2>1, ResolverAssumption DEF Lookup
    <3> QED
      BY <1>1, <2>1, <2>2, <3>1 DEF Right, Timely
  <2> QED
    BY <2>1, <2>3 DEF Right
<1>3. LookupInv'
  BY <1>1, <1>2 DEF LookupInv, TokensRight
<1> QED
  BY <1>1, <1>3 DEF SendsFresh

\* At first every lookup is about to begin, or there is none.
LEMMA LookupInit == SourcesInit => LookupInv
<1> SUFFICES ASSUME ResolverInit PROVE LookupInv
  BY DEF SourcesInit
<1>1. flags \subseteq Flags /\ now \in Nat \ {0}
  BY ResolverAssumption DEF ResolverInit
<1>2. TokensRight
  <2> DEFINE z == [until |-> 0, good |-> 0]
  <2>1. z \in Session /\ z.until <= z.good
    BY DEF Session
  <2> HIDE DEF z
  <2>2. tokens = [p \in {"spotify", "deezer"} |-> z]
    BY DEF ResolverInit, z
  <2> QED
    BY <2>1, <2>2 DEF TokensRight
<1>3. links \in [Streams -> Streams \cup {Dead}]
  BY DEF ResolverInit
<1> DEFINE b(k) == [NoLookup EXCEPT !.kind = k, !.at = "begins"]
<1>0. NoLookup \in Lookup
  <2>1. "unused" \in Places /\ "text" \in Kinds
    BY DEF Places, Kinds, Entry
  <2> QED
    BY <2>1 DEF Lookup, NoLookup
<1>4. ASSUME NEW k \in Kinds, k = "stream" => Flags \subseteq flags
      PROVE  Right(b(k), flags, now)
  <2>2. "begins" \in Places /\ "begins" \notin Loops \cup Ends
    BY DEF Places, Loops, Ends
  <2> DEFINE n == b(k)
  <2>3. n \in Lookup
    BY <1>0, <2>2 DEF Lookup
  <2>4. n.kind = k /\ n.at = "begins" /\ n.guess = FALSE /\ n.asked = 0 /\ n.by = {}
    BY DEF NoLookup
  <2> HIDE DEF n
  <2>5. Fits(n, "begins", flags)
    BY <1>4, <2>2, <2>4 DEF Fits, Ends, AlbumPlaces, Carries, ArlPlaces, VideoPlaces
  <2>6. Right(n, flags, now)
    BY <2>2, <2>3, <2>4, <2>5 DEF Right, Keeps, Founded, Ordered, Timely, Ends
  <2> QED
    BY <2>6 DEF n
<1>5. Right(NoLookup, flags, now)
  <2>1. "unused" \in Places /\ "unused" \notin Loops \cup Ends
    BY DEF Places, Loops, Ends
  <2>3. NoLookup.kind = "text" /\ NoLookup.at = "unused" /\ NoLookup.guess = FALSE /\ NoLookup.asked = 0
        /\ NoLookup.by = {}
    BY DEF NoLookup
  <2>4. Fits(NoLookup, "unused", flags)
    BY <2>1, <2>3 DEF Fits, Ends, AlbumPlaces, Carries, ArlPlaces, VideoPlaces, SpotifyKinds, TidalKinds
  <2> QED
    BY <1>0, <2>1, <2>3, <2>4 DEF Right, Keeps, Founded, Ordered, Timely, Ends
<1> HIDE DEF b
<1>6. CASE mix = "one"
  <2>1. PICK c \in Lookups, k \in Kinds :
          /\ lookup = [d \in Lookups |-> IF d = c THEN b(k) ELSE NoLookup]
          /\ flags \in (IF k \in {"stream", "stations", "url"} THEN {Flags} ELSE Configs)
    BY <1>6 DEF ResolverInit, b
  <2>2. Right(b(k), flags, now)
    BY <1>4, <2>1
  <2>3. lookup \in [Lookups -> Lookup]
    BY <1>5, <2>1, <2>2 DEF Right, Keeps
  <2>4. \A d \in Lookups : Right(lookup[d], flags, now)
    BY <1>5, <2>1, <2>2
  <2> QED
    BY <1>1, <1>2, <1>3, <2>3, <2>4 DEF LookupInv
<1>7. CASE mix = "shared"
  <2>1. PICK k \in [Lookups -> Shared] : lookup = [c \in Lookups |-> b(k[c])]
    BY <1>7 DEF ResolverInit, b
  <2>2. flags = Flags
    BY <1>7 DEF ResolverInit
  <2>3. \A c \in Lookups : k[c] \in Kinds
    BY SharedAssumption
  <2>4. \A c \in Lookups : Right(b(k[c]), flags, now)
    BY <1>4, <2>2, <2>3
  <2>5. lookup \in [Lookups -> Lookup]
    BY <2>1, <2>4 DEF Right, Keeps
  <2>6. \A c \in Lookups : Right(lookup[c], flags, now)
    BY <2>1, <2>4
  <2> QED
    BY <1>1, <1>2, <1>3, <2>5, <2>6 DEF LookupInv
<1> QED
  BY <1>6, <1>7 DEF ResolverInit

\* No step disturbs a lookup, and none sends with a token that has expired.
LEMMA LookupStep == LookupInv /\ [SourcesNext]_allVars => LookupInv' /\ SendsFresh
<1> SUFFICES ASSUME LookupInv, [SourcesNext]_allVars PROVE LookupInv' /\ SendsFresh
  OBVIOUS
<1>1. CASE UNCHANGED resolverVars
  BY <1>1 DEF resolverVars, LookupInv, TokensRight, SendsFresh
<1>2. CASE Tick
  BY <1>2, TickRight
<1>3. ASSUME NEW c \in Lookups, Proceed(c) PROVE LookupInv' /\ SendsFresh
  <2>1. CASE Begin(c)
    BY <2>1, BeginRight
  <2>2. CASE Refuse(c)
    BY <2>2, RefuseRight
  <2>3. CASE GetToken(c)
    BY <2>3, GetTokenRight
  <2>4. CASE TokenAnswer(c)
    BY <2>4, TokenAnswerRight
  <2>5. CASE Answer(c)
    BY <2>5, AnswerRight
  <2>6. CASE Radio(c)
    BY <2>6, RadioRight
  <2>7. CASE \E i \in 1..MaxItems : Item(c, i)
    BY <2>7, ItemRight
  <2> QED
    BY <1>3, <2>1, <2>2, <2>3, <2>4, <2>5, <2>6, <2>7 DEF Proceed
<1> QED
  BY <1>1, <1>2, <1>3 DEF SourcesNext, ResolverNext, Starts, allVars

\* Every lookup is where it may be, with what it should hold, at all times (_resolveTracks).
THEOREM LookupsRight == SourcesSpec => []LookupInv
<1>1. LookupInv /\ [SourcesNext]_allVars => LookupInv'
  BY LookupStep
<1> QED
  BY LookupInit, <1>1, PTL DEF SourcesSpec

\* The tracks of a collection come in its order, and no more than were asked for.
THEOREM TracksInOrder == SourcesSpec => []CollectionInOrder
<1>1. LookupInv => CollectionInOrder
  BY DEF LookupInv, Right, Ordered, CollectionInOrder
<1> QED
  BY LookupsRight, <1>1, PTL

\* Whatever fallbacks a lookup takes, it ends with what may be played, or after YouTube.
THEOREM RoutesEnd == SourcesSpec => []RoutesEndRightly
<1>1. LookupInv => RoutesEndRightly
  <2> SUFFICES ASSUME LookupInv, NEW c \in Lookups
               PROVE  /\ lookup[c].at = "done" =>
                          /\ "search" \in lookup[c].by => YouTube \subseteq flags
                          /\ "video" \in lookup[c].by => "ytPlayback" \in flags
                          /\ "deezer" \in lookup[c].by => "deezer" \in flags /\ ("arl" \in flags \/ lookup[c].kind = "amazonList")
                          /\ lookup[c].kind \in SpotifyKinds => "spotify" \in flags
                          /\ lookup[c].kind \in TidalKinds => "tidal" \in flags
                      /\ lookup[c].kind \in SearchKinds /\ lookup[c].at \in {"nothing", "throw"} /\ YouTube \subseteq flags
                          => lookup[c].youtube
    BY DEF RoutesEndRightly, OnlyEnabledSources, FailsOnlyAfterYouTube, SpotifyKinds, TidalKinds, SearchKinds
  <2>1. Keeps(lookup[c], flags) /\ Fits(lookup[c], lookup[c].at, flags)
    BY DEF LookupInv, Right
  <2> QED
    BY <2>1 DEF Keeps, Founded, Fits
<1> QED
  BY LookupsRight, <1>1, PTL

\* Every request for a track leaves with a token that its server still takes.
THEOREM TokensStillGood == SourcesSpec => TokenStillGood
<1>1. LookupInv /\ [SourcesNext]_allVars =>
        [\A c \in Lookups : ~lookup[c].sent /\ lookup'[c].sent => now < tokens'[Uses(lookup[c].at)].good]_resolverVars
  BY LookupStep DEF SendsFresh
<1> QED
  BY LookupsRight, <1>1, PTL DEF SourcesSpec, TokenStillGood
=============================================================================
