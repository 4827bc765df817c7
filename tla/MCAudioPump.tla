----------------------------- MODULE MCAudioPump -----------------------------
(* A queue of one or two frames of two units; chunks of half a frame, a    *)
(* frame and more than the queue takes; streams of up to seven units.        *)
EXTENDS AudioPump
CONSTANTS a, b
TwoPumps == {a, b}
=============================================================================
