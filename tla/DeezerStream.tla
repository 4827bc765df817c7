---------------------------- MODULE DeezerStream ----------------------------
(***************************************************************************)
(* Playing an encrypted Deezer file (src/player/musicPlayer/deezer.ts and  *)
(* deezerMethods.ts): a reader that resumes a broken download where it     *)
(* was, a transform that decrypts every third stripe, and ffmpeg behind.   *)
(*                                                                         *)
(*   server --Arrives--> raw (PassThrough) --Passes--> stripes --> out     *)
(*                                                                         *)
(* Bytes are their places in the file, from 1.  The server may refuse,     *)
(* break off, and answer a request for a range with the whole file or      *)
(* another range; it ends a body only at the end of the file.              *)
(***************************************************************************)
EXTENDS Naturals, Sequences, FiniteSets

CONSTANTS
    FileSize,     \* bytes of the file (bound)
    Stripe,       \* DEEZER_STRIPE_CHUNK_SIZE
    HighWater,    \* DEEZER_STREAM_HIGH_WATER_MARK
    Pieces,       \* sizes of what arrives or passes at a time (bound)
    RetryLimit,   \* DEEZER_STREAM_RETRY_LIMIT
    MaxCuts       \* connections that fail or break (bound)

ASSUME StreamAssumption ==
    /\ {FileSize, Stripe, HighWater, RetryLimit} \subseteq Nat \ {0}
    /\ MaxCuts \in Nat /\ Pieces \subseteq Nat \ {0} /\ 1 \in Pieces

VARIABLES
    raw,          \* the reader: see RawStates
    offset,       \* bytes it has written, and asks the server to skip
    server,       \* external: the byte before the next of the body
    attempts,     \* of the connection, since one succeeded
    buffer,       \* written to raw and not passed yet
    pending,      \* in the transform: less than a stripe
    block,        \* blockIndex, of the next stripe
    out,          \* what ffmpeg was given: <<byte, clear>>
    ffmpeg,       \* "none" -> "spawning" -> "running" -> "killed"
    cuts
streamVars == <<raw, offset, server, attempts, buffer, pending, block, out, ffmpeg, cuts>>

\* waits: the backoff; full: write() returned false; failed: destroyed with
\* an error; ended: end() was called; whole: that has reached ffmpeg.
RawStates == {"idle", "connects", "reads", "full", "waits", "ended", "whole", "failed", "closed"}

\* Bytes from..to of the file.
Bytes(from, to) == [i \in 1..(IF to < from THEN 0 ELSE to - from + 1) |-> from + i - 1]

StreamInit ==
    /\ raw = "idle" /\ offset = 0 /\ server = 0 /\ attempts = 0 /\ buffer = <<>>
    /\ pending = <<>> /\ block = 0 /\ out = <<>> /\ ffmpeg = "none" /\ cuts = 0

\* The reader starts at once, ffmpeg is being spawned.
StartPipeline ==
    /\ raw = "idle"
    /\ raw' = "connects" /\ ffmpeg' = "spawning"
    /\ UNCHANGED <<offset, server, attempts, buffer, pending, block, out, cuts>>

\* ffmpeg is there: the streams are piped and their errors now kill it.
Spawned ==
    /\ ffmpeg = "spawning"
    /\ ffmpeg' = IF raw = "closed" THEN "killed" ELSE "running"
    /\ UNCHANGED <<raw, offset, server, attempts, buffer, pending, block, out, cuts>>

\* The reader is destroyed: what it holds is lost, and so is the transform's
\* rest; ffmpeg is killed if the handler is bound by now.
Fails ==
    /\ raw' = "failed" /\ buffer' = <<>>
    /\ ffmpeg' = IF ffmpeg = "running" THEN "killed" ELSE ffmpeg

\* A failed read or connection is tried again after a backoff, or is final.
Retries(tries) ==
    IF tries >= RetryLimit THEN Fails /\ UNCHANGED attempts
    ELSE raw' = "waits" /\ attempts' = tries + 1 /\ UNCHANGED <<buffer, ffmpeg>>

\* Taking any answer for the range that was asked for.
BugHonoured(status, start) == TRUE
\* The status is 206 and content-range starts where the reader is.
Honoured(status, start) == offset = 0 \/ (status = 206 /\ start = offset)

\* The server answers the request for the bytes after `offset': with the
\* file, a range of it, an error, or not at all.
Connect ==
    /\ raw = "connects"
    /\ \/ \E start \in {0, offset} \cup (IF offset > 1 THEN {offset - 1} ELSE {}) :
            LET status == IF start = 0 THEN 200 ELSE 206 IN
            IF Honoured(status, start)
            THEN /\ raw' = "reads" /\ server' = start /\ attempts' = 0
                 /\ UNCHANGED <<buffer, ffmpeg, cuts>>
            ELSE Fails /\ UNCHANGED <<server, attempts, cuts>>
       \/ Fails /\ UNCHANGED <<server, attempts, cuts>>
       \/ /\ cuts < MaxCuts /\ cuts' = cuts + 1
          /\ Retries(attempts) /\ UNCHANGED server
    /\ UNCHANGED <<offset, pending, block, out>>

\* The backoff ends (_sleep).
BackoffEnds ==
    /\ raw = "waits" /\ raw' = "connects"
    /\ UNCHANGED <<offset, server, attempts, buffer, pending, block, out, ffmpeg, cuts>>

\* Bytes arrive and are written; a full buffer stops the reading.
Arrives(n) ==
    /\ raw = "reads" /\ server + n <= FileSize
    /\ buffer' = buffer \o Bytes(server + 1, server + n)
    /\ server' = server + n /\ offset' = offset + n
    /\ raw' = IF Len(buffer') >= HighWater THEN "full" ELSE "reads"
    /\ UNCHANGED <<attempts, pending, block, out, ffmpeg, cuts>>

\* The body ends.
BodyEnds ==
    /\ raw = "reads" /\ server = FileSize /\ raw' = "ended"
    /\ UNCHANGED <<offset, server, attempts, buffer, pending, block, out, ffmpeg, cuts>>

\* The body breaks off, or no byte came within the read timeout; an error of
\* another sort is final.
BodyBreaks ==
    /\ raw = "reads" /\ cuts < MaxCuts /\ cuts' = cuts + 1
    /\ Retries(attempts) \/ (Fails /\ UNCHANGED attempts)
    /\ UNCHANGED <<offset, server, pending, block, out>>

\* Every third stripe is encrypted in the file, and is decrypted.
Clear(b) == b % 3 = 0

\* The stripes that `bytes' completes, as they are pushed.
Stripes(bytes) ==
    [i \in 1..(Len(bytes) \div Stripe) * Stripe |-> <<bytes[i], Clear(block + (i - 1) \div Stripe)>>]

\* Bytes pass to the transform, which pushes every whole stripe; an empty
\* buffer lets the reader go on (`drain').
Passes(n) ==
    /\ ffmpeg = "running" /\ n <= Len(buffer)
    /\ LET bytes == pending \o SubSeq(buffer, 1, n)
           whole == Len(bytes) \div Stripe
       IN /\ out' = out \o Stripes(bytes)
          /\ block' = block + whole
          /\ pending' = SubSeq(bytes, whole * Stripe + 1, Len(bytes))
    /\ buffer' = SubSeq(buffer, n + 1, Len(buffer))
    /\ raw' = IF raw = "full" /\ buffer' = <<>> THEN "reads" ELSE raw
    /\ UNCHANGED <<offset, server, attempts, ffmpeg, cuts>>

\* The transform ends: its rest, never encrypted, is pushed as it is.
Flush ==
    /\ ffmpeg = "running" /\ raw = "ended" /\ buffer = <<>>
    /\ out' = out \o [i \in 1..Len(pending) |-> <<pending[i], FALSE>>]
    /\ pending' = <<>> /\ raw' = "whole"
    /\ UNCHANGED <<offset, server, attempts, buffer, block, ffmpeg, cuts>>

\* The player gives up on a pipeline without a first chunk: the reader may
\* have failed before anybody listened (_awaitInitialPlaybackChunk).
StartupTimeout ==
    /\ ffmpeg = "running" /\ raw = "failed" /\ out = <<>>
    /\ ffmpeg' = "killed"
    /\ UNCHANGED <<raw, offset, server, attempts, buffer, pending, block, out, cuts>>

\* The player stops or skips: the reader is closed, ffmpeg killed.
CloseStream ==
    /\ raw \notin {"idle", "closed", "failed", "whole"}
    /\ raw' = "closed" /\ buffer' = <<>> /\ pending' = <<>>
    /\ ffmpeg' = IF ffmpeg = "running" THEN "killed" ELSE ffmpeg
    /\ UNCHANGED <<offset, server, attempts, block, out, cuts>>

StreamProceeds ==
    \/ Spawned \/ Connect \/ BackoffEnds \/ BodyEnds \/ Flush \/ StartupTimeout
    \/ \E n \in Pieces : Arrives(n) \/ Passes(n)
StreamNext == StreamProceeds \/ BodyBreaks \/ CloseStream
\* The stream by itself; TrackSources says when it starts.
StreamSpec == StreamInit /\ [][StartPipeline \/ StreamNext]_streamVars

(* ---- properties ------------------------------------------------------ *)

\* ffmpeg gets the file from its first byte, each byte once and in order,
\* decrypted exactly where it is encrypted, however often the download broke
\* off; and all of it if it is told the end (_createDeezerResilientReadable,
\* DeezerBfStripeDecryptTransform).
StreamIsWhole ==
    /\ \A i \in DOMAIN out :
        out[i] = <<i, i <= (FileSize \div Stripe) * Stripe /\ ((i - 1) \div Stripe) % 3 = 0>>
    /\ raw = "whole" => Len(out) = FileSize

\* A stream that was begun plays to its end, or is stopped together with the
\* ffmpeg that waits for it: also one that failed before ffmpeg was there.
StreamSettles == raw # "idle" ~> raw = "whole" \/ (raw \in {"failed", "closed"} /\ ffmpeg = "killed")
=============================================================================
