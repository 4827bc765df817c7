-------------------------- MODULE SessionSnapshots --------------------------
(***************************************************************************)
(* What outlives the process: the playback snapshots and the voice bindings   *)
(* of one guild, written by src/bot/sessionManager.ts and runtimeMethods.ts,  *)
(* stored by src/bot/services/musicLibraryStore.ts, read when the bot starts  *)
(* again.                                                                  *)
(*                                                                         *)
(* What a player holds (its track, position and queue) is a number, 0 when it *)
(* holds nothing: each change takes a new and higher one.  A write is sent in *)
(* one step and takes effect and is answered in another; the process may be   *)
(* shut down or die between any two.  How a session is opened, and the awaits *)
(* in ensure() and of the 247 command, are in SessionTable.                   *)
(***************************************************************************)
EXTENDS Naturals, Sequences

CONSTANTS
    VoiceChannels, Nothing,
    MaxContent, \* bound: changes of what players hold
    MaxMoves,   \* bound: of joins, leaves, settings and lost connections
    MaxStarts,  \* bound: starts of the process
    MaxWrites,  \* bound: writes sent and not answered
    MaxFails,   \* bound: writes that fail
    QuietEnd    \* is all that was under way over when a shutdown comes to its last
                \* stage, and does nothing else happen then ?

ASSUME SnapshotAssumption ==
    /\ Nothing \notin VoiceChannels \cup Nat
    /\ {MaxContent, MaxMoves, MaxStarts, MaxWrites, MaxFails} \subseteq Nat /\ MaxStarts > 0
    /\ QuietEnd \in BOOLEAN

VARIABLES
    phase,      \* of the process: up, one of the stages of shutdown(), or down
    togo,       \* the sessions shutdown() has still to treat in this stage
    session,    \* session[c]: the session in the table under channel c
    gone,       \* destroyed sessions whose disconnect() is awaited
    writes,     \* sent to the database and not answered, in order
    snap,       \* snap[c]: the stored snapshot
    bound,      \* the channels in the stored lists of bindings
    profile247, \* profile247[c]: 24/7 in the stored voice profile
    boot,       \* restorePersistentVoiceSessions()
    fresh,      \* the last content
    moves, starts, fails,   \* counters of the bounds
    kept,       \* history: kept[c], what c held when an orderly shutdown began
    ended       \* history: ended[c], was the session of c destroyed, and is that over ?

stores == <<snap, bound>>
counters == <<fresh, moves, starts, fails>>
snapshotVars == <<phase, togo, session, gone, writes, stores, profile247, boot, counters, kept, ended>>

\* flying: snapshot.inFlight; recent: less than the minimal interval since
\* lastPersistAt; linked: connection.channelId is set.
Closed == [open |-> FALSE, linked |-> FALSE, stay |-> FALSE, content |-> 0,
           dirty |-> FALSE, flying |-> FALSE, recent |-> FALSE]
Opened(c) == [Closed EXCEPT !.open = TRUE, !.stay = profile247[c]]
Contents == 0 .. MaxContent
SessionStates == [open : BOOLEAN, linked : BOOLEAN, stay : BOOLEAN, content : Contents,
                  dirty : BOOLEAN, flying : BOOLEAN, recent : BOOLEAN]

\* Who goes on when a write is answered: the snapshot of a session, the restore, a
\* destroy() (of a command, or of the restore: "undo"), or nobody.  held: shutdown()
\* awaits it.
Waiters == {"session", "restore", "destroy", "undo", "nobody"}
WriteStates == [kind : {"upsert", "delete", "sync", "clear", "read"}, chan : VoiceChannels \cup {Nothing},
                content : Contents, list : SUBSET VoiceChannels, by : Waiters, held : BOOLEAN]
Write(k, c, by) == [kind |-> k, chan |-> c, content |-> 0, list |-> {}, by |-> by, held |-> FALSE]

\* mine: the session the restore holds is the one in the table; undo: it created it
\* and destroys it when it fails.
Steps == {"off", "listing", "next", "connecting", "clearing", "failed", "reading",
          "resolving", "syncing", "waiting"}
BootStates == [step : Steps, todo : SUBSET VoiceChannels, chan : VoiceChannels \cup {Nothing},
               mine : BOOLEAN, undo : BOOLEAN, content : Contents \cup {Nothing}]
Off == [step |-> "off", todo |-> {}, chan |-> Nothing, mine |-> FALSE, undo |-> FALSE, content |-> Nothing]

SnapshotTypeOK ==
    /\ phase \in {"up", "persisting", "leaving", "down"} /\ togo \subseteq VoiceChannels
    /\ session \in [VoiceChannels -> SessionStates]
    /\ gone \subseteq [chan : VoiceChannels, by : Waiters]
    /\ writes \in Seq(WriteStates)
    /\ snap \in [VoiceChannels -> Contents \cup {Nothing}] /\ bound \subseteq VoiceChannels
    /\ profile247 \in [VoiceChannels -> BOOLEAN] /\ boot \in BootStates
    /\ fresh \in Contents /\ moves \in 0 .. MaxMoves /\ starts \in 1 .. MaxStarts /\ fails \in 0 .. MaxFails
    /\ kept \in [VoiceChannels -> Contents \cup {Nothing}] /\ ended \in [VoiceChannels -> {"no", "going", "gone"}]

SnapshotInit ==
    /\ phase = "up" /\ togo = {}
    /\ session = [c \in VoiceChannels |-> Closed] /\ gone = {} /\ writes = <<>>
    /\ snap = [c \in VoiceChannels |-> Nothing] /\ bound = {}
    /\ profile247 = [c \in VoiceChannels |-> FALSE] /\ boot = Off
    /\ fresh = 0 /\ moves = 0 /\ starts = 1 /\ fails = 0
    /\ kept = [c \in VoiceChannels |-> Nothing] /\ ended = [c \in VoiceChannels |-> "no"]

Alive == phase # "down" /\ ~(QuietEnd /\ phase = "leaving")
Room == Len(writes) < MaxWrites

-----------------------------------------------------------------------------
(* Snapshots and bindings of a session r of channel c.                     *)

\* _isSessionRestartRecoverable
Recoverable(r) == r.content # 0

\* buildSessionSnapshot: is there one ?
Worth(r) == r.open /\ (r.stay \/ Recoverable(r))

\* persistSessionSnapshot: the session that results, and what is sent.
Skipped(r, force) == r.flying \/ (Worth(r) /\ ~force /\ r.recent)
Persisted(r, force) ==
    IF ~Skipped(r, force) /\ Worth(r) THEN [r EXCEPT !.flying = TRUE]
    ELSE IF ~r.flying /\ Worth(r) THEN [r EXCEPT !.dirty = TRUE] ELSE r
Sent(c, r, force) ==
    CASE Skipped(r, force) -> <<>>
      [] ~Skipped(r, force) /\ Worth(r) -> <<[Write("upsert", c, "session") EXCEPT !.content = r.content]>>
      [] OTHER -> <<Write("delete", c, "session")>>

\* syncPersistentVoiceState: both lists, of the sessions in the table.
Sync(ss, by) ==
    [Write("sync", Nothing, by) EXCEPT !.list = {c \in VoiceChannels : Worth(ss[c]) /\ ss[c].linked}]

\* markSnapshotDirty(session, true), then syncPersistentVoiceState where the caller does.
Noted(c, r, syncs) ==
    LET d == [r EXCEPT !.dirty = TRUE]
        p == Persisted(d, TRUE)
        ss == [session EXCEPT ![c] = p]
    IN  /\ session' = ss
        /\ writes' = writes \o Sent(c, d, TRUE)
                            \o (IF syncs THEN <<Sync(ss, "nobody")>> ELSE <<>>)

\* The promise kept for c is void once its session holds something older or nothing.
Forget(c) ==
    kept' = IF /\ Worth(session'[c]) /\ session'[c].linked
               /\ kept[c] # Nothing => session'[c].content >= kept[c]
            THEN kept ELSE [kept EXCEPT ![c] = Nothing]

Here(c) == Alive /\ Room /\ session[c].open

\* A change of what the player holds.
NewContent == fresh < MaxContent /\ fresh' = fresh + 1
Move == moves < MaxMoves /\ moves' = moves + 1 /\ UNCHANGED <<fresh, starts, fails>>

\* trackStart, trackError, or a trackEnd with more to play.
TrackChanges(c) ==
    /\ Here(c) /\ session[c].linked /\ NewContent
    /\ Noted(c, [session[c] EXCEPT !.content = fresh'], TRUE) /\ Forget(c)
    /\ UNCHANGED <<phase, togo, gone, stores, profile247, boot, moves, starts, fails, ended>>

\* Pausing, seeking, shuffling ...: the command marks the snapshot.
CommandChanges(c) ==
    /\ Here(c) /\ session[c].content # 0 /\ NewContent
    /\ Noted(c, [session[c] EXCEPT !.content = fresh'], FALSE) /\ Forget(c)
    /\ UNCHANGED <<phase, togo, gone, stores, profile247, boot, moves, starts, fails, ended>>

\* tracksAdded: marked for the flush loop, and synchronised at once.
TracksAdded(c) ==
    /\ Here(c) /\ NewContent
    /\ session' = [session EXCEPT ![c].content = fresh', ![c].dirty = TRUE]
    /\ writes' = Append(writes, Sync(session', "nobody")) /\ Forget(c)
    /\ UNCHANGED <<phase, togo, gone, stores, profile247, boot, moves, starts, fails, ended>>

\* trackEnd of the last track and queueEmpty.
QueueRunsOut(c) ==
    /\ Here(c) /\ session[c].content # 0
    /\ Noted(c, [session[c] EXCEPT !.content = 0], TRUE)
    /\ kept' = [kept EXCEPT ![c] = Nothing]
    /\ UNCHANGED <<phase, togo, gone, stores, profile247, boot, counters, ended>>

\* The 247 command: the profile, then refreshVoiceProfileSettings or applyGuildConfig.
Set247(c) ==
    /\ Move /\ Here(c) /\ profile247' = [profile247 EXCEPT ![c] = ~@]
    /\ Noted(c, [session[c] EXCEPT !.stay = ~@], TRUE) /\ Forget(c)
    /\ UNCHANGED <<phase, togo, gone, stores, boot, ended>>

\* bindTextChannel: marked, and synchronised.
TextBound(c) ==
    /\ Move /\ Here(c) /\ ~session[c].dirty
    /\ session' = [session EXCEPT ![c].dirty = TRUE]
    /\ writes' = Append(writes, Sync(session, "nobody")) /\ Forget(c)
    /\ UNCHANGED <<phase, togo, gone, stores, profile247, boot, ended>>

\* The connection is lost: nothing is written.
LinkLost(c) ==
    /\ Move /\ Alive /\ session[c].linked
    /\ session' = [session EXCEPT ![c].linked = FALSE] /\ Forget(c)
    /\ UNCHANGED <<phase, togo, gone, writes, stores, profile247, boot, ended>>

-----------------------------------------------------------------------------
(* The flush loop, and the opening and the end of a session.               *)

BugDirtyOnly(c) ==
    /\ Alive /\ session[c].open /\ (Room \/ Worth(session[c]))
    /\ session[c].dirty
    /\ Sent(c, session[c], FALSE) # <<>>
    /\ session' = [session EXCEPT ![c] = Persisted(session[c], FALSE)]
    /\ writes' = writes \o Sent(c, session[c], FALSE)
    /\ UNCHANGED <<phase, togo, gone, stores, profile247, boot, counters, kept, ended>>

\* flushDirtySnapshots comes to c (it awaits one session after the other, at its pace).
Flush(c) ==
    /\ Alive /\ session[c].open /\ (Room \/ Worth(session[c]))
    /\ session[c].dirty \/ Recoverable(session[c])
    /\ Sent(c, session[c], FALSE) # <<>>
    /\ session' = [session EXCEPT ![c] = Persisted(session[c], FALSE)]
    /\ writes' = writes \o Sent(c, session[c], FALSE)
    /\ UNCHANGED <<phase, togo, gone, stores, profile247, boot, counters, kept, ended>>

\* sessionSnapshotMinWriteIntervalMs have passed.
IntervalEnds(c) ==
    /\ session[c].recent /\ session' = [session EXCEPT ![c].recent = FALSE]
    /\ UNCHANGED <<phase, togo, gone, writes, stores, profile247, boot, counters, kept, ended>>

\* A command opened a session, or found one, and connected it.
Join(c) ==
    /\ Move /\ Alive /\ Room /\ ~session[c].linked
    /\ LET r == IF session[c].open THEN session[c] ELSE Opened(c)
       IN  session' = [session EXCEPT ![c] = [r EXCEPT !.linked = TRUE]]
    /\ writes' = Append(writes, Sync(session', "nobody"))
    /\ kept' = [kept EXCEPT ![c] = Nothing] /\ ended' = [ended EXCEPT ![c] = "no"]
    /\ UNCHANGED <<phase, togo, gone, stores, profile247, boot>>

\* The session leaves the table: an answer to its writes concerns no session any more.
Orphaned(c) ==
    [i \in DOMAIN writes |->
        IF writes[i].chan = c /\ writes[i].by = "session" THEN [writes[i] EXCEPT !.by = "nobody"]
        ELSE writes[i]]

\* destroy() up to the await of disconnect().
Destroy(c, by) ==
    /\ session' = [session EXCEPT ![c] = Closed]
    /\ gone' = gone \cup {[chan |-> c, by |-> by]}
    /\ kept' = [kept EXCEPT ![c] = Nothing] /\ ended' = [ended EXCEPT ![c] = "going"]

\* The leave command or the idle timer.  (Not of a session that shutdown() has before it.)
LeaveChannel(c) ==
    /\ Move /\ Alive /\ session[c].open /\ c \notin togo
    /\ [chan |-> c, by |-> "destroy"] \notin gone
    /\ Destroy(c, "destroy") /\ writes' = Orphaned(c)
    /\ boot' = IF boot.chan = c THEN [boot EXCEPT !.mine = FALSE] ELSE boot
    /\ UNCHANGED <<phase, togo, stores, profile247>>

BugSnapshotLeft(g) ==
    /\ Room /\ g \in gone /\ gone' = gone \ {g}
    /\ writes' = Append(writes, [Sync(session, g.by) EXCEPT !.chan = g.chan])
    /\ UNCHANGED <<phase, togo, session, stores, profile247, boot, counters, kept, ended>>

\* disconnect() resolves, and destroy() deletes the snapshot of the channel.
DestroyDeletes(g) ==
    /\ Room /\ g \in gone /\ gone' = gone \ {g}
    /\ writes' = Append(writes, Write("delete", g.chan, g.by))
    /\ UNCHANGED <<phase, togo, session, stores, profile247, boot, counters, kept, ended>>

-----------------------------------------------------------------------------
(* The answers of the database.                                            *)

\* The next binding, or the end of the loop of restorePersistentVoiceSessions.
NextBinding == boot' = [boot EXCEPT !.step = "next", !.chan = Nothing, !.mine = FALSE,
                                    !.undo = FALSE, !.content = Nothing]

\* persistSessionSnapshot goes on.  (A deletion that fails counts as done.)
SnapshotAnswered(w, rest, ok) ==
    /\ w.by = "session" /\ writes' = rest
    /\ LET s == session[w.chan]
       IN  session' = [session EXCEPT ![w.chan] =
               IF w.kind = "delete" THEN [s EXCEPT !.dirty = FALSE]
               ELSE IF ok THEN [s EXCEPT !.flying = FALSE, !.recent = TRUE, !.dirty = FALSE]
               ELSE [s EXCEPT !.flying = FALSE]]
    /\ UNCHANGED <<boot, gone, ended>>

\* destroy() synchronises after the deletion, and is done after that.
DestroyAnswered(w, rest, ok) ==
    /\ w.by \in {"destroy", "undo"}
    /\ IF w.kind = "delete"
       THEN /\ writes' = Append(rest, [Sync(session, w.by) EXCEPT !.chan = IF ok THEN w.chan ELSE Nothing])
            /\ ended' = IF ok \/ ended[w.chan] # "going" THEN ended ELSE [ended EXCEPT ![w.chan] = "no"]
            /\ UNCHANGED boot
       ELSE /\ writes' = rest
            /\ IF w.by = "undo" THEN NextBinding ELSE UNCHANGED boot
            /\ LET c == w.chan
                   over == /\ ok /\ c # Nothing /\ ended[c] = "going"
                           /\ \A g \in gone : g.chan # c
                           /\ \A i \in DOMAIN rest : rest[i].chan # c
               IN  ended' = IF over THEN [ended EXCEPT ![c] = "gone"] ELSE ended
    /\ UNCHANGED <<session, gone>>

\* _clearPersistentVoiceBinding: read, patch, delete, each if the one before it went
\* well.  Or the synchronisation after a restore.  (What is patched is what was read: the
\* binding of a session that is being destroyed meanwhile comes back.)
RestoreAnswered(w, rest, ok) ==
    /\ w.by = "restore"
    /\ \/ /\ boot.step = "waiting" /\ NextBinding /\ writes' = rest
       \/ /\ boot.step = "clearing" /\ ok /\ w.kind = "read" /\ UNCHANGED boot
          /\ writes' = Append(rest, [Write("clear", w.chan, "restore") EXCEPT !.list = bound \ {w.chan}])
       \/ /\ boot.step = "clearing" /\ ok /\ w.kind = "clear" /\ UNCHANGED boot
          /\ writes' = Append(rest, Write("delete", w.chan, "restore"))
       \/ /\ boot.step = "clearing" /\ (~ok \/ w.kind = "delete")
          /\ boot' = [boot EXCEPT !.step = "failed"] /\ writes' = rest
    /\ ended' = [c \in VoiceChannels |->
                    IF /\ ended[c] = "going" /\ ok
                       /\ boot.step = "clearing" /\ w.kind = "read" /\ c \in bound \ {w.chan}
                    THEN "no" ELSE ended[c]]
    /\ UNCHANGED <<session, gone>>

Answered(w, rest, ok) ==
    /\ \/ SnapshotAnswered(w, rest, ok)
       \/ DestroyAnswered(w, rest, ok)
       \/ RestoreAnswered(w, rest, ok)
       \/ /\ w.by = "nobody" /\ writes' = rest /\ UNCHANGED <<session, gone, boot, ended>>
    /\ UNCHANGED <<phase, togo, profile247>>

\* A write takes effect and is answered: in the order in which they were sent.
Applied ==
    /\ writes # <<>>
    /\ LET w == Head(writes)
       IN  /\ snap' = CASE w.kind = "upsert" -> [snap EXCEPT ![w.chan] = w.content]
                        [] w.kind = "delete" -> [snap EXCEPT ![w.chan] = Nothing]
                        [] OTHER -> snap
           /\ bound' = IF w.kind \in {"sync", "clear"} THEN w.list ELSE bound
           /\ Answered(w, Tail(writes), TRUE)
    /\ UNCHANGED <<counters, kept>>

\* A write fails: it is logged and forgotten.  What a shutdown was to keep may be lost.
Fails ==
    /\ writes # <<>> /\ fails < MaxFails /\ fails' = fails + 1
    /\ Answered(Head(writes), Tail(writes), FALSE)
    /\ kept' = [c \in VoiceChannels |-> Nothing]
    /\ UNCHANGED <<stores, fresh, moves, starts>>

-----------------------------------------------------------------------------
(* restorePersistentVoiceSessions, at the first READY.                      *)

Restoring(step) == Alive /\ Room /\ boot.step = step

\* listPersistentVoiceConnections answers, or fails.
Listed ==
    /\ Restoring("listing")
    /\ \E list \in {bound, {}} : boot' = [boot EXCEPT !.step = "next", !.todo = list]
    /\ UNCHANGED <<phase, togo, session, gone, writes, stores, profile247, counters, kept, ended>>

Clearing(c) == Append(writes, Write("read", c, "restore"))

\* The next binding: its channel is there (or may be), or is missing.  ensure() finds
\* its session or creates it.
TakeBinding(c) ==
    /\ Restoring("next") /\ c \in boot.todo
    /\ LET b == [boot EXCEPT !.todo = @ \ {c}, !.chan = c]
       IN  \/ /\ boot' = [b EXCEPT !.step = "clearing"] /\ writes' = Clearing(c)
              /\ kept' = [kept EXCEPT ![c] = Nothing] /\ UNCHANGED <<session, ended>>
           \/ /\ boot' = [b EXCEPT !.step = IF session[c].linked THEN "reading" ELSE "connecting",
                                    !.mine = TRUE, !.undo = ~session[c].open]
              /\ session' = IF session[c].open THEN session ELSE [session EXCEPT ![c] = Opened(c)]
              /\ ended' = [ended EXCEPT ![c] = "no"] /\ UNCHANGED writes
              /\ kept' = IF phase = "up" THEN kept ELSE [kept EXCEPT ![c] = Nothing]
    /\ UNCHANGED <<phase, togo, gone, stores, profile247, counters>>

RestoreEnds ==
    /\ boot.step = "next" /\ boot.todo = {} /\ boot' = Off
    /\ UNCHANGED <<phase, togo, session, gone, writes, stores, profile247, counters, kept, ended>>

\* connect() resolves, for a session that is in the table or was taken out of it.
RestoreConnected ==
    /\ Restoring("connecting") /\ boot' = [boot EXCEPT !.step = "reading"]
    /\ session' = IF boot.mine THEN [session EXCEPT ![boot.chan].linked = TRUE] ELSE session
    /\ UNCHANGED <<phase, togo, gone, writes, stores, profile247, counters, kept, ended>>

\* connect() fails for good, and the binding is cleared; or after three attempts.
RestoreFails ==
    /\ Restoring("connecting") /\ kept' = [kept EXCEPT ![boot.chan] = Nothing]
    /\ \/ boot' = [boot EXCEPT !.step = "clearing"] /\ writes' = Clearing(boot.chan)
       \/ boot' = [boot EXCEPT !.step = "failed"] /\ UNCHANGED writes
    /\ UNCHANGED <<phase, togo, session, gone, stores, profile247, counters, ended>>

\* Then the session is destroyed if the restore created it; by its key.
RestoreUndone ==
    /\ Restoring("failed")
    /\ LET c == boot.chan
       IN  IF boot.undo /\ session[c].open
           THEN /\ Destroy(c, "undo") /\ writes' = Orphaned(c)
                /\ boot' = [boot EXCEPT !.step = "waiting", !.mine = FALSE]
           ELSE NextBinding /\ UNCHANGED <<session, gone, kept, ended, writes>>
    /\ UNCHANGED <<phase, togo, stores, profile247, counters>>

\* restoreSessionSnapshot has the snapshot (an error counts as none).
SnapshotRead ==
    /\ Restoring("reading")
    /\ boot' = [boot EXCEPT !.content = snap[boot.chan],
                 !.step = IF boot.mine /\ snap[boot.chan] \notin {Nothing, 0} THEN "resolving" ELSE "syncing"]
    /\ UNCHANGED <<phase, togo, session, gone, writes, stores, profile247, counters, kept, ended>>

\* The tracks are resolved, queued and played: trackStart or trackError.  What was
\* queued meanwhile is dropped, what plays goes on.
Restored ==
    /\ Restoring("resolving") /\ boot' = [boot EXCEPT !.step = "syncing"]
    /\ LET c == boot.chan
       IN  IF ~boot.mine THEN UNCHANGED <<session, writes, fresh, kept>>
           ELSE /\ IF session[c].content = 0 THEN UNCHANGED fresh ELSE NewContent
                /\ Noted(c, [session[c] EXCEPT !.content = IF @ = 0 THEN boot.content ELSE fresh'], TRUE)
                /\ Forget(c)
    /\ UNCHANGED <<phase, togo, gone, stores, profile247, moves, starts, fails, ended>>

RestoreSyncs ==
    /\ Restoring("syncing") /\ boot' = [boot EXCEPT !.step = "waiting"]
    /\ writes' = Append(writes, Sync(session, "restore"))
    /\ UNCHANGED <<phase, togo, session, gone, stores, profile247, counters, kept, ended>>

-----------------------------------------------------------------------------
(* The end of the process and its next start.                              *)

Held == \E i \in DOMAIN writes : writes[i].held
Hold(ws) == [i \in DOMAIN ws |-> [ws[i] EXCEPT !.held = TRUE]]
OpenChannels == {c \in VoiceChannels : session[c].open}

\* No write of the channel is in flight, and no earlier session of it is destroyed.
Undisturbed(c) == (\A g \in gone : g.chan # c) /\ (\A i \in DOMAIN writes : writes[i].chan # c)

\* A signal: shutdown().  With no session there is no guild to synchronise.
Shutdown ==
    /\ phase = "up" /\ togo' = OpenChannels
    /\ phase' = IF OpenChannels = {} THEN "leaving" ELSE "persisting"
    /\ kept' = [c \in VoiceChannels |->
                   IF Worth(session[c]) /\ session[c].linked /\ Undisturbed(c)
                   THEN session[c].content ELSE Nothing]
    /\ UNCHANGED <<session, gone, writes, stores, profile247, boot, counters, ended>>

BugNotForced(c) ==
    /\ phase = "persisting" /\ c \in togo /\ Room /\ ~Held
    /\ togo' = togo \ {c} /\ session' = [session EXCEPT ![c] = Persisted(session[c], FALSE)]
    /\ writes' = writes \o Hold(Sent(c, session[c], FALSE))
    /\ UNCHANGED <<phase, gone, stores, profile247, boot, counters, kept, ended>>

\* One session after the other is persisted, whatever the interval.
ShutdownPersists(c) ==
    /\ phase = "persisting" /\ c \in togo /\ Room /\ ~Held
    /\ togo' = togo \ {c} /\ session' = [session EXCEPT ![c] = Persisted(session[c], TRUE)]
    /\ writes' = writes \o Hold(Sent(c, session[c], TRUE))
    /\ UNCHANGED <<phase, gone, stores, profile247, boot, counters, kept, ended>>

\* Nothing is under way but snapshots of sessions and synchronisations nobody awaits.
AtRest == gone = {} /\ \A i \in DOMAIN writes : writes[i].by \in {"session", "nobody"}

ShutdownSyncs ==
    /\ phase = "persisting" /\ togo = {} /\ Room /\ ~Held /\ (QuietEnd => AtRest)
    /\ phase' = "leaving" /\ togo' = OpenChannels
    /\ writes' = writes \o Hold(<<Sync(session, "nobody")>>)
    /\ UNCHANGED <<session, gone, stores, profile247, boot, counters, kept, ended>>

\* destroy(..., "shutdown"): nothing is deleted.  (A session opened meanwhile is left too.)
ShutdownLeaves(c) ==
    /\ phase = "leaving" /\ c \in togo /\ ~Held
    /\ togo' = togo \ {c} /\ session' = [session EXCEPT ![c] = Closed] /\ writes' = Orphaned(c)
    /\ boot' = IF boot.chan = c THEN [boot EXCEPT !.mine = FALSE] ELSE boot
    /\ UNCHANGED <<phase, gone, stores, profile247, counters, kept, ended>>

Stopped ==
    /\ phase' = "down" /\ togo' = {} /\ session' = [c \in VoiceChannels |-> Closed]
    /\ gone' = {} /\ writes' = <<>> /\ boot' = Off
    /\ ended' = [c \in VoiceChannels |-> IF ended[c] = "going" THEN "no" ELSE ended[c]]
    /\ UNCHANGED <<stores, profile247, counters>>

\* The database is closed, with what is not answered.
ShutdownDone == phase = "leaving" /\ togo = {} /\ ~Held /\ Stopped /\ UNCHANGED kept

Crash == phase # "down" /\ Stopped /\ kept' = [c \in VoiceChannels |-> Nothing]

Start ==
    /\ phase = "down" /\ starts < MaxStarts /\ starts' = starts + 1
    /\ phase' = "up" /\ boot' = [Off EXCEPT !.step = "listing"]
    /\ UNCHANGED <<togo, session, gone, writes, stores, profile247, fresh, moves, fails, kept, ended>>

-----------------------------------------------------------------------------
Restore ==
    \/ Listed \/ RestoreEnds \/ RestoreConnected \/ RestoreFails \/ RestoreUndone
    \/ SnapshotRead \/ Restored \/ RestoreSyncs
    \/ \E c \in VoiceChannels : TakeBinding(c)

SnapshotNext ==
    \/ \E c \in VoiceChannels :
        \/ TrackChanges(c) \/ CommandChanges(c) \/ TracksAdded(c) \/ QueueRunsOut(c)
        \/ Set247(c) \/ TextBound(c) \/ LinkLost(c) \/ Flush(c) \/ IntervalEnds(c)
        \/ Join(c) \/ LeaveChannel(c) \/ ShutdownPersists(c) \/ ShutdownLeaves(c)
    \/ \E g \in gone : DestroyDeletes(g)
    \/ Applied \/ Fails \/ Restore
    \/ Shutdown \/ ShutdownSyncs \/ ShutdownDone \/ Crash \/ Start

SnapshotSpec == SnapshotInit /\ [][SnapshotNext]_snapshotVars

\* The database answers, the flush loop runs and the interval passes.
SnapshotFairSpec ==
    /\ SnapshotSpec
    /\ WF_snapshotVars(Applied)
    /\ \A c \in VoiceChannels : WF_snapshotVars(IntervalEnds(c)) /\ WF_snapshotVars(Flush(c))

-----------------------------------------------------------------------------
(* Properties.                                                             *)

\* test/session247Persistence.test.ts: a shutdown preserves the playback and the
\* bindings.  What a connected session held when the shutdown began, or something
\* newer, is stored when the process has ended, and is what the next start restores.
\* (Unless a write of the channel was in flight, one failed, or the session ended.)
RestartBringsBack ==
    \A c \in VoiceChannels : kept[c] # Nothing =>
        /\ phase = "down" => (c \in bound /\ snap[c] # Nothing /\ snap[c] >= kept[c])
        /\ (phase = "up" /\ boot.chan = c /\ boot.step \in {"resolving", "syncing"}) =>
               boot.content # Nothing /\ boot.content >= kept[c]

\* The same test: a session that was destroyed leaves no binding and no snapshot; no
\* later start brings it back.  (Unless its deletion or the synchronisation after it
\* failed or never came, or a binding was cleared from lists read before.)
DestroyedStaysGone ==
    \A c \in VoiceChannels : ended[c] = "gone" => c \notin bound /\ snap[c] = Nothing

\* docs/CONFIGURATION.md: active sessions write recovery snapshots.  Whatever write
\* was skipped, lost or overtaken, what plays is stored in the end.
PlaybackIsStored ==
    \A c \in VoiceChannels, k \in 1 .. MaxContent :
        (session[c].content = k /\ phase = "up") ~> (snap[c] = k \/ session[c].content # k \/ phase # "up")
=============================================================================
