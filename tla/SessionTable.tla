---------------------------- MODULE SessionTable ----------------------------
(***************************************************************************)
(* The sessions of one guild: src/bot/sessionManager.ts with its              *)
(* runtimeMethods, and the commands that open them                            *)
(* (src/bot/commands/helpers/context.ts).                                    *)
(*                                                                         *)
(* A session serves one voice channel, which is its key in the table.  A      *)
(* session object can be alive without being in the table any more.           *)
(* Operations are cut at their awaits; the idle timer and the events of a     *)
(* player come between.  Sessions without a voice channel (previews) have a   *)
(* key of their own and are not modelled.  Of a player it matters whether     *)
(* playback is active, of a connection whether it is up.                      *)
(***************************************************************************)
EXTENDS Naturals, FiniteSets

CONSTANTS
    Sessions,   \* identifiers of session objects (bound: alive at once)
    Channels,
    Ops,        \* identifiers of operations (bound: in progress at once)
    None,
    MaxVoice,   \* maxConcurrentVoiceChannelsPerGuild
    Overlap,    \* may operations overlap ?
    Failures    \* may reading a voice profile fail ?

ASSUME SessionAssumption ==
    /\ None \notin Sessions \cup Channels
    /\ MaxVoice \in Nat /\ Overlap \in BOOLEAN /\ Failures \in BOOLEAN

VARIABLES
    table,      \* table[c]: this.sessions, by voice channel
    listeners,  \* listeners[c]: whose listeners playerSessionListeners holds
    home,       \* home[s]: targetVoiceChannelId; kept until s is used again
    attached,   \* attached[s]: the listeners are on the player
    timer,      \* timer[s]: the idle timer is armed
    ignore,     \* ignore[s]: idleTimeoutIgnoreListeners
    cached,     \* cached[s]: 24/7 in voiceProfileSettings
    stay,       \* stay[s]: settings.stayInVoiceEnabled
    active,     \* active[s]: _isSessionPlaybackActive
    link,       \* link[s]: connection.connected
    closing,    \* sessions whose disconnect() is awaited by destroy()
    op,         \* op[o]: the state of an operation
    profile,    \* profile[c]: 24/7 in the stored voice profile
    people      \* people[c]: there are human listeners in the channel

tableVars == <<table, listeners, attached, closing>>
settingVars == <<ignore, cached, stay>>
vars == <<tableVars, settingVars, home, timer, active, link, op, profile, people>>

\* ensure() awaits the profile ("loading", "loaded"), then the connection
\* ("connecting", "pausing" between the attempts of a restore); the 247 command
\* has "stored" the profile and refreshes ("reading", "read", "config").
Phases == {"idle", "loading", "loaded", "connecting", "pausing", "stored", "reading", "read", "config"}
Kinds == {"join", "restore", "look", "247"}
OpStates == [phase : Phases, kind : Kinds, chan : Channels \cup {None},
             sess : Sessions \cup {None}, had : BOOLEAN, value : BOOLEAN]
Idle == [phase |-> "idle", kind |-> "look", chan |-> None, sess |-> None, had |-> FALSE, value |-> FALSE]

Types ==
    /\ table \in [Channels -> Sessions \cup {None}]
    /\ listeners \in [Channels -> Sessions \cup {None}]
    /\ home \in [Sessions -> Channels \cup {None}]
    /\ attached \in [Sessions -> BOOLEAN] /\ timer \in [Sessions -> BOOLEAN]
    /\ ignore \in [Sessions -> BOOLEAN] /\ cached \in [Sessions -> BOOLEAN]
    /\ stay \in [Sessions -> BOOLEAN] /\ active \in [Sessions -> BOOLEAN]
    /\ link \in [Sessions -> BOOLEAN] /\ closing \subseteq Sessions
    /\ op \in [Ops -> OpStates]
    /\ profile \in [Channels -> BOOLEAN] /\ people \in [Channels -> BOOLEAN]

\* A session in the table is listened to, and destroy() will find its listeners.
TableAgrees ==
    /\ \A c \in Channels : listeners[c] = table[c]
    /\ \A c \in Channels : table[c] # None => home[table[c]] = c /\ attached[table[c]]

TypeOK == Types /\ TableAgrees

Init ==
    /\ table = [c \in Channels |-> None] /\ listeners = [c \in Channels |-> None]
    /\ home = [s \in Sessions |-> None]
    /\ attached = [s \in Sessions |-> FALSE] /\ timer = [s \in Sessions |-> FALSE]
    /\ ignore = [s \in Sessions |-> FALSE] /\ cached = [s \in Sessions |-> FALSE]
    /\ stay = [s \in Sessions |-> FALSE] /\ active = [s \in Sessions |-> FALSE]
    /\ link = [s \in Sessions |-> FALSE] /\ closing = {}
    /\ op = [o \in Ops |-> Idle]
    /\ profile = [c \in Channels |-> FALSE] /\ people = [c \in Channels |-> FALSE]

-----------------------------------------------------------------------------
Running(o) == op[o].phase # "idle"
Quiet == closing = {} /\ \A p \in Ops : ~Running(p)
MayBegin(o) == ~Running(o) /\ (Overlap \/ Quiet)

\* _hasSessionInstance
Registered(s) == \E c \in Channels : table[c] = s
InUse(s) ==
    \/ Registered(s) \/ attached[s] \/ timer[s] \/ link[s] \/ s \in closing
    \/ \E o \in Ops : op[o].sess = s
OpenSessions == {c \in Channels : table[c] # None}

BugNotDetached(s) ==
    /\ table' = [table EXCEPT ![home[s]] = None]
    /\ listeners' = [listeners EXCEPT ![home[s]] = None]
    /\ attached' = attached
    /\ timer' = [timer EXCEPT ![s] = FALSE]
    /\ active' = [active EXCEPT ![s] = FALSE] /\ closing' = closing \cup {s}

\* destroy() of the session s of the table, up to the await of disconnect().
DestroySession(s) ==
    /\ table' = [table EXCEPT ![home[s]] = None]
    /\ listeners' = [listeners EXCEPT ![home[s]] = None]
    /\ attached' = [attached EXCEPT ![s] = @ /\ listeners[home[s]] # s]
    /\ timer' = [timer EXCEPT ![s] = FALSE]
    /\ active' = [active EXCEPT ![s] = FALSE] /\ closing' = closing \cup {s}

\* destroy() by sessionId: what the table holds under the key of s now.
DestroyKey(s) ==
    IF table[home[s]] # None THEN DestroySession(table[home[s]])
    ELSE UNCHANGED <<tableVars, timer, active>>

\* disconnect() resolves.
Disconnected(s) ==
    /\ s \in closing /\ closing' = closing \ {s}
    /\ link' = [link EXCEPT ![s] = FALSE]
    /\ UNCHANGED <<table, listeners, attached, settingVars, home, timer, active, op, profile, people>>

-----------------------------------------------------------------------------
(* Opening a session.                                                      *)

\* applyGuildConfig: the settings of every session of the table are computed
\* again, and its timer follows a change of 24/7.
ApplyGuildConfig ==
    /\ stay' = [s \in Sessions |-> IF Registered(s) THEN cached[s] ELSE stay[s]]
    /\ timer' = [s \in Sessions |-> IF Registered(s) /\ stay[s] # cached[s]
                                    THEN ~cached[s] ELSE timer[s]]

\* With the session in hand: it is connected unless it is, or was not wanted to be.
Proceed(o, k, c, s, had) ==
    op' = [op EXCEPT ![o] = IF k = "look" \/ link[s] THEN Idle
                            ELSE [phase |-> "connecting", kind |-> k, chan |-> c, sess |-> s,
                                  had |-> had, value |-> FALSE]]

\* A command, or the restore at the start, asks for the session of a channel.
Open(o, k, c) ==
    /\ MayBegin(o) /\ k \in {"join", "restore", "look"}
    /\ IF table[c] # None
       THEN ApplyGuildConfig /\ Proceed(o, k, c, table[c], TRUE)
       ELSE /\ k = "join" => Cardinality(OpenSessions) < MaxVoice
            /\ op' = [op EXCEPT ![o] = [Idle EXCEPT !.phase = "loading", !.kind = k, !.chan = c]]
            /\ UNCHANGED <<stay, timer>>
    /\ UNCHANGED <<tableVars, ignore, cached, home, active, link, profile, people>>

\* getVoiceProfile answers; an error counts as no profile.
ReadProfile(o) ==
    /\ op[o].phase \in {"loading", "reading"}
    /\ \E v \in {profile[op[o].chan]} \cup (IF Failures THEN {FALSE} ELSE {}) :
         op' = [op EXCEPT ![o].phase = IF @ = "loading" THEN "loaded" ELSE "read", ![o].value = v]
    /\ UNCHANGED <<tableVars, settingVars, home, timer, active, link, profile, people>>

\* ensure() goes on: a session is created and put in the table, whatever is there.
Create(o, s) ==
    /\ op[o].phase = "loaded" /\ ~InUse(s)
    /\ LET c == op[o].chan
           v == op[o].value
       IN  /\ table' = [table EXCEPT ![c] = s] /\ listeners' = [listeners EXCEPT ![c] = s]
           /\ home' = [home EXCEPT ![s] = c] /\ attached' = [attached EXCEPT ![s] = TRUE]
           /\ cached' = [cached EXCEPT ![s] = v] /\ stay' = [stay EXCEPT ![s] = v]
           /\ timer' = [timer EXCEPT ![s] = ~v]
           /\ ignore' = [ignore EXCEPT ![s] = FALSE] /\ active' = [active EXCEPT ![s] = FALSE]
           /\ Proceed(o, op[o].kind, c, s, FALSE)
    /\ UNCHANGED <<closing, link, profile, people>>

Connected(o) ==
    /\ op[o].phase = "connecting"
    /\ link' = [link EXCEPT ![op[o].sess] = TRUE]
    /\ op' = [op EXCEPT ![o] = Idle]
    /\ UNCHANGED <<tableVars, settingVars, home, timer, active, profile, people>>

\* connect() rejects.  A session the operation found is kept, unless the error
\* says that it cannot be used.
ConnectFailed(o) ==
    /\ op[o].phase = "connecting"
    /\ \/ ~op[o].had /\ DestroyKey(op[o].sess)
       \/ op[o].kind = "join" /\ op[o].had /\ DestroyKey(op[o].sess)
       \/ op[o].had /\ UNCHANGED <<tableVars, timer, active>>
    /\ op' = [op EXCEPT ![o] = Idle]
    /\ UNCHANGED <<settingVars, home, link, profile, people>>

\* A restore whose connect() failed for the moment disconnects and tries again (the
\* number of attempts is not counted).
Retry(o) ==
    /\ \/ /\ op[o].phase = "connecting" /\ op[o].kind = "restore"
          /\ op' = [op EXCEPT ![o].phase = "pausing"]
          /\ link' = [link EXCEPT ![op[o].sess] = FALSE]
       \/ /\ op[o].phase = "pausing"
          /\ op' = [op EXCEPT ![o].phase = "connecting"] /\ UNCHANGED link
    /\ UNCHANGED <<tableVars, settingVars, home, timer, active, profile, people>>

-----------------------------------------------------------------------------
(* The end of a session.                                                   *)

\* The leave command.
Leave(c) ==
    /\ (Overlap \/ Quiet)
    /\ table[c] # None /\ DestroySession(table[c])
    /\ UNCHANGED <<settingVars, home, link, op, profile, people>>

Listened(s) == ~ignore[s] /\ link[s] /\ people[home[s]]

BugTimerTrustsKey(s) ==
    /\ timer[s] /\ ~active[s] /\ ~Listened(s) /\ ~stay[s]
    /\ IF table[home[s]] # None
       THEN DestroySession(table[home[s]])
       ELSE timer' = [timer EXCEPT ![s] = FALSE] /\ UNCHANGED <<tableVars, active>>
    /\ UNCHANGED <<settingVars, home, link, op, profile, people>>

\* The idle timer fires, and destroys by sessionId.  (Where it only starts again
\* nothing changes.)
TimerFires(s) ==
    /\ timer[s]
    /\ \/ /\ ~Registered(s) /\ OpenSessions # {}
          /\ timer' = [timer EXCEPT ![s] = FALSE] /\ UNCHANGED <<tableVars, active>>
       \/ /\ Registered(s) \/ OpenSessions = {}
          /\ ~active[s] /\ ~Listened(s) /\ ~stay[s]
          /\ IF table[home[s]] # None THEN DestroySession(table[home[s]])
             ELSE timer' = [timer EXCEPT ![s] = FALSE] /\ UNCHANGED <<tableVars, active>>
    /\ UNCHANGED <<settingVars, home, link, op, profile, people>>

-----------------------------------------------------------------------------
(* What happens during its life.                                           *)

\* Playback starts; trackStart reaches the session if it is in the table.
PlaybackStarts(s) ==
    /\ link[s] /\ ~active[s] /\ active' = [active EXCEPT ![s] = TRUE]
    /\ IF attached[s] /\ Registered(s)
       THEN ignore' = [ignore EXCEPT ![s] = FALSE] /\ timer' = [timer EXCEPT ![s] = FALSE]
       ELSE UNCHANGED <<ignore, timer>>
    /\ UNCHANGED <<tableVars, cached, stay, home, link, op, profile, people>>

\* The queue is empty: queueEmpty reaches the session if it is in the table.
PlaybackEnds(s) ==
    /\ active[s] /\ active' = [active EXCEPT ![s] = FALSE]
    /\ IF attached[s] /\ Registered(s)
       THEN ignore' = [ignore EXCEPT ![s] = ~stay[s]] /\ timer' = [timer EXCEPT ![s] = ~stay[s]]
       ELSE UNCHANGED <<ignore, timer>>
    /\ UNCHANGED <<tableVars, cached, stay, home, link, op, profile, people>>

LinkDrops(s) ==
    /\ link[s] /\ link' = [link EXCEPT ![s] = FALSE]
    /\ UNCHANGED <<tableVars, settingVars, home, timer, active, op, profile, people>>

PeopleChange(c) ==
    /\ people' = [people EXCEPT ![c] = ~@]
    /\ UNCHANGED <<tableVars, settingVars, home, timer, active, link, op, profile>>

\* The 247 command has stored the profile of the channel.
Store247(o, c, v) ==
    /\ MayBegin(o) /\ profile' = [profile EXCEPT ![c] = v]
    /\ op' = [op EXCEPT ![o] = [Idle EXCEPT !.phase = "stored", !.kind = "247", !.chan = c]]
    /\ UNCHANGED <<tableVars, settingVars, home, timer, active, link, people>>

\* refreshVoiceProfileSettings looks up the session.
Refresh(o) ==
    /\ op[o].phase = "stored"
    /\ op' = [op EXCEPT ![o] = IF table[op[o].chan] = None THEN Idle
                               ELSE [op[o] EXCEPT !.phase = "reading", !.sess = table[op[o].chan]]]
    /\ UNCHANGED <<tableVars, settingVars, home, timer, active, link, profile, people>>

\* It has the profile, remembers the settings and loads the configuration.
ProfileRead(o) ==
    /\ op[o].phase = "read"
    /\ cached' = [cached EXCEPT ![op[o].sess] = op[o].value]
    /\ op' = [op EXCEPT ![o].phase = "config", ![o].value = stay[op[o].sess]]
    /\ UNCHANGED <<tableVars, ignore, stay, home, timer, active, link, profile, people>>

BugTimerNotRestarted(o) ==
    /\ op[o].phase = "config"
    /\ LET s == op[o].sess
       IN  /\ stay' = [stay EXCEPT ![s] = cached[s]]
           /\ timer' = IF cached[s] THEN [timer EXCEPT ![s] = FALSE] ELSE timer
    /\ op' = [op EXCEPT ![o] = Idle]
    /\ UNCHANGED <<tableVars, ignore, cached, home, active, link, profile, people>>

\* The new settings; the timer follows if 24/7 is not what was remembered.
ConfigRead(o) ==
    /\ op[o].phase = "config"
    /\ LET s == op[o].sess
       IN  /\ stay' = [stay EXCEPT ![s] = cached[s]]
           /\ timer' = IF op[o].value # cached[s] THEN [timer EXCEPT ![s] = ~cached[s]] ELSE timer
    /\ op' = [op EXCEPT ![o] = Idle]
    /\ UNCHANGED <<tableVars, ignore, cached, home, active, link, profile, people>>

-----------------------------------------------------------------------------
Continue(o) ==
    \/ ReadProfile(o) \/ Connected(o) \/ ConnectFailed(o)
    \/ Refresh(o) \/ ProfileRead(o) \/ ConfigRead(o)
    \/ \E s \in Sessions : Create(o, s)

Next ==
    \/ \E o \in Ops, c \in Channels : \/ \E k \in Kinds : Open(o, k, c)
                                     \/ \E v \in BOOLEAN : Store247(o, c, v)
    \/ \E o \in Ops : Continue(o) \/ Retry(o)
    \/ \E c \in Channels : Leave(c) \/ PeopleChange(c)
    \/ \E s \in Sessions : \/ Disconnected(s) \/ TimerFires(s) \/ LinkDrops(s)
                           \/ PlaybackStarts(s) \/ PlaybackEnds(s)

Spec == Init /\ [][Next]_vars

\* Timers fire, the database, the configuration and the voice server answer.
FairSpec ==
    /\ Spec
    /\ \A s \in Sessions : WF_vars(TimerFires(s))
    /\ \A o \in Ops : WF_vars(Continue(o))

-----------------------------------------------------------------------------
(* Properties.                                                             *)

\* docs/ARCHITECTURE.md: one playback session per voice channel.  A session that
\* was created and not destroyed is the one in the table.
OneSessionPerChannel == \A s \in Sessions : attached[s] => table[home[s]] = s

\* docs/CONFIGURATION.md: new sessions above the limit are rejected.
WithinLimit == Cardinality(OpenSessions) <= MaxVoice

\* docs/ARCHITECTURE.md: 24/7 comes from the voice profile of the channel.
StayAgrees ==
    Quiet =>
        \A c \in Channels : table[c] # None => stay[table[c]] = profile[c]

\* An abandoned session is left in the end: docs/ARCHITECTURE.md, idle sessions are
\* destroyed unless 24/7 is enabled.
Abandoned(s) == Registered(s) /\ ~active[s] /\ ~stay[s] /\ ~people[home[s]]
IdleSessionsLeave == \A s \in Sessions : Abandoned(s) ~> ~Abandoned(s)

\* The 24/7 setting counts: a session carries what is stored for its channel, and
\* one that does not have to stay is left in the end, whatever timers, playback
\* and people do (refreshVoiceProfileSettings, _scheduleIdleTimeout).
StayIsHeeded == IdleSessionsLeave /\ []StayAgrees

\* The idle timer of a replaced session destroys no other (CHANGELOG.md).
TimerSparesOthers ==
    [][\A s \in Sessions : TimerFires(s) =>
         \A t \in Sessions \ {s} : attached'[t] = attached[t]]_vars

\* test/sessionConnectCleanup.test.ts: join does not destroy an existing session
\* when its own connect() fails.
FailureSparesOthers ==
    [][\A o \in Ops : ConnectFailed(o) =>
         \A t \in Sessions \ {op[o].sess} : attached'[t] = attached[t]]_vars
=============================================================================
