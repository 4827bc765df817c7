---------------------------- MODULE VoiceConnect ----------------------------
(***************************************************************************)
(* connect() and disconnect() of the VoiceConnections of one guild           *)
(* (src/voice/VoiceConnection.ts): the wait for VOICE_SERVER_UPDATE, the     *)
(* LiveKit room, the audio track and the two clean-ups.                      *)
(*                                                                         *)
(* Calls are cut at their awaits.  A room is named by the connect() call     *)
(* that created it; an audio track is an object of its own, because several  *)
(* can be created for one connection.  All connections of a guild listen to  *)
(* the same gateway, which tells updates apart by guild only.                *)
(***************************************************************************)
EXTENDS FiniteSets

CONSTANTS
    Conns,      \* the VoiceConnections, one per session of the guild
    Channels,
    Home,       \* Home[v]: the voice channel the session of v serves
    Calls,      \* identifiers of calls (bound: calls and rooms alive at once)
    Tracks,     \* identifiers of audio tracks (bound: alive at once)
    None,
    Overlap     \* may calls on one connection overlap ?

ASSUME VoiceAssumption ==
    /\ Home \in [Conns -> Channels] /\ Overlap \in BOOLEAN
    /\ None \notin Conns \cup Channels \cup Calls \cup Tracks

VARIABLES
    room,       \* room[v]: this.room
    channel,    \* channel[v]: this.channelId
    audio,      \* audio[v]: the track of audioSource and audioTrack
    sid,        \* sid[v]: audioTrackSid # null
    call,       \* call[c]: the state of a connect() or disconnect()
    link,       \* link[c]: the LiveKit room call c created
    track,      \* track[t]: the published object
    updates,    \* the channels whose VOICE_SERVER_UPDATE is on its way
    wanted      \* wanted[v]: the last call begun on v was connect()

connVars == <<room, channel, audio, sid>>
vars == <<connVars, call, link, track, updates, wanted>>

\* "waiting": for VOICE_SERVER_UPDATE; "answered": it came; "connecting": room.connect
\* is pending; "rollback", "leaving": awaiting room.disconnect in
\* _cleanupFailedConnect, disconnect; "rolled", "left": awaiting the audio teardown.
Phases == {"idle", "waiting", "answered", "connecting", "rollback", "rolled", "leaving", "left"}
CallStates == [phase : Phases, conn : Conns \cup {None}, to : Channels \cup {None},
               held : Calls \cup {None}, closing : Tracks \cup {None}]
Idle == [phase |-> "idle", conn |-> None, to |-> None, held |-> None, closing |-> None]
NoLink == [state |-> "none", conn |-> None, to |-> None]
NoTrack == [state |-> "none", conn |-> None, in |-> None]

TypeOK ==
    /\ room \in [Conns -> Calls \cup {None}]
    /\ channel \in [Conns -> Channels \cup {None}]
    /\ audio \in [Conns -> Tracks \cup {None}] /\ sid \in [Conns -> BOOLEAN]
    /\ call \in [Calls -> CallStates]
    /\ link \in [Calls -> [state : {"none", "connecting", "open"}, conn : Conns \cup {None},
                           to : Channels \cup {None}]]
    /\ track \in [Tracks -> [state : {"none", "publishing", "published"}, conn : Conns \cup {None},
                             in : Calls \cup {None}]]
    /\ updates \subseteq Channels /\ wanted \in [Conns -> BOOLEAN]
    /\ \A v \in Conns : sid[v] => audio[v] # None      \* as _ensureAudioTrack relies on

Init ==
    /\ room = [v \in Conns |-> None] /\ channel = [v \in Conns |-> None]
    /\ audio = [v \in Conns |-> None] /\ sid = [v \in Conns |-> FALSE]
    /\ call = [c \in Calls |-> Idle] /\ link = [c \in Calls |-> NoLink]
    /\ track = [t \in Tracks |-> NoTrack]
    /\ updates = {} /\ wanted = [v \in Conns |-> FALSE]

-----------------------------------------------------------------------------
Active(c) == call[c].phase # "idle"
Busy(v) == \E c \in Calls : Active(c) /\ call[c].conn = v

\* A call can be made under a name that nothing refers to.
Free(c) ==
    /\ ~Active(c) /\ link[c].state = "none"
    /\ \A v \in Conns : room[v] # c
    /\ \A d \in Calls : call[d].held # c
MayCall(c, v) == Free(c) /\ (Overlap \/ ~Busy(v))

\* room?.isConnected
IsOpen(r) == IF r = None THEN FALSE ELSE link[r].state = "open"
Connected(v) == IsOpen(room[v])

\* The room is gone, and with it the place of what was published in it.
Closed(r) == IF r = None THEN link ELSE [link EXCEPT ![r] = NoLink]
Cut(r) == [t \in Tracks |-> IF r # None /\ track[t].in = r THEN [track[t] EXCEPT !.in = None]
                           ELSE track[t]]
Gone(t) == IF t = None THEN track ELSE [track EXCEPT ![t] = NoTrack]

\* connect() up to its first await.
Connect(c, v) ==
    /\ MayCall(c, v)
    /\ wanted' = [wanted EXCEPT ![v] = TRUE]
    /\ IF Connected(v)
       THEN /\ channel' = [channel EXCEPT ![v] = Home[v]]
            /\ UNCHANGED <<call, updates>>
       ELSE /\ call' = [call EXCEPT ![c] = [Idle EXCEPT !.phase = "waiting", !.conn = v]]
            /\ updates' = updates \cup {Home[v]}
            /\ UNCHANGED channel
    /\ UNCHANGED <<room, audio, sid, link, track>>

\* A VOICE_SERVER_UPDATE of the guild resolves every call that waits for one.
VoiceServerUpdate(ch) ==
    /\ ch \in updates /\ updates' = updates \ {ch}
    /\ call' = [c \in Calls |-> IF call[c].phase = "waiting"
                                THEN [call[c] EXCEPT !.phase = "answered", !.to = ch] ELSE call[c]]
    /\ UNCHANGED <<connVars, link, track, wanted>>

BugNoTimeout(c) ==
    /\ call[c].phase = "answered"
    /\ call' = [call EXCEPT ![c] = Idle]
    /\ UNCHANGED <<connVars, link, track, updates, wanted>>

\* The timeout of _waitForVoiceServer, or an answer without endpoint or token.
ConnectRejected(c) ==
    /\ call[c].phase \in {"waiting", "answered"}
    /\ call' = [call EXCEPT ![c] = Idle]
    /\ UNCHANGED <<connVars, link, track, updates, wanted>>

\* The room object is created and room.connect called.
OpenRoom(c) ==
    /\ call[c].phase = "answered"
    /\ room' = [room EXCEPT ![call[c].conn] = c]
    /\ link' = [link EXCEPT ![c] = [state |-> "connecting", conn |-> call[c].conn, to |-> call[c].to]]
    /\ call' = [call EXCEPT ![c].phase = "connecting"]
    /\ UNCHANGED <<channel, audio, sid, track, updates, wanted>>

\* _ensureAudioTrack: unless a track is published, loadAudioTrack makes a new
\* one and begins to publish it in this.room, if that has a participant; nobody
\* awaits it.  `rooms` is the table of rooms the step leaves.
NoParticipant(r, rooms) == IF r = None THEN TRUE ELSE rooms[r].state = "connecting"
EnsureAudioTrack(v, rooms) ==
    IF (audio[v] # None /\ sid[v]) \/ NoParticipant(room[v], rooms)
    THEN UNCHANGED <<audio, track>>
    ELSE \E t \in Tracks :
            /\ track[t].state = "none" /\ \A w \in Conns : audio[w] # t
            /\ \A c \in Calls : call[c].closing # t
            /\ audio' = [audio EXCEPT ![v] = t]
            /\ track' = [track EXCEPT ![t] = [state |-> "publishing", conn |-> v, in |-> room[v]]]

\* room.connect resolves; connect() goes on to its end.
RoomConnected(c) ==
    /\ call[c].phase = "connecting" /\ link[c].state = "connecting"
    /\ link' = [link EXCEPT ![c].state = "open"]
    /\ channel' = [channel EXCEPT ![call[c].conn] = Home[call[c].conn]]
    /\ EnsureAudioTrack(call[c].conn, link')
    /\ call' = [call EXCEPT ![c] = Idle]
    /\ UNCHANGED <<room, sid, updates, wanted>>

\* room.connect rejects: _cleanupFailedConnect begins.
RoomConnectFails(c) ==
    /\ call[c].phase = "connecting"
    /\ call' = [call EXCEPT ![c].phase = "rollback", ![c].held = c]
    /\ UNCHANGED <<connVars, link, track, updates, wanted>>

\* disconnect() up to its first await.
Disconnect(c, v) ==
    /\ MayCall(c, v)
    /\ wanted' = [wanted EXCEPT ![v] = FALSE]
    /\ call' = [call EXCEPT ![c] = [Idle EXCEPT !.phase = "leaving", !.conn = v, !.held = room[v]]]
    /\ UNCHANGED <<connVars, link, track, updates>>

BugRoomNotDisconnected(c) ==
    /\ call[c].phase \in {"rollback", "leaving"}
    /\ LET v == call[c].conn
       IN  /\ call' = [call EXCEPT ![c].phase = IF @ = "rollback" THEN "rolled" ELSE "left",
                                   ![c].held = None, ![c].closing = audio[v]]
           /\ audio' = [audio EXCEPT ![v] = None] /\ sid' = [sid EXCEPT ![v] = FALSE]
    /\ UNCHANGED <<room, channel, link, track, updates, wanted>>

\* The room is left; _closeAudioResources drops the source and the track and
\* begins to close them.
RoomLeft(c) ==
    /\ call[c].phase \in {"rollback", "leaving"}
    /\ LET v == call[c].conn
       IN  /\ link' = Closed(call[c].held) /\ track' = Cut(call[c].held)
           /\ call' = [call EXCEPT ![c].phase = IF @ = "rollback" THEN "rolled" ELSE "left",
                                   ![c].held = None, ![c].closing = audio[v]]
           /\ audio' = [audio EXCEPT ![v] = None] /\ sid' = [sid EXCEPT ![v] = FALSE]
    /\ UNCHANGED <<room, channel, updates, wanted>>

\* The audio is closed; the clean-up forgets the room and the channel.
CleanedUp(c) ==
    /\ call[c].phase \in {"rolled", "left"}
    /\ track' = Gone(call[c].closing)
    /\ room' = [room EXCEPT ![call[c].conn] = None]
    /\ channel' = [channel EXCEPT ![call[c].conn] = None]
    /\ call' = [call EXCEPT ![c] = Idle]
    /\ UNCHANGED <<audio, sid, link, updates, wanted>>

\* sendAudio makes sure of the track before it pumps.
SendAudio(v) ==
    /\ Connected(v) /\ EnsureAudioTrack(v, link)
    /\ UNCHANGED <<room, channel, sid, call, link, updates, wanted>>

\* publishTrack resolves: the sid is stored, whatever track is current by then;
\* or it rejects, as it does when the room is gone.
Published(t) ==
    /\ track[t].state = "publishing"
    /\ \/ /\ IsOpen(track[t].in)
          /\ track' = [track EXCEPT ![t].state = "published"]
          /\ sid' = [sid EXCEPT ![track[t].conn] = TRUE]
       \/ track' = [track EXCEPT ![t] = NoTrack] /\ UNCHANGED sid
    /\ UNCHANGED <<room, channel, audio, call, link, updates, wanted>>

\* A track nobody refers to whose room is gone is collected.
Collected(t) ==
    /\ track[t].state = "published" /\ ~IsOpen(track[t].in) /\ \A v \in Conns : audio[v] # t
    /\ track' = [track EXCEPT ![t] = NoTrack]
    /\ UNCHANGED <<connVars, call, link, updates, wanted>>

\* The server ends a room.
RoomDrops(c) ==
    /\ link[c].state = "open"
    /\ link' = Closed(c) /\ track' = Cut(c)
    /\ UNCHANGED <<connVars, call, updates, wanted>>

Step(c) ==
    \/ ConnectRejected(c) \/ OpenRoom(c) \/ RoomConnected(c) \/ RoomConnectFails(c)
    \/ RoomLeft(c) \/ CleanedUp(c)

Next ==
    \/ \E c \in Calls, v \in Conns : Connect(c, v) \/ Disconnect(c, v)
    \/ \E ch \in Channels : VoiceServerUpdate(ch)
    \/ \E c \in Calls : Step(c) \/ RoomDrops(c)
    \/ \E v \in Conns : SendAudio(v)
    \/ \E t \in Tracks : Published(t) \/ Collected(t)

Spec == Init /\ [][Next]_vars

\* The timer of a wait fires, LiveKit settles what it was asked for.
FairSpec == Spec /\ \A c \in Calls : WF_vars(Step(c))

-----------------------------------------------------------------------------
(* Properties.                                                             *)

\* No room outlives the connection's knowledge of it: a room that is open, or
\* will be, is this.room of its connection, or held by a call that closes it.
NoStrayRoom ==
    \A c \in Calls : link[c].state # "none" =>
        room[link[c].conn] = c \/ \E d \in Calls : call[d].held = c

\* At rest, a connection in a room names the channel of its session, and one
\* that has forgotten its room has forgotten channel and audio with it.
RestingStateTrue ==
    \A v \in Conns : ~Busy(v) =>
        /\ Connected(v) => channel[v] = Home[v]
        /\ room[v] = None => channel[v] = None /\ audio[v] = None

\* Rooms are accounted for, whatever times out, fails or drops half way through
\* connect() and disconnect().
RoomsAccounted == TypeOK /\ NoStrayRoom /\ RestingStateTrue

\* Every connect() and disconnect() returns or rejects.
CallsReturn == \A c \in Calls : Active(c) ~> ~Active(c)

\* README.md: independent voice sessions per guild.  A connection is in the
\* room of its own channel, whatever the other sessions of the guild do.
OwnChannel == \A v \in Conns : Connected(v) => link[room[v]].to = Home[v]

\* test/voiceConnectionCleanup.test.ts: 'disconnect closes audio resources and
\* clears room internals'.  After disconnect() the connection is in no room.
DisconnectClears ==
    \A v \in Conns : ~wanted[v] /\ ~Busy(v) => \A c \in Calls : link[c].conn # v

\* The same test: once disconnect() has returned, every audio track that was
\* created for the connection is closed.
TracksClosed ==
    \A v \in Conns : ~wanted[v] /\ ~Busy(v) => \A t \in Tracks : track[t].conn # v
=============================================================================
