------------------------- MODULE VoiceConnectProofs -------------------------
(***************************************************************************)
(* What holds of the voice connections of a guild, for any number of         *)
(* connections, calls and tracks, when calls on one connection do not        *)
(* overlap (calls on different connections do).                             *)
(*                                                                         *)
(* Rooms and connections know each other (Linked): that is inductive only    *)
(* together with what each phase of a call has already done to its           *)
(* connection (Stages), and published tracks are in open rooms (InRooms).    *)
(***************************************************************************)
EXTENDS VoiceConnect, TLAPS

\* Calls on one connection come one after the other.
Serial == \A c, d \in Calls : Active(c) /\ Active(d) /\ call[c].conn = call[d].conn => c = d

\* A room that is open, or will be, is this.room of its connection and of no other.
Linked ==
    \A c \in Calls : link[c].state # "none" =>
        /\ link[c].conn \in Conns
        /\ \A v \in Conns : room[v] = c <=> v = link[c].conn

\* No room of v is open, or will be.
NoLinkOf(v) == \A c \in Calls : link[c].state # "none" => link[c].conn # v

\* What a call in each phase has done, and left to do.
Stage(c) ==
    /\ Active(c) => call[c].conn \in Conns
    /\ call[c].phase \in {"waiting", "answered"} =>
          NoLinkOf(call[c].conn) /\ \A v \in Conns : room[v] # c
    /\ call[c].phase \in {"connecting", "rollback"} => room[call[c].conn] = c
    /\ call[c].phase \in {"rollback", "leaving"} => call[c].held = room[call[c].conn]
    /\ call[c].phase \in {"rolled", "left"} => NoLinkOf(call[c].conn) /\ audio[call[c].conn] = None
    /\ link[c].state = "connecting" =>
          call[c].phase \in {"connecting", "rollback"} /\ link[c].conn = call[c].conn
Stages == \A c \in Calls : Stage(c)

\* A track in a room is in the open room of its connection, which has a track.
InRooms ==
    \A t \in Tracks : track[t].in # None =>
        /\ link[track[t].in].state = "open" /\ link[track[t].in].conn = track[t].conn
        /\ audio[track[t].conn] # None

\* The clause of RestingStateTrue, busy or not.
ChannelKnown ==
    \A v \in Conns :
        /\ Connected(v) => channel[v] = Home[v]
        /\ room[v] = None => channel[v] = None /\ audio[v] = None

Inv == TypeOK /\ Serial /\ Linked /\ Stages /\ InRooms /\ ChannelKnown

-----------------------------------------------------------------------------
LEMMA IdleState == Idle \in CallStates /\ Idle.phase = "idle"
BY DEF Idle, CallStates, Phases

LEMMA InitInv == Init => Inv
<1> SUFFICES ASSUME Init PROVE Inv
  OBVIOUS
<1>1. \A c \in Calls : call[c] = Idle /\ link[c].state = "none" /\ ~Active(c)
  BY IdleState DEF Init, NoLink, Active
<1>2. TypeOK
  BY IdleState DEF Init, TypeOK, NoLink, NoTrack
<1>3. Serial /\ Linked /\ Stages
  BY <1>1, IdleState DEF Serial, Linked, Stages, Stage
<1>4. InRooms
  BY DEF Init, InRooms, NoTrack
<1>5. ChannelKnown
  BY DEF Init, ChannelKnown, Connected, IsOpen
<1> QED
  BY <1>2, <1>3, <1>4, <1>5 DEF Inv

\* A call that begins alone on its connection, goes on or ends keeps calls apart.
LEMMA SerialKept ==
    ASSUME Inv, NEW c \in Calls, \A d \in Calls \ {c} : call'[d] = call[d],
           \/ call'[c].phase = "idle"
           \/ Active(c) /\ call'[c].conn = call[c].conn
           \/ \A d \in Calls \ {c} : Active(d) => call[d].conn # call'[c].conn
    PROVE  Serial'
<1> SUFFICES ASSUME NEW d \in Calls, NEW e \in Calls, d # e,
                    call'[d].phase # "idle", call'[e].phase # "idle",
                    call'[d].conn = call'[e].conn
             PROVE  FALSE
  BY DEF Serial, Active
<1>1. CASE d # c /\ e # c
  BY <1>1 DEF Inv, Serial, Active
<1>2. CASE d = c
  BY <1>2 DEF Inv, Serial, Active
<1>3. CASE e = c
  BY <1>3 DEF Inv, Serial, Active
<1> QED
  BY <1>1, <1>2, <1>3

\* The call that has just begun on a connection is the only one there.
LEMMA Begins ==
    ASSUME ~Overlap, Inv, NEW c \in Calls, NEW v \in Conns, MayCall(c, v)
    PROVE  /\ call[c].phase = "idle" /\ link[c].state = "none"
           /\ \A w \in Conns : room[w] # c
           /\ \A d \in Calls : Active(d) => d # c /\ call[d].conn # v
BY DEF MayCall, Free, Busy, Active

LEMMA ConnectInv == ASSUME ~Overlap, Inv, NEW c \in Calls, NEW v \in Conns, Connect(c, v) PROVE Inv'
<1>1. /\ call[c].phase = "idle" /\ link[c].state = "none"
      /\ \A w \in Conns : room[w] # c
      /\ \A d \in Calls : Active(d) => d # c /\ call[d].conn # v
      /\ UNCHANGED <<room, audio, sid, link, track>> /\ wanted' = [wanted EXCEPT ![v] = TRUE]
  BY Begins DEF Connect
<1>2. CASE Connected(v) /\ channel' = [channel EXCEPT ![v] = Home[v]] /\ UNCHANGED <<call, updates>>
  <2>1. TypeOK'
    BY <1>1, <1>2, VoiceAssumption DEF Inv, TypeOK
  <2>2. ChannelKnown'
    BY <1>1, <1>2, VoiceAssumption DEF Inv, TypeOK, ChannelKnown, Connected, IsOpen
  <2>3. Serial' /\ Linked' /\ Stages' /\ InRooms'
    BY <1>1, <1>2 DEF Inv, Serial, Active, Linked, Stages, Stage, NoLinkOf, InRooms
  <2> QED
    BY <2>1, <2>2, <2>3 DEF Inv
<1>3. CASE /\ ~Connected(v) /\ updates' = updates \cup {Home[v]} /\ UNCHANGED channel
           /\ call' = [call EXCEPT ![c] = [Idle EXCEPT !.phase = "waiting", !.conn = v]]
  <2>1. /\ call'[c] = [Idle EXCEPT !.phase = "waiting", !.conn = v]
        /\ \A d \in Calls \ {c} : call'[d] = call[d]
    BY <1>3 DEF Inv, TypeOK
  <2>2. call'[c].phase = "waiting" /\ call'[c].conn = v /\ call'[c] \in CallStates
    BY <2>1 DEF Idle, CallStates, Phases
  <2>3. TypeOK'
    <3>1. call' \in [Calls -> CallStates]
      BY <1>3, <2>1, <2>2 DEF Inv, TypeOK
    <3>2. updates' \subseteq Channels
      BY <1>3, VoiceAssumption DEF Inv, TypeOK
    <3>3. wanted' \in [Conns -> BOOLEAN]
      BY <1>1 DEF Inv, TypeOK
    <3> QED
      BY <1>1, <1>3, <3>1, <3>2, <3>3 DEF Inv, TypeOK
  <2>4. Serial'
    BY <1>1, <2>1, <2>2, SerialKept
  <2>5. Linked' /\ InRooms'
    BY <1>1 DEF Inv, Linked, InRooms
  <2>6. NoLinkOf(v)
    <3> SUFFICES ASSUME NEW d \in Calls, link[d].state # "none", link[d].conn = v PROVE FALSE
      BY DEF NoLinkOf
    <3>1. room[v] = d
      BY DEF Inv, Linked
    <3>2. link[d].state = "connecting"
      BY <1>3, <3>1, VoiceAssumption DEF Inv, TypeOK, Connected, IsOpen
    <3> QED
      BY <1>1, <3>2 DEF Inv, Stages, Stage, Active
  <2>7. Stages'
    <3> SUFFICES ASSUME NEW d \in Calls PROVE Stage(d)'
      BY DEF Stages
    <3>1. CASE d = c
      BY <1>1, <2>1, <2>2, <2>6, <3>1 DEF Stage, NoLinkOf, Active
    <3>2. CASE d # c
      BY <1>1, <2>1, <3>2 DEF Inv, Stages, Stage, NoLinkOf, Active
    <3> QED
      BY <3>1, <3>2
  <2>8. ChannelKnown'
    BY <1>1, <1>3 DEF Inv, ChannelKnown, Connected, IsOpen
  <2> QED
    BY <2>3, <2>4, <2>5, <2>7, <2>8 DEF Inv
<1> QED
  BY <1>2, <1>3 DEF Connect

LEMMA DisconnectInv == ASSUME ~Overlap, Inv, NEW c \in Calls, NEW v \in Conns, Disconnect(c, v) PROVE Inv'
<1>1. /\ call[c].phase = "idle" /\ link[c].state = "none"
      /\ \A w \in Conns : room[w] # c
      /\ \A d \in Calls : Active(d) => d # c /\ call[d].conn # v
      /\ UNCHANGED <<room, channel, audio, sid, link, track, updates>>
      /\ wanted' = [wanted EXCEPT ![v] = FALSE]
  BY Begins DEF Disconnect, connVars
<1>2. /\ call' = [call EXCEPT ![c] = [Idle EXCEPT !.phase = "leaving", !.conn = v, !.held = room[v]]]
      /\ call'[c] = [Idle EXCEPT !.phase = "leaving", !.conn = v, !.held = room[v]]
      /\ \A d \in Calls \ {c} : call'[d] = call[d]
  BY DEF Inv, TypeOK, Disconnect
<1>3. /\ call'[c].phase = "leaving" /\ call'[c].conn = v /\ call'[c].held = room[v]
      /\ call'[c] \in CallStates
  BY <1>2 DEF Inv, TypeOK, Idle, CallStates, Phases
<1>4. TypeOK'
  <2>1. call' \in [Calls -> CallStates]
    BY <1>2, <1>3 DEF Inv, TypeOK
  <2> QED
    BY <1>1, <2>1 DEF Inv, TypeOK
<1>5. Serial'
  BY <1>1, <1>2, <1>3, SerialKept
<1>6. Linked' /\ InRooms'
  BY <1>1 DEF Inv, Linked, InRooms
<1>7. Stages'
  BY <1>1, <1>2, <1>3 DEF Inv, Stages, Stage, NoLinkOf, Active
<1>8. ChannelKnown'
  BY <1>1 DEF Inv, ChannelKnown, Connected, IsOpen
<1> QED
  BY <1>4, <1>5, <1>6, <1>7, <1>8 DEF Inv

\* A step that changes nothing but calls that wait for VOICE_SERVER_UPDATE, or
\* ends them.
LEMMA WaitersChange ==
    ASSUME Inv, UNCHANGED <<room, channel, audio, sid, link, track, wanted>>,
           updates' \subseteq Channels, call' \in [Calls -> CallStates],
           \A c \in Calls :
              \/ call'[c] = call[c]
              \/ call[c].phase \in {"waiting", "answered"} /\ call'[c].phase = "idle"
              \/ /\ call[c].phase = "waiting" /\ call'[c].phase = "answered"
                 /\ call'[c].conn = call[c].conn
    PROVE  Inv'
<1>1. TypeOK'
  BY DEF Inv, TypeOK
<1>2. Serial'
  BY DEF Inv, Serial, Active
<1>3. Linked' /\ InRooms' /\ ChannelKnown'
  BY DEF Inv, Linked, InRooms, ChannelKnown, Connected, IsOpen
<1>4. Stages'
  BY DEF Inv, Stages, Stage, NoLinkOf, Active
<1> QED
  BY <1>1, <1>2, <1>3, <1>4 DEF Inv

LEMMA VoiceServerUpdateInv == ASSUME Inv, NEW ch \in Channels, VoiceServerUpdate(ch) PROVE Inv'
<1>1. \A c \in Calls :
         call'[c] = IF call[c].phase = "waiting"
                    THEN [call[c] EXCEPT !.phase = "answered", !.to = ch] ELSE call[c]
  BY DEF VoiceServerUpdate
<1>2. \A c \in Calls : /\ call'[c] \in CallStates /\ call'[c].conn = call[c].conn
                       /\ call[c].phase = "waiting" => call'[c].phase = "answered"
  <2> SUFFICES ASSUME NEW c \in Calls
               PROVE  /\ call'[c] \in CallStates /\ call'[c].conn = call[c].conn
                      /\ call[c].phase = "waiting" => call'[c].phase = "answered"
    OBVIOUS
  <2>1. call[c] \in CallStates
    BY DEF Inv, TypeOK
  <2>2. CASE call[c].phase = "waiting"
    BY <1>1, <2>1, <2>2 DEF CallStates, Phases
  <2>3. CASE call[c].phase # "waiting"
    BY <1>1, <2>1, <2>3
  <2> QED
    BY <2>2, <2>3
<1>3. call' \in [Calls -> CallStates]
  BY <1>2 DEF VoiceServerUpdate
<1>4. UNCHANGED <<room, channel, audio, sid, link, track, wanted>> /\ updates' \subseteq Channels
  BY DEF Inv, TypeOK, VoiceServerUpdate, connVars
<1> QED
  BY <1>1, <1>2, <1>3, <1>4, WaitersChange

LEMMA ConnectRejectedInv == ASSUME Inv, NEW c \in Calls, ConnectRejected(c) PROVE Inv'
<1>1. call' \in [Calls -> CallStates] /\ call'[c].phase = "idle" /\ \A d \in Calls \ {c} : call'[d] = call[d]
  BY IdleState DEF Inv, TypeOK, ConnectRejected
<1>2. /\ call[c].phase \in {"waiting", "answered"}
      /\ UNCHANGED <<room, channel, audio, sid, link, track, updates, wanted>>
  BY DEF ConnectRejected, connVars
<1> QED
  BY <1>1, <1>2, WaitersChange DEF Inv, TypeOK

\* The room of a call is the connection's from here on: no room of it was left.
LEMMA OpenRoomInv == ASSUME Inv, NEW c \in Calls, OpenRoom(c) PROVE Inv'
<1> DEFINE v == call[c].conn
<1>1. /\ call[c].phase = "answered" /\ Active(c) /\ v \in Conns
      /\ NoLinkOf(v) /\ \A w \in Conns : room[w] # c
      /\ call[c] \in CallStates /\ c # None
  BY VoiceAssumption DEF Inv, TypeOK, OpenRoom, Stages, Stage, Active
<1>2. /\ room' = [room EXCEPT ![v] = c] /\ room'[v] = c
      /\ \A w \in Conns \ {v} : room'[w] = room[w]
  BY <1>1 DEF Inv, TypeOK, OpenRoom
<1>3. /\ link'[c] = [state |-> "connecting", conn |-> v, to |-> call[c].to]
      /\ \A d \in Calls \ {c} : link'[d] = link[d]
      /\ link' = [link EXCEPT ![c] = [state |-> "connecting", conn |-> v, to |-> call[c].to]]
  BY DEF Inv, TypeOK, OpenRoom
<1>4. /\ call'[c] = [call[c] EXCEPT !.phase = "connecting"]
      /\ \A d \in Calls \ {c} : call'[d] = call[d]
      /\ call' = [call EXCEPT ![c].phase = "connecting"]
  BY DEF Inv, TypeOK, OpenRoom
<1>5. call'[c].phase = "connecting" /\ call'[c].conn = v /\ call'[c] \in CallStates
  BY <1>1, <1>4 DEF CallStates, Phases
<1>6. UNCHANGED <<channel, audio, sid, track, updates, wanted>>
  BY DEF OpenRoom
<1>7. link[c].state = "none"
  BY <1>1 DEF Inv, Linked
<1>8. TypeOK'
  <2>1. call' \in [Calls -> CallStates]
    BY <1>4, <1>5 DEF Inv, TypeOK
  <2>2. room' \in [Conns -> Calls \cup {None}]
    BY <1>1, <1>2 DEF Inv, TypeOK
  <2>3. call[c].to \in Channels \cup {None}
    BY <1>1 DEF CallStates
  <2>4. link' \in [Calls -> [state : {"none", "connecting", "open"}, conn : Conns \cup {None},
                             to : Channels \cup {None}]]
    BY <1>1, <1>3, <2>3 DEF Inv, TypeOK
  <2> QED
    BY <1>6, <2>1, <2>2, <2>4 DEF Inv, TypeOK
<1>9. Serial'
  BY <1>1, <1>4, <1>5, SerialKept
<1>10. Linked'
  <2> SUFFICES ASSUME NEW d \in Calls, link'[d].state # "none"
               PROVE  /\ link'[d].conn \in Conns
                      /\ \A w \in Conns : room'[w] = d <=> w = link'[d].conn
    BY DEF Linked
  <2>1. CASE d = c
    BY <1>1, <1>2, <1>3, <2>1
  <2>2. CASE d # c
    BY <1>1, <1>2, <1>3, <2>2 DEF Inv, Linked, NoLinkOf
  <2> QED
    BY <2>1, <2>2
<1>11. Stages'
  <2> SUFFICES ASSUME NEW d \in Calls PROVE Stage(d)'
    BY DEF Stages
  <2>1. CASE d = c
    BY <1>1, <1>2, <1>3, <1>5, <2>1 DEF Stage, Active
  <2>2. CASE d # c
    <3>1. call'[d] = call[d] /\ link'[d] = link[d] /\ (Active(d) => call[d].conn # v)
      BY <1>1, <1>3, <1>4, <2>2 DEF Inv, Serial
    <3>2. ASSUME NEW w \in Conns, w # v, NoLinkOf(w) PROVE NoLinkOf(w)'
      BY <1>3, <3>2 DEF NoLinkOf
    <3>3. Stage(d) /\ (\A w \in Conns : room[w] # d => room'[w] # d)
      BY <1>2, <2>2 DEF Inv, Stages
    <3> QED
      BY <1>2, <1>6, <3>1, <3>2, <3>3 DEF Stage, Active
  <2> QED
    BY <2>1, <2>2
<1>12. InRooms'
  BY <1>3, <1>6, <1>7 DEF Inv, TypeOK, InRooms
<1>13. ChannelKnown'
  <2> SUFFICES ASSUME NEW w \in Conns
               PROVE  /\ Connected(w)' => channel'[w] = Home[w]
                      /\ room'[w] = None => channel'[w] = None /\ audio'[w] = None
    BY DEF ChannelKnown
  <2>1. CASE w = v
    BY <1>1, <1>2, <1>3, <2>1 DEF Connected, IsOpen
  <2>2. CASE w # v
    <3>1. room'[w] = room[w] /\ room[w] # c /\ room[w] \in Calls \cup {None}
      BY <1>1, <1>2, <2>2 DEF Inv, TypeOK
    <3> QED
      BY <1>3, <1>6, <3>1 DEF Inv, ChannelKnown, Connected, IsOpen
  <2> QED
    BY <2>1, <2>2
<1> QED
  BY <1>8, <1>9, <1>10, <1>11, <1>12, <1>13 DEF Inv

\* _ensureAudioTrack in a step that leaves the connection's room open.
LEMMA TrackEnsured ==
    ASSUME Inv, NEW v \in Conns, UNCHANGED room, room[v] \in Calls, EnsureAudioTrack(v, link'),
           link'[room[v]].state = "open", link'[room[v]].conn = v,
           \A d \in Calls : link[d].state = "open" => link'[d] = link[d]
    PROVE  /\ audio' \in [Conns -> Tracks \cup {None}]
           /\ track' \in [Tracks -> [state : {"none", "publishing", "published"},
                                     conn : Conns \cup {None}, in : Calls \cup {None}]]
           /\ \A w \in Conns : audio[w] # None => audio'[w] # None
           /\ \A w \in Conns \ {v} : audio'[w] = audio[w]
           /\ InRooms'
<1>1. CASE UNCHANGED <<audio, track>>
  BY <1>1 DEF Inv, TypeOK, InRooms
<1>2. CASE \E t \in Tracks :
              /\ audio' = [audio EXCEPT ![v] = t]
              /\ track' = [track EXCEPT ![t] = [state |-> "publishing", conn |-> v, in |-> room[v]]]
  <2> PICK t \in Tracks :
              /\ audio' = [audio EXCEPT ![v] = t]
              /\ track' = [track EXCEPT ![t] = [state |-> "publishing", conn |-> v, in |-> room[v]]]
    BY <1>2
  <2>1. audio'[v] = t /\ t # None /\ \A w \in Conns \ {v} : audio'[w] = audio[w]
    BY VoiceAssumption DEF Inv, TypeOK
  <2>2. /\ track'[t] = [state |-> "publishing", conn |-> v, in |-> room[v]]
        /\ \A s \in Tracks \ {t} : track'[s] = track[s]
    BY DEF Inv, TypeOK
  <2>3. audio' \in [Conns -> Tracks \cup {None}]
    BY DEF Inv, TypeOK
  <2>4. track' \in [Tracks -> [state : {"none", "publishing", "published"},
                               conn : Conns \cup {None}, in : Calls \cup {None}]]
    BY <2>2 DEF Inv, TypeOK
  <2>5. InRooms'
    <3> SUFFICES ASSUME NEW s \in Tracks, track'[s].in # None
                 PROVE  /\ link'[track'[s].in].state = "open"
                        /\ link'[track'[s].in].conn = track'[s].conn
                        /\ audio'[track'[s].conn] # None
      BY DEF InRooms
    <3>1. CASE s = t
      BY <2>1, <2>2, <3>1
    <3>2. CASE s # t
      <4>1. track'[s] = track[s] /\ track[s].in \in Calls /\ track[s].conn \in Conns \cup {None}
        BY <2>2, <3>2 DEF Inv, TypeOK
      <4>2. /\ link[track[s].in].state = "open" /\ link[track[s].in].conn = track[s].conn
            /\ audio[track[s].conn] # None
        BY <4>1 DEF Inv, InRooms
      <4>3. track[s].conn \in Conns
        BY <4>1, <4>2 DEF Inv, Linked
      <4> QED
        BY <2>1, <4>1, <4>2, <4>3
    <3> QED
      BY <3>1, <3>2
  <2> QED
    BY <2>1, <2>3, <2>4, <2>5
<1> QED
  BY <1>1, <1>2 DEF EnsureAudioTrack

LEMMA RoomConnectedInv == ASSUME Inv, NEW c \in Calls, RoomConnected(c) PROVE Inv'
<1> DEFINE v == call[c].conn
<1>1. /\ call[c].phase = "connecting" /\ link[c].state = "connecting" /\ Active(c) /\ v \in Conns
      /\ room[v] = c /\ link[c].conn = v /\ c # None
      /\ \A w \in Conns : room[w] = c <=> w = v
  BY VoiceAssumption DEF Inv, RoomConnected, Stages, Stage, Linked, Active
<1>2. /\ link' = [link EXCEPT ![c].state = "open"]
      /\ link'[c].state = "open" /\ link'[c].conn = v
      /\ \A d \in Calls \ {c} : link'[d] = link[d]
  BY <1>1 DEF Inv, TypeOK, RoomConnected
<1>3. /\ channel' = [channel EXCEPT ![v] = Home[v]] /\ channel'[v] = Home[v]
      /\ \A w \in Conns \ {v} : channel'[w] = channel[w]
  BY <1>1 DEF Inv, TypeOK, RoomConnected
<1>4. /\ call' = [call EXCEPT ![c] = Idle] /\ call'[c] = Idle /\ \A d \in Calls \ {c} : call'[d] = call[d]
      /\ UNCHANGED <<room, sid, updates, wanted>>
  BY DEF Inv, TypeOK, RoomConnected
<1>5. /\ audio' \in [Conns -> Tracks \cup {None}]
      /\ track' \in [Tracks -> [state : {"none", "publishing", "published"},
                                conn : Conns \cup {None}, in : Calls \cup {None}]]
      /\ \A w \in Conns : audio[w] # None => audio'[w] # None
      /\ \A w \in Conns \ {v} : audio'[w] = audio[w]
      /\ InRooms'
  <2>1. EnsureAudioTrack(v, link')
    BY DEF RoomConnected
  <2>2. \A d \in Calls : link[d].state = "open" => link'[d] = link[d]
    BY <1>1, <1>2
  <2> QED
    BY <1>1, <1>2, <1>4, <2>1, <2>2, TrackEnsured
<1>6. TypeOK'
  <2>1. call' \in [Calls -> CallStates]
    BY <1>4, IdleState DEF Inv, TypeOK
  <2>2. channel' \in [Conns -> Channels \cup {None}]
    BY <1>3, VoiceAssumption DEF Inv, TypeOK
  <2>3. link' \in [Calls -> [state : {"none", "connecting", "open"}, conn : Conns \cup {None},
                             to : Channels \cup {None}]]
    BY <1>2 DEF Inv, TypeOK
  <2> QED
    BY <1>4, <1>5, <2>1, <2>2, <2>3 DEF Inv, TypeOK
<1>7. Serial'
  BY <1>4, IdleState, SerialKept
<1>8. Linked'
  BY <1>1, <1>2, <1>4 DEF Inv, Linked
<1>9. Stages'
  <2> SUFFICES ASSUME NEW d \in Calls PROVE Stage(d)'
    BY DEF Stages
  <2>1. CASE d = c
    BY <1>2, <1>4, <2>1, IdleState DEF Stage, Active
  <2>2. CASE d # c
    <3>1. call'[d] = call[d] /\ link'[d] = link[d] /\ (Active(d) => call[d].conn # v)
      BY <1>1, <1>2, <1>4, <2>2 DEF Inv, Serial
    <3>2. ASSUME NEW w \in Conns, w # v, NoLinkOf(w) PROVE NoLinkOf(w)'
      BY <1>1, <1>2, <3>2 DEF NoLinkOf
    <3>3. Stage(d)
      BY DEF Inv, Stages
    <3> QED
      BY <1>4, <1>5, <3>1, <3>2, <3>3 DEF Stage, Active
  <2> QED
    BY <2>1, <2>2
<1>10. ChannelKnown'
  <2> SUFFICES ASSUME NEW w \in Conns
               PROVE  /\ Connected(w)' => channel'[w] = Home[w]
                      /\ room'[w] = None => channel'[w] = None /\ audio'[w] = None
    BY DEF ChannelKnown
  <2>1. CASE w = v
    BY <1>1, <1>3, <1>4, <2>1
  <2>2. CASE w # v
    <3>1. room'[w] = room[w] /\ room[w] # c /\ room[w] \in Calls \cup {None}
      BY <1>1, <1>4, <2>2 DEF Inv, TypeOK
    <3> QED
      BY <1>2, <1>3, <1>5, <2>2, <3>1 DEF Inv, ChannelKnown, Connected, IsOpen
  <2> QED
    BY <2>1, <2>2
<1> QED
  BY <1>5, <1>6, <1>7, <1>8, <1>9, <1>10 DEF Inv

LEMMA SendAudioInv == ASSUME Inv, NEW v \in Conns, SendAudio(v) PROVE Inv'
<1>1. UNCHANGED <<room, channel, sid, call, link, updates, wanted>>
  BY DEF SendAudio
<1>2. room[v] \in Calls /\ link[room[v]].state = "open" /\ link[room[v]].conn = v
  BY DEF Inv, TypeOK, SendAudio, Connected, IsOpen, Linked
<1>3. /\ audio' \in [Conns -> Tracks \cup {None}]
      /\ track' \in [Tracks -> [state : {"none", "publishing", "published"},
                                conn : Conns \cup {None}, in : Calls \cup {None}]]
      /\ \A w \in Conns : audio[w] # None => audio'[w] # None
      /\ \A w \in Conns \ {v} : audio'[w] = audio[w]
      /\ InRooms'
  <2>1. EnsureAudioTrack(v, link')
    BY <1>1 DEF SendAudio
  <2> QED
    BY <1>1, <1>2, <2>1, TrackEnsured
<1>4. TypeOK'
  BY <1>1, <1>3 DEF Inv, TypeOK
<1>5. Serial' /\ Linked'
  BY <1>1 DEF Inv, Serial, Active, Linked
<1>6. Stages'
  <2> SUFFICES ASSUME NEW d \in Calls PROVE Stage(d)'
    BY DEF Stages
  <2>1. NoLinkOf(call[d].conn) => call[d].conn # v
    BY <1>2 DEF NoLinkOf
  <2>2. Stage(d)
    BY DEF Inv, Stages
  <2> QED
    BY <1>1, <1>3, <2>1, <2>2 DEF Stage, NoLinkOf, Active
<1>7. ChannelKnown'
  <2>1. room[v] # None
    BY <1>2, VoiceAssumption
  <2> QED
    BY <1>1, <1>3, <2>1 DEF Inv, ChannelKnown, Connected, IsOpen
<1> QED
  BY <1>3, <1>4, <1>5, <1>6, <1>7 DEF Inv

LEMMA RoomConnectFailsInv == ASSUME Inv, NEW c \in Calls, RoomConnectFails(c) PROVE Inv'
<1>1. /\ call[c].phase = "connecting" /\ Active(c) /\ room[call[c].conn] = c
      /\ call[c] \in CallStates /\ UNCHANGED <<room, channel, audio, sid, link, track, updates, wanted>>
  BY DEF Inv, TypeOK, RoomConnectFails, connVars, Stages, Stage, Active
<1>2. /\ call'[c] = [call[c] EXCEPT !.phase = "rollback", !.held = c]
      /\ \A d \in Calls \ {c} : call'[d] = call[d]
      /\ call' = [call EXCEPT ![c] = [call[c] EXCEPT !.phase = "rollback", !.held = c]]
  BY <1>1 DEF Inv, TypeOK, RoomConnectFails
<1>3. /\ call'[c].phase = "rollback" /\ call'[c].held = c /\ call'[c].conn = call[c].conn
      /\ call'[c] \in CallStates
  <2>1. [call[c] EXCEPT !.phase = "rollback"] \in CallStates
    BY <1>1 DEF CallStates, Phases
  <2>2. call'[c] = [[call[c] EXCEPT !.phase = "rollback"] EXCEPT !.held = c]
    BY <1>2
  <2>3. call'[c] \in CallStates
    BY <2>1, <2>2 DEF CallStates
  <2> QED
    BY <1>1, <2>2, <2>3 DEF CallStates
<1>4. TypeOK'
  <2>1. call' \in [Calls -> CallStates]
    BY <1>2, <1>3 DEF Inv, TypeOK
  <2> QED
    BY <1>1, <2>1 DEF Inv, TypeOK
<1>5. Serial'
  BY <1>1, <1>2, <1>3, SerialKept
<1>6. Linked' /\ InRooms' /\ ChannelKnown'
  BY <1>1 DEF Inv, Linked, InRooms, ChannelKnown, Connected, IsOpen
<1>7. Stages'
  BY <1>1, <1>2, <1>3 DEF Inv, Stages, Stage, NoLinkOf, Active
<1> QED
  BY <1>4, <1>5, <1>6, <1>7 DEF Inv

\* What leaving a room leaves: its link and the places in it are gone.
LEMMA RoomClosed ==
    ASSUME Inv, NEW r \in Calls \cup {None}
    PROVE  /\ Closed(r) \in [Calls -> [state : {"none", "connecting", "open"},
                                       conn : Conns \cup {None}, to : Channels \cup {None}]]
           /\ r \in Calls => Closed(r)[r].state = "none"
           /\ \A d \in Calls \ {r} : Closed(r)[d] = link[d]
           /\ Cut(r) \in [Tracks -> [state : {"none", "publishing", "published"},
                                     conn : Conns \cup {None}, in : Calls \cup {None}]]
           /\ \A t \in Tracks : /\ Cut(r)[t].conn = track[t].conn /\ Cut(r)[t].state = track[t].state
                                /\ Cut(r)[t].in = IF r # None /\ track[t].in = r THEN None ELSE track[t].in
<1>1. CASE r = None
  BY <1>1, VoiceAssumption DEF Inv, TypeOK, Closed, Cut
<1>2. CASE r \in Calls
  <2>1. r # None
    BY <1>2, VoiceAssumption
  <2>2. NoLink \in [state : {"none", "connecting", "open"}, conn : Conns \cup {None},
                    to : Channels \cup {None}] /\ NoLink.state = "none"
    BY DEF NoLink
  <2>3. Closed(r) = [link EXCEPT ![r] = NoLink]
    BY <2>1 DEF Closed
  <2>4. \A t \in Tracks : Cut(r)[t] = IF track[t].in = r THEN [track[t] EXCEPT !.in = None] ELSE track[t]
    BY <2>1 DEF Cut
  <2>5. ASSUME NEW t \in Tracks
        PROVE  /\ Cut(r)[t] \in [state : {"none", "publishing", "published"},
                                 conn : Conns \cup {None}, in : Calls \cup {None}]
               /\ Cut(r)[t].conn = track[t].conn /\ Cut(r)[t].state = track[t].state
               /\ Cut(r)[t].in = IF r # None /\ track[t].in = r THEN None ELSE track[t].in
    <3>1. track[t] \in [state : {"none", "publishing", "published"},
                        conn : Conns \cup {None}, in : Calls \cup {None}]
      BY DEF Inv, TypeOK
    <3> QED
      BY <2>1, <2>4, <3>1
  <2>6. Cut(r) \in [Tracks -> [state : {"none", "publishing", "published"},
                               conn : Conns \cup {None}, in : Calls \cup {None}]]
    BY <2>5 DEF Cut
  <2> QED
    BY <1>2, <2>2, <2>3, <2>5, <2>6 DEF Inv, TypeOK
<1> QED
  BY <1>1, <1>2

\* A room's end: no track is in it any more, and other rooms are what they were.
LEMMA InRoomsWithout ==
    ASSUME Inv, NEW r \in Calls \cup {None}, link' = Closed(r), track' = Cut(r),
           \A t \in Tracks : track[t].in \in Calls \ {r} =>
              audio'[track[t].conn] = audio[track[t].conn]
    PROVE  InRooms'
<1> SUFFICES ASSUME NEW t \in Tracks, track'[t].in # None
             PROVE  /\ link'[track'[t].in].state = "open" /\ link'[track'[t].in].conn = track'[t].conn
                    /\ audio'[track'[t].conn] # None
  BY DEF InRooms
<1>1. /\ track'[t].in = track[t].in /\ track[t].in \in Calls \ {r} /\ track'[t].conn = track[t].conn
  BY RoomClosed DEF Inv, TypeOK
<1>2. link'[track[t].in] = link[track[t].in]
  BY <1>1, RoomClosed
<1> QED
  BY <1>1, <1>2 DEF Inv, InRooms

\* Leaving this.room leaves the only room of the connection: no link of it is left.
LEMMA RoomLeftInv == ASSUME Inv, NEW c \in Calls, RoomLeft(c) PROVE Inv'
<1> DEFINE v == call[c].conn
           r == call[c].held
<1>1. /\ call[c].phase \in {"rollback", "leaving"} /\ Active(c) /\ v \in Conns /\ r = room[v]
      /\ call[c] \in CallStates /\ r \in Calls \cup {None} /\ audio[v] \in Tracks \cup {None}
      /\ link' = Closed(r) /\ track' = Cut(r)
      /\ UNCHANGED <<room, channel, updates, wanted>>
  BY DEF Inv, TypeOK, RoomLeft, Stages, Stage, Active
<1>2. /\ audio'[v] = None /\ \A w \in Conns \ {v} : audio'[w] = audio[w]
      /\ sid'[v] = FALSE /\ \A w \in Conns \ {v} : sid'[w] = sid[w]
      /\ audio' \in [Conns -> Tracks \cup {None}] /\ sid' \in [Conns -> BOOLEAN]
  BY <1>1 DEF Inv, TypeOK, RoomLeft
<1>3. PICK p \in {"rolled", "left"} :
         /\ call' = [call EXCEPT ![c] = [call[c] EXCEPT !.phase = p, !.held = None, !.closing = audio[v]]]
         /\ call[c].phase = "rollback" => p = "rolled"
  <2>1. CASE call[c].phase = "rollback"
    BY <1>1, <2>1 DEF RoomLeft, Inv, TypeOK
  <2>2. CASE call[c].phase = "leaving"
    BY <1>1, <2>2 DEF RoomLeft, Inv, TypeOK
  <2> QED
    BY <1>1, <2>1, <2>2
<1>4. /\ call'[c].phase = p /\ call'[c].conn = v /\ call'[c].held = None /\ call'[c] \in CallStates
      /\ \A d \in Calls \ {c} : call'[d] = call[d]
  <2>1. call'[c] = [call[c] EXCEPT !.phase = p, !.held = None, !.closing = audio[v]]
        /\ \A d \in Calls \ {c} : call'[d] = call[d]
    BY <1>3 DEF Inv, TypeOK
  <2>2. /\ call[c].to \in Channels \cup {None}
        /\ call'[c] = [phase |-> p, conn |-> v, to |-> call[c].to, held |-> None, closing |-> audio[v]]
    BY <1>1, <2>1 DEF CallStates
  <2> QED
    BY <1>1, <2>1, <2>2 DEF CallStates, Phases
<1>5. /\ r \in Calls => link'[r].state = "none"
      /\ \A d \in Calls \ {r} : link'[d] = link[d]
      /\ link' \in [Calls -> [state : {"none", "connecting", "open"},
                              conn : Conns \cup {None}, to : Channels \cup {None}]]
      /\ track' \in [Tracks -> [state : {"none", "publishing", "published"},
                                conn : Conns \cup {None}, in : Calls \cup {None}]]
  BY <1>1, RoomClosed
<1>6. \A d \in Calls : link'[d].state # "none" => d # r /\ link[d].state # "none" /\ link[d].conn # v
  BY <1>1, <1>5 DEF Inv, Linked
<1>7. TypeOK'
  <2>1. call' \in [Calls -> CallStates]
    BY <1>3, <1>4 DEF Inv, TypeOK
  <2> QED
    BY <1>1, <1>2, <1>5, <2>1 DEF Inv, TypeOK
<1>8. Serial'
  BY <1>1, <1>4, SerialKept
<1>9. Linked'
  BY <1>1, <1>5, <1>6 DEF Inv, Linked
<1>10. Stages'
  <2> SUFFICES ASSUME NEW d \in Calls PROVE Stage(d)'
    BY DEF Stages
  <2>1. ASSUME NEW w PROVE NoLinkOf(w) => NoLinkOf(w)'
    BY <1>5, <1>6 DEF NoLinkOf
  <2>2. \A e \in Calls : link'[e].state # "none" => link'[e].conn # v
    BY <1>5, <1>6
  <2>3. Stage(d)
    BY DEF Inv, Stages
  <2>4. CASE d = c
    <3>1. link'[c].state # "connecting"
      <4>1. link'[c].state = "connecting" => link[c].state = "connecting" /\ link[c].conn = v
        BY <1>5, <1>6 DEF Inv, Stages, Stage
      <4> QED
        BY <1>6, <4>1
    <3> QED
      BY <1>1, <1>2, <1>4, <2>2, <2>4, <3>1 DEF Stage, NoLinkOf, Active
  <2>5. CASE d # c
    <3>1. /\ call'[d] = call[d] /\ (Active(d) => call[d].conn # v)
          /\ link'[d].state = "connecting" => link'[d] = link[d]
      BY <1>1, <1>4, <1>5, <1>6, <2>5 DEF Inv, Serial
    <3> QED
      BY <1>1, <1>2, <2>1, <2>3, <3>1 DEF Stage, Active
  <2> QED
    BY <2>4, <2>5
<1>11. InRooms'
  <2> SUFFICES ASSUME NEW t \in Tracks, track[t].in \in Calls \ {r}
               PROVE  audio'[track[t].conn] = audio[track[t].conn]
    BY <1>1, InRoomsWithout
  <2>1. /\ link[track[t].in].state = "open" /\ link[track[t].in].conn = track[t].conn
    BY VoiceAssumption DEF Inv, InRooms
  <2>2. track[t].conn \in Conns /\ track[t].conn # v
    BY <1>1, <2>1 DEF Inv, Linked
  <2> QED
    BY <1>2, <2>2
<1>12. ChannelKnown'
  <2> SUFFICES ASSUME NEW w \in Conns
               PROVE  /\ Connected(w)' => channel'[w] = Home[w]
                      /\ room'[w] = None => channel'[w] = None /\ audio'[w] = None
    BY DEF ChannelKnown
  <2>1. Connected(w)' => Connected(w)
    BY <1>1, <1>5 DEF Inv, TypeOK, Connected, IsOpen
  <2> QED
    BY <1>1, <1>2, <2>1 DEF Inv, ChannelKnown
<1> QED
  BY <1>7, <1>8, <1>9, <1>10, <1>11, <1>12 DEF Inv

\* A room that the server ends stays this.room of its connection, closed.
LEMMA RoomDropsInv == ASSUME Inv, NEW c \in Calls, RoomDrops(c) PROVE Inv'
<1>1. /\ link[c].state = "open" /\ link' = Closed(c) /\ track' = Cut(c)
      /\ UNCHANGED <<room, channel, audio, sid, call, updates, wanted>>
  BY DEF RoomDrops, connVars
<1>2. /\ link'[c].state = "none" /\ \A d \in Calls \ {c} : link'[d] = link[d]
      /\ link' \in [Calls -> [state : {"none", "connecting", "open"},
                              conn : Conns \cup {None}, to : Channels \cup {None}]]
      /\ track' \in [Tracks -> [state : {"none", "publishing", "published"},
                                conn : Conns \cup {None}, in : Calls \cup {None}]]
  BY <1>1, RoomClosed
<1>3. TypeOK'
  BY <1>1, <1>2 DEF Inv, TypeOK
<1>4. Serial'
  BY <1>1 DEF Inv, Serial, Active
<1>5. Linked'
  BY <1>1, <1>2 DEF Inv, Linked
<1>6. Stages'
  <2> SUFFICES ASSUME NEW d \in Calls PROVE Stage(d)'
    BY DEF Stages
  <2>1. ASSUME NEW w PROVE NoLinkOf(w) => NoLinkOf(w)'
    BY <1>2 DEF NoLinkOf
  <2>2. Stage(d)
    BY DEF Inv, Stages
  <2>3. link'[d].state = "connecting" => link'[d] = link[d]
    BY <1>2
  <2> QED
    BY <1>1, <2>1, <2>2, <2>3 DEF Stage, Active
<1>7. InRooms'
  BY <1>1, InRoomsWithout
<1>8. ChannelKnown'
  <2>1. \A w \in Conns : Connected(w)' => Connected(w)
    BY <1>1, <1>2 DEF Inv, TypeOK, Connected, IsOpen
  <2> QED
    BY <1>1, <2>1 DEF Inv, ChannelKnown
<1> QED
  BY <1>3, <1>4, <1>5, <1>6, <1>7, <1>8 DEF Inv

LEMMA CleanedUpInv == ASSUME Inv, NEW c \in Calls, CleanedUp(c) PROVE Inv'
<1> DEFINE v == call[c].conn
<1>1. /\ call[c].phase \in {"rolled", "left"} /\ Active(c) /\ v \in Conns
      /\ NoLinkOf(v) /\ audio[v] = None /\ call[c].closing \in Tracks \cup {None}
      /\ UNCHANGED <<audio, sid, link, updates, wanted>>
  BY DEF Inv, TypeOK, CallStates, CleanedUp, Stages, Stage, Active
<1>2. /\ room' = [room EXCEPT ![v] = None] /\ room'[v] = None
      /\ \A w \in Conns \ {v} : room'[w] = room[w]
      /\ channel' = [channel EXCEPT ![v] = None] /\ channel'[v] = None
      /\ \A w \in Conns \ {v} : channel'[w] = channel[w]
  BY <1>1 DEF Inv, TypeOK, CleanedUp
<1>3. call'[c] = Idle /\ call' = [call EXCEPT ![c] = Idle] /\ \A d \in Calls \ {c} : call'[d] = call[d]
  BY DEF Inv, TypeOK, CleanedUp
<1>4. /\ track' \in [Tracks -> [state : {"none", "publishing", "published"},
                                conn : Conns \cup {None}, in : Calls \cup {None}]]
      /\ \A t \in Tracks : track'[t] = track[t] \/ track'[t].in = None
  <2>1. NoTrack \in [state : {"none", "publishing", "published"}, conn : Conns \cup {None},
                     in : Calls \cup {None}] /\ NoTrack.in = None
    BY DEF NoTrack
  <2>2. track' = track \/ track' = [track EXCEPT ![call[c].closing] = NoTrack]
    BY DEF CleanedUp, Gone
  <2> QED
    BY <2>1, <2>2 DEF Inv, TypeOK
<1>5. TypeOK'
  <2>1. call' \in [Calls -> CallStates]
    BY <1>3, IdleState DEF Inv, TypeOK
  <2>2. room' \in [Conns -> Calls \cup {None}] /\ channel' \in [Conns -> Channels \cup {None}]
    BY <1>2 DEF Inv, TypeOK
  <2> QED
    BY <1>1, <1>4, <2>1, <2>2 DEF Inv, TypeOK
<1>6. Serial'
  BY <1>3, IdleState, SerialKept
<1>7. Linked'
  <2> SUFFICES ASSUME NEW d \in Calls, link'[d].state # "none"
               PROVE  /\ link'[d].conn \in Conns
                      /\ \A w \in Conns : room'[w] = d <=> w = link'[d].conn
    BY DEF Linked
  <2>1. link'[d] = link[d] /\ link[d].conn # v /\ d # None
    BY <1>1, VoiceAssumption DEF NoLinkOf
  <2> QED
    BY <1>2, <2>1 DEF Inv, Linked
<1>8. Stages'
  <2> SUFFICES ASSUME NEW d \in Calls PROVE Stage(d)'
    BY DEF Stages
  <2>1. Stage(d) /\ d # None
    BY VoiceAssumption DEF Inv, Stages
  <2>2. CASE d = c
    BY <1>1, <1>3, <2>1, <2>2, IdleState DEF Stage, Active
  <2>3. CASE d # c
    <3>1. call'[d] = call[d] /\ (Active(d) => call[d].conn # v)
      BY <1>1, <1>3, <2>3 DEF Inv, Serial
    <3> QED
      BY <1>1, <1>2, <2>1, <3>1 DEF Stage, NoLinkOf, Active
  <2> QED
    BY <2>2, <2>3
<1>9. InRooms'
  BY <1>1, <1>4 DEF Inv, InRooms
<1>10. ChannelKnown'
  <2> SUFFICES ASSUME NEW w \in Conns
               PROVE  /\ Connected(w)' => channel'[w] = Home[w]
                      /\ room'[w] = None => channel'[w] = None /\ audio'[w] = None
    BY DEF ChannelKnown
  <2>1. CASE w = v
    BY <1>1, <1>2, <2>1 DEF Connected, IsOpen
  <2>2. CASE w # v
    BY <1>1, <1>2, <2>2 DEF Inv, ChannelKnown, Connected, IsOpen
  <2> QED
    BY <2>1, <2>2
<1> QED
  BY <1>5, <1>6, <1>7, <1>8, <1>9, <1>10 DEF Inv

\* A publication that resolves finds the track's room open, so the connection has
\* a track: the sid that is stored is never one of no track at all.
LEMMA PublishedInv == ASSUME Inv, NEW t \in Tracks, Published(t) PROVE Inv'
<1>1. /\ UNCHANGED <<room, channel, audio, call, link, updates, wanted>>
      /\ track[t].state = "publishing"
      /\ track[t] \in [state : {"none", "publishing", "published"}, conn : Conns \cup {None},
                       in : Calls \cup {None}]
  BY DEF Inv, TypeOK, Published
<1>2. /\ sid' \in [Conns -> BOOLEAN] /\ \A v \in Conns : sid'[v] => audio'[v] # None
      /\ track' \in [Tracks -> [state : {"none", "publishing", "published"},
                                conn : Conns \cup {None}, in : Calls \cup {None}]]
      /\ \A s \in Tracks : track'[s].in # None => track'[s].in = track[s].in /\ track'[s].conn = track[s].conn
  <2>1. CASE /\ IsOpen(track[t].in) /\ track' = [track EXCEPT ![t].state = "published"]
             /\ sid' = [sid EXCEPT ![track[t].conn] = TRUE]
    <3>1. audio[track[t].conn] # None
      BY <2>1 DEF IsOpen, Inv, InRooms
    <3> QED
      BY <1>1, <2>1, <3>1 DEF Inv, TypeOK
  <2>2. CASE track' = [track EXCEPT ![t] = NoTrack] /\ UNCHANGED sid
    <3>1. /\ NoTrack.in = None
          /\ NoTrack \in [state : {"none", "publishing", "published"}, conn : Conns \cup {None},
                          in : Calls \cup {None}]
      BY DEF NoTrack
    <3>2. track'[t] = NoTrack /\ \A s \in Tracks \ {t} : track'[s] = track[s]
      BY <2>2 DEF Inv, TypeOK
    <3>3. track' \in [Tracks -> [state : {"none", "publishing", "published"},
                                 conn : Conns \cup {None}, in : Calls \cup {None}]]
      BY <2>2, <3>1 DEF Inv, TypeOK
    <3> QED
      BY <1>1, <2>2, <3>1, <3>2, <3>3 DEF Inv, TypeOK
  <2> QED
    BY <2>1, <2>2 DEF Published
<1>3. TypeOK'
  BY <1>1, <1>2 DEF Inv, TypeOK
<1>4. Serial' /\ Linked' /\ ChannelKnown'
  BY <1>1 DEF Inv, Serial, Active, Linked, ChannelKnown, Connected, IsOpen
<1>5. Stages'
  BY <1>1 DEF Inv, Stages, Stage, NoLinkOf, Active
<1>6. InRooms'
  BY <1>1, <1>2 DEF Inv, InRooms
<1> QED
  BY <1>3, <1>4, <1>5, <1>6 DEF Inv

LEMMA CollectedInv == ASSUME Inv, NEW t \in Tracks, Collected(t) PROVE Inv'
<1>1. /\ UNCHANGED <<room, channel, audio, sid, call, link, updates, wanted>>
      /\ track' = [track EXCEPT ![t] = NoTrack]
  BY DEF Collected, connVars
<1>2. TypeOK'
  BY <1>1 DEF Inv, TypeOK, NoTrack
<1>3. Serial' /\ Linked' /\ ChannelKnown'
  BY <1>1 DEF Inv, Serial, Active, Linked, ChannelKnown, Connected, IsOpen
<1>4. Stages'
  BY <1>1 DEF Inv, Stages, Stage, NoLinkOf, Active
<1>5. InRooms'
  BY <1>1 DEF Inv, TypeOK, InRooms, NoTrack
<1> QED
  BY <1>2, <1>3, <1>4, <1>5 DEF Inv

-----------------------------------------------------------------------------
LEMMA NextInv == ASSUME ~Overlap, Inv, [Next]_vars PROVE Inv'
<1>1. ASSUME NEW c \in Calls, NEW v \in Conns, Connect(c, v) \/ Disconnect(c, v) PROVE Inv'
  BY <1>1, ConnectInv, DisconnectInv
<1>2. ASSUME NEW ch \in Channels, VoiceServerUpdate(ch) PROVE Inv'
  BY <1>2, VoiceServerUpdateInv
<1>3. ASSUME NEW c \in Calls, Step(c) \/ RoomDrops(c) PROVE Inv'
  BY <1>3, ConnectRejectedInv, OpenRoomInv, RoomConnectedInv, RoomConnectFailsInv, RoomLeftInv,
     CleanedUpInv, RoomDropsInv DEF Step
<1>4. ASSUME NEW v \in Conns, SendAudio(v) PROVE Inv'
  BY <1>4, SendAudioInv
<1>5. ASSUME NEW t \in Tracks, Published(t) \/ Collected(t) PROVE Inv'
  BY <1>5, PublishedInv, CollectedInv
<1>6. CASE UNCHANGED vars
  BY <1>6 DEF vars, connVars, Inv, TypeOK, Serial, Active, Linked, Stages, Stage, NoLinkOf, InRooms,
     ChannelKnown, Connected, IsOpen
<1> QED
  BY <1>1, <1>2, <1>3, <1>4, <1>5, <1>6 DEF Next

\* Calls on one connection do not overlap: what a call of the connection finds is
\* what the one before has left.
THEOREM Invariance == ASSUME ~Overlap PROVE Spec => []Inv
<1>1. Init => Inv
  BY InitInv
<1>2. Inv /\ [Next]_vars => Inv'
  BY NextInv
<1> QED
  BY <1>1, <1>2, PTL DEF Spec

\* Whatever times out, fails or drops half way through connect() and disconnect():
\* no LiveKit room is open that the connection has forgotten, none is forgotten with
\* its channel or its audio still set, and a track's sid is never kept without a
\* track, which _ensureAudioTrack relies on.
THEOREM NothingStrays == ASSUME ~Overlap PROVE Spec => []RoomsAccounted
<1>1. Inv => RoomsAccounted
  BY DEF Inv, RoomsAccounted, NoStrayRoom, Linked, RestingStateTrue, ChannelKnown
<1> QED
  BY <1>1, Invariance, PTL
=============================================================================
