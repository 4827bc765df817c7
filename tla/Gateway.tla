------------------------------ MODULE Gateway ------------------------------
(***************************************************************************)
(* The websocket client of src/gateway.ts: sockets, timers, the session    *)
(* and the heartbeat watchdog, with the connection gauge that              *)
(* app/metrics.ts and app/bootstrap.ts derive from its events.             *)
(*                                                                         *)
(* Every listener and timer callback is one action.  Listeners are not     *)
(* bound to the socket they were registered on: they read and write        *)
(* this.ws, whichever socket that is by then.  Sockets are named, so a     *)
(* late event of an old one is told from an event of the current one; a    *)
(* name is free again when its socket has closed.                          *)
(* The delay of a reconnect is not modelled, only that it is pending.      *)
(***************************************************************************)
EXTENDS FiniteSets

CONSTANTS
    Sockets,      \* names of WebSocket objects (bound: alive at once)
    None,         \* null, or a socket that has closed
    LateClose     \* may a closing socket emit 'close' only after the reconnect
                  \* delay has passed ?

ASSUME GatewayAssumption == None \notin Sockets /\ LateClose \in BOOLEAN

VARIABLES
    sock,         \* sock[s]: its readyState, "open" once connected, "greeted"
                  \* once its HELLO was handled
    ws,           \* this.ws
    timers,       \* the timers and intervals a handle of the gateway names
    orphans,      \* those that still run and no handle names
    session,      \* sessionId and sequence are set
    resumable,    \* the d the invalid-session timer was armed with
    asked,        \* asked[s]: the handshake sent on s and not refused since
    awaitingAck,  \* awaitingHeartbeatAck
    manual,       \* manualDisconnect
    rejected,     \* a close with a non-recoverable code was handled
    connected     \* gatewayConnected of bootstrap.ts

socketVars  == <<sock, ws>>
timerVars   == <<timers, orphans>>
sessionVars == <<session, resumable, asked>>
ending      == <<manual, rejected, connected>>
vars == <<socketVars, timerVars, sessionVars, awaitingAck, ending>>

Timers == {"connectOpen", "hello", "start", "heartbeat", "reconnect", "invalid"}
States == {"none", "connecting", "open", "greeted", "closing"}

TypeOK ==
    /\ sock \in [Sockets -> States]
    /\ ws \in Sockets \cup {None}
    /\ ws # None => sock[ws] # "none"
    /\ timers \subseteq Timers /\ orphans \subseteq {"hello", "start", "heartbeat"}
    /\ asked \in [Sockets -> {"none", "identify", "resume"}]
    /\ resumable \in BOOLEAN /\ session \in BOOLEAN /\ awaitingAck \in BOOLEAN
    /\ manual \in BOOLEAN /\ rejected \in BOOLEAN /\ connected \in BOOLEAN

\* bootstrap called connect().
Init ==
    /\ \E s \in Sockets :
          /\ ws = s
          /\ sock = [t \in Sockets |-> IF t = s THEN "connecting" ELSE "none"]
    /\ timers = {"connectOpen"} /\ orphans = {}
    /\ session = FALSE /\ resumable = FALSE /\ asked = [s \in Sockets |-> "none"]
    /\ awaitingAck = FALSE
    /\ manual = FALSE /\ rejected = FALSE /\ connected = FALSE

-----------------------------------------------------------------------------
Live(s) == sock[s] \in {"connecting", "open", "greeted"}
IsOpen(s) == sock[s] \in {"open", "greeted"}
WsLive == ws # None /\ Live(ws)
WsOpen == ws # None /\ IsOpen(ws)

\* this.ws.terminate()
Terminated == IF ws = None THEN sock ELSE [sock EXCEPT ![ws] = "closing"]

\* A timer fires, whether or not a handle names it.
Fired(t) ==
    \/ /\ t \in timers
       /\ timers' = timers \ {t} /\ UNCHANGED orphans
    \/ /\ t \in orphans
       /\ orphans' = orphans \ {t} /\ UNCHANGED timers

\* _scheduleReconnect is a no-op while a reconnect is pending.
Scheduled(ts) == ts \cup {"reconnect"}

\* _resume or _identify: _send drops it unless the current socket is open.
Handshake(resume) ==
    IF WsOpen THEN [asked EXCEPT ![ws] = IF resume THEN "resume" ELSE "identify"] ELSE asked

-----------------------------------------------------------------------------
(* Socket events.                                                          *)

BugOpenKeepsNoHelloTimer(s) ==
    /\ sock[s] = "connecting"
    /\ sock' = [sock EXCEPT ![s] = "open"]
    /\ timers' = timers \ {"connectOpen"}
    /\ connected' = TRUE
    /\ UNCHANGED <<ws, orphans, sessionVars, awaitingAck, manual, rejected>>

\* on 'open'
Opened(s) ==
    /\ sock[s] = "connecting"
    /\ sock' = [sock EXCEPT ![s] = "open"]
    /\ timers' = (timers \ {"connectOpen"}) \cup {"hello"}
    /\ orphans' = IF "hello" \in timers THEN orphans \cup {"hello"} ELSE orphans
    /\ connected' = IF manual THEN connected ELSE TRUE
    /\ UNCHANGED <<ws, sessionVars, awaitingAck, manual, rejected>>

\* The peer starts to close: the closing handshake or a broken connection.
BeginClose(s) ==
    /\ IsOpen(s)
    /\ sock' = [sock EXCEPT ![s] = "closing"]
    /\ UNCHANGED <<ws, timerVars, sessionVars, awaitingAck, ending>>

BugCloseIgnoresManual(s, code) ==
    /\ sock[s] # "none"
    /\ sock' = [sock EXCEPT ![s] = "none"]
    /\ ws' = IF ws = s THEN None ELSE ws
    /\ awaitingAck' = FALSE
    /\ timers' = IF code = "fatal" THEN {} ELSE Scheduled({})
    /\ rejected' = (rejected \/ code = "fatal")
    /\ session' = (session /\ code # "reset")
    /\ connected' = IF manual THEN connected ELSE FALSE
    /\ asked' = [asked EXCEPT ![s] = "none"]
    /\ UNCHANGED <<orphans, resumable, manual>>

\* on 'close' and _handleClose: code "fatal" is one of NON_RECOVERABLE_CLOSE_CODES,
\* "reset" is 4007 or 4009.
Closed(s, code) ==
    /\ sock[s] # "none"
    /\ sock' = [sock EXCEPT ![s] = "none"]
    /\ ws' = IF ws = s THEN None ELSE ws
    /\ awaitingAck' = FALSE
    /\ timers' = IF manual \/ code = "fatal" THEN {} ELSE Scheduled({})
    /\ rejected' = (rejected \/ (~manual /\ code = "fatal"))
    /\ session' = (session /\ (manual \/ code # "reset"))
    /\ connected' = IF manual THEN connected ELSE FALSE
    /\ asked' = [asked EXCEPT ![s] = "none"]
    /\ UNCHANGED <<orphans, resumable, manual>>

-----------------------------------------------------------------------------
(* Packets.  A closing socket may still deliver packets it has buffered.   *)

Delivers(s) == sock[s] \in {"greeted", "closing"}

\* HELLO with a usable interval: _startHeartbeat replaces the interval but not
\* a start timer that is still armed; then RESUME or IDENTIFY is sent.
Hello(s) ==
    /\ sock[s] = "open"
    /\ sock' = [sock EXCEPT ![s] = "greeted"]
    /\ timers' = (timers \ {"hello", "heartbeat"}) \cup {"start"}
    /\ orphans' = IF "start" \in timers THEN orphans \cup {"start"} ELSE orphans
    /\ asked' = Handshake(session)
    /\ UNCHANGED <<ws, session, resumable, awaitingAck, ending>>

\* READY answers an IDENTIFY (RESUMED changes only the backoff counter).
Ready(s) ==
    /\ Delivers(s) /\ asked[s] = "identify"
    /\ session' = TRUE
    /\ UNCHANGED <<socketVars, timerVars, resumable, asked, awaitingAck, ending>>

\* HEARTBEAT requested by the server, or sampleHeartbeatLatency
SendHeartbeat ==
    /\ \E s \in Sockets : Delivers(s)
    /\ awaitingAck' = TRUE
    /\ UNCHANGED <<socketVars, timerVars, sessionVars, ending>>

HeartbeatAck(s) ==
    /\ Delivers(s)
    /\ awaitingAck' = FALSE
    /\ UNCHANGED <<socketVars, timerVars, sessionVars, ending>>

\* RECONNECT: _reconnectNow
Reconnect(s) ==
    /\ Delivers(s)
    /\ \/ /\ WsLive
          /\ sock' = Terminated
          /\ UNCHANGED timers
       \/ /\ ~WsLive
          /\ timers' = Scheduled(timers)
          /\ UNCHANGED sock
    /\ UNCHANGED <<ws, orphans, sessionVars, awaitingAck, ending>>

\* INVALID_SESSION: d tells whether the session may be resumed.
InvalidSession(s, d) ==
    /\ Delivers(s)
    /\ session' = (session /\ d)
    /\ timers' = timers \cup {"invalid"}
    /\ resumable' = d /\ asked' = [asked EXCEPT ![s] = "none"]
    /\ UNCHANGED <<socketVars, orphans, awaitingAck, ending>>

-----------------------------------------------------------------------------
(* Timers.                                                                 *)

\* _openSocket, called by the reconnect timer
ReconnectTimer ==
    /\ "reconnect" \in timers
    /\ LateClose \/ \A s \in Sockets : sock[s] # "closing"
    /\ \E s \in Sockets :
          /\ sock[s] = "none"
          /\ sock' = [sock EXCEPT ![s] = "connecting"]
          /\ ws' = s
    /\ timers' = {"connectOpen"} /\ awaitingAck' = FALSE
    /\ UNCHANGED <<orphans, sessionVars, ending>>

ConnectOpenTimeout ==
    /\ Fired("connectOpen")
    /\ sock' = IF ws # None /\ sock[ws] = "connecting" THEN Terminated ELSE sock
    /\ UNCHANGED <<ws, sessionVars, awaitingAck, ending>>

HelloTimeout ==
    /\ Fired("hello")
    /\ sock' = Terminated
    /\ UNCHANGED <<ws, sessionVars, awaitingAck, ending>>

\* The start timer nulls its handle (so a start timer it still named becomes an
\* orphan when another one fires), sends the first heartbeat and starts the
\* interval, unless the current socket is not open.
HeartbeatStart ==
    LET rest == IF "start" \in timers THEN orphans ELSE orphans \ {"start"} IN
    /\ "start" \in timers \cup orphans
    /\ \/ /\ WsOpen
          /\ timers' = (timers \ {"start"}) \cup {"heartbeat"}
          /\ orphans' = IF "heartbeat" \in timers THEN rest \cup {"heartbeat"} ELSE rest
          /\ awaitingAck' = TRUE
       \/ /\ ~WsOpen
          /\ timers' = timers \ {"start"} /\ orphans' = rest
          /\ UNCHANGED awaitingAck
    /\ UNCHANGED <<socketVars, sessionVars, ending>>

BugTickNeverTerminates ==
    /\ "heartbeat" \in timers \cup orphans
    /\ awaitingAck' = TRUE
    /\ UNCHANGED <<socketVars, timerVars, sessionVars, ending>>

\* The interval: an unanswered heartbeat terminates the current socket.
HeartbeatTick ==
    /\ "heartbeat" \in timers \cup orphans
    /\ \/ awaitingAck /\ sock' = Terminated /\ UNCHANGED awaitingAck
       \/ ~awaitingAck /\ awaitingAck' = TRUE /\ UNCHANGED sock
    /\ UNCHANGED <<ws, timerVars, sessionVars, ending>>

BugTimerAlwaysIdentifies ==
    /\ "invalid" \in timers
    /\ timers' = IF WsOpen THEN timers \ {"invalid"} ELSE Scheduled(timers \ {"invalid"})
    /\ asked' = Handshake(FALSE)
    /\ UNCHANGED <<socketVars, orphans, session, resumable, awaitingAck, ending>>

\* The invalid-session timer sends RESUME or IDENTIFY on an open socket.
InvalidSessionTimer ==
    /\ "invalid" \in timers
    /\ timers' = IF WsOpen THEN timers \ {"invalid"} ELSE Scheduled(timers \ {"invalid"})
    /\ asked' = Handshake(resumable /\ session)
    /\ UNCHANGED <<socketVars, orphans, session, resumable, awaitingAck, ending>>

\* disconnect(), at shutdown; the gauge's listeners were removed just before.
Disconnect ==
    /\ ~manual
    /\ manual' = TRUE /\ timers' = {} /\ awaitingAck' = FALSE
    /\ sock' = Terminated /\ ws' = None
    /\ UNCHANGED <<orphans, sessionVars, rejected, connected>>
-----------------------------------------------------------------------------
Peer ==
    \E s \in Sockets :
        \/ Opened(s) \/ BeginClose(s) \/ Hello(s) \/ Ready(s) \/ HeartbeatAck(s) \/ Reconnect(s)
        \/ \E code \in {"fatal", "reset", "other"} : Closed(s, code)
        \/ \E d \in BOOLEAN : InvalidSession(s, d)

Timer ==
    \/ ReconnectTimer \/ ConnectOpenTimeout \/ HelloTimeout
    \/ HeartbeatStart \/ HeartbeatTick \/ InvalidSessionTimer

Next == Peer \/ Timer \/ SendHeartbeat \/ Disconnect

Spec == Init /\ [][Next]_vars

\* Node fires every armed timer, and a socket that started to close does close.
Fairness ==
    /\ WF_vars(ReconnectTimer) /\ WF_vars(ConnectOpenTimeout) /\ WF_vars(HelloTimeout)
    /\ WF_vars(HeartbeatStart) /\ WF_vars(HeartbeatTick)
    /\ \A s \in Sockets :
          WF_vars(sock[s] = "closing" /\ \E code \in {"fatal", "reset", "other"} : Closed(s, code))
FairSpec == Spec /\ Fairness

-----------------------------------------------------------------------------
(* Properties.                                                             *)

Ended == manual \/ rejected

\* The bot never ends up without a gateway connection and without a reconnect
\* pending: _handleClose, the RECONNECT packet and the invalid-session timer
\* each leave a socket whose close will be handled or an armed timer.
NeverStranded == ~Ended => ws # None \/ "reconnect" \in timers

\* README.md promises heartbeat watchdogs: each stage of the current connection
\* has the timer that ends it when the peer falls silent.
WatchdogArmed ==
    ~Ended /\ ws # None =>
        /\ sock[ws] = "connecting" => "connectOpen" \in timers
        /\ sock[ws] = "open" => "hello" \in timers
        /\ sock[ws] = "greeted" => timers \cap {"start", "heartbeat"} # {}

\* A reconnect does not leave an older connection alive behind it, and no timer
\* outlives the handle that could clear it: an orphaned HELLO timeout or
\* heartbeat interval would terminate a healthy socket.
OneConnection ==
    /\ \A s \in Sockets : sock[s] # "none" => s = ws \/ manual
    /\ orphans = {}

\* A greeted connection has been introduced to the server by IDENTIFY or RESUME,
\* or the invalid-session timer is about to do so; otherwise the bot would hold
\* an open socket on which no event ever arrives.
Introduced ==
    \A s \in Sockets : sock[s] = "greeted" /\ asked[s] = "none" => "invalid" \in timers

\* docs/ARCHITECTURE.md: the gateway resumes sessions when possible.  IDENTIFY is
\* only sent when there is no session, or the server refused it.
ResumesWhenPossible ==
    [][\A s \in Sockets : asked[s] = "none" /\ asked'[s] = "identify" => ~session]_vars

\* The health check exits the process when the gauge stays off: it must be on
\* while the current connection is open.
OpenIsHealthy == ~manual /\ WsOpen => connected

\* disconnect() is final: no socket is opened afterwards, although packets and
\* the close event of the old socket still arrive.
DisconnectIsFinal ==
    [][manual => \A s \in Sockets : sock[s] = "none" => sock'[s] = "none"]_vars

\* A peer that stops answering heartbeats is noticed: the heartbeat is answered
\* or the socket is terminated.
SilentPeerNoticed ==
    \A s \in Sockets : sock[s] = "greeted" /\ awaitingAck ~> ~(sock[s] = "greeted" /\ awaitingAck)

\* A lost connection is always tried again.
KeepsConnecting == []<>(Ended \/ \E s \in Sockets : Live(s))

\* Until it is told to stop, the gateway holds one supervised connection or is
\* about to open it, whatever packets, closes and timers interleave
\* (_handleClose, _reconnectNow, _openSocket).
ConnectionSound == NeverStranded /\ WatchdogArmed /\ OneConnection

\* The session survives its sockets: each is introduced to the server, by RESUME
\* where that is possible, and the health check knows the one that is open
\* (_handlePacket, _identify, _resume).
SessionKept == ResumesWhenPossible /\ []Introduced /\ []OpenIsHealthy

\* A silent peer is noticed and a lost connection tried again, for ever
\* (_startHeartbeat, _scheduleReconnect).
KeepsAlive == SilentPeerNoticed /\ KeepsConnecting
=============================================================================
