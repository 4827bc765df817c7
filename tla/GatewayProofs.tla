---------------------------- MODULE GatewayProofs ----------------------------
(***************************************************************************)
(* Proofs about Gateway, for any set of sockets.  TypeCorrect and          *)
(* StillConnected hold whether or not a socket may close late; the other   *)
(* theorems are about connections that close before the reconnect delay    *)
(* has passed, and rest on Stage: what is armed in each stage of the       *)
(* current connection.                                                     *)
(***************************************************************************)
EXTENDS Gateway, TLAPS

\* The stage of the connection determines which timers are armed.
Stage ==
    /\ orphans = {}
    /\ \A s \in Sockets : sock[s] # "none" => s = ws \/ (manual /\ sock[s] = "closing")
    /\ manual => /\ ws = None /\ timers \subseteq {"reconnect", "invalid"}
                 /\ timers # {} => \E s \in Sockets : sock[s] = "closing"
    /\ ~manual /\ ws = None => timers \subseteq {"reconnect"}
    /\ ws # None =>
          /\ sock[ws] = "connecting" => timers = {"connectOpen"}
          /\ sock[ws] = "open" => timers = {"hello"}
          /\ sock[ws] = "greeted" =>
                /\ timers \subseteq {"start", "heartbeat", "invalid"}
                /\ ("start" \in timers) # ("heartbeat" \in timers)

-----------------------------------------------------------------------------
(* Types, and the connection that is never given up.                       *)

\* this.ws.terminate() changes the readyState of one socket.
LEMMA TerminatedType ==
    ASSUME TypeOK
    PROVE  /\ Terminated \in [Sockets -> States]
           /\ \A s \in Sockets : Terminated[s] = "none" <=> sock[s] = "none"
BY DEF TypeOK, Terminated, States

\* A handshake marks at most the current socket.
LEMMA HandshakeType ==
    ASSUME TypeOK, NEW resume \in BOOLEAN
    PROVE  Handshake(resume) \in [Sockets -> {"none", "identify", "resume"}]
BY DEF TypeOK, Handshake, WsOpen

\* What every step preserves, whatever LateClose is.
Inv == TypeOK /\ NeverStranded

LEMMA InitInv == Init => Inv
BY GatewayAssumption DEF Init, Inv, TypeOK, NeverStranded, Timers, States

LEMMA PeerInv ==
    ASSUME Inv, Peer
    PROVE  Inv'
<1>1. TypeOK /\ NeverStranded
  BY DEF Inv
<1>2. PICK s \in Sockets :
        \/ Opened(s) \/ BeginClose(s) \/ Hello(s) \/ Ready(s) \/ HeartbeatAck(s) \/ Reconnect(s)
        \/ \E code \in {"fatal", "reset", "other"} : Closed(s, code)
        \/ \E d \in BOOLEAN : InvalidSession(s, d)
  BY DEF Peer
<1>3. CASE Opened(s)
  BY <1>1, <1>3, GatewayAssumption
     DEF Opened, Inv, TypeOK, NeverStranded, Ended, Timers, States, sessionVars
<1>4. CASE BeginClose(s)
  BY <1>1, <1>4, GatewayAssumption
     DEF BeginClose, IsOpen, Inv, TypeOK, NeverStranded, Ended, Timers, States, timerVars, sessionVars, ending
<1>5. CASE Hello(s)
  BY <1>1, <1>5, HandshakeType, GatewayAssumption
     DEF Hello, Inv, TypeOK, NeverStranded, Ended, Timers, States, ending
<1>6. CASE Ready(s) \/ HeartbeatAck(s)
  BY <1>1, <1>6
     DEF Ready, HeartbeatAck, Inv, TypeOK, NeverStranded, Ended, socketVars, timerVars, sessionVars, ending
<1>7. CASE Reconnect(s)
  BY <1>1, <1>7, TerminatedType
     DEF Reconnect, WsLive, Inv, TypeOK, NeverStranded, Ended, Timers, Scheduled, sessionVars, ending
<1>8. ASSUME NEW code, Closed(s, code)
      PROVE  Inv'
  BY <1>1, <1>8, GatewayAssumption
     DEF Closed, Scheduled, Inv, TypeOK, NeverStranded, Ended, Timers, States
<1>9. ASSUME NEW d \in BOOLEAN, InvalidSession(s, d)
      PROVE  Inv'
  BY <1>1, <1>9
     DEF InvalidSession, Inv, TypeOK, NeverStranded, Ended, Timers, socketVars, ending
<1> QED
  BY <1>2, <1>3, <1>4, <1>5, <1>6, <1>7, <1>8, <1>9

LEMMA TimerInv ==
    ASSUME Inv, Timer
    PROVE  Inv'
<1>1. TypeOK /\ NeverStranded
  BY DEF Inv
<1>2. CASE ReconnectTimer
  BY <1>1, <1>2, GatewayAssumption
     DEF ReconnectTimer, Inv, TypeOK, NeverStranded, Ended, Timers, States, sessionVars, ending
<1>3. CASE ConnectOpenTimeout \/ HelloTimeout
  BY <1>1, <1>3, TerminatedType
     DEF ConnectOpenTimeout, HelloTimeout, Fired, Inv, TypeOK, NeverStranded, Ended, Timers, sessionVars, ending
<1>4. CASE HeartbeatStart
  BY <1>1, <1>4
     DEF HeartbeatStart, Inv, TypeOK, NeverStranded, Ended, Timers, socketVars, sessionVars, ending
<1>5. CASE HeartbeatTick
  BY <1>1, <1>5, TerminatedType
     DEF HeartbeatTick, Inv, TypeOK, NeverStranded, Ended, Timers, timerVars, sessionVars, ending
<1>6. CASE InvalidSessionTimer
  <2>1. (resumable /\ session) \in BOOLEAN
    BY <1>1 DEF TypeOK
  <2>2. asked' \in [Sockets -> {"none", "identify", "resume"}]
    BY <1>1, <1>6, <2>1, HandshakeType DEF InvalidSessionTimer
  <2> QED
    BY <1>1, <1>6, <2>2
       DEF InvalidSessionTimer, Scheduled, Inv, TypeOK, NeverStranded, Ended, Timers, socketVars, ending
<1> QED
  BY <1>2, <1>3, <1>4, <1>5, <1>6 DEF Timer

LEMMA NextInv ==
    ASSUME Inv, [Next]_vars
    PROVE  Inv'
<1>1. TypeOK /\ NeverStranded
  BY DEF Inv
<1>2. CASE SendHeartbeat
  BY <1>1, <1>2
     DEF SendHeartbeat, Inv, TypeOK, NeverStranded, Ended, socketVars, timerVars, sessionVars, ending
<1>3. CASE Disconnect
  BY <1>1, <1>3, TerminatedType
     DEF Disconnect, Inv, TypeOK, NeverStranded, Ended, Timers, sessionVars
<1>4. CASE UNCHANGED vars
  BY <1>1, <1>4
     DEF vars, Inv, TypeOK, NeverStranded, Ended, socketVars, timerVars, sessionVars, ending
<1> QED
  BY <1>2, <1>3, <1>4, PeerInv, TimerInv DEF Next

\* Every variable of the gateway keeps its type; in particular only the HELLO
\* timeout and the two heartbeat timers can ever be orphaned.
THEOREM TypeCorrect == Spec => []TypeOK
<1>1. Inv => TypeOK
  BY DEF Inv
<1> QED
  BY <1>1, InitInv, NextInv, PTL DEF Spec

\* The gateway never ends up with neither a socket nor a reconnect pending,
\* even if close events of old sockets arrive arbitrarily late.
THEOREM StillConnected == Spec => []NeverStranded
<1>1. Inv => NeverStranded
  BY DEF Inv
<1> QED
  BY <1>1, InitInv, NextInv, PTL DEF Spec

-----------------------------------------------------------------------------
(* Connections that close promptly.                                        *)

\* Stage and type, which together are inductive when no close comes late.
PromptInv == TypeOK /\ Stage

LEMMA InitStage == Init => PromptInv
BY GatewayAssumption DEF Init, PromptInv, Stage, TypeOK, Timers, States

LEMMA PeerStage ==
    ASSUME PromptInv, Peer
    PROVE  Stage'
<1>1. TypeOK /\ Stage
  BY DEF PromptInv
<1>2. PICK s \in Sockets :
        \/ Opened(s) \/ BeginClose(s) \/ Hello(s) \/ Ready(s) \/ HeartbeatAck(s) \/ Reconnect(s)
        \/ \E code \in {"fatal", "reset", "other"} : Closed(s, code)
        \/ \E d \in BOOLEAN : InvalidSession(s, d)
  BY DEF Peer
<1>3. CASE Opened(s)
  BY <1>1, <1>3, GatewayAssumption DEF Opened, TypeOK, Stage, States, Timers
<1>4. CASE BeginClose(s)
  BY <1>1, <1>4, GatewayAssumption DEF BeginClose, IsOpen, TypeOK, Stage, timerVars, ending
<1>5. CASE Hello(s)
  BY <1>1, <1>5, GatewayAssumption DEF Hello, TypeOK, Stage, ending
<1>6. CASE Ready(s) \/ HeartbeatAck(s)
  BY <1>1, <1>6 DEF Ready, HeartbeatAck, Stage, socketVars, timerVars, ending
<1>7. CASE Reconnect(s)
  BY <1>1, <1>7, GatewayAssumption
     DEF Reconnect, Delivers, WsLive, Live, Terminated, Scheduled, TypeOK, Stage, States, ending
<1>8. ASSUME NEW code, Closed(s, code)
      PROVE  Stage'
  BY <1>1, <1>8, GatewayAssumption DEF Closed, Scheduled, TypeOK, Stage
<1>9. ASSUME NEW d, InvalidSession(s, d)
      PROVE  Stage'
  BY <1>1, <1>9, GatewayAssumption DEF InvalidSession, Delivers, TypeOK, Stage, socketVars, ending
<1> QED
  BY <1>2, <1>3, <1>4, <1>5, <1>6, <1>7, <1>8, <1>9

LEMMA TimerStage ==
    ASSUME PromptInv, ~LateClose, Timer
    PROVE  Stage'
<1>1. TypeOK /\ Stage
  BY DEF PromptInv
<1>2. CASE ReconnectTimer
  BY <1>1, <1>2, GatewayAssumption DEF ReconnectTimer, TypeOK, Stage, States, ending
<1>3. ASSUME NEW t \in {"connectOpen", "hello"}, Fired(t), UNCHANGED <<ws, ending>>,
             sock' = sock \/ sock' = Terminated,
             sock[ws] \in {"connecting", "open"} => sock' = Terminated
      PROVE  Stage'
  <2>1. t \in timers /\ orphans' = {} /\ timers' \subseteq timers
    BY <1>1, <1>3 DEF Fired, Stage
  <2>2. ~manual /\ ws # None /\ ws \in Sockets /\ sock[ws] # "greeted"
    BY <1>1, <1>3, <2>1 DEF Stage, TypeOK
  <2>3. sock'[ws] = "closing" /\ \A s \in Sockets : s # ws => sock'[s] = sock[s]
    BY <1>1, <1>3, <2>2 DEF Terminated, TypeOK, States
  <2>4. ws' = ws /\ manual' = manual
    BY <1>3 DEF ending
  <2> QED
    BY <1>1, <2>1, <2>2, <2>3, <2>4 DEF Stage
<1>4. CASE ConnectOpenTimeout
  <2>1. sock[ws] = "open" => ~Fired("connectOpen")
    BY <1>1 DEF Fired, Stage, TypeOK, States
  <2> QED
    BY <1>1, <1>3, <1>4, <2>1 DEF ConnectOpenTimeout, Terminated
<1>8. CASE HelloTimeout
  BY <1>3, <1>8 DEF HelloTimeout
<1>5. CASE HeartbeatStart
  BY <1>1, <1>5, GatewayAssumption
     DEF HeartbeatStart, WsOpen, IsOpen, TypeOK, Stage, States, socketVars, ending
<1>6. CASE HeartbeatTick
  BY <1>1, <1>6, GatewayAssumption
     DEF HeartbeatTick, Terminated, TypeOK, Stage, States, timerVars, ending
<1>7. CASE InvalidSessionTimer
  BY <1>1, <1>7, GatewayAssumption
     DEF InvalidSessionTimer, Scheduled, WsOpen, IsOpen, TypeOK, Stage, States, socketVars, ending
<1> QED
  BY <1>2, <1>4, <1>5, <1>6, <1>7, <1>8 DEF Timer

LEMMA NextStage ==
    ASSUME PromptInv, ~LateClose, [Next]_vars
    PROVE  Stage'
<1>1. TypeOK /\ Stage
  BY DEF PromptInv
<1>2. CASE SendHeartbeat
  BY <1>1, <1>2 DEF SendHeartbeat, Stage, socketVars, timerVars, ending
<1>3. CASE Disconnect
  BY <1>1, <1>3, GatewayAssumption DEF Disconnect, Terminated, TypeOK, Stage, States
<1>4. CASE UNCHANGED vars
  BY <1>1, <1>4 DEF vars, Stage, socketVars, timerVars, ending
<1> QED
  BY <1>2, <1>3, <1>4, PeerStage, TimerStage DEF Next

LEMMA StageInvariant == ASSUME ~LateClose PROVE Spec => []PromptInv
<1>1. Init => NeverStranded
  BY InitInv DEF Inv
<1>2. PromptInv /\ NeverStranded /\ [Next]_vars => PromptInv' /\ NeverStranded'
  BY NextStage, NextInv DEF PromptInv, Inv
<1> QED
  BY <1>1, <1>2, InitStage, PTL DEF Spec

\* Without late closes the current connection always has the timer that ends
\* it when the peer falls silent.
THEOREM WatchdogHolds == ASSUME ~LateClose PROVE Spec => []WatchdogArmed
<1>1. PromptInv => WatchdogArmed
  BY DEF PromptInv, Stage, WatchdogArmed, Ended
<1> QED
  BY <1>1, StageInvariant, PTL

\* Without late closes no older connection survives a reconnect, and no timer
\* outlives its handle.
THEOREM OnlyOneConnection == ASSUME ~LateClose PROVE Spec => []OneConnection
<1>1. PromptInv => OneConnection
  BY DEF PromptInv, Stage, OneConnection
<1> QED
  BY <1>1, StageInvariant, PTL

\* Without late closes nothing is opened after disconnect().
THEOREM DisconnectEndsIt == ASSUME ~LateClose PROVE Spec => DisconnectIsFinal
<1>1. ASSUME PromptInv, [Next]_vars, manual, NEW s \in Sockets, sock[s] = "none"
      PROVE  sock'[s] = "none"
  <2>1. TypeOK /\ Stage
    BY <1>1 DEF PromptInv
  <2>3. ~ReconnectTimer
    BY <1>1, <2>1 DEF ReconnectTimer, Stage
  <2>4. Terminated = sock
    BY <1>1, <2>1 DEF Terminated, Stage
  <2>5. CASE Peer
    BY <1>1, <2>1, <2>4, <2>5
       DEF Peer, Opened, BeginClose, Hello, Ready, HeartbeatAck, Reconnect, Closed, InvalidSession,
           IsOpen, TypeOK, socketVars
  <2>6. CASE Timer
    BY <1>1, <2>3, <2>4, <2>6
       DEF Timer, ConnectOpenTimeout, HelloTimeout, HeartbeatStart, HeartbeatTick,
           InvalidSessionTimer, socketVars
  <2> QED
    BY <1>1, <2>4, <2>5, <2>6 DEF Next, SendHeartbeat, Disconnect, vars, socketVars
<1>2. PromptInv /\ [Next]_vars
        => [manual => \A s \in Sockets : sock[s] = "none" => sock'[s] = "none"]_vars
  BY <1>1
<1> QED
  BY <1>2, StageInvariant, PTL DEF Spec, DisconnectIsFinal

\* The three together: the gateway holds one supervised connection, or is about
\* to open it, until it is told to stop.
THEOREM ConnectionIsSound == ASSUME ~LateClose PROVE Spec => []ConnectionSound
<1>1. NeverStranded /\ WatchdogArmed /\ OneConnection => ConnectionSound
  BY DEF ConnectionSound
<1> QED
  BY <1>1, StillConnected, WatchdogHolds, OnlyOneConnection, PTL
-----------------------------------------------------------------------------
(* The session and its introduction, when no close comes late.             *)

\* A greeted socket has been introduced or waits for the invalid-session timer, which
\* waits on nothing else; what the timer will send resumes a session that there is;
\* the gauge is on.
Kept ==
    ~manual /\ ws # None =>
        /\ sock[ws] = "greeted" /\ asked[ws] = "none" => "invalid" \in timers
        /\ "invalid" \in timers => asked[ws] = "none" /\ (session => resumable)
        /\ IsOpen(ws) => connected

LEMMA InitKept == Init => Kept
BY GatewayAssumption DEF Init, Kept, IsOpen

\* What the current socket is told by a handshake.
LEMMA HandshakeSent ==
    ASSUME TypeOK, NEW resume \in BOOLEAN
    PROVE  /\ WsOpen => Handshake(resume)[ws] = IF resume THEN "resume" ELSE "identify"
           /\ \A s \in Sockets : s # ws \/ ~WsOpen => Handshake(resume)[s] = asked[s]
BY DEF TypeOK, Handshake, WsOpen

LEMMA PeerKept ==
    ASSUME PromptInv, Kept, Peer
    PROVE  Kept'
<1>1. TypeOK /\ Stage
  BY DEF PromptInv
<1>2. PICK s \in Sockets :
        \/ Opened(s) \/ BeginClose(s) \/ Hello(s) \/ Ready(s) \/ HeartbeatAck(s) \/ Reconnect(s)
        \/ \E code \in {"fatal", "reset", "other"} : Closed(s, code)
        \/ \E d \in BOOLEAN : InvalidSession(s, d)
  BY DEF Peer
<1>3. ~manual /\ sock[s] # "none" => s = ws
  BY <1>1 DEF Stage
<1>4. CASE Opened(s)
  BY <1>1, <1>3, <1>4 DEF Opened, TypeOK, Stage, Kept, IsOpen, sessionVars
<1>5. CASE BeginClose(s)
  BY <1>1, <1>3, <1>5 DEF BeginClose, IsOpen, TypeOK, Kept, timerVars, sessionVars, ending
<1>6. CASE Hello(s)
  <2>1. ws # None /\ ~manual => WsOpen
    BY <1>3, <1>6 DEF Hello, WsOpen, IsOpen
  <2>2. ws # None /\ ~manual => asked'[ws] # "none"
    BY <1>1, <1>6, <2>1, HandshakeSent DEF Hello, TypeOK
  <2>3. "invalid" \notin timers' \/ manual
    BY <1>1, <1>3, <1>6 DEF Hello, Stage, TypeOK
  <2> QED
    BY <1>1, <1>3, <1>6, <2>2, <2>3 DEF Hello, TypeOK, Kept, IsOpen, ending
<1>7. CASE Ready(s)
  <2>1. ~manual => "invalid" \notin timers
    BY <1>1, <1>3, <1>7, GatewayAssumption DEF Ready, Delivers, Kept
  <2> QED
    BY <1>7, <2>1 DEF Ready, Kept, IsOpen, socketVars, timerVars, ending
<1>8. CASE HeartbeatAck(s)
  BY <1>8 DEF HeartbeatAck, Kept, IsOpen, socketVars, timerVars, sessionVars, ending
<1>9. CASE Reconnect(s)
  BY <1>1, <1>9 DEF Reconnect, WsLive, Live, Terminated, Scheduled, TypeOK, Kept, IsOpen, sessionVars, ending
<1>10. ASSUME NEW code, Closed(s, code)
       PROVE  Kept'
  BY <1>1, <1>3, <1>10 DEF Closed, Delivers, Kept, Stage
<1>11. ASSUME NEW d \in BOOLEAN, InvalidSession(s, d)
       PROVE  Kept'
  BY <1>1, <1>3, <1>11 DEF InvalidSession, Delivers, TypeOK, Kept, IsOpen, socketVars, ending
<1> QED
  BY <1>2, <1>4, <1>5, <1>6, <1>7, <1>8, <1>9, <1>10, <1>11

LEMMA TimerKept ==
    ASSUME PromptInv, Kept, Timer
    PROVE  Kept'
<1>1. TypeOK /\ Stage
  BY DEF PromptInv
<1>2. CASE ReconnectTimer
  BY <1>2 DEF ReconnectTimer, Kept, IsOpen, TypeOK, sessionVars, ending
<1>3. CASE ConnectOpenTimeout \/ HelloTimeout
  <2>1. ~("invalid" \in timers') <=> ~("invalid" \in timers)
    BY <1>3 DEF ConnectOpenTimeout, HelloTimeout, Fired
  <2> QED
    BY <1>1, <1>3, <2>1
       DEF ConnectOpenTimeout, HelloTimeout, Terminated, Kept, IsOpen, TypeOK, sessionVars, ending
<1>4. CASE HeartbeatStart
  BY <1>1, <1>4 DEF HeartbeatStart, Kept, IsOpen, TypeOK, socketVars, sessionVars, ending
<1>5. CASE HeartbeatTick
  BY <1>1, <1>5 DEF HeartbeatTick, Terminated, Kept, IsOpen, TypeOK, timerVars, sessionVars, ending
<1>6. CASE InvalidSessionTimer
  <2>1. (resumable /\ session) \in BOOLEAN
    BY <1>1 DEF TypeOK
  <2>2. WsOpen => asked'[ws] # "none" /\ ~("invalid" \in timers')
    BY <1>1, <1>6, <2>1, HandshakeSent DEF InvalidSessionTimer
  <2>3. ~WsOpen => asked' = asked /\ ~("invalid" \in timers')
    BY <1>1, <1>6 DEF InvalidSessionTimer, Handshake, Scheduled
  <2> QED
    BY <1>1, <1>6, <2>2, <2>3 DEF InvalidSessionTimer, Kept, WsOpen, IsOpen, socketVars, ending
<1> QED
  BY <1>2, <1>3, <1>4, <1>5, <1>6 DEF Timer

LEMMA NextKept ==
    ASSUME PromptInv, Kept, [Next]_vars
    PROVE  Kept'
<1>1. CASE SendHeartbeat
  BY <1>1 DEF SendHeartbeat, Kept, IsOpen, socketVars, timerVars, sessionVars, ending
<1>2. CASE Disconnect
  BY <1>2 DEF Disconnect, Kept
<1>3. CASE UNCHANGED vars
  BY <1>3 DEF vars, Kept, IsOpen, socketVars, timerVars, sessionVars, ending
<1> QED
  BY <1>1, <1>2, <1>3, PeerKept, TimerKept DEF Next

\* IDENTIFY is a step of HELLO or of the invalid-session timer, without a session.
LEMMA OnlyWithoutSession ==
    ASSUME PromptInv, Kept, [Next]_vars,
           NEW s \in Sockets, asked[s] = "none", asked'[s] = "identify"
    PROVE  ~session
<1>1. TypeOK /\ Stage
  BY DEF PromptInv
<1>2. CASE \E t \in Sockets : Hello(t)
  BY <1>1, <1>2, HandshakeSent DEF Hello, TypeOK
<1>3. CASE InvalidSessionTimer
  <2>1. (resumable /\ session) \in BOOLEAN
    BY <1>1 DEF TypeOK
  <2>2. s = ws /\ WsOpen /\ ~(resumable /\ session)
    BY <1>1, <1>3, <2>1, HandshakeSent DEF InvalidSessionTimer
  <2>3. ~manual
    BY <1>1, <2>2 DEF Stage, WsOpen
  <2> QED
    BY <1>3, <2>2, <2>3 DEF InvalidSessionTimer, Kept, WsOpen
<1>4. CASE Peer /\ ~\E t \in Sockets : Hello(t)
  BY <1>1, <1>4
     DEF Peer, Opened, BeginClose, Ready, HeartbeatAck, Reconnect, Closed, InvalidSession, TypeOK, sessionVars
<1>5. CASE Timer /\ ~InvalidSessionTimer
  BY <1>5 DEF Timer, ReconnectTimer, ConnectOpenTimeout, HelloTimeout, HeartbeatStart, HeartbeatTick, sessionVars
<1>6. CASE SendHeartbeat \/ Disconnect \/ UNCHANGED vars
  BY <1>6 DEF SendHeartbeat, Disconnect, vars, sessionVars
<1> QED
  BY <1>2, <1>3, <1>4, <1>5, <1>6 DEF Next

\* Without late closes every connection is introduced to the server, by RESUME unless
\* there is no session to resume, and the gauge is on while it is open.
THEOREM SessionIsKept == ASSUME ~LateClose PROVE Spec => SessionKept
<1>1. PromptInv /\ Kept /\ [Next]_vars => Kept'
  BY NextKept
<1>2. PromptInv /\ Kept => Introduced /\ OpenIsHealthy
  BY GatewayAssumption DEF PromptInv, Stage, Kept, Introduced, OpenIsHealthy, WsOpen
<1>3. PromptInv /\ Kept /\ [Next]_vars =>
        [\A s \in Sockets : asked[s] = "none" /\ asked'[s] = "identify" => ~session]_vars
  BY OnlyWithoutSession
<1> QED
  BY <1>1, <1>2, <1>3, InitKept, StageInvariant, PTL DEF Spec, SessionKept, ResumesWhenPossible
=============================================================================
