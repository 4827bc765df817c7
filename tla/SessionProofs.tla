---------------------------- MODULE SessionProofs ----------------------------
(***************************************************************************)
(* Theorems about the sessions of a guild, for any number of them: SessionTable *)
(* (the sessions of one process) and SessionSnapshots (what outlives it).      *)
(*                                                                         *)
(* SessionTable: destroy() is called with a key, so what an operation or a    *)
(* timer holds must have a home (OpShape, TimerShape) and the session in the   *)
(* table must be the one whose home it is (TableAgrees).  Serial is what the    *)
(* sessions keep when no two operations overlap.                             *)
(*                                                                         *)
(* SessionSnapshots: the writes are answered in the order in which they were   *)
(* sent, so both invariants speak of what stands behind what.  GoneInv: behind  *)
(* whatever brings a session back that is being destroyed there is its          *)
(* deletion, or the synchronisation after it.  KeptInv: what an orderly         *)
(* shutdown promised is stored or on its way, nothing behind it takes it away,   *)
(* and the list of the bindings is the last that is written.                    *)
(***************************************************************************)
EXTENDS SessionTable, SessionSnapshots, TLAPS

\* What an operation holds in each of its phases.
OpShape ==
    \A o \in Ops :
        /\ op[o].phase \in {"loading", "loaded", "stored", "reading", "read", "config"}
             => op[o].chan \in Channels
        /\ op[o].phase \in {"connecting", "pausing", "reading", "read", "config"}
             => op[o].sess \in Sessions /\ home[op[o].sess] \in Channels

\* A session with a timer or with listeners has been given a channel.
TimerShape == \A s \in Sessions : timer[s] \/ attached[s] => home[s] \in Channels

\* One operation at a time: it creates where there is nothing.
AtMostOne == \A o, p \in Ops : Running(o) /\ Running(p) => o = p
LoadFree == \A o \in Ops : op[o].phase \in {"loading", "loaded"} => table[op[o].chan] = None
Serial == ~Overlap => AtMostOne /\ LoadFree /\ OneSessionPerChannel

Inv == TypeOK /\ OpShape /\ TimerShape /\ Serial

-----------------------------------------------------------------------------
\* destroy() of the session of a channel takes it, and only it, out of the table.
LEMMA Destroyed ==
    ASSUME TypeOK, NEW c \in Channels, table[c] # None, DestroySession(table[c])
    PROVE  /\ table' = [table EXCEPT ![c] = None] /\ listeners' = [listeners EXCEPT ![c] = None]
           /\ attached' = [attached EXCEPT ![table[c]] = FALSE]
           /\ timer' = [timer EXCEPT ![table[c]] = FALSE]
           /\ active' \in [Sessions -> BOOLEAN] /\ closing' \subseteq Sessions
           /\ table[c] \in Sessions
<1>1. table[c] \in Sessions /\ home[table[c]] = c /\ listeners[c] = table[c]
  BY DEF TypeOK, Types, TableAgrees
<1>2. attached' = [attached EXCEPT ![table[c]] = FALSE]
  BY <1>1 DEF DestroySession, TypeOK, Types
<1> QED
  BY <1>1, <1>2 DEF DestroySession, TypeOK, Types

\* The invariant after a step whose only effect on the table is such a destroy().
LEMMA DestroyedInv ==
    ASSUME Inv, NEW c \in Channels, table[c] # None, DestroySession(table[c]),
           UNCHANGED <<home, settingVars, link, profile, people>>
    PROVE  /\ op' \in [Ops -> OpStates] => TypeOK'
           /\ TimerShape'
           /\ ~Overlap => OneSessionPerChannel'
           /\ \A d \in Channels : table[d] = None => table'[d] = None
<1> DEFINE t == table[c]
<1>1. /\ table' = [table EXCEPT ![c] = None] /\ listeners' = [listeners EXCEPT ![c] = None]
      /\ attached' = [attached EXCEPT ![t] = FALSE] /\ timer' = [timer EXCEPT ![t] = FALSE]
      /\ active' \in [Sessions -> BOOLEAN] /\ closing' \subseteq Sessions /\ t \in Sessions
  BY Destroyed DEF Inv
<1>2. home[t] = c
  BY DEF Inv, TypeOK, TableAgrees
<1> HIDE DEF t
<1>3. ASSUME op' \in [Ops -> OpStates] PROVE Types'
  BY <1>1, <1>3 DEF Inv, TypeOK, Types, settingVars
<1>4. TableAgrees'
  <2>1. \A d \in Channels : listeners'[d] = table'[d]
    BY <1>1 DEF Inv, TypeOK, Types, TableAgrees
  <2>2. ASSUME NEW d \in Channels, table'[d] # None
        PROVE  home'[table'[d]] = d /\ attached'[table'[d]]
    <3>1. d # c /\ table'[d] = table[d]
      BY <1>1, <2>2 DEF Inv, TypeOK, Types
    <3>2. table[d] \in Sessions /\ home[table[d]] = d /\ attached[table[d]]
      BY <2>2, <3>1 DEF Inv, TypeOK, Types, TableAgrees
    <3>3. table[d] # t
      BY <1>2, <3>1, <3>2
    <3> QED
      BY <1>1, <3>1, <3>2, <3>3 DEF Inv, TypeOK, Types
  <2> QED
    BY <2>1, <2>2 DEF TableAgrees
<1>5. TimerShape'
  BY <1>1 DEF Inv, TimerShape, TypeOK, Types
<1>6. ASSUME ~Overlap PROVE OneSessionPerChannel'
  <2>1. ASSUME NEW s \in Sessions, attached'[s] PROVE table'[home'[s]] = s
    <3>1. s # t /\ attached[s]
      BY <1>1, <2>1 DEF Inv, TypeOK, Types
    <3>2. table[home[s]] = s /\ home[s] \in Channels
      BY <1>6, <3>1 DEF Inv, Serial, OneSessionPerChannel, TimerShape
    <3>3. home[s] # c
      BY <3>1, <3>2 DEF t
    <3> QED
      BY <1>1, <3>2, <3>3 DEF Inv, TypeOK, Types
  <2> QED
    BY <2>1 DEF OneSessionPerChannel
<1>7. \A d \in Channels : table[d] = None => table'[d] = None
  BY <1>1 DEF Inv, TypeOK, Types
<1> QED
  BY <1>3, <1>4, <1>5, <1>6, <1>7 DEF TypeOK

\* A step of one operation, begun while no other runs, leaves at most one running.
LEMMA OneRuns ==
    ASSUME Inv, ~Overlap, NEW o \in Ops, Running(o) \/ Quiet,
           \A p \in Ops \ {o} : op'[p] = op[p]
    PROVE  AtMostOne'
<1>1. AtMostOne
  BY DEF Inv, Serial
<1>2. ASSUME NEW p \in Ops \ {o}, op'[p].phase # "idle" PROVE FALSE
  <2>1. Running(p)
    BY <1>2 DEF Running
  <2>2. ~Quiet
    BY <2>1 DEF Quiet
  <2> QED
    BY <1>1, <2>1, <2>2 DEF AtMostOne
<1> QED
  BY <1>2 DEF AtMostOne, Running

\* The steps of an operation that reads, waits or ends, and leaves the table alone.
LEMMA OpStep ==
    ASSUME Inv, NEW o \in Ops, Running(o) \/ MayBegin(o), UNCHANGED <<tableVars, home>>,
           op' \in [Ops -> OpStates], \A p \in Ops \ {o} : op'[p] = op[p],
           op'[o].phase \in {"loading", "loaded", "stored", "reading", "read", "config"}
             => op'[o].chan \in Channels,
           op'[o].phase \in {"connecting", "pausing", "reading", "read", "config"}
             => op'[o].sess \in Sessions /\ home[op'[o].sess] \in Channels,
           ~Overlap /\ op'[o].phase \in {"loading", "loaded"} => table[op'[o].chan] = None
    PROVE  TableAgrees' /\ OpShape' /\ Serial'
<1>1. TableAgrees'
  BY DEF Inv, TypeOK, TableAgrees, tableVars
<1>2. OpShape'
  <2> SUFFICES ASSUME NEW p \in Ops
               PROVE  /\ op'[p].phase \in {"loading", "loaded", "stored", "reading", "read", "config"}
                           => op'[p].chan \in Channels
                      /\ op'[p].phase \in {"connecting", "pausing", "reading", "read", "config"}
                           => op'[p].sess \in Sessions /\ home'[op'[p].sess] \in Channels
    BY DEF OpShape
  <2>1. CASE p = o
    BY <2>1
  <2>2. CASE p # o
    BY <2>2 DEF Inv, OpShape
  <2> QED
    BY <2>1, <2>2
<1>3. ASSUME ~Overlap PROVE AtMostOne'
  BY <1>3, OneRuns DEF MayBegin
<1>4. ASSUME ~Overlap PROVE LoadFree'
  BY <1>4 DEF Inv, Serial, LoadFree, tableVars
<1>5. ASSUME ~Overlap PROVE OneSessionPerChannel'
  BY <1>5 DEF Inv, Serial, OneSessionPerChannel, tableVars
<1> QED
  BY <1>1, <1>2, <1>3, <1>4, <1>5 DEF Serial

\* Steps that leave the table, the homes and the operations alone.
LEMMA OtherStep ==
    ASSUME Inv, UNCHANGED <<table, listeners, attached, home, op>>
    PROVE  TableAgrees' /\ OpShape' /\ Serial'
BY DEF Inv, TypeOK, TableAgrees, OpShape, Serial, AtMostOne, LoadFree, OneSessionPerChannel, Running

-----------------------------------------------------------------------------
LEMMA IdleState == Idle \in OpStates /\ Idle.phase = "idle"
BY DEF Idle, OpStates, Phases, Kinds

\* ensure() with the session found connects it, or is done.
LEMMA Proceeds ==
    ASSUME Types, NEW o \in Ops, NEW k \in Kinds, NEW c \in Channels, NEW s \in Sessions,
           NEW had \in BOOLEAN, Proceed(o, k, c, s, had)
    PROVE  /\ op' \in [Ops -> OpStates] /\ \A p \in Ops \ {o} : op'[p] = op[p]
           /\ op'[o].phase \in {"idle", "connecting"}
           /\ op'[o].phase = "connecting" => op'[o].sess = s
<1> DEFINE v == IF k = "look" \/ link[s] THEN Idle
                ELSE [phase |-> "connecting", kind |-> k, chan |-> c, sess |-> s,
                      had |-> had, value |-> FALSE]
<1>1. v \in OpStates /\ v.phase \in {"idle", "connecting"} /\ (v.phase = "connecting" => v.sess = s)
  BY IdleState DEF OpStates, Phases
<1>2. op' = [op EXCEPT ![o] = v]
  BY DEF Proceed
<1> HIDE DEF v
<1> QED
  BY <1>1, <1>2 DEF Types

LEMMA OpenInv ==
    ASSUME Inv, NEW o \in Ops, NEW k \in Kinds, NEW c \in Channels, Open(o, k, c)
    PROVE  Inv'
<1> USE DEF Inv
<1>1. CASE table[c] # None
  <2>1. table[c] \in Sessions /\ home[table[c]] = c
    BY <1>1 DEF TypeOK, Types, TableAgrees
  <2>2. ApplyGuildConfig /\ Proceed(o, k, c, table[c], TRUE) /\ UNCHANGED <<tableVars, home>>
    BY <1>1 DEF Open
  <2>3. /\ op' \in [Ops -> OpStates] /\ \A p \in Ops \ {o} : op'[p] = op[p]
        /\ op'[o].phase \in {"idle", "connecting"}
        /\ op'[o].phase = "connecting" => op'[o].sess = table[c]
    BY <2>1, <2>2, Proceeds DEF TypeOK
  <2>4. TableAgrees' /\ OpShape' /\ Serial'
    BY <2>1, <2>2, <2>3, OpStep DEF Open
  <2>5. Types'
    BY <2>2, <2>3 DEF Open, ApplyGuildConfig, TypeOK, Types, tableVars
  <2>6. TimerShape'
    <3>1. ASSUME NEW s \in Sessions, timer'[s] PROVE timer[s] \/ Registered(s)
      BY <2>2, <3>1 DEF ApplyGuildConfig
    <3>2. ASSUME NEW s \in Sessions, Registered(s) PROVE home[s] \in Channels
      BY <3>2, SessionAssumption DEF Registered, TypeOK, Types, TableAgrees
    <3> QED
      BY <2>2, <3>1, <3>2 DEF TimerShape, tableVars
  <2> QED
    BY <2>4, <2>5, <2>6 DEF TypeOK
<1>2. CASE table[c] = None
  <2> DEFINE v == [Idle EXCEPT !.phase = "loading", !.kind = k, !.chan = c]
  <2>1. v \in OpStates /\ v.phase = "loading" /\ v.chan = c
    BY DEF Idle, OpStates, Phases
  <2>2. op' = [op EXCEPT ![o] = v]
    BY <1>2 DEF Open
  <2> HIDE DEF v
  <2>3. UNCHANGED <<tableVars, home, stay, timer>> /\ MayBegin(o)
    BY <1>2 DEF Open
  <2>4. op' \in [Ops -> OpStates] /\ op'[o] = v /\ \A p \in Ops \ {o} : op'[p] = op[p]
    BY <2>1, <2>2 DEF TypeOK, Types
  <2>5. TableAgrees' /\ OpShape' /\ Serial'
    BY <1>2, <2>1, <2>3, <2>4, OpStep
  <2>6. Types' /\ TimerShape'
    BY <2>3, <2>4 DEF Open, TypeOK, Types, TimerShape, tableVars
  <2> QED
    BY <2>5, <2>6 DEF TypeOK
<1> QED
  BY <1>1, <1>2

LEMMA Store247Inv ==
    ASSUME Inv, NEW o \in Ops, NEW c \in Channels, NEW v \in BOOLEAN, Store247(o, c, v)
    PROVE  Inv'
<1> USE DEF Inv
<1> DEFINE st == [Idle EXCEPT !.phase = "stored", !.kind = "247", !.chan = c]
<1>1. st \in OpStates /\ st.phase = "stored" /\ st.chan = c
  BY DEF Idle, OpStates, Phases, Kinds
<1>2. op' = [op EXCEPT ![o] = st]
  BY DEF Store247
<1> HIDE DEF st
<1>3. op' \in [Ops -> OpStates] /\ op'[o] = st /\ \A p \in Ops \ {o} : op'[p] = op[p]
  BY <1>1, <1>2 DEF TypeOK, Types
<1>4. TableAgrees' /\ OpShape' /\ Serial'
  BY <1>1, <1>3, OpStep DEF Store247
<1>5. Types' /\ TimerShape'
  BY <1>3 DEF Store247, TypeOK, Types, TimerShape, tableVars, settingVars
<1> QED
  BY <1>4, <1>5 DEF TypeOK

LEMMA ReadProfileInv ==
    ASSUME Inv, NEW o \in Ops, ReadProfile(o)
    PROVE  Inv'
<1> USE DEF Inv
<1>1. op[o] \in OpStates /\ op[o].phase \in {"loading", "reading"} /\ op[o].chan \in Channels
  BY DEF ReadProfile, TypeOK, Types, OpShape
<1>2. PICK v \in BOOLEAN :
        op' = [op EXCEPT ![o].phase = IF @ = "loading" THEN "loaded" ELSE "read", ![o].value = v]
  BY <1>1 DEF ReadProfile, TypeOK, Types
<1>3. /\ op'[o] \in OpStates /\ op'[o].chan = op[o].chan /\ op'[o].sess = op[o].sess
      /\ op'[o].phase = IF op[o].phase = "loading" THEN "loaded" ELSE "read"
  BY <1>1, <1>2 DEF TypeOK, Types, OpStates, Phases
<1>4. op' \in [Ops -> OpStates] /\ \A p \in Ops \ {o} : op'[p] = op[p]
  BY <1>2, <1>3 DEF TypeOK, Types
<1>5. Running(o) /\ UNCHANGED <<tableVars, home>>
  BY <1>1 DEF Running, ReadProfile
<1>6. op[o].phase = "reading" => op[o].sess \in Sessions /\ home[op[o].sess] \in Channels
  BY DEF OpShape
<1>7. ~Overlap /\ op[o].phase = "loading" => table[op[o].chan] = None
  BY DEF Serial, LoadFree
<1>8. TableAgrees' /\ OpShape' /\ Serial'
  BY <1>1, <1>3, <1>4, <1>5, <1>6, <1>7, OpStep
<1>9. Types' /\ TimerShape'
  BY <1>4 DEF ReadProfile, TypeOK, Types, TimerShape, tableVars, settingVars
<1> QED
  BY <1>8, <1>9 DEF TypeOK

\* A new session takes a key that nothing uses; without overlap the key was free.
LEMMA CreateInv ==
    ASSUME Inv, NEW o \in Ops, NEW s \in Sessions, Create(o, s)
    PROVE  Inv'
<1> USE DEF Inv
<1> DEFINE c == op[o].chan
           v == op[o].value
           k == op[o].kind
<1>1. /\ op[o] \in OpStates /\ op[o].phase = "loaded" /\ c \in Channels
      /\ v \in BOOLEAN /\ k \in Kinds /\ ~InUse(s) /\ Running(o)
  BY DEF Create, TypeOK, Types, OpShape, OpStates, Running
<1>2. /\ table' = [table EXCEPT ![c] = s] /\ listeners' = [listeners EXCEPT ![c] = s]
      /\ home' = [home EXCEPT ![s] = c] /\ attached' = [attached EXCEPT ![s] = TRUE]
      /\ cached' = [cached EXCEPT ![s] = v] /\ stay' = [stay EXCEPT ![s] = v]
      /\ timer' = [timer EXCEPT ![s] = ~v] /\ ignore' = [ignore EXCEPT ![s] = FALSE]
      /\ active' = [active EXCEPT ![s] = FALSE] /\ Proceed(o, k, c, s, FALSE)
      /\ UNCHANGED <<closing, link, profile, people>>
  BY DEF Create
<1> HIDE DEF c, v, k
<1>3. /\ op' \in [Ops -> OpStates] /\ \A p \in Ops \ {o} : op'[p] = op[p]
      /\ op'[o].phase \in {"idle", "connecting"}
      /\ op'[o].phase = "connecting" => op'[o].sess = s
  BY <1>1, <1>2, Proceeds DEF TypeOK
<1>4. (\A d \in Channels : table[d] # s) /\ (\A p \in Ops : op[p].sess # s)
      /\ ~attached[s] /\ s # None
  BY <1>1, SessionAssumption DEF InUse, Registered
<1>5. Types'
  BY <1>1, <1>2, <1>3 DEF TypeOK, Types
<1>6. TableAgrees'
  <2>1. \A d \in Channels : listeners'[d] = table'[d]
    BY <1>1, <1>2 DEF TypeOK, Types, TableAgrees
  <2>2. ASSUME NEW d \in Channels, table'[d] # None
        PROVE  home'[table'[d]] = d /\ attached'[table'[d]]
    <3>1. CASE d = c
      BY <1>1, <1>2, <3>1 DEF TypeOK, Types
    <3>2. CASE d # c
      <4>1. table'[d] = table[d] /\ table[d] \in Sessions
        BY <1>1, <1>2, <2>2, <3>2 DEF TypeOK, Types
      <4>2. table[d] # s /\ home[table[d]] = d /\ attached[table[d]]
        BY <1>4, <2>2, <4>1 DEF TypeOK, TableAgrees
      <4> QED
        BY <1>2, <4>1, <4>2 DEF TypeOK, Types
    <3> QED
      BY <3>1, <3>2
  <2> QED
    BY <2>1, <2>2 DEF TableAgrees
<1>7. OpShape'
  <2> SUFFICES ASSUME NEW p \in Ops
               PROVE  /\ op'[p].phase \in {"loading", "loaded", "stored", "reading", "read", "config"}
                           => op'[p].chan \in Channels
                      /\ op'[p].phase \in {"connecting", "pausing", "reading", "read", "config"}
                           => op'[p].sess \in Sessions /\ home'[op'[p].sess] \in Channels
    BY DEF OpShape
  <2>1. CASE p = o
    BY <1>1, <1>2, <1>3, <2>1 DEF TypeOK, Types
  <2>2. CASE p # o
    <3>1. op'[p] = op[p] /\ op[p].sess # s
      BY <1>3, <1>4, <2>2
    <3>2. op[p].sess \in Sessions => home'[op[p].sess] = home[op[p].sess]
      BY <1>2, <3>1 DEF TypeOK, Types
    <3> QED
      BY <3>1, <3>2 DEF OpShape
  <2> QED
    BY <2>1, <2>2
<1>8. TimerShape'
  BY <1>1, <1>2 DEF TimerShape, TypeOK, Types
<1>9. ASSUME ~Overlap PROVE AtMostOne' /\ LoadFree' /\ OneSessionPerChannel'
  <2>1. table[c] = None
    BY <1>1, <1>9 DEF Serial, LoadFree, c
  <2>2. AtMostOne'
    BY <1>1, <1>3, <1>9, OneRuns
  <2>3. LoadFree'
    BY <1>1, <1>3, <1>9 DEF LoadFree, AtMostOne, Running, Serial
  <2>4. ASSUME NEW t \in Sessions, attached'[t] PROVE table'[home'[t]] = t
    <3>1. CASE t = s
      BY <1>1, <1>2, <3>1 DEF TypeOK, Types
    <3>2. CASE t # s
      <4>1. attached[t] /\ home'[t] = home[t]
        BY <1>2, <2>4, <3>2 DEF TypeOK, Types
      <4>2. table[home[t]] = t /\ home[t] \in Channels /\ t # None
        BY <1>9, <4>1, SessionAssumption DEF Serial, OneSessionPerChannel, TimerShape
      <4>3. home[t] # c
        BY <2>1, <4>2
      <4> QED
        BY <1>2, <4>1, <4>2, <4>3 DEF TypeOK, Types
    <3> QED
      BY <3>1, <3>2
  <2> QED
    BY <2>2, <2>3, <2>4 DEF OneSessionPerChannel
<1> QED
  BY <1>5, <1>6, <1>7, <1>8, <1>9 DEF TypeOK, Serial

\* The steps of an operation that has its session, whatever they do to links,
\* timers and settings.
LEMMA EndOfOp ==
    ASSUME Inv, NEW o \in Ops, Running(o), UNCHANGED <<tableVars, home>>, op' = [op EXCEPT ![o] = Idle]
    PROVE  /\ op' \in [Ops -> OpStates]
           /\ TableAgrees' /\ OpShape' /\ Serial'
<1>1. op' \in [Ops -> OpStates] /\ op'[o].phase = "idle" /\ \A p \in Ops \ {o} : op'[p] = op[p]
  BY IdleState DEF Inv, TypeOK, Types
<1> QED
  BY <1>1, OpStep

LEMMA ConnectedInv ==
    ASSUME Inv, NEW o \in Ops, Connected(o)
    PROVE  Inv'
<1> USE DEF Inv
<1>1. Running(o) /\ UNCHANGED <<tableVars, home>> /\ op' = [op EXCEPT ![o] = Idle]
  BY DEF Connected, Running
<1>2. op' \in [Ops -> OpStates] /\ TableAgrees' /\ OpShape' /\ Serial'
  BY <1>1, EndOfOp
<1>3. Types' /\ TimerShape'
  BY <1>2 DEF Connected, TypeOK, Types, TimerShape, tableVars, settingVars
<1> QED
  BY <1>2, <1>3 DEF TypeOK

\* A failed connect() ends the operation, with a destroy() or without.
LEMMA ConnectFailedInv ==
    ASSUME Inv, NEW o \in Ops, ConnectFailed(o)
    PROVE  Inv'
<1> USE DEF Inv
<1> DEFINE s == op[o].sess
           c == home[s]
<1>1. Running(o) /\ s \in Sessions /\ c \in Channels
  BY DEF ConnectFailed, Running, OpShape
<1>2. op' = [op EXCEPT ![o] = Idle] /\ UNCHANGED <<settingVars, home, link, profile, people>>
  BY DEF ConnectFailed
<1>3. CASE table[c] # None /\ DestroySession(table[c])
  <2>1. op' \in [Ops -> OpStates] /\ op'[o].phase = "idle" /\ \A p \in Ops \ {o} : op'[p] = op[p]
    BY <1>2, IdleState DEF TypeOK, Types
  <2> HIDE DEF s, c
  <2>2. /\ TypeOK' /\ TimerShape' /\ (~Overlap => OneSessionPerChannel')
        /\ \A d \in Channels : table[d] = None => table'[d] = None
    BY <1>1, <1>2, <1>3, <2>1, DestroyedInv
  <2>3. OpShape'
    BY <1>2, <2>1 DEF OpShape
  <2>4. ASSUME ~Overlap PROVE AtMostOne' /\ LoadFree'
    <3>1. AtMostOne'
      BY <1>1, <2>1, <2>4, OneRuns
    <3>2. LoadFree'
      BY <2>1, <2>2, <2>4 DEF LoadFree, Serial, OpShape
    <3> QED
      BY <3>1, <3>2
  <2> QED
    BY <2>2, <2>3, <2>4 DEF Serial
<1>4. CASE UNCHANGED <<tableVars, timer, active>>
  <2>1. op' \in [Ops -> OpStates] /\ TableAgrees' /\ OpShape' /\ Serial'
    BY <1>1, <1>2, <1>4, EndOfOp
  <2>2. Types' /\ TimerShape'
    BY <1>2, <1>4, <2>1 DEF TypeOK, Types, TimerShape, tableVars, settingVars
  <2> QED
    BY <2>1, <2>2 DEF TypeOK
<1> QED
  BY <1>3, <1>4 DEF ConnectFailed, DestroyKey

LEMMA RetryInv ==
    ASSUME Inv, NEW o \in Ops, Retry(o)
    PROVE  Inv'
<1> USE DEF Inv
<1>1. /\ op[o] \in OpStates /\ Running(o) /\ UNCHANGED <<tableVars, home, timer>>
      /\ op[o].sess \in Sessions /\ home[op[o].sess] \in Channels
  BY DEF Retry, Running, TypeOK, Types, OpShape
<1>2. PICK h \in {"pausing", "connecting"} : op' = [op EXCEPT ![o].phase = h]
  BY DEF Retry
<1>3. /\ op' \in [Ops -> OpStates] /\ \A p \in Ops \ {o} : op'[p] = op[p]
      /\ op'[o].phase = h /\ op'[o].sess = op[o].sess
  BY <1>1, <1>2 DEF TypeOK, Types, OpStates, Phases
<1>4. TableAgrees' /\ OpShape' /\ Serial'
  BY <1>1, <1>3, OpStep
<1>5. Types' /\ TimerShape'
  BY <1>1, <1>3 DEF Retry, TypeOK, Types, TimerShape, tableVars, settingVars
<1> QED
  BY <1>4, <1>5 DEF TypeOK

LEMMA RefreshInv ==
    ASSUME Inv, NEW o \in Ops, Refresh(o)
    PROVE  Inv'
<1> USE DEF Inv
<1> DEFINE c == op[o].chan
<1>1. op[o] \in OpStates /\ Running(o) /\ c \in Channels /\ UNCHANGED <<tableVars, home>>
  BY DEF Refresh, Running, TypeOK, Types, OpShape
<1>2. CASE table[c] = None
  <2>1. op' \in [Ops -> OpStates] /\ TableAgrees' /\ OpShape' /\ Serial'
    BY <1>1, <1>2, EndOfOp DEF Refresh
  <2>2. Types' /\ TimerShape'
    BY <2>1 DEF Refresh, TypeOK, Types, TimerShape, tableVars, settingVars
  <2> QED
    BY <2>1, <2>2 DEF TypeOK
<1>3. CASE table[c] # None
  <2>1. table[c] \in Sessions /\ home[table[c]] = c
    BY <1>1, <1>3 DEF TypeOK, Types, TableAgrees
  <2>2. op' = [op EXCEPT ![o] = [op[o] EXCEPT !.phase = "reading", !.sess = table[c]]]
    BY <1>3 DEF Refresh
  <2>3. /\ op' \in [Ops -> OpStates] /\ \A p \in Ops \ {o} : op'[p] = op[p]
        /\ op'[o].phase = "reading" /\ op'[o].sess = table[c] /\ op'[o].chan = c
    BY <1>1, <2>1, <2>2 DEF TypeOK, Types, OpStates, Phases
  <2>4. TableAgrees' /\ OpShape' /\ Serial'
    BY <1>1, <2>1, <2>3, OpStep
  <2>5. Types' /\ TimerShape'
    BY <2>3 DEF Refresh, TypeOK, Types, TimerShape, tableVars, settingVars
  <2> QED
    BY <2>4, <2>5 DEF TypeOK
<1> QED
  BY <1>2, <1>3

LEMMA ProfileReadInv ==
    ASSUME Inv, NEW o \in Ops, ProfileRead(o)
    PROVE  Inv'
<1> USE DEF Inv
<1> DEFINE s == op[o].sess
<1>1. /\ op[o] \in OpStates /\ Running(o) /\ UNCHANGED <<tableVars, home, timer>>
      /\ op[o].chan \in Channels /\ s \in Sessions /\ home[s] \in Channels
      /\ op[o].value \in BOOLEAN
  BY DEF ProfileRead, Running, TypeOK, Types, OpShape, OpStates
<1>2. /\ cached' = [cached EXCEPT ![s] = op[o].value]
      /\ op' = [op EXCEPT ![o].phase = "config", ![o].value = stay[s]]
  BY DEF ProfileRead
<1>3. /\ op' \in [Ops -> OpStates] /\ \A p \in Ops \ {o} : op'[p] = op[p]
      /\ op'[o].phase = "config" /\ op'[o].sess = s /\ op'[o].chan = op[o].chan
  BY <1>1, <1>2 DEF TypeOK, Types, OpStates, Phases
<1>4. TableAgrees' /\ OpShape' /\ Serial'
  BY <1>1, <1>3, OpStep
<1>5. Types' /\ TimerShape'
  BY <1>1, <1>2, <1>3 DEF ProfileRead, TypeOK, Types, TimerShape, tableVars
<1> QED
  BY <1>4, <1>5 DEF TypeOK

LEMMA ConfigReadInv ==
    ASSUME Inv, NEW o \in Ops, ConfigRead(o)
    PROVE  Inv'
<1> USE DEF Inv
<1> DEFINE s == op[o].sess
<1>1. /\ Running(o) /\ UNCHANGED <<tableVars, home>> /\ op' = [op EXCEPT ![o] = Idle]
      /\ s \in Sessions /\ home[s] \in Channels
  BY DEF ConfigRead, Running, OpShape
<1>2. op' \in [Ops -> OpStates] /\ TableAgrees' /\ OpShape' /\ Serial'
  BY <1>1, EndOfOp
<1>3. stay' \in [Sessions -> BOOLEAN] /\ timer' \in [Sessions -> BOOLEAN]
  BY <1>1 DEF ConfigRead, TypeOK, Types
<1>4. Types'
  BY <1>1, <1>2, <1>3 DEF ConfigRead, TypeOK, Types, tableVars
<1>5. TimerShape'
  <2>1. ASSUME NEW t \in Sessions, t # s PROVE timer'[t] = timer[t]
    BY <1>1, <2>1 DEF ConfigRead, TypeOK, Types
  <2> QED
    BY <1>1, <2>1 DEF TimerShape, tableVars
<1> QED
  BY <1>2, <1>4, <1>5 DEF TypeOK

\* A destroy() that is no part of an operation.
LEMMA DestroyAlone ==
    ASSUME Inv, NEW c \in Channels, table[c] # None, DestroySession(table[c]),
           UNCHANGED <<settingVars, home, link, op, profile, people>>
    PROVE  Inv'
<1> USE DEF Inv
<1>1. op' \in [Ops -> OpStates] /\ AtMostOne' = AtMostOne
  BY DEF TypeOK, Types, AtMostOne, Running
<1>2. /\ TypeOK' /\ TimerShape' /\ (~Overlap => OneSessionPerChannel')
      /\ \A d \in Channels : table[d] = None => table'[d] = None
  BY <1>1, DestroyedInv
<1>3. OpShape'
  BY DEF OpShape
<1>4. ~Overlap => AtMostOne' /\ LoadFree'
  BY <1>1, <1>2 DEF LoadFree, Serial, OpShape
<1> QED
  BY <1>2, <1>3, <1>4 DEF Serial

LEMMA LeaveInv ==
    ASSUME Inv, NEW c \in Channels, Leave(c)
    PROVE  Inv'
BY DestroyAlone DEF Leave

LEMMA TimerFiresInv ==
    ASSUME Inv, NEW s \in Sessions, TimerFires(s)
    PROVE  Inv'
<1> USE DEF Inv
<1>1. home[s] \in Channels /\ UNCHANGED <<settingVars, home, link, op, profile, people>>
  BY DEF TimerFires, TimerShape
<1>2. CASE timer' = [timer EXCEPT ![s] = FALSE] /\ UNCHANGED <<tableVars, active>>
  <2>1. TableAgrees' /\ OpShape' /\ Serial'
    BY <1>1, <1>2, OtherStep DEF tableVars
  <2>2. Types' /\ TimerShape'
    BY <1>1, <1>2 DEF TypeOK, Types, TimerShape, tableVars, settingVars
  <2> QED
    BY <2>1, <2>2 DEF TypeOK
<1>3. CASE table[home[s]] # None /\ DestroySession(table[home[s]])
  BY <1>1, <1>3, DestroyAlone
<1> QED
  BY <1>2, <1>3 DEF TimerFires

\* What happens to a session while it is open changes neither the table nor a home.
LEMMA LifeInv ==
    ASSUME Inv, NEW s \in Sessions,
           Disconnected(s) \/ LinkDrops(s) \/ PlaybackStarts(s) \/ PlaybackEnds(s)
    PROVE  Inv'
<1> USE DEF Inv
<1>1. UNCHANGED <<table, listeners, attached, home, op, cached, stay, profile, people>>
  BY DEF Disconnected, LinkDrops, PlaybackStarts, PlaybackEnds, tableVars, settingVars
<1>2. TableAgrees' /\ OpShape' /\ Serial'
  BY <1>1, OtherStep
<1>3. CASE Disconnected(s) \/ LinkDrops(s)
  BY <1>1, <1>2, <1>3 DEF Disconnected, LinkDrops, TypeOK, Types, TimerShape, tableVars, settingVars
<1>4. CASE PlaybackStarts(s)
  BY <1>1, <1>2, <1>4 DEF PlaybackStarts, TypeOK, Types, TimerShape, tableVars
<1>5. CASE PlaybackEnds(s)
  <2>1. /\ active' \in [Sessions -> BOOLEAN] /\ ignore' \in [Sessions -> BOOLEAN]
        /\ timer' \in [Sessions -> BOOLEAN]
    BY <1>5 DEF PlaybackEnds, TypeOK, Types
  <2>2. Types'
    BY <1>1, <1>5, <2>1 DEF PlaybackEnds, TypeOK, Types, tableVars
  <2>3. TimerShape'
    BY <1>1, <1>5 DEF PlaybackEnds, TypeOK, Types, TimerShape
  <2> QED
    BY <1>2, <2>2, <2>3 DEF TypeOK
<1> QED
  BY <1>3, <1>4, <1>5

LEMMA PeopleInv ==
    ASSUME Inv, NEW c \in Channels, PeopleChange(c)
    PROVE  Inv'
<1> USE DEF Inv
<1>1. TableAgrees' /\ OpShape' /\ Serial'
  BY OtherStep DEF PeopleChange, tableVars
<1>2. Types' /\ TimerShape'
  BY DEF PeopleChange, TypeOK, Types, TimerShape, tableVars, settingVars
<1> QED
  BY <1>1, <1>2 DEF TypeOK

-----------------------------------------------------------------------------
LEMMA InitInv == Init => Inv
<1> SUFFICES ASSUME Init PROVE Inv
  OBVIOUS
<1>1. \A o \in Ops : op[o] = Idle /\ Idle \in OpStates /\ Idle.phase = "idle"
  BY IdleState DEF Init
<1>2. Types /\ TableAgrees
  BY <1>1 DEF Init, Types, TableAgrees
<1>3. OpShape /\ TimerShape
  BY <1>1 DEF Init, OpShape, TimerShape
<1>4. AtMostOne /\ LoadFree
  BY <1>1 DEF AtMostOne, LoadFree, Running
<1>5. OneSessionPerChannel
  BY DEF Init, OneSessionPerChannel
<1> QED
  BY <1>2, <1>3, <1>4, <1>5 DEF Inv, TypeOK, Serial

LEMMA StepInv == Inv /\ [Next]_vars => Inv'
<1> SUFFICES ASSUME Inv, [Next]_vars PROVE Inv'
  OBVIOUS
<1>1. ASSUME NEW o \in Ops, NEW c \in Channels, NEW k \in Kinds, Open(o, k, c) PROVE Inv'
  BY <1>1, OpenInv
<1>2. ASSUME NEW o \in Ops, NEW c \in Channels, NEW v \in BOOLEAN, Store247(o, c, v) PROVE Inv'
  BY <1>2, Store247Inv
<1>3. ASSUME NEW o \in Ops, Continue(o) PROVE Inv'
  BY <1>3, ReadProfileInv, ConnectedInv, ConnectFailedInv, RefreshInv, ProfileReadInv,
     ConfigReadInv, CreateInv DEF Continue
<1>4. ASSUME NEW o \in Ops, Retry(o) PROVE Inv'
  BY <1>4, RetryInv
<1>5. ASSUME NEW c \in Channels, Leave(c) \/ PeopleChange(c) PROVE Inv'
  BY <1>5, LeaveInv, PeopleInv
<1>6. ASSUME NEW s \in Sessions, TimerFires(s) PROVE Inv'
  BY <1>6, TimerFiresInv
<1>7. ASSUME NEW s \in Sessions,
             Disconnected(s) \/ LinkDrops(s) \/ PlaybackStarts(s) \/ PlaybackEnds(s)
      PROVE  Inv'
  BY <1>7, LifeInv
<1>8. CASE UNCHANGED vars
  <2>1. TableAgrees' /\ OpShape' /\ Serial'
    BY <1>8, OtherStep DEF vars, tableVars
  <2>2. Types' /\ TimerShape'
    BY <1>8 DEF Inv, TypeOK, Types, TimerShape, vars, tableVars, settingVars
  <2> QED
    BY <2>1, <2>2 DEF Inv, TypeOK
<1> QED
  BY <1>1, <1>2, <1>3, <1>4, <1>5, <1>6, <1>7, <1>8 DEF Next

LEMMA Invariance == Spec => []Inv
<1> QED
  BY InitInv, StepInv, PTL DEF Spec

\* The table, its listeners and the sessions agree: destroy() always finds the
\* session whose key it is given, with its listeners.
THEOREM TypeCorrect == Spec => []TypeOK
<1>1. Inv => TypeOK
  BY DEF Inv
<1> QED
  BY <1>1, Invariance, PTL

\* While no two operations overlap, a session that was not destroyed is the one in
\* the table (README, Departures, says what happens when two do).
THEOREM SerialSessions == Spec => [](~Overlap => OneSessionPerChannel)
<1>1. Inv => (~Overlap => OneSessionPerChannel)
  BY DEF Inv, Serial
<1> QED
  BY <1>1, Invariance, PTL

\* An idle timer that fires destroys its own session or none, also when the session
\* was replaced in the table, whatever overlaps.
THEOREM TimersSpareOthers == Spec => TimerSparesOthers
<1> DEFINE A == \A s \in Sessions : TimerFires(s) =>
                  \A t \in Sessions \ {s} : attached'[t] = attached[t]
<1>1. ASSUME Inv, NEW s \in Sessions, TimerFires(s), NEW t \in Sessions \ {s}
      PROVE  attached'[t] = attached[t]
  <2>1. home[s] \in Channels
    BY <1>1 DEF Inv, TimerFires, TimerShape
  <2>2. CASE UNCHANGED attached
    BY <2>2
  <2>3. CASE /\ Registered(s) \/ OpenSessions = {}
             /\ table[home[s]] # None /\ DestroySession(table[home[s]])
    <3>1. Registered(s)
      BY <2>1, <2>3 DEF OpenSessions
    <3>2. table[home[s]] = s
      BY <1>1, <3>1, SessionAssumption DEF Registered, Inv, TypeOK, TableAgrees
    <3>3. attached' = [attached EXCEPT ![s] = FALSE]
      BY <1>1, <2>1, <2>3, <3>2, Destroyed DEF Inv
    <3> QED
      BY <3>3, <1>1 DEF Inv, TypeOK, Types
  <2> QED
    BY <1>1, <2>2, <2>3 DEF TimerFires, tableVars
<1>2. Inv => [A]_vars
  BY <1>1
<1>3. Spec => [][A]_vars
  BY <1>2, Invariance, PTL
<1> QED
  BY <1>3 DEF TimerSparesOthers

-----------------------------------------------------------------------------
(***************************************************************************)
(* SessionSnapshots.                                                        *)
(***************************************************************************)
Destroyers == {"destroy", "undo"}
Stores(w, c) == w.kind = "upsert" /\ w.chan = c
Saves(w, c) == Stores(w, c) /\ w.by = "session"
Deletes(w, c) == w.by \in Destroyers /\ w.kind = "delete" /\ w.chan = c

-----------------------------------------------------------------------------
(* Sequences of writes.                                                    *)

LEMMA JoinedWrites ==
    ASSUME NEW s \in Seq(WriteStates), NEW t \in Seq(WriteStates)
    PROVE  /\ s \o t \in Seq(WriteStates) /\ Len(s \o t) = Len(s) + Len(t)
           /\ \A i \in DOMAIN s : i \in DOMAIN (s \o t) /\ (s \o t)[i] = s[i]
           /\ \A i \in DOMAIN t : Len(s) + i \in DOMAIN (s \o t) /\ (s \o t)[Len(s) + i] = t[i]
           /\ \A i \in DOMAIN (s \o t) : i \in DOMAIN s \/ (i - Len(s) \in DOMAIN t /\ (s \o t)[i] = t[i - Len(s)])
OBVIOUS

LEMMA OneWrite ==
    ASSUME NEW w \in WriteStates
    PROVE  /\ <<w>> \in Seq(WriteStates) /\ DOMAIN <<w>> = {1} /\ <<w>>[1] = w
           /\ \A s \in Seq(WriteStates) : Append(s, w) = s \o <<w>>
OBVIOUS

LEMMA NoWrite ==
    /\ <<>> \in Seq(WriteStates) /\ DOMAIN <<>> = {}
    /\ \A s \in Seq(WriteStates) : s \o <<>> = s
OBVIOUS

LEMMA TailWrites ==
    ASSUME NEW s \in Seq(WriteStates), s # <<>>
    PROVE  /\ Tail(s) \in Seq(WriteStates) /\ 1 \in DOMAIN s /\ Head(s) = s[1] /\ s[1] \in WriteStates
           /\ Len(Tail(s)) = Len(s) - 1
           /\ \A i \in DOMAIN Tail(s) : i + 1 \in DOMAIN s /\ Tail(s)[i] = s[i + 1]
           /\ \A i \in DOMAIN s : i = 1 \/ (i - 1 \in DOMAIN Tail(s) /\ Tail(s)[i - 1] = s[i])
OBVIOUS

\* A sequence whose writes are changed one by one.
LEMMA MappedWrites ==
    ASSUME NEW s \in Seq(WriteStates), NEW f, f = [i \in DOMAIN s |-> f[i]],
           \A i \in DOMAIN s : f[i] \in WriteStates
    PROVE  f \in Seq(WriteStates) /\ DOMAIN f = DOMAIN s /\ Len(f) = Len(s)
<1>1. f \in [1..Len(s) -> WriteStates] /\ Len(s) \in Nat
  OBVIOUS
<1> QED
  BY <1>1
-----------------------------------------------------------------------------
LEMMA WriteOf ==
    ASSUME NEW k \in {"upsert", "delete", "sync", "clear", "read"},
           NEW c \in VoiceChannels \cup {Nothing}, NEW by \in Waiters
    PROVE  /\ Write(k, c, by) \in WriteStates
           /\ Write(k, c, by).kind = k /\ Write(k, c, by).chan = c /\ Write(k, c, by).by = by
           /\ Write(k, c, by).list = {}
<1>1. 0 \in Contents
  BY SnapshotAssumption DEF Contents
<1> QED
  BY <1>1 DEF Write, WriteStates

\* A write with another channel, content, list or waiter, or awaited by shutdown().
LEMMA OtherChannel ==
    ASSUME NEW w \in WriteStates, NEW c \in VoiceChannels \cup {Nothing}
    PROVE  LET v == [w EXCEPT !.chan = c]
           IN  /\ v \in WriteStates
               /\ v.kind = w.kind /\ v.chan = c /\ v.content = w.content /\ v.list = w.list /\ v.by = w.by /\ v.held = w.held
BY DEF WriteStates

LEMMA OtherContent ==
    ASSUME NEW w \in WriteStates, NEW x \in Contents
    PROVE  LET v == [w EXCEPT !.content = x]
           IN  /\ v \in WriteStates
               /\ v.kind = w.kind /\ v.chan = w.chan /\ v.content = x /\ v.list = w.list /\ v.by = w.by /\ v.held = w.held
BY DEF WriteStates

LEMMA OtherList ==
    ASSUME NEW w \in WriteStates, NEW l \in SUBSET VoiceChannels
    PROVE  LET v == [w EXCEPT !.list = l]
           IN  /\ v \in WriteStates
               /\ v.kind = w.kind /\ v.chan = w.chan /\ v.content = w.content /\ v.list = l /\ v.by = w.by /\ v.held = w.held
BY DEF WriteStates

LEMMA OtherWaiter ==
    ASSUME NEW w \in WriteStates, NEW b \in Waiters
    PROVE  LET v == [w EXCEPT !.by = b]
           IN  /\ v \in WriteStates
               /\ v.kind = w.kind /\ v.chan = w.chan /\ v.content = w.content /\ v.list = w.list /\ v.by = b /\ v.held = w.held
BY DEF WriteStates

LEMMA HeldWrite ==
    ASSUME NEW w \in WriteStates
    PROVE  LET v == [w EXCEPT !.held = TRUE]
           IN  /\ v \in WriteStates
               /\ v.kind = w.kind /\ v.chan = w.chan /\ v.content = w.content /\ v.list = w.list /\ v.by = w.by /\ v.held = TRUE
BY DEF WriteStates

LEMMA SyncOf ==
    ASSUME NEW ss \in [VoiceChannels -> SessionStates], NEW by \in Waiters
    PROVE  LET w == Sync(ss, by)
           IN  /\ w \in WriteStates /\ w.kind = "sync" /\ w.chan = Nothing /\ w.by = by
               /\ w.list = {d \in VoiceChannels : Worth(ss[d]) /\ ss[d].linked}
               /\ \A d \in w.list : ss[d].open
<1> DEFINE L == {d \in VoiceChannels : Worth(ss[d]) /\ ss[d].linked}
<1>1. L \in SUBSET VoiceChannels /\ \A d \in L : ss[d].open
  BY DEF Worth
<1>2. Sync(ss, by) = [Write("sync", Nothing, by) EXCEPT !.list = L]
  BY DEF Sync
<1>3. L = {d \in VoiceChannels : Worth(ss[d]) /\ ss[d].linked}
  OBVIOUS
<1> HIDE DEF L
<1>4. Write("sync", Nothing, by) \in WriteStates /\ Write("sync", Nothing, by).kind = "sync"
      /\ Write("sync", Nothing, by).chan = Nothing /\ Write("sync", Nothing, by).by = by
  BY WriteOf
<1> QED
  BY <1>1, <1>2, <1>3, <1>4, OtherList

\* What a session is after persistSessionSnapshot, and what it sent.
LEMMA PersistedOf ==
    ASSUME NEW r \in SessionStates, NEW force \in BOOLEAN
    PROVE  LET p == Persisted(r, force)
           IN  /\ p \in SessionStates
               /\ p.open = r.open /\ p.linked = r.linked /\ p.stay = r.stay /\ p.content = r.content
               /\ Worth(p) = Worth(r)
               /\ p.dirty => r.dirty \/ Worth(r)
               /\ p.flying => r.flying \/ (Worth(r) /\ ~Skipped(r, force))
<1> QED
  BY DEF Persisted, Worth, Recoverable, SessionStates

LEMMA SentOf ==
    ASSUME NEW c \in VoiceChannels, NEW r \in SessionStates, NEW force \in BOOLEAN
    PROVE  LET vs == Sent(c, r, force)
           IN  /\ vs \in Seq(WriteStates)
               /\ \A i \in DOMAIN vs :
                     /\ vs[i].by = "session" /\ vs[i].chan = c /\ vs[i].list = {}
                     /\ vs[i].kind = IF Worth(r) THEN "upsert" ELSE "delete"
                     /\ Worth(r) => vs[i].content = r.content
               /\ Worth(r) /\ ~Skipped(r, force) => \E i \in DOMAIN vs : Saves(vs[i], c)
<1>1. 0 \in Contents /\ r.content \in Contents
  BY SnapshotAssumption DEF Contents, SessionStates
<1>2. CASE Skipped(r, force)
  <2>1. Sent(c, r, force) = <<>>
    BY <1>2 DEF Sent
  <2> QED
    BY <1>2, <2>1, NoWrite
<1>3. CASE ~Skipped(r, force) /\ Worth(r)
  <2> DEFINE w == [Write("upsert", c, "session") EXCEPT !.content = r.content]
  <2>1. Sent(c, r, force) = <<w>>
    BY <1>3 DEF Sent
  <2>2. w \in WriteStates /\ w.kind = "upsert" /\ w.chan = c /\ w.content = r.content /\ w.list = {} /\ w.by = "session"
    <3>1. /\ Write("upsert", c, "session") \in WriteStates /\ Write("upsert", c, "session").kind = "upsert"
          /\ Write("upsert", c, "session").chan = c /\ Write("upsert", c, "session").list = {}
          /\ Write("upsert", c, "session").by = "session"
      BY WriteOf DEF Waiters
    <3> QED
      BY <1>1, <3>1, OtherContent
  <2> HIDE DEF w
  <2> QED
    BY <1>3, <2>1, <2>2, OneWrite DEF Saves, Stores
<1>4. CASE ~Skipped(r, force) /\ ~Worth(r)
  <2> DEFINE w == Write("delete", c, "session")
  <2>1. Sent(c, r, force) = <<w>>
    BY <1>4 DEF Sent
  <2>2. w \in WriteStates /\ w.kind = "delete" /\ w.chan = c /\ w.list = {} /\ w.by = "session"
    BY WriteOf DEF Waiters
  <2> HIDE DEF w
  <2> QED
    BY <1>4, <2>1, <2>2, OneWrite
<1> QED
  BY <1>2, <1>3, <1>4

-----------------------------------------------------------------------------
(* The kinds of steps.  Most are a session that changes and sends something.  *)

Honest(w, c) ==
    /\ w.by \notin Destroyers /\ w.chan \in {c, Nothing}
    /\ w.kind = "upsert" => w.chan = c /\ Worth(session'[c]) /\ w.content = session'[c].content
    /\ w.chan = c /\ w.kind # "upsert" => kept'[c] = Nothing \/ ~Worth(session'[c])
    /\ \A d \in w.list : session'[d].open

Released(c) ==
    /\ kept' \in [VoiceChannels -> Contents \cup {Nothing}]
    /\ \A d \in VoiceChannels \ {c} : kept'[d] = kept[d]
    /\ kept'[c] \in {kept[c], Nothing}

Acts(c, vs) ==
    /\ vs \in Seq(WriteStates) /\ writes' = writes \o vs
    /\ \A i \in DOMAIN vs : Honest(vs[i], c)
    /\ session' \in [VoiceChannels -> SessionStates]
    /\ \A d \in VoiceChannels \ {c} : session'[d] = session[d]
    /\ session[c].open => session'[c].open
    /\ session'[c].flying => session[c].flying \/ \E i \in DOMAIN vs : Saves(vs[i], c)
    /\ Released(c)
    /\ UNCHANGED <<gone, snap, bound>>

Fits(r, k) == Worth(r) /\ r.content >= k

LEMMA ForgetOf ==
    ASSUME SnapshotTypeOK, NEW c \in VoiceChannels, Forget(c)
    PROVE  /\ Released(c)
           /\ kept'[c] # Nothing => Fits(session'[c], kept'[c]) /\ session'[c].linked
<1>1. kept \in [VoiceChannels -> Contents \cup {Nothing}]
  BY DEF SnapshotTypeOK
<1>2. CASE kept' = kept /\ Worth(session'[c]) /\ session'[c].linked
           /\ (kept[c] # Nothing => session'[c].content >= kept[c])
  BY <1>1, <1>2 DEF Released, Fits
<1>3. CASE kept' = [kept EXCEPT ![c] = Nothing]
  BY <1>1, <1>3 DEF Released, Fits
<1> QED
  BY <1>2, <1>3 DEF Forget

\* The writes of markSnapshotDirty and of a caller that synchronises.
LEMMA NotedActs ==
    ASSUME SnapshotTypeOK, NEW c \in VoiceChannels, NEW r \in SessionStates, NEW syncs \in BOOLEAN,
           r.flying => session[c].flying, r.open = session[c].open, Noted(c, r, syncs), Released(c), UNCHANGED <<gone, snap, bound>>
    PROVE  /\ \E vs : Acts(c, vs)
           /\ session'[c].open = r.open
<1> DEFINE d == [r EXCEPT !.dirty = TRUE]
           p == Persisted(d, TRUE)
           ss == [session EXCEPT ![c] = p]
           us == Sent(c, d, TRUE)
           ts == IF syncs THEN <<Sync(ss, "nobody")>> ELSE <<>>
<1>0. session \in [VoiceChannels -> SessionStates] /\ writes \in Seq(WriteStates)
  BY DEF SnapshotTypeOK
<1>1. d \in SessionStates /\ d.flying = r.flying /\ d.open = r.open
  BY DEF SessionStates
<1>2. session' = ss /\ writes' = writes \o us \o ts
  BY DEF Noted
<1> HIDE DEF d
<1>3. /\ p \in SessionStates /\ p.open = d.open /\ Worth(p) = Worth(d) /\ p.content = d.content
      /\ p.flying => d.flying \/ (Worth(d) /\ ~Skipped(d, TRUE))
  BY <1>1, PersistedOf
<1>4. /\ us \in Seq(WriteStates)
      /\ \A i \in DOMAIN us :
            /\ us[i].by = "session" /\ us[i].chan = c /\ us[i].list = {}
            /\ us[i].kind = IF Worth(d) THEN "upsert" ELSE "delete"
            /\ Worth(d) => us[i].content = d.content
      /\ Worth(d) /\ ~Skipped(d, TRUE) => \E i \in DOMAIN us : Saves(us[i], c)
  BY ZenonT(40), <1>1, SentOf
<1> HIDE DEF p, us
<1>5. ss \in [VoiceChannels -> SessionStates] /\ ss[c] = p /\ \A e \in VoiceChannels \ {c} : ss[e] = session[e]
  BY <1>0, <1>3
<1> HIDE DEF ss
<1>6. \A i \in DOMAIN us : Honest(us[i], c)
  BY <1>2, <1>3, <1>4, <1>5 DEF Honest, Destroyers
<1>7. ts \in Seq(WriteStates) /\ \A i \in DOMAIN ts : Honest(ts[i], c)
  <2>1. CASE ~syncs
    BY <2>1, NoWrite
  <2>2. CASE syncs
    <3> DEFINE w == Sync(ss, "nobody")
    <3>1. /\ w \in WriteStates /\ w.kind = "sync" /\ w.chan = Nothing /\ w.by = "nobody"
          /\ \A e \in w.list : ss[e].open
      BY <1>5, SyncOf DEF Waiters
    <3>2. ts = <<w>>
      BY <2>2
    <3> HIDE DEF w, ts
    <3>3. Honest(w, c)
      BY <1>2, <3>1, SnapshotAssumption DEF Honest, Destroyers
    <3> QED
      BY <3>1, <3>2, <3>3, OneWrite
  <2> QED
    BY <2>1, <2>2
<1> HIDE DEF ts
<1> DEFINE vs == us \o ts
<1>8. vs \in Seq(WriteStates) /\ writes' = writes \o vs
  BY <1>0, <1>2, <1>4, <1>7
<1>9. \A i \in DOMAIN vs : Honest(vs[i], c)
  BY <1>4, <1>6, <1>7, JoinedWrites
<1>10. session'[c].flying => session[c].flying \/ \E i \in DOMAIN vs : Saves(vs[i], c)
  <2>1. ASSUME NEW i \in DOMAIN us, Saves(us[i], c) PROVE \E j \in DOMAIN vs : Saves(vs[j], c)
    BY <1>4, <1>7, <2>1, JoinedWrites
  <2>2. session'[c].flying => r.flying \/ \E i \in DOMAIN us : Saves(us[i], c)
    BY <1>1, <1>2, <1>3, <1>4, <1>5
  <2> HIDE DEF vs
  <2> QED
    BY <2>1, <2>2
<1> HIDE DEF vs
<1>11. session'[c].open = r.open /\ r.open = session[c].open
  BY <1>1, <1>2, <1>3, <1>5
<1>12. Acts(c, vs)
  BY <1>2, <1>5, <1>8, <1>9, <1>10, <1>11 DEF Acts
<1> QED
  BY <1>11, <1>12

\* A step that sends one write or none.
LEMMA PlainActs ==
    ASSUME SnapshotTypeOK, NEW c \in VoiceChannels, NEW r \in SessionStates,
           session' = [session EXCEPT ![c] = r], r.flying => session[c].flying, session[c].open => r.open,
           \/ writes' = writes
           \/ \E w \in WriteStates : writes' = Append(writes, w) /\ Honest(w, c),
           Released(c), UNCHANGED <<gone, snap, bound>>
    PROVE  \E vs : Acts(c, vs) /\ \A i \in DOMAIN vs : writes' = Append(writes, vs[i])
<1>0. session \in [VoiceChannels -> SessionStates] /\ writes \in Seq(WriteStates)
  BY DEF SnapshotTypeOK
<1>1. /\ session' \in [VoiceChannels -> SessionStates] /\ session'[c] = r
      /\ \A d \in VoiceChannels \ {c} : session'[d] = session[d]
  BY <1>0
<1>2. CASE writes' = writes
  <2>1. Acts(c, <<>>)
    BY <1>0, <1>1, <1>2, NoWrite DEF Acts
  <2> QED
    BY <2>1, NoWrite
<1>3. ASSUME NEW w \in WriteStates, writes' = Append(writes, w), Honest(w, c)
      PROVE  \E vs : Acts(c, vs) /\ \A i \in DOMAIN vs : writes' = Append(writes, vs[i])
  <2>1. Acts(c, <<w>>)
    BY <1>0, <1>1, <1>3, OneWrite DEF Acts
  <2> QED
    BY <1>3, <2>1, OneWrite
<1> QED
  BY <1>2, <1>3

LEMMA SyncIsHonest ==
    ASSUME session' \in [VoiceChannels -> SessionStates], NEW c \in VoiceChannels, NEW by \in {"nobody", "restore"},
           NEW ss \in [VoiceChannels -> SessionStates], \A d \in VoiceChannels : ss[d].open => session'[d].open
    PROVE  Sync(ss, by) \in WriteStates /\ Honest(Sync(ss, by), c)
<1> DEFINE w == Sync(ss, by)
<1>1. by \in Waiters
  BY DEF Waiters
<1>2. /\ w \in WriteStates /\ w.kind = "sync" /\ w.chan = Nothing /\ w.by = by
      /\ \A e \in w.list : ss[e].open
  BY <1>1, SyncOf
<1>3. w.list \subseteq VoiceChannels
  BY <1>2 DEF WriteStates
<1> HIDE DEF w
<1>4. Honest(w, c)
  BY <1>2, <1>3, SnapshotAssumption DEF Honest, Destroyers
<1> QED
  BY <1>2, <1>4 DEF w

\* What happens to a session while it is in the table.
SessionStep(c) ==
    \/ TrackChanges(c) \/ CommandChanges(c) \/ TracksAdded(c) \/ QueueRunsOut(c)
    \/ Set247(c) \/ TextBound(c) \/ LinkLost(c)

\* Its outcome: a promise that was kept for the channel is still good.
Changes(c) ==
    /\ \E vs : Acts(c, vs)
    /\ kept'[c] # Nothing => Fits(session'[c], kept'[c]) /\ session'[c].linked
    /\ session'[c].open = session[c].open

LEMMA SessionTypes ==
    ASSUME SnapshotTypeOK, NEW c \in VoiceChannels
    PROVE  /\ session[c] \in SessionStates
           /\ \A x \in Contents :
                 LET r == [session[c] EXCEPT !.content = x]
                 IN  r \in SessionStates /\ r.flying = session[c].flying /\ r.open = session[c].open
                     /\ LET q == [session[c] EXCEPT !.content = x, !.dirty = TRUE]
                        IN  q \in SessionStates /\ q.flying = session[c].flying /\ q.open = session[c].open
           /\ \A b \in BOOLEAN :
                 LET r == [session[c] EXCEPT !.stay = b]
                 IN  r \in SessionStates /\ r.flying = session[c].flying /\ r.open = session[c].open
           /\ \A b \in BOOLEAN :
                 LET r == [session[c] EXCEPT !.linked = b]
                 IN  r \in SessionStates /\ r.flying = session[c].flying /\ r.open = session[c].open
           /\ LET r == [session[c] EXCEPT !.dirty = TRUE]
              IN  r \in SessionStates /\ r.flying = session[c].flying /\ r.open = session[c].open
<1>1. session[c] \in SessionStates
  BY DEF SnapshotTypeOK
<1> QED
  BY <1>1 DEF SessionStates

LEMMA FreshContent ==
    ASSUME SnapshotTypeOK, NewContent
    PROVE  fresh' \in Contents
BY SnapshotAssumption DEF SnapshotTypeOK, NewContent, Contents

LEMMA Changing ==
    ASSUME SnapshotTypeOK, NEW c \in VoiceChannels, SessionStep(c)
    PROVE  Changes(c)
<1>0. /\ session \in [VoiceChannels -> SessionStates] /\ session[c] \in SessionStates
      /\ kept \in [VoiceChannels -> Contents \cup {Nothing}] /\ 0 \in Contents
  BY SnapshotAssumption DEF SnapshotTypeOK, Contents
<1>1. CASE TrackChanges(c) \/ CommandChanges(c)
  <2> DEFINE r == [session[c] EXCEPT !.content = fresh']
  <2>1. r \in SessionStates /\ r.flying = session[c].flying /\ r.open = session[c].open
    BY <1>1, FreshContent, SessionTypes DEF TrackChanges, CommandChanges
  <2>2. PICK syncs \in BOOLEAN : Noted(c, r, syncs)
    BY <1>1 DEF TrackChanges, CommandChanges
  <2>3. Forget(c) /\ UNCHANGED <<gone, snap, bound>>
    BY <1>1 DEF TrackChanges, CommandChanges, stores
  <2> HIDE DEF r
  <2> QED
    BY <2>1, <2>2, <2>3, NotedActs, ForgetOf DEF Changes
<1>2. CASE TracksAdded(c)
  <2> DEFINE r == [session[c] EXCEPT !.content = fresh', !.dirty = TRUE]
  <2>1. r \in SessionStates /\ r.flying = session[c].flying /\ r.open = session[c].open
    BY <1>2, FreshContent, SessionTypes DEF TracksAdded
  <2>2. session' = [session EXCEPT ![c] = r]
    BY <1>0, <1>2 DEF TracksAdded
  <2>3. Forget(c) /\ UNCHANGED <<gone, snap, bound>> /\ writes' = Append(writes, Sync(session', "nobody"))
    BY <1>2 DEF TracksAdded, stores
  <2> HIDE DEF r
  <2>4. session' \in [VoiceChannels -> SessionStates] /\ session'[c] = r
    BY <1>0, <2>1, <2>2
  <2>5. Sync(session', "nobody") \in WriteStates /\ Honest(Sync(session', "nobody"), c)
    BY <2>4, SyncIsHonest
  <2> QED
    BY <2>1, <2>2, <2>3, <2>4, <2>5, PlainActs, ForgetOf DEF Changes
<1>3. CASE QueueRunsOut(c)
  <2> DEFINE r == [session[c] EXCEPT !.content = 0]
  <2>1. r \in SessionStates /\ r.flying = session[c].flying /\ r.open = session[c].open
    BY <1>0, SessionTypes
  <2>2. Noted(c, r, TRUE) /\ kept' = [kept EXCEPT ![c] = Nothing] /\ UNCHANGED <<gone, snap, bound>>
    BY <1>3 DEF QueueRunsOut, stores
  <2>3. Released(c) /\ kept'[c] = Nothing
    BY <1>0, <2>2 DEF Released
  <2> HIDE DEF r
  <2> QED
    BY <2>1, <2>2, <2>3, NotedActs DEF Changes
<1>4. CASE Set247(c)
  <2> DEFINE r == [session[c] EXCEPT !.stay = ~session[c].stay]
  <2>1. r \in SessionStates /\ r.flying = session[c].flying /\ r.open = session[c].open
    BY SessionTypes
  <2>2. Noted(c, r, TRUE) /\ Forget(c) /\ UNCHANGED <<gone, snap, bound>>
    BY <1>4 DEF Set247, stores
  <2> HIDE DEF r
  <2> QED
    BY <2>1, <2>2, NotedActs, ForgetOf DEF Changes
<1>5. CASE TextBound(c)
  <2> DEFINE r == [session[c] EXCEPT !.dirty = TRUE]
  <2>1. r \in SessionStates /\ r.flying = session[c].flying /\ r.open = session[c].open
    BY SessionTypes
  <2>2. session' = [session EXCEPT ![c] = r]
    BY <1>0, <1>5 DEF TextBound
  <2>3. Forget(c) /\ UNCHANGED <<gone, snap, bound>> /\ writes' = Append(writes, Sync(session, "nobody"))
    BY <1>5 DEF TextBound, stores
  <2> HIDE DEF r
  <2>4. /\ session' \in [VoiceChannels -> SessionStates] /\ session'[c] = r
        /\ \A d \in VoiceChannels : session[d].open => session'[d].open
    BY <1>0, <2>1, <2>2
  <2>5. Sync(session, "nobody") \in WriteStates /\ Honest(Sync(session, "nobody"), c)
    BY <1>0, <2>4, SyncIsHonest
  <2> QED
    BY <2>1, <2>2, <2>3, <2>4, <2>5, PlainActs, ForgetOf DEF Changes
<1>6. CASE LinkLost(c)
  <2> DEFINE r == [session[c] EXCEPT !.linked = FALSE]
  <2>1. r \in SessionStates /\ r.flying = session[c].flying /\ r.open = session[c].open
    BY SessionTypes
  <2>2. session' = [session EXCEPT ![c] = r]
    BY <1>0, <1>6 DEF LinkLost
  <2>3. Forget(c) /\ UNCHANGED <<gone, snap, bound>> /\ writes' = writes
    BY <1>6 DEF LinkLost, stores
  <2> HIDE DEF r
  <2>4. session'[c] = r
    BY <1>0, <2>2
  <2> QED
    BY <2>1, <2>2, <2>3, <2>4, PlainActs, ForgetOf DEF Changes
<1> QED
  BY <1>1, <1>2, <1>3, <1>4, <1>5, <1>6 DEF SessionStep

-----------------------------------------------------------------------------
LEMMA HoldOf ==
    ASSUME NEW vs \in Seq(WriteStates)
    PROVE  /\ Hold(vs) \in Seq(WriteStates) /\ DOMAIN Hold(vs) = DOMAIN vs /\ Len(Hold(vs)) = Len(vs)
           /\ \A i \in DOMAIN vs :
                 /\ Hold(vs)[i].kind = vs[i].kind /\ Hold(vs)[i].chan = vs[i].chan
                 /\ Hold(vs)[i].content = vs[i].content /\ Hold(vs)[i].list = vs[i].list
                 /\ Hold(vs)[i].by = vs[i].by /\ Hold(vs)[i].held
<1>1. Hold(vs) = [i \in DOMAIN vs |-> [vs[i] EXCEPT !.held = TRUE]]
  BY DEF Hold
<1>2. \A i \in DOMAIN vs : vs[i] \in WriteStates
  OBVIOUS
<1>3. \A i \in DOMAIN vs :
         /\ Hold(vs)[i] \in WriteStates
         /\ Hold(vs)[i].kind = vs[i].kind /\ Hold(vs)[i].chan = vs[i].chan
         /\ Hold(vs)[i].content = vs[i].content /\ Hold(vs)[i].list = vs[i].list
         /\ Hold(vs)[i].by = vs[i].by /\ Hold(vs)[i].held
  <2> SUFFICES ASSUME NEW i \in DOMAIN vs
               PROVE  /\ Hold(vs)[i] \in WriteStates
                      /\ Hold(vs)[i].kind = vs[i].kind /\ Hold(vs)[i].chan = vs[i].chan
                      /\ Hold(vs)[i].content = vs[i].content /\ Hold(vs)[i].list = vs[i].list
                      /\ Hold(vs)[i].by = vs[i].by /\ Hold(vs)[i].held
    OBVIOUS
  <2>1. Hold(vs)[i] = [vs[i] EXCEPT !.held = TRUE]
    BY <1>1
  <2> DEFINE w == vs[i]
  <2>2. w \in WriteStates
    BY <1>2
  <2> QED
    BY <2>1, <2>2, HeldWrite
<1>4. Hold(vs) = [i \in DOMAIN vs |-> Hold(vs)[i]]
  BY <1>1
<1> QED
  BY <1>3, <1>4, MappedWrites

\* The session is persisted, by the flush loop or a shutdown.
Persists(c, vs) ==
    /\ Acts(c, vs)
    /\ session'[c].linked = session[c].linked /\ session'[c].content = session[c].content
    /\ Worth(session'[c]) = Worth(session[c]) /\ session'[c].open = session[c].open
    /\ session'[c].dirty => session[c].dirty \/ Worth(session[c])

LEMMA PersistActs ==
    ASSUME SnapshotTypeOK, NEW c \in VoiceChannels, NEW force \in BOOLEAN,
           session' = [session EXCEPT ![c] = Persisted(session[c], force)],
           \/ writes' = writes \o Sent(c, session[c], force)
           \/ writes' = writes \o Hold(Sent(c, session[c], force)),
           kept' = kept, UNCHANGED <<gone, snap, bound>>
    PROVE  \E vs : /\ Persists(c, vs)
                   /\ force /\ Worth(session[c]) =>
                         session[c].flying \/ \E i \in DOMAIN vs : Saves(vs[i], c)
<1> DEFINE r == session[c]
           p == Persisted(r, force)
           us == Sent(c, r, force)
<1>0. /\ session \in [VoiceChannels -> SessionStates] /\ r \in SessionStates
      /\ writes \in Seq(WriteStates) /\ kept \in [VoiceChannels -> Contents \cup {Nothing}]
  BY DEF SnapshotTypeOK
<1>1. /\ p \in SessionStates
      /\ p.open = r.open /\ p.linked = r.linked /\ p.content = r.content
      /\ Worth(p) = Worth(r)
      /\ p.dirty => r.dirty \/ Worth(r)
      /\ p.flying => r.flying \/ (Worth(r) /\ ~Skipped(r, force))
  BY <1>0, PersistedOf
<1>2. /\ us \in Seq(WriteStates)
      /\ \A i \in DOMAIN us :
            /\ us[i].by = "session" /\ us[i].chan = c /\ us[i].list = {}
            /\ us[i].kind = IF Worth(r) THEN "upsert" ELSE "delete"
            /\ Worth(r) => us[i].content = r.content
      /\ Worth(r) /\ ~Skipped(r, force) => \E i \in DOMAIN us : Saves(us[i], c)
  BY <1>0, SentOf
<1>3. force => Skipped(r, force) = r.flying
  BY <1>0 DEF Skipped, SessionStates
<1>4. writes' = writes \o us \/ writes' = writes \o Hold(us)
  OBVIOUS
<1> HIDE DEF p, us
<1>5. /\ session' \in [VoiceChannels -> SessionStates] /\ session'[c] = p
      /\ \A d \in VoiceChannels \ {c} : session'[d] = session[d]
  BY <1>0, <1>1 DEF p
<1>6. Released(c)
  BY <1>0 DEF Released
<1>7. \E vs \in Seq(WriteStates) :
         /\ writes' = writes \o vs
         /\ \A i \in DOMAIN vs :
               /\ vs[i].by = "session" /\ vs[i].chan = c /\ vs[i].list = {}
               /\ vs[i].kind = IF Worth(r) THEN "upsert" ELSE "delete"
               /\ Worth(r) => vs[i].content = r.content
         /\ Worth(r) /\ ~Skipped(r, force) => \E i \in DOMAIN vs : Saves(vs[i], c)
  <2>1. CASE writes' = writes \o us
    BY <1>2, <2>1
  <2>2. CASE writes' = writes \o Hold(us)
    <3>1. /\ Hold(us) \in Seq(WriteStates)
          /\ \A i \in DOMAIN Hold(us) :
                /\ Hold(us)[i].by = "session" /\ Hold(us)[i].chan = c /\ Hold(us)[i].list = {}
                /\ Hold(us)[i].kind = IF Worth(r) THEN "upsert" ELSE "delete"
                /\ Worth(r) => Hold(us)[i].content = r.content
      BY <1>2, HoldOf
    <3>2. Worth(r) /\ ~Skipped(r, force) => \E i \in DOMAIN Hold(us) : Saves(Hold(us)[i], c)
      BY <1>2, HoldOf DEF Saves, Stores
    <3> QED
      BY <2>2, <3>1, <3>2
  <2> QED
    BY <1>4, <2>1, <2>2
<1>8. PICK vs \in Seq(WriteStates) :
         /\ writes' = writes \o vs
         /\ \A i \in DOMAIN vs :
               /\ vs[i].by = "session" /\ vs[i].chan = c /\ vs[i].list = {}
               /\ vs[i].kind = IF Worth(r) THEN "upsert" ELSE "delete"
               /\ Worth(r) => vs[i].content = r.content
         /\ Worth(r) /\ ~Skipped(r, force) => \E i \in DOMAIN vs : Saves(vs[i], c)
  BY <1>7
<1>9. /\ session'[c].linked = r.linked /\ session'[c].content = r.content
      /\ Worth(session'[c]) = Worth(r) /\ session'[c].open = r.open
      /\ session'[c].dirty => r.dirty \/ Worth(r)
      /\ session'[c].flying => r.flying \/ \E i \in DOMAIN vs : Saves(vs[i], c)
  BY <1>1, <1>5, <1>8
<1> HIDE DEF r
<1>10. \A i \in DOMAIN vs : Honest(vs[i], c)
  BY <1>8, <1>9 DEF Honest, Destroyers
<1>11. Acts(c, vs)
  BY <1>5, <1>6, <1>8, <1>9, <1>10 DEF Acts, r
<1>12. Persists(c, vs)
  BY <1>9, <1>11 DEF Persists, r
<1> QED
  BY <1>3, <1>8, <1>12 DEF r

-----------------------------------------------------------------------------
\* What the restore holds: a binding, its session while that is in the table.
BootShape ==
    /\ boot.step \notin {"off", "listing", "next"} => boot.chan \in VoiceChannels
    /\ boot.step = "resolving" => boot.content \in Contents
    /\ boot.mine => boot.step \notin {"off", "listing", "next"} /\ session[boot.chan].open

LEMMA BootTypes ==
    ASSUME SnapshotTypeOK
    PROVE  /\ boot.step \in Steps /\ boot.todo \subseteq VoiceChannels
           /\ boot.chan \in VoiceChannels \cup {Nothing} /\ boot.content \in Contents \cup {Nothing}
           /\ boot.mine \in BOOLEAN /\ boot.undo \in BOOLEAN
           /\ Nothing \notin VoiceChannels /\ Nothing \notin Contents /\ Contents \subseteq Nat
BY SnapshotAssumption DEF SnapshotTypeOK, BootStates, Contents

LEMMA OpenedTypes ==
    ASSUME SnapshotTypeOK, NEW c \in VoiceChannels
    PROVE  /\ Closed \in SessionStates /\ ~Closed.open /\ ~Closed.linked /\ ~Closed.flying
           /\ Opened(c) \in SessionStates /\ Opened(c).open /\ ~Opened(c).flying
           /\ ~Opened(c).dirty /\ Opened(c).content = 0 /\ ~Opened(c).linked
           /\ LET r == [Opened(c) EXCEPT !.linked = TRUE]
              IN  r \in SessionStates /\ r.open /\ ~r.flying
<1>1. 0 \in Contents /\ profile247[c] \in BOOLEAN
  BY SnapshotAssumption DEF Contents, SnapshotTypeOK
<1>2. Closed \in SessionStates /\ ~Closed.open /\ ~Closed.linked /\ ~Closed.flying
      /\ ~Closed.dirty /\ Closed.content = 0
  BY <1>1 DEF Closed, SessionStates
<1>3. /\ Opened(c) \in SessionStates /\ Opened(c).open /\ ~Opened(c).flying
      /\ ~Opened(c).dirty /\ Opened(c).content = 0 /\ ~Opened(c).linked
  BY <1>1 DEF Closed, Opened, SessionStates
<1> QED
  BY <1>2, <1>3 DEF SessionStates

LEMMA NothingKept ==
    ASSUME SnapshotTypeOK, NEW c \in VoiceChannels, kept' = kept \/ kept' = [kept EXCEPT ![c] = Nothing]
    PROVE  Released(c)
BY DEF SnapshotTypeOK, Released

LEMMA JoinActs ==
    ASSUME SnapshotTypeOK, NEW c \in VoiceChannels, Join(c)
    PROVE  (\E vs : Acts(c, vs)) /\ kept'[c] = Nothing
<1> DEFINE r == [(IF session[c].open THEN session[c] ELSE Opened(c)) EXCEPT !.linked = TRUE]
<1>0. session \in [VoiceChannels -> SessionStates] /\ kept \in [VoiceChannels -> Contents \cup {Nothing}]
  BY DEF SnapshotTypeOK
<1>1. r \in SessionStates /\ r.open /\ (r.flying => session[c].flying)
  BY SessionTypes, OpenedTypes
<1>2. /\ session' = [session EXCEPT ![c] = r] /\ writes' = Append(writes, Sync(session', "nobody"))
      /\ kept' = [kept EXCEPT ![c] = Nothing] /\ UNCHANGED <<gone, snap, bound>>
  BY DEF Join, stores
<1> HIDE DEF r
<1>3. session' \in [VoiceChannels -> SessionStates]
  BY <1>0, <1>1, <1>2
<1>4. Sync(session', "nobody") \in WriteStates /\ Honest(Sync(session', "nobody"), c)
  BY <1>3, SyncIsHonest
<1> QED
  BY <1>0, <1>1, <1>2, <1>4, NothingKept, PlainActs

LEMMA ReadActs ==
    ASSUME NEW c \in VoiceChannels, kept'[c] = Nothing
    PROVE  Write("read", c, "restore") \in WriteStates /\ Honest(Write("read", c, "restore"), c)
<1> DEFINE w == Write("read", c, "restore")
<1>1. w \in WriteStates /\ w.kind = "read" /\ w.chan = c /\ w.by = "restore" /\ w.list = {}
  BY WriteOf DEF Waiters
<1> HIDE DEF w
<1>2. Honest(w, c)
  BY <1>1 DEF Honest, Destroyers
<1> QED
  BY <1>1, <1>2 DEF w

\* The restore takes a binding: it clears it, or has a session for it.
LEMMA TakeActs ==
    ASSUME SnapshotTypeOK, BootShape, NEW c \in VoiceChannels, TakeBinding(c)
    PROVE  /\ \E vs : Acts(c, vs)
           /\ \/ kept'[c] = Nothing
              \/ /\ kept' = kept /\ phase = "up" /\ writes' = writes
                 /\ session'[c] = session[c] \/ session'[c] = Opened(c)
           /\ session'[c].open => session[c].open \/ ended'[c] = "no"
           /\ ended' = ended \/ ended' = [ended EXCEPT ![c] = "no"]
           /\ boot' \in BootStates /\ boot'.chan = c /\ boot'.step \in {"clearing", "reading", "connecting"}
           /\ boot'.mine => session'[c].open
<1>0. /\ session \in [VoiceChannels -> SessionStates] /\ kept \in [VoiceChannels -> Contents \cup {Nothing}]
      /\ boot \in BootStates /\ ended \in [VoiceChannels -> {"no", "going", "gone"}]
      /\ session[c] \in SessionStates /\ session = [session EXCEPT ![c] = session[c]]
  BY DEF SnapshotTypeOK
<1>1. UNCHANGED <<gone, snap, bound>>
  BY DEF TakeBinding, stores
<1> DEFINE b == [boot EXCEPT !.todo = boot.todo \ {c}, !.chan = c]
<1>2. b \in BootStates /\ b.chan = c /\ b.mine = boot.mine
  BY <1>0 DEF BootStates
<1> HIDE DEF b
<1>3. CASE /\ boot' = [b EXCEPT !.step = "clearing"] /\ writes' = Clearing(c)
           /\ kept' = [kept EXCEPT ![c] = Nothing] /\ UNCHANGED <<session, ended>>
  <2>1. boot' \in BootStates /\ boot'.chan = c /\ boot'.step = "clearing" /\ boot'.mine = b.mine
    BY <1>2, <1>3 DEF BootStates, Steps
  <2>2. kept'[c] = Nothing
    BY <1>0, <1>3
  <2>3. \E vs : Acts(c, vs)
    BY <1>0, <1>1, <1>3, <2>2, ReadActs, PlainActs, NothingKept DEF Clearing
  <2>4. ~boot.mine
    BY DEF BootShape, TakeBinding, Restoring
  <2> QED
    BY <1>2, <1>3, <2>1, <2>2, <2>3, <2>4
<1>4. CASE /\ boot' = [b EXCEPT !.step = IF session[c].linked THEN "reading" ELSE "connecting",
                                !.mine = TRUE, !.undo = ~session[c].open]
           /\ session' = IF session[c].open THEN session ELSE [session EXCEPT ![c] = Opened(c)]
           /\ ended' = [ended EXCEPT ![c] = "no"] /\ UNCHANGED writes
           /\ kept' = IF phase = "up" THEN kept ELSE [kept EXCEPT ![c] = Nothing]
  <2>1. boot' \in BootStates /\ boot'.chan = c /\ boot'.step \in {"reading", "connecting"}
    BY <1>2, <1>4 DEF BootStates, Steps
  <2>2. \E r \in SessionStates : /\ session' = [session EXCEPT ![c] = r] /\ r.open
                                 /\ r.flying => session[c].flying
                                 /\ r = session[c] \/ r = Opened(c)
    BY <1>0, <1>4, OpenedTypes
  <2>3. \E vs : Acts(c, vs)
    BY <1>1, <1>4, <2>2, PlainActs, NothingKept
  <2>4. session'[c].open /\ (session'[c] = session[c] \/ session'[c] = Opened(c))
    BY <1>0, <2>2
  <2> QED
    BY <1>0, <1>4, <2>1, <2>3, <2>4
<1> QED
  BY <1>3, <1>4 DEF TakeBinding, b

\* The steps of a restore that concern its session and send nothing but honest writes.
BootStep == RestoreConnected \/ RestoreFails \/ Restored \/ RestoreSyncs

BootActed(c) ==
    /\ c \in VoiceChannels /\ session'[c].open = session[c].open
    /\ \E vs : /\ Acts(c, vs)
               /\ \/ kept'[c] = Nothing
                  \/ Fits(session'[c], kept'[c]) /\ session'[c].linked
                  \/ /\ \A i \in DOMAIN vs : vs[i].chan = Nothing
                     /\ session'[c] \in {session[c], [session[c] EXCEPT !.linked = TRUE]}

LEMMA BootActs ==
    ASSUME SnapshotTypeOK, BootShape, BootStep
    PROVE  BootActed(boot.chan)
<1> DEFINE c == boot.chan
<1>0. /\ session \in [VoiceChannels -> SessionStates] /\ kept \in [VoiceChannels -> Contents \cup {Nothing}]
      /\ writes \in Seq(WriteStates)
  BY DEF SnapshotTypeOK
<1>1. c \in VoiceChannels
  BY DEF BootShape, BootStep, RestoreConnected, RestoreFails, Restored, RestoreSyncs, Restoring
<1>2. UNCHANGED <<gone, snap, bound>>
  BY DEF BootStep, RestoreConnected, RestoreFails, Restored, RestoreSyncs, stores
<1> SUFFICES BootActed(c)
  OBVIOUS
<1> HIDE DEF c
<1>3. session[c] \in SessionStates /\ session = [session EXCEPT ![c] = session[c]]
  BY <1>0, <1>1
<1>4. CASE RestoreConnected
  <2> DEFINE r == [session[c] EXCEPT !.linked = TRUE]
  <2>1. r \in SessionStates /\ r.flying = session[c].flying /\ r.open = session[c].open
    BY <1>1, SessionTypes
  <2>2. writes' = writes /\ kept' = kept
    BY <1>4 DEF RestoreConnected
  <2>3. session' = session \/ session' = [session EXCEPT ![c] = r]
    BY <1>0, <1>1, <1>4 DEF RestoreConnected, c
  <2>4. session'[c] \in {session[c], r}
    BY <1>0, <1>1, <2>1, <2>3
  <2>5. Released(c)
    BY <1>1, <2>2, NothingKept
  <2> HIDE DEF r
  <2>6. PICK vs : Acts(c, vs) /\ \A i \in DOMAIN vs : writes' = Append(writes, vs[i])
    <3>1. CASE session' = session
      BY <1>1, <1>2, <1>3, <2>2, <2>5, <3>1, PlainActs
    <3>2. CASE session' = [session EXCEPT ![c] = r]
      BY <1>1, <1>2, <2>1, <2>2, <2>5, <3>2, PlainActs
    <3> QED
      BY <2>3, <3>1, <3>2
  <2>7. \A i \in DOMAIN vs : vs[i] \in WriteStates
    BY <2>6 DEF Acts
  <2>8. \A i \in DOMAIN vs : FALSE
    BY <1>0, <2>2, <2>6, <2>7
  <2>9. session'[c].open = session[c].open
    BY <2>1, <2>4
  <2> QED
    BY <1>1, <2>4, <2>6, <2>8, <2>9 DEF r, BootActed
<1>5. CASE RestoreFails
  <2>1. /\ kept' = [kept EXCEPT ![c] = Nothing] /\ session' = session
        /\ writes' = writes \/ writes' = Append(writes, Write("read", c, "restore"))
    BY <1>5 DEF RestoreFails, Clearing, c
  <2>2. kept'[c] = Nothing
    BY <1>0, <1>1, <2>1
  <2>3. \E vs : Acts(c, vs)
    BY <1>0, <1>1, <1>2, <1>3, <2>1, <2>2, ReadActs, PlainActs, NothingKept
  <2> QED
    BY <1>1, <2>1, <2>2, <2>3 DEF BootActed
<1>6. CASE Restored
  <2>1. CASE ~boot.mine
    <3>1. UNCHANGED <<session, writes, kept>>
      BY <1>6, <2>1 DEF Restored
    <3>2. PICK vs : Acts(c, vs) /\ \A i \in DOMAIN vs : writes' = Append(writes, vs[i])
      BY <1>1, <1>2, <1>3, <3>1, PlainActs, NothingKept
    <3>3. \A i \in DOMAIN vs : vs[i] \in WriteStates
      BY <3>2 DEF Acts
    <3>4. \A i \in DOMAIN vs : FALSE
      BY <1>0, <3>1, <3>2, <3>3
    <3> QED
      BY <1>1, <3>1, <3>2, <3>4 DEF BootActed
  <2>2. CASE boot.mine
    <3> DEFINE x == IF session[c].content = 0 THEN boot.content ELSE fresh'
               r == [session[c] EXCEPT !.content = x]
    <3>1. x \in Contents
      BY <1>6, <2>2, FreshContent DEF BootShape, Restored, Restoring, c
    <3>2. Noted(c, [session[c] EXCEPT !.content = IF session[c].content = 0 THEN boot.content ELSE fresh'], TRUE)
          /\ Forget(c)
      BY <1>6, <2>2 DEF Restored, c
    <3>3. Noted(c, r, TRUE)
      BY <3>2
    <3> HIDE DEF x
    <3>4. r \in SessionStates /\ r.flying = session[c].flying /\ r.open = session[c].open
      BY <1>1, <3>1, SessionTypes
    <3> HIDE DEF r
    <3>5. (\E vs : Acts(c, vs)) /\ session'[c].open = session[c].open
      BY <1>1, <1>2, <3>2, <3>3, <3>4, NotedActs, ForgetOf
    <3> QED
      BY <1>1, <3>2, <3>5, ForgetOf DEF BootActed
  <2> QED
    BY <2>1, <2>2
<1>7. CASE RestoreSyncs
  <2>1. UNCHANGED <<session, kept>> /\ writes' = Append(writes, Sync(session, "restore"))
    BY <1>7 DEF RestoreSyncs
  <2>2. Sync(session, "restore") \in WriteStates /\ Honest(Sync(session, "restore"), c)
    BY <1>0, <1>1, <2>1, SyncIsHonest
  <2>3. PICK vs : Acts(c, vs) /\ \A i \in DOMAIN vs : writes' = Append(writes, vs[i])
    BY <1>1, <1>2, <1>3, <2>1, <2>2, PlainActs, NothingKept
  <2>4. Sync(session, "restore").chan = Nothing
    BY <1>0, SyncOf DEF Waiters
  <2>5. \A i \in DOMAIN vs : vs[i] \in WriteStates
    BY <2>3 DEF Acts
  <2>6. \A i \in DOMAIN vs : vs[i] = Sync(session, "restore")
    BY <1>0, <2>1, <2>2, <2>3, <2>5
  <2> QED
    BY <1>1, <2>1, <2>3, <2>4, <2>6 DEF BootActed
<1> QED
  BY <1>4, <1>5, <1>6, <1>7 DEF BootStep

-----------------------------------------------------------------------------
(* A destroyed session stays gone.                                         *)

\* A write that brings something of a channel back.
Revives(w, c) == Stores(w, c) \/ c \in w.list

\* A destroy() of c is on its way through the writes: behind whatever would bring c
\* back comes a deletion, or the synchronisation after it.
Swept(ws, stored, c) ==
    /\ \A i \in DOMAIN ws : Stores(ws[i], c) => \E j \in DOMAIN ws : j > i /\ Deletes(ws[j], c)
    /\ stored = Nothing \/ \E j \in DOMAIN ws : Deletes(ws[j], c)
    /\ \A i \in DOMAIN ws : c \in ws[i].list =>
          \E j \in DOMAIN ws : j > i /\ ws[j].chan = c /\ ws[j].by \in Destroyers

DestroyedIsClosed == \A c \in VoiceChannels : ended[c] # "no" => ~session[c].open
DestroyShape ==
    /\ \A g \in gone : g.chan \in VoiceChannels /\ g.by \in Destroyers
    /\ \A i \in DOMAIN writes : writes[i].by \in Destroyers => writes[i].kind \in {"delete", "sync"}
BeingSwept ==
    \A c \in VoiceChannels : ended[c] = "going" /\ (\A g \in gone : g.chan # c) => Swept(writes, snap[c], c)
NothingLeft ==
    \A c \in VoiceChannels : ended[c] = "gone" =>
        c \notin bound /\ snap[c] = Nothing /\ \A i \in DOMAIN writes : ~Revives(writes[i], c)

DestroyInv == DestroyedIsClosed /\ DestroyShape /\ BeingSwept /\ NothingLeft

LEMMA SweptJoined ==
    ASSUME NEW ws \in Seq(WriteStates), NEW vs \in Seq(WriteStates), NEW c, NEW stored,
           Swept(ws, stored, c), \A i \in DOMAIN vs : ~Revives(vs[i], c)
    PROVE  Swept(ws \o vs, stored, c)
<1> DEFINE us == ws \o vs
<1>1. /\ us \in Seq(WriteStates)
      /\ \A i \in DOMAIN ws : i \in DOMAIN us /\ us[i] = ws[i]
      /\ \A i \in DOMAIN us : Revives(us[i], c) => i \in DOMAIN ws
  <2>1. us \in Seq(WriteStates) /\ \A i \in DOMAIN ws : i \in DOMAIN us /\ us[i] = ws[i]
    BY JoinedWrites
  <2>2. ASSUME NEW i \in DOMAIN us, Revives(us[i], c), i \notin DOMAIN ws PROVE FALSE
    BY <2>2, JoinedWrites
  <2> QED
    BY <2>1, <2>2
<1> HIDE DEF us
<1>2. ASSUME NEW i \in DOMAIN us, Stores(us[i], c)
      PROVE  \E j \in DOMAIN us : j > i /\ Deletes(us[j], c)
  BY <1>1, <1>2 DEF Swept, Revives
<1>3. stored = Nothing \/ \E j \in DOMAIN us : Deletes(us[j], c)
  BY <1>1 DEF Swept
<1>4. ASSUME NEW i \in DOMAIN us, c \in us[i].list
      PROVE  \E j \in DOMAIN us : j > i /\ us[j].chan = c /\ us[j].by \in Destroyers
  BY <1>1, <1>4 DEF Swept, Revives
<1> QED
  BY <1>2, <1>3, <1>4 DEF Swept, us

\* The head is answered: what came behind it is still behind.
LEMMA SweptTail ==
    ASSUME NEW ws \in Seq(WriteStates), ws # <<>>, NEW c, NEW before, NEW after, Swept(ws, before, c),
           \/ after = before /\ ~Deletes(Head(ws), c)
           \/ after = Nothing
           \/ Stores(Head(ws), c)
    PROVE  Swept(Tail(ws), after, c)
<1> DEFINE us == Tail(ws)
<1>1. /\ us \in Seq(WriteStates) /\ Head(ws) = ws[1] /\ 1 \in DOMAIN ws
      /\ \A i \in DOMAIN us : i \in Nat /\ i + 1 \in DOMAIN ws /\ us[i] = ws[i + 1]
      /\ \A j \in DOMAIN ws : j \in Nat /\ (j = 1 \/ (j - 1 \in DOMAIN us /\ us[j - 1] = ws[j]))
  BY TailWrites
<1> HIDE DEF us
<1>2. ASSUME NEW j \in DOMAIN ws, j > 1 PROVE j - 1 \in DOMAIN us /\ us[j - 1] = ws[j]
  BY <1>1, <1>2
<1>3. ASSUME NEW i \in DOMAIN us, Stores(us[i], c)
      PROVE  \E j \in DOMAIN us : j > i /\ Deletes(us[j], c)
  <2>1. PICK j \in DOMAIN ws : j > i + 1 /\ Deletes(ws[j], c)
    BY <1>1, <1>3 DEF Swept
  <2>2. j - 1 \in DOMAIN us /\ us[j - 1] = ws[j] /\ j - 1 > i
    BY <1>1, <1>2, <2>1
  <2> QED
    BY <2>1, <2>2
<1>4. ASSUME NEW i \in DOMAIN us, c \in us[i].list
      PROVE  \E j \in DOMAIN us : j > i /\ us[j].chan = c /\ us[j].by \in Destroyers
  <2>1. PICK j \in DOMAIN ws : j > i + 1 /\ ws[j].chan = c /\ ws[j].by \in Destroyers
    BY <1>1, <1>4 DEF Swept
  <2>2. j - 1 \in DOMAIN us /\ us[j - 1] = ws[j] /\ j - 1 > i
    BY <1>1, <1>2, <2>1
  <2> QED
    BY <2>1, <2>2
<1>5. after = Nothing \/ \E j \in DOMAIN us : Deletes(us[j], c)
  <2>1. CASE after = before /\ ~Deletes(Head(ws), c) /\ before # Nothing
    <3>1. PICK j \in DOMAIN ws : Deletes(ws[j], c)
      BY <2>1 DEF Swept
    <3>2. j # 1
      BY <1>1, <2>1, <3>1
    <3> QED
      BY <1>1, <3>1, <3>2
  <2>2. CASE Stores(Head(ws), c)
    <3>1. PICK j \in DOMAIN ws : j > 1 /\ Deletes(ws[j], c)
      BY <1>1, <2>2 DEF Swept
    <3> QED
      BY <1>2, <3>1
  <2> QED
    BY <2>1, <2>2
<1> QED
  BY <1>3, <1>4, <1>5 DEF Swept, us

\* Nothing that is looked at changes.
SameWrites(ws, us) ==
    /\ DOMAIN us = DOMAIN ws
    /\ \A i \in DOMAIN ws :
          /\ us[i].kind = ws[i].kind /\ us[i].chan = ws[i].chan /\ us[i].content = ws[i].content
          /\ us[i].list = ws[i].list /\ us[i].held = ws[i].held
          /\ us[i].by = ws[i].by \/ (ws[i].by = "session" /\ us[i].by = "nobody")

LEMMA SweptSame ==
    ASSUME NEW ws, NEW us, SameWrites(ws, us), NEW c, NEW stored, Swept(ws, stored, c)
    PROVE  Swept(us, stored, c)
BY DEF SameWrites, Swept, Stores, Deletes, Destroyers

LEMMA OrphanedOf ==
    ASSUME SnapshotTypeOK, NEW c \in VoiceChannels
    PROVE  Orphaned(c) \in Seq(WriteStates) /\ SameWrites(writes, Orphaned(c))
           /\ \A i \in DOMAIN writes : writes[i].chan # c => Orphaned(c)[i] = writes[i]
<1>1. writes \in Seq(WriteStates) /\ \A i \in DOMAIN writes : writes[i] \in WriteStates
  BY DEF SnapshotTypeOK
<1>2. Orphaned(c) = [i \in DOMAIN writes |->
        IF writes[i].chan = c /\ writes[i].by = "session" THEN [writes[i] EXCEPT !.by = "nobody"]
        ELSE writes[i]]
  BY DEF Orphaned
<1>3. ASSUME NEW i \in DOMAIN writes
      PROVE  LET v == Orphaned(c)[i]
                 w == writes[i]
             IN  /\ v \in WriteStates
                 /\ v.kind = w.kind /\ v.chan = w.chan /\ v.content = w.content /\ v.list = w.list /\ v.held = w.held
                 /\ v.by = w.by \/ (w.by = "session" /\ v.by = "nobody")
                 /\ w.chan # c => v = w
  <2> DEFINE w == writes[i]
  <2>1. w \in WriteStates
    BY <1>1
  <2>2. Orphaned(c)[i] = IF w.chan = c /\ w.by = "session" THEN [w EXCEPT !.by = "nobody"] ELSE w
    BY <1>2
  <2> HIDE DEF w
  <2>3. CASE w.chan = c /\ w.by = "session"
    <3>1. Orphaned(c)[i] = [w EXCEPT !.by = "nobody"]
      BY <2>2, <2>3
    <3>2. "nobody" \in Waiters
      BY DEF Waiters
    <3> DEFINE v == [w EXCEPT !.by = "nobody"]
    <3>3. /\ v \in WriteStates /\ v.kind = w.kind /\ v.chan = w.chan /\ v.content = w.content
          /\ v.list = w.list /\ v.by = "nobody" /\ v.held = w.held
      BY <2>1, <3>2, OtherWaiter
    <3> HIDE DEF v
    <3> QED
      BY <2>3, <3>1, <3>3 DEF v, w
  <2>4. CASE ~(w.chan = c /\ w.by = "session")
    <3>1. Orphaned(c)[i] = w
      BY <2>2, <2>4
    <3> QED
      BY <2>1, <3>1 DEF w
  <2> QED
    BY <2>3, <2>4
<1>4. Orphaned(c) = [i \in DOMAIN writes |-> Orphaned(c)[i]]
  BY <1>2
<1>5. Orphaned(c) \in Seq(WriteStates) /\ DOMAIN Orphaned(c) = DOMAIN writes
  BY <1>1, <1>3, <1>4, MappedWrites
<1> QED
  BY <1>3, <1>5 DEF SameWrites

\* What a step sends that is neither an answer to a write nor of a destroy().
Sends(vs) ==
    /\ vs \in Seq(WriteStates) /\ writes' = writes \o vs
    /\ \A i \in DOMAIN vs :
          /\ vs[i].by \notin Destroyers
          /\ vs[i].kind = "upsert" /\ vs[i].chan \in VoiceChannels => session'[vs[i].chan].open
          /\ \A d \in vs[i].list : session'[d].open
    /\ UNCHANGED <<gone, snap, bound>>

LEMMA SendsDestroyed ==
    ASSUME SnapshotTypeOK, DestroyInv, NEW vs, Sends(vs), DestroyedIsClosed',
           \A d \in VoiceChannels : ended'[d] \in {ended[d], "no"}
    PROVE  DestroyInv'
<1> DEFINE ws == writes \o vs
<1>0. writes \in Seq(WriteStates) /\ vs \in Seq(WriteStates) /\ writes' = ws
      /\ gone' = gone /\ snap' = snap /\ bound' = bound
  BY DEF SnapshotTypeOK, Sends
<1>1. \A i \in DOMAIN ws : \/ i \in DOMAIN writes /\ ws[i] = writes[i]
                           \/ \E j \in DOMAIN vs : ws[i] = vs[j]
  BY <1>0, JoinedWrites
<1>2. ASSUME NEW c \in VoiceChannels, ended'[c] # "no"
      PROVE  ended'[c] = ended[c] /\ \A j \in DOMAIN vs : ~Revives(vs[j], c)
  BY <1>2 DEF Sends, Revives, Stores, DestroyedIsClosed
<1>3. BeingSwept'
  <2> SUFFICES ASSUME NEW c \in VoiceChannels, ended'[c] = "going", \A g \in gone : g.chan # c
               PROVE  Swept(ws, snap[c], c)
    BY <1>0 DEF BeingSwept
  <2>1. Swept(writes, snap[c], c)
    BY <1>2 DEF DestroyInv, BeingSwept
  <2> QED
    BY <1>0, <1>2, <2>1, SweptJoined
<1> HIDE DEF ws
<1>4. DestroyShape'
  BY <1>0, <1>1 DEF Sends, DestroyInv, DestroyShape
<1>5. NothingLeft'
  <2> SUFFICES ASSUME NEW c \in VoiceChannels, ended'[c] = "gone"
               PROVE  c \notin bound /\ snap[c] = Nothing /\ \A i \in DOMAIN ws : ~Revives(ws[i], c)
    BY <1>0 DEF NothingLeft
  <2>1. c \notin bound /\ snap[c] = Nothing /\ \A i \in DOMAIN writes : ~Revives(writes[i], c)
    BY <1>2 DEF DestroyInv, NothingLeft
  <2> QED
    BY <1>1, <1>2, <2>1
<1> QED
  BY <1>3, <1>4, <1>5 DEF DestroyInv

LEMMA ActsDestroyed ==
    ASSUME SnapshotTypeOK, DestroyInv, NEW c \in VoiceChannels, NEW vs, Acts(c, vs),
           ended' = ended \/ ended' = [ended EXCEPT ![c] = "no"],
           session'[c].open => session[c].open \/ ended'[c] = "no"
    PROVE  DestroyInv'
<1>1. Sends(vs)
  <2>1. ASSUME NEW i \in DOMAIN vs, vs[i].kind = "upsert" PROVE vs[i].chan = c /\ session'[c].open
    BY <2>1 DEF Acts, Honest, Worth
  <2> QED
    BY <2>1 DEF Acts, Sends, Honest
<1>2. ended \in [VoiceChannels -> {"no", "going", "gone"}]
  BY DEF SnapshotTypeOK
<1>3. \A d \in VoiceChannels : ended'[d] \in {ended[d], "no"}
  BY <1>2
<1>4. DestroyedIsClosed'
  <2> SUFFICES ASSUME NEW d \in VoiceChannels, ended'[d] # "no" PROVE ~session'[d].open
    BY DEF DestroyedIsClosed
  <2>1. ended[d] # "no"
    BY <1>3
  <2>2. ~session[d].open
    BY <2>1 DEF DestroyInv, DestroyedIsClosed
  <2> QED
    BY <2>2 DEF Acts
<1> QED
  BY <1>1, <1>3, <1>4, SendsDestroyed

LEMMA DestroyDestroyed ==
    ASSUME SnapshotTypeOK, DestroyInv, NEW c \in VoiceChannels, NEW by \in Destroyers,
           Destroy(c, by), writes' = Orphaned(c), UNCHANGED <<snap, bound>>
    PROVE  DestroyInv'
<1>0. /\ session \in [VoiceChannels -> SessionStates] /\ ended \in [VoiceChannels -> {"no", "going", "gone"}]
      /\ session' = [session EXCEPT ![c] = Closed] /\ ended' = [ended EXCEPT ![c] = "going"]
      /\ gone' = gone \cup {[chan |-> c, by |-> by]}
  BY DEF SnapshotTypeOK, Destroy
<1>1. SameWrites(writes, writes')
  BY OrphanedOf
<1>2. DestroyedIsClosed'
  BY <1>0, OpenedTypes DEF DestroyInv, DestroyedIsClosed
<1>3. DestroyShape'
  BY <1>0, <1>1 DEF DestroyInv, DestroyShape, SameWrites, Destroyers
<1>4. BeingSwept'
  <2> SUFFICES ASSUME NEW d \in VoiceChannels, ended'[d] = "going", \A g \in gone' : g.chan # d
               PROVE  Swept(writes', snap[d], d)
    BY DEF BeingSwept
  <2>0. [chan |-> c, by |-> by] \in gone' /\ [chan |-> c, by |-> by].chan = c
    BY <1>0
  <2>1. d # c
    BY <2>0
  <2>2. ended[d] = "going" /\ \A g \in gone : g.chan # d
    BY <1>0, <2>1
  <2>3. Swept(writes, snap[d], d)
    BY <2>2 DEF DestroyInv, BeingSwept
  <2> QED
    BY <1>1, <2>3, SweptSame
<1>5. NothingLeft'
  <2> SUFFICES ASSUME NEW d \in VoiceChannels, ended'[d] = "gone"
               PROVE  d \notin bound /\ snap[d] = Nothing /\ \A i \in DOMAIN writes' : ~Revives(writes'[i], d)
    BY DEF NothingLeft
  <2>1. ended[d] = "gone"
    BY <1>0
  <2>2. d \notin bound /\ snap[d] = Nothing /\ \A i \in DOMAIN writes : ~Revives(writes[i], d)
    BY <2>1 DEF DestroyInv, NothingLeft
  <2> QED
    BY <1>1, <2>2 DEF SameWrites, Revives, Stores
<1> QED
  BY <1>2, <1>3, <1>4, <1>5 DEF DestroyInv

LEMMA DeletesDestroyed ==
    ASSUME SnapshotTypeOK, DestroyInv, NEW g \in gone, DestroyDeletes(g)
    PROVE  DestroyInv'
<1> DEFINE c == g.chan
           w == Write("delete", c, g.by)
<1>0. /\ c \in VoiceChannels /\ g.by \in Destroyers /\ Destroyers \subseteq Waiters
      /\ writes \in Seq(WriteStates)
  BY DEF DestroyInv, DestroyShape, Destroyers, Waiters, SnapshotTypeOK
<1>1. w \in WriteStates /\ w.kind = "delete" /\ w.chan = c /\ w.by = g.by /\ w.list = {}
  BY <1>0, WriteOf
<1>2. gone' = gone \ {g} /\ writes' = Append(writes, w) /\ UNCHANGED <<session, snap, bound, ended>>
  BY DEF DestroyDeletes, stores
<1> HIDE DEF c, w
<1>3. writes' = writes \o <<w>> /\ <<w>> \in Seq(WriteStates) /\ DOMAIN <<w>> = {1} /\ <<w>>[1] = w
  BY <1>0, <1>1, <1>2, OneWrite
<1>4. /\ \A i \in DOMAIN writes : i \in DOMAIN writes' /\ writes'[i] = writes[i] /\ i < Len(writes) + 1
      /\ Len(writes) + 1 \in DOMAIN writes' /\ writes'[Len(writes) + 1] = w
      /\ \A i \in DOMAIN writes' : i \in DOMAIN writes \/ i = Len(writes) + 1
  BY <1>0, <1>3
<1>5. \A d : ~Revives(w, d)
  BY <1>1 DEF Revives, Stores
<1>6. DestroyedIsClosed' /\ DestroyShape'
  BY <1>0, <1>1, <1>2, <1>4 DEF DestroyInv, DestroyedIsClosed, DestroyShape
<1>7. BeingSwept'
  <2> SUFFICES ASSUME NEW d \in VoiceChannels, ended[d] = "going", \A f \in gone \ {g} : f.chan # d
               PROVE  Swept(writes', snap[d], d)
    BY <1>2 DEF BeingSwept
  <2>1. CASE d # c
    <3>1. Swept(writes, snap[d], d)
      BY <2>1 DEF DestroyInv, BeingSwept, c
    <3> QED
      BY <1>0, <1>3, <1>5, <3>1, SweptJoined
  <2>2. CASE d = c
    <3>1. Deletes(w, d) /\ w.chan = d /\ w.by \in Destroyers
      BY <1>0, <1>1, <2>2 DEF Deletes
    <3>2. \A i \in DOMAIN writes' : Stores(writes'[i], d) \/ d \in writes'[i].list =>
             Len(writes) + 1 > i
      BY <1>4, <1>5 DEF Revives
    <3> QED
      BY <1>4, <3>1, <3>2 DEF Swept
  <2> QED
    BY <2>1, <2>2
<1>8. NothingLeft'
  <2> SUFFICES ASSUME NEW d \in VoiceChannels, ended[d] = "gone"
               PROVE  d \notin bound /\ snap[d] = Nothing /\ \A i \in DOMAIN writes' : ~Revives(writes'[i], d)
    BY <1>2 DEF NothingLeft
  <2>1. d \notin bound /\ snap[d] = Nothing /\ \A i \in DOMAIN writes : ~Revives(writes[i], d)
    BY DEF DestroyInv, NothingLeft
  <2> QED
    BY <1>4, <1>5, <2>1
<1> QED
  BY <1>6, <1>7, <1>8 DEF DestroyInv

-----------------------------------------------------------------------------
(* The answers of the database.                                            *)

\* A write that is sent because w was answered.
Follows(v, w) ==
    /\ v.kind # "upsert" /\ v.chan \in {w.chan, Nothing}
    /\ w.kind # "upsert" /\ w.by \notin {"session", "nobody"}
    /\ w.by \in Destroyers => w.kind = "delete"
    /\ v.by \in Destroyers => v.kind = "sync"
    /\ \A d \in v.list : session[d].open \/ (d \in bound /\ ended'[d] # "going")

SameSession(c, w) ==
    /\ session'[c].open = session[c].open /\ session'[c].linked = session[c].linked
    /\ session'[c].content = session[c].content /\ Worth(session'[c]) = Worth(session[c])
    /\ session'[c].dirty => session[c].dirty
    /\ session'[c].flying => session[c].flying /\ ~Saves(w, c)

EndOf(c, w, ok) ==
    /\ \/ ended'[c] \in {ended[c], "no"}
       \/ /\ ended[c] = "going" /\ ended'[c] = "gone" /\ ok
          /\ w.chan = c /\ w.by \in Destroyers /\ w.kind # "delete"
          /\ \A g \in gone : g.chan # c
          /\ \A i \in DOMAIN Tail(writes) : Tail(writes)[i].chan # c
    /\ Deletes(w, c) /\ ~ok => ended'[c] # "going"

NextBoot ==
    \/ boot' = boot
    \/ boot' \in BootStates /\ boot'.step = "next" /\ ~boot'.mine
    \/ /\ boot' \in BootStates /\ boot'.step = "failed" /\ boot'.chan = boot.chan
       /\ boot'.mine = boot.mine /\ boot.step = "clearing"

Answers(w, ok, vs) ==
    /\ writes' = Tail(writes) \o vs /\ vs \in Seq(WriteStates) /\ \A i \in DOMAIN vs : Follows(vs[i], w)
    /\ session' \in [VoiceChannels -> SessionStates] /\ \A c \in VoiceChannels : SameSession(c, w)
    /\ ended' \in [VoiceChannels -> {"no", "going", "gone"}] /\ \A c \in VoiceChannels : EndOf(c, w, ok)
    /\ gone' = gone /\ NextBoot

LEMMA HeadWrite ==
    ASSUME SnapshotTypeOK, writes # <<>>
    PROVE  /\ Head(writes) \in WriteStates /\ Tail(writes) \in Seq(WriteStates)
           /\ Head(writes).by \in Waiters /\ Head(writes).list \subseteq VoiceChannels
           /\ Tail(writes) = Tail(writes) \o <<>>
           /\ \A v \in WriteStates : Append(Tail(writes), v) = Tail(writes) \o <<v>>
<1>1. writes \in Seq(WriteStates)
  BY DEF SnapshotTypeOK
<1>2. Head(writes) \in WriteStates /\ Tail(writes) \in Seq(WriteStates)
  BY <1>1, TailWrites
<1>3. Head(writes).by \in Waiters /\ Head(writes).list \subseteq VoiceChannels
  BY <1>2 DEF WriteStates
<1>4. \A v \in WriteStates : Append(Tail(writes), v) = Tail(writes) \o <<v>>
  BY <1>2, OneWrite
<1>5. Tail(writes) = Tail(writes) \o <<>>
  BY <1>2, NoWrite
<1> QED
  BY <1>2, <1>3, <1>4, <1>5

LEMMA NothingChanges ==
    ASSUME SnapshotTypeOK, NEW w, ~(w.by = "session" /\ w.kind = "upsert"), session' = session
    PROVE  session' \in [VoiceChannels -> SessionStates] /\ \A c \in VoiceChannels : SameSession(c, w)
BY DEF SnapshotTypeOK, SameSession, Saves, Stores

LEMMA NextBindingOf ==
    ASSUME SnapshotTypeOK, NextBinding
    PROVE  /\ boot' \in BootStates /\ boot'.step = "next" /\ ~boot'.mine /\ boot'.chan = Nothing
           /\ NextBoot
<1>1. boot \in BootStates
  BY DEF SnapshotTypeOK
<1>2. boot' \in BootStates /\ boot'.step = "next" /\ ~boot'.mine /\ boot'.chan = Nothing
  BY <1>1 DEF NextBinding, BootStates, Steps
<1> QED
  BY <1>2 DEF NextBoot

LEMMA SnapshotAnswers ==
    ASSUME SnapshotTypeOK, writes # <<>>, NEW ok \in BOOLEAN,
           SnapshotAnswered(Head(writes), Tail(writes), ok)
    PROVE  Answers(Head(writes), ok, <<>>)
<1> DEFINE w == Head(writes)
           s == session[w.chan]
<1>0. session \in [VoiceChannels -> SessionStates] /\ ended \in [VoiceChannels -> {"no", "going", "gone"}]
  BY DEF SnapshotTypeOK
<1>1. w \in WriteStates /\ w.by = "session" /\ writes' = Tail(writes) \o <<>>
      /\ UNCHANGED <<boot, gone, ended>>
  BY HeadWrite DEF SnapshotAnswered
<1>2. session' = [session EXCEPT ![w.chan] =
               IF w.kind = "delete" THEN [s EXCEPT !.dirty = FALSE]
               ELSE IF ok THEN [s EXCEPT !.flying = FALSE, !.recent = TRUE, !.dirty = FALSE]
               ELSE [s EXCEPT !.flying = FALSE]]
  BY DEF SnapshotAnswered
<1> HIDE DEF w
<1>4. ASSUME NEW c \in VoiceChannels
      PROVE  session'[c] \in SessionStates /\ SameSession(c, w)
  <2>1. session[c] \in SessionStates
    BY <1>0
  <2>2. CASE c # w.chan
    <3>1. session'[c] = session[c]
      BY <1>0, <1>2, <2>2
    <3> QED
      BY <2>1, <2>2, <3>1 DEF SameSession, Saves, Stores
  <2>3. CASE c = w.chan
    <3> DEFINE r == session[c]
    <3>1. session'[c] = IF w.kind = "delete" THEN [r EXCEPT !.dirty = FALSE]
                        ELSE IF ok THEN [r EXCEPT !.flying = FALSE, !.recent = TRUE, !.dirty = FALSE]
                        ELSE [r EXCEPT !.flying = FALSE]
      BY <1>0, <1>2, <2>3
    <3> HIDE DEF r
    <3>2. r \in SessionStates
      BY <2>1 DEF r
    <3>3. /\ session'[c] \in SessionStates /\ session'[c].open = r.open /\ session'[c].linked = r.linked
          /\ session'[c].content = r.content /\ Worth(session'[c]) = Worth(r)
          /\ session'[c].dirty => r.dirty
          /\ session'[c].flying => r.flying /\ w.kind = "delete"
      <4>1. CASE w.kind = "delete"
        <5> DEFINE q == [r EXCEPT !.dirty = FALSE]
        <5>1. q \in SessionStates /\ q.open = r.open /\ q.linked = r.linked /\ q.content = r.content
              /\ q.stay = r.stay /\ ~q.dirty /\ q.flying = r.flying
          BY <3>2 DEF SessionStates
        <5>2. session'[c] = q
          BY <3>1, <4>1
        <5> HIDE DEF q
        <5> QED
          BY <4>1, <5>1, <5>2 DEF Worth, Recoverable
      <4>2. CASE w.kind # "delete" /\ ok
        <5> DEFINE q == [r EXCEPT !.flying = FALSE, !.recent = TRUE, !.dirty = FALSE]
        <5>1. q \in SessionStates /\ q.open = r.open /\ q.linked = r.linked /\ q.content = r.content
              /\ q.stay = r.stay /\ ~q.dirty /\ ~q.flying
          BY <3>2 DEF SessionStates
        <5>2. session'[c] = q
          BY <3>1, <4>2
        <5> HIDE DEF q
        <5> QED
          BY <5>1, <5>2 DEF Worth, Recoverable
      <4>3. CASE w.kind # "delete" /\ ~ok
        <5> DEFINE q == [r EXCEPT !.flying = FALSE]
        <5>1. q \in SessionStates /\ q.open = r.open /\ q.linked = r.linked /\ q.content = r.content
              /\ q.stay = r.stay /\ q.dirty = r.dirty /\ ~q.flying
          BY <3>2 DEF SessionStates
        <5>2. session'[c] = q
          BY <3>1, <4>3
        <5> HIDE DEF q
        <5> QED
          BY <5>1, <5>2 DEF Worth, Recoverable
      <4> QED
        BY <4>1, <4>2, <4>3
    <3> QED
      BY <3>3 DEF r, SameSession, Saves, Stores
  <2> QED
    BY <2>2, <2>3
<1>5. session' \in [VoiceChannels -> SessionStates]
  <2>1. session' = [c \in VoiceChannels |-> session'[c]]
    BY <1>0, <1>2
  <2> QED
    BY <1>4, <2>1
<1>6. \A c \in VoiceChannels : EndOf(c, w, ok)
  BY <1>1 DEF EndOf, Deletes, Destroyers
<1> QED
  BY <1>0, <1>1, <1>4, <1>5, <1>6, NoWrite DEF Answers, NextBoot, w

LEMMA DestroyAnswers ==
    ASSUME SnapshotTypeOK, writes # <<>>, NEW ok \in BOOLEAN,
           DestroyAnswered(Head(writes), Tail(writes), ok)
    PROVE  \E vs : Answers(Head(writes), ok, vs)
<1> DEFINE w == Head(writes)
<1>0. /\ session \in [VoiceChannels -> SessionStates] /\ ended \in [VoiceChannels -> {"no", "going", "gone"}]
      /\ w \in WriteStates /\ w.by \in Destroyers /\ w.by \in Waiters
      /\ w.chan \in VoiceChannels \cup {Nothing}
      /\ session' = session /\ gone' = gone
  BY HeadWrite DEF SnapshotTypeOK, DestroyAnswered, Destroyers, WriteStates
<1>1. session' \in [VoiceChannels -> SessionStates] /\ \A c \in VoiceChannels : SameSession(c, w)
  BY <1>0, NothingChanges DEF Destroyers
<1>2. CASE w.kind = "delete"
  <2> DEFINE x == IF ok THEN w.chan ELSE Nothing
             u == Sync(session, w.by)
             v == [u EXCEPT !.chan = x]
  <2>1. /\ writes' = Append(Tail(writes), v) /\ boot' = boot
        /\ ended' = IF ok \/ ended[w.chan] # "going" THEN ended ELSE [ended EXCEPT ![w.chan] = "no"]
    BY <1>2 DEF DestroyAnswered
  <2>2. x \in VoiceChannels \cup {Nothing} /\ x \in {w.chan, Nothing}
    BY <1>0
  <2>3. u \in WriteStates /\ u.kind = "sync" /\ u.by = w.by /\ \A d \in u.list : session[d].open
    BY <1>0, SyncOf
  <2> HIDE DEF x, u
  <2>4. v \in WriteStates /\ v.kind = "sync" /\ v.chan = x /\ v.by = w.by /\ v.list = u.list
    BY <2>2, <2>3, OtherChannel
  <2> HIDE DEF v
  <2>5. Follows(v, w)
    BY <1>0, <1>2, <2>2, <2>3, <2>4 DEF Follows, Destroyers
  <2>6. writes' = Tail(writes) \o <<v>> /\ <<v>> \in Seq(WriteStates) /\ \A i \in DOMAIN <<v>> : Follows(<<v>>[i], w)
    BY <2>1, <2>4, <2>5, HeadWrite, OneWrite
  <2>7. ended' \in [VoiceChannels -> {"no", "going", "gone"}] /\ \A c \in VoiceChannels : EndOf(c, w, ok)
    <3>1. ended' \in [VoiceChannels -> {"no", "going", "gone"}]
      BY <1>0, <2>1
    <3>2. ASSUME NEW c \in VoiceChannels PROVE EndOf(c, w, ok)
      <4>1. ended'[c] \in {ended[c], "no"}
        BY <1>0, <2>1
      <4>2. w.chan = c /\ ~ok => ended'[c] # "going"
        BY <1>0, <2>1
      <4> QED
        BY <4>1, <4>2 DEF EndOf, Deletes
    <3> QED
      BY <3>1, <3>2
  <2>8. Answers(w, ok, <<v>>)
    BY <1>0, <1>1, <2>1, <2>6, <2>7 DEF Answers, NextBoot
  <2> QED
    BY <2>8
<1>3. CASE w.kind # "delete"
  <2>1. /\ writes' = Tail(writes)
        /\ boot' = boot \/ NextBinding
        /\ \/ ended' = ended
           \/ /\ ended' = [ended EXCEPT ![w.chan] = "gone"]
              /\ ok /\ w.chan # Nothing /\ ended[w.chan] = "going"
              /\ \A g \in gone : g.chan # w.chan
              /\ \A i \in DOMAIN Tail(writes) : Tail(writes)[i].chan # w.chan
    BY <1>3 DEF DestroyAnswered
  <2>2. NextBoot
    BY <2>1, NextBindingOf DEF NextBoot
  <2>3. ended' \in [VoiceChannels -> {"no", "going", "gone"}]
    BY <1>0, <2>1
  <2>4. ASSUME NEW c \in VoiceChannels PROVE EndOf(c, w, ok)
    <3>1. ~Deletes(w, c)
      BY <1>3 DEF Deletes
    <3>2. CASE ended' = ended
      BY <3>1, <3>2 DEF EndOf
    <3>3. CASE ended' # ended
      <4>1. CASE c = w.chan
        BY <1>0, <1>3, <2>1, <3>1, <3>3, <4>1 DEF EndOf
      <4>2. CASE c # w.chan
        BY <1>0, <2>1, <3>1, <3>3, <4>2 DEF EndOf
      <4> QED
        BY <4>1, <4>2
    <3> QED
      BY <3>2, <3>3
  <2>5. writes' = Tail(writes) \o <<>>
    BY <2>1, HeadWrite
  <2>6. Answers(w, ok, <<>>)
    BY <1>0, <1>1, <2>2, <2>3, <2>4, <2>5, NoWrite DEF Answers
  <2> QED
    BY <2>6
<1> QED
  BY <1>2, <1>3

LEMMA RestoreAnswers ==
    ASSUME SnapshotTypeOK, writes # <<>>, NEW ok \in BOOLEAN,
           RestoreAnswered(Head(writes), Tail(writes), ok)
    PROVE  \E vs : Answers(Head(writes), ok, vs)
<1> DEFINE w == Head(writes)
<1>0. /\ session \in [VoiceChannels -> SessionStates] /\ ended \in [VoiceChannels -> {"no", "going", "gone"}]
      /\ boot \in BootStates /\ bound \subseteq VoiceChannels
      /\ w \in WriteStates /\ w.by = "restore" /\ w.chan \in VoiceChannels \cup {Nothing}
      /\ session' = session /\ gone' = gone
  BY HeadWrite DEF SnapshotTypeOK, RestoreAnswered, WriteStates
<1>1. session' \in [VoiceChannels -> SessionStates] /\ \A c \in VoiceChannels : SameSession(c, w)
  BY <1>0, NothingChanges
<1>2. ended' = [c \in VoiceChannels |->
                    IF /\ ended[c] = "going" /\ ok
                       /\ boot.step = "clearing" /\ w.kind = "read" /\ c \in bound \ {w.chan}
                    THEN "no" ELSE ended[c]]
  BY DEF RestoreAnswered
<1>3. ended' \in [VoiceChannels -> {"no", "going", "gone"}] /\ \A c \in VoiceChannels : EndOf(c, w, ok)
  BY <1>0, <1>2 DEF EndOf, Deletes, Destroyers
<1>4. ASSUME NEW v \in WriteStates, writes' = Append(Tail(writes), v), Follows(v, w), NextBoot
      PROVE  \E vs : Answers(w, ok, vs)
  <2>1. writes' = Tail(writes) \o <<v>> /\ <<v>> \in Seq(WriteStates) /\ \A i \in DOMAIN <<v>> : Follows(<<v>>[i], w)
    BY <1>4, HeadWrite, OneWrite
  <2>2. Answers(w, ok, <<v>>)
    BY <1>0, <1>1, <1>3, <1>4, <2>1 DEF Answers
  <2> QED
    BY <2>2
<1>5. ASSUME writes' = Tail(writes), NextBoot
      PROVE  \E vs : Answers(w, ok, vs)
  <2>1. Answers(w, ok, <<>>)
    BY <1>0, <1>1, <1>3, <1>5, HeadWrite, NoWrite DEF Answers
  <2> QED
    BY <2>1
<1>6. CASE boot.step = "waiting" /\ NextBinding /\ writes' = Tail(writes)
  BY <1>5, <1>6, NextBindingOf
<1>7. CASE /\ boot.step = "clearing" /\ ok /\ w.kind = "read" /\ UNCHANGED boot
           /\ writes' = Append(Tail(writes), [Write("clear", w.chan, "restore") EXCEPT !.list = bound \ {w.chan}])
  <2> DEFINE u == Write("clear", w.chan, "restore")
             v == [u EXCEPT !.list = bound \ {w.chan}]
  <2>1. u \in WriteStates /\ u.kind = "clear" /\ u.chan = w.chan /\ u.by = "restore"
    BY <1>0, WriteOf DEF Waiters
  <2>2. writes' = Append(Tail(writes), v)
    BY <1>7
  <2>3. bound \ {w.chan} \in SUBSET VoiceChannels
    BY <1>0
  <2> HIDE DEF u
  <2>4. v \in WriteStates /\ v.kind = "clear" /\ v.chan = w.chan /\ v.by = "restore" /\ v.list = bound \ {w.chan}
    BY <2>1, <2>3, OtherList
  <2> HIDE DEF v
  <2>5. \A d \in v.list : d \in bound /\ ended'[d] # "going"
    BY <1>0, <1>2, <1>7, <2>4
  <2>6. Follows(v, w)
    BY <1>0, <1>7, <2>4, <2>5 DEF Follows, Destroyers
  <2> QED
    BY <1>4, <1>7, <2>2, <2>4, <2>6 DEF NextBoot
<1>8. CASE /\ boot.step = "clearing" /\ ok /\ w.kind = "clear" /\ UNCHANGED boot
           /\ writes' = Append(Tail(writes), Write("delete", w.chan, "restore"))
  <2> DEFINE v == Write("delete", w.chan, "restore")
  <2>1. v \in WriteStates /\ v.kind = "delete" /\ v.chan = w.chan /\ v.by = "restore" /\ v.list = {}
    BY <1>0, WriteOf DEF Waiters
  <2>2. writes' = Append(Tail(writes), v)
    BY <1>8
  <2> HIDE DEF v
  <2>3. Follows(v, w)
    BY <1>0, <1>8, <2>1 DEF Follows, Destroyers
  <2> QED
    BY <1>4, <1>8, <2>1, <2>2, <2>3 DEF NextBoot
<1>9. CASE /\ boot.step = "clearing" /\ (~ok \/ w.kind = "delete")
           /\ boot' = [boot EXCEPT !.step = "failed"] /\ writes' = Tail(writes)
  <2>1. /\ boot' \in BootStates /\ boot'.step = "failed" /\ boot'.chan = boot.chan
        /\ boot'.mine = boot.mine
    BY <1>0, <1>9 DEF BootStates, Steps
  <2> QED
    BY <1>5, <1>9, <2>1 DEF NextBoot
<1> QED
  BY <1>6, <1>7, <1>8, <1>9 DEF RestoreAnswered

\* What a write does to the database.
TakesEffect(w, ok) ==
    /\ \A c \in VoiceChannels :
          snap'[c] = IF ok /\ Stores(w, c) THEN w.content
                     ELSE IF ok /\ w.kind = "delete" /\ w.chan = c THEN Nothing ELSE snap[c]
    /\ snap' \in [VoiceChannels -> Contents \cup {Nothing}]
    /\ bound' = IF ok /\ w.kind \in {"sync", "clear"} THEN w.list ELSE bound

LEMMA AnswerOf ==
    ASSUME SnapshotTypeOK, NEW ok \in BOOLEAN, ok => Applied, ~ok => Fails
    PROVE  /\ writes # <<>> /\ \E vs : Answers(Head(writes), ok, vs)
           /\ TakesEffect(Head(writes), ok) /\ UNCHANGED <<phase, togo, profile247>>
<1> DEFINE w == Head(writes)
<1>0. snap \in [VoiceChannels -> Contents \cup {Nothing}]
  BY DEF SnapshotTypeOK
<1>1. writes # <<>> /\ Answered(w, Tail(writes), ok)
  BY DEF Applied, Fails
<1>2. w \in WriteStates /\ w.content \in Contents
  BY <1>1, HeadWrite DEF WriteStates
<1>3. TakesEffect(w, ok)
  <2>1. CASE ok
    <3>1. /\ snap' = CASE w.kind = "upsert" -> [snap EXCEPT ![w.chan] = w.content]
                        [] w.kind = "delete" -> [snap EXCEPT ![w.chan] = Nothing]
                        [] OTHER -> snap
          /\ bound' = IF w.kind \in {"sync", "clear"} THEN w.list ELSE bound
      BY <2>1 DEF Applied
    <3> HIDE DEF w
    <3>2. CASE w.kind = "upsert"
      BY <1>0, <1>2, <2>1, <3>1, <3>2 DEF TakesEffect, Stores
    <3>3. CASE w.kind = "delete"
      BY <1>0, <2>1, <3>1, <3>3 DEF TakesEffect, Stores
    <3>4. CASE w.kind \notin {"upsert", "delete"}
      BY <1>0, <2>1, <3>1, <3>4 DEF TakesEffect, Stores
    <3> QED
      BY <3>2, <3>3, <3>4
  <2>2. CASE ~ok
    BY <1>0, <2>2 DEF Fails, stores, TakesEffect
  <2> QED
    BY <2>1, <2>2
<1>4. CASE SnapshotAnswered(w, Tail(writes), ok)
  BY <1>1, <1>3, <1>4, SnapshotAnswers DEF Answered
<1>5. CASE DestroyAnswered(w, Tail(writes), ok)
  BY <1>1, <1>3, <1>5, DestroyAnswers DEF Answered
<1>6. CASE RestoreAnswered(w, Tail(writes), ok)
  BY <1>1, <1>3, <1>6, RestoreAnswers DEF Answered
<1>7. CASE w.by = "nobody" /\ writes' = Tail(writes) /\ UNCHANGED <<session, gone, boot, ended>>
  <2>1. session' \in [VoiceChannels -> SessionStates] /\ \A c \in VoiceChannels : SameSession(c, w)
    BY <1>7, NothingChanges
  <2>2. \A c \in VoiceChannels : EndOf(c, w, ok)
    BY <1>7 DEF EndOf, Deletes, Destroyers
  <2>3. Answers(w, ok, <<>>)
    BY <1>1, <1>7, <2>1, <2>2, HeadWrite, NoWrite DEF Answers, NextBoot, SnapshotTypeOK
  <2> QED
    BY <1>1, <1>3, <2>3 DEF Answered
<1> QED
  BY <1>1, <1>4, <1>5, <1>6, <1>7 DEF Answered

LEMMA AnswersDestroyed ==
    ASSUME SnapshotTypeOK, DestroyInv, NEW ok \in BOOLEAN, ok => Applied, ~ok => Fails
    PROVE  DestroyInv'
<1> DEFINE w == Head(writes)
           rest == Tail(writes)
<1>1. PICK vs : Answers(w, ok, vs)
  BY AnswerOf
<1>2. writes # <<>> /\ TakesEffect(w, ok)
  BY AnswerOf
<1>3. /\ writes \in Seq(WriteStates) /\ w = writes[1] /\ 1 \in DOMAIN writes /\ rest \in Seq(WriteStates)
      /\ vs \in Seq(WriteStates) /\ writes' = rest \o vs /\ gone' = gone
      /\ \A i \in DOMAIN vs : Follows(vs[i], w)
      /\ w \in WriteStates /\ w.list \subseteq VoiceChannels
  BY <1>1, <1>2, TailWrites, HeadWrite DEF SnapshotTypeOK, Answers
<1>4. /\ \A i \in DOMAIN rest : i \in Nat /\ i + 1 \in DOMAIN writes /\ rest[i] = writes[i + 1]
      /\ \A i \in DOMAIN writes' : \/ i \in DOMAIN rest /\ writes'[i] = rest[i]
                                   \/ \E j \in DOMAIN vs : writes'[i] = vs[j]
  BY <1>2, <1>3, TailWrites, JoinedWrites
<1>5. \A c \in VoiceChannels : EndOf(c, w, ok) /\ session'[c].open = session[c].open
  BY <1>1 DEF Answers, SameSession
<1>6. ASSUME NEW c \in VoiceChannels, ended'[c] # "no"
      PROVE  ended[c] # "no" /\ ~session[c].open
  BY <1>5, <1>6 DEF EndOf, DestroyInv, DestroyedIsClosed
<1>7. ASSUME NEW c \in VoiceChannels, ended'[c] # "no", NEW i \in DOMAIN vs
      PROVE  ~Revives(vs[i], c)
  <2>1. ~Stores(vs[i], c)
    BY <1>3 DEF Follows, Stores
  <2>2. ASSUME c \in vs[i].list PROVE FALSE
    <3>1. c \in bound /\ ended'[c] # "going"
      BY <1>3, <1>6, <1>7, <2>2 DEF Follows
    <3>2. ended'[c] = "gone" /\ (ended[c] = "gone" \/ (ended[c] = "going" /\ w.by \in Destroyers /\ w.kind # "delete"))
      BY <1>1, <1>5, <1>7, <3>1 DEF EndOf, Answers
    <3>3. CASE ended[c] = "gone"
      BY <3>1, <3>3 DEF DestroyInv, NothingLeft
    <3>4. CASE w.by \in Destroyers /\ w.kind # "delete"
      BY <1>3, <3>4 DEF Follows
    <3> QED
      BY <3>2, <3>3, <3>4
  <2> QED
    BY <2>1, <2>2 DEF Revives
<1>8. DestroyedIsClosed'
  BY <1>5, <1>6 DEF DestroyedIsClosed
<1>9. DestroyShape'
  <2>1. \A i \in DOMAIN writes' : writes'[i].by \in Destroyers => writes'[i].kind \in {"delete", "sync"}
    BY <1>3, <1>4 DEF Follows, DestroyInv, DestroyShape
  <2> QED
    BY <1>3, <2>1 DEF DestroyInv, DestroyShape
<1>10. BeingSwept'
  <2> SUFFICES ASSUME NEW c \in VoiceChannels, ended'[c] = "going", \A g \in gone : g.chan # c
               PROVE  Swept(writes', snap'[c], c)
    BY <1>3 DEF BeingSwept
  <2>1. ended[c] = "going" /\ ~(Deletes(w, c) /\ ~ok)
    BY <1>5 DEF EndOf
  <2>2. Swept(writes, snap[c], c)
    BY <2>1 DEF DestroyInv, BeingSwept
  <2>3. \/ snap'[c] = snap[c] /\ ~Deletes(w, c)
        \/ snap'[c] = Nothing
        \/ Stores(w, c)
    BY <1>2, <2>1 DEF TakesEffect, Deletes
  <2>4. Swept(rest, snap'[c], c)
    BY <1>2, <1>3, <2>2, <2>3, SweptTail
  <2> QED
    BY <1>3, <1>7, <2>4, SweptJoined
<1>11. NothingLeft'
  <2> SUFFICES ASSUME NEW c \in VoiceChannels, ended'[c] = "gone"
               PROVE  c \notin bound' /\ snap'[c] = Nothing /\ \A i \in DOMAIN writes' : ~Revives(writes'[i], c)
    BY DEF NothingLeft
  <2>1. c \notin bound' /\ snap'[c] = Nothing /\ \A i \in DOMAIN rest : ~Revives(rest[i], c)
    <3>1. CASE ended[c] = "gone"
      <4>1. c \notin bound /\ snap[c] = Nothing /\ ~Revives(w, c) /\ \A i \in DOMAIN rest : ~Revives(rest[i], c)
        BY <1>3, <1>4, <3>1 DEF DestroyInv, NothingLeft
      <4> QED
        BY <1>2, <4>1 DEF TakesEffect, Revives
    <3>2. CASE ended[c] # "gone"
      <4>1. /\ ended[c] = "going" /\ w.chan = c /\ w.by \in Destroyers /\ w.kind # "delete" /\ ok
            /\ \A g \in gone : g.chan # c
            /\ \A i \in DOMAIN rest : rest[i].chan # c
        BY <1>5, <3>2 DEF EndOf
      <4>2. w.kind = "sync"
        BY <1>3, <4>1 DEF DestroyInv, DestroyShape
      <4>3. Swept(writes, snap[c], c)
        BY <4>1 DEF DestroyInv, BeingSwept
      <4>4. ASSUME NEW j \in DOMAIN writes, j # 1 PROVE writes[j].chan # c
        <5>1. j - 1 \in DOMAIN rest /\ rest[j - 1] = writes[j]
          BY <1>2, <1>3, <4>4, TailWrites
        <5> QED
          BY <4>1, <5>1
      <4>5. snap[c] = Nothing
        BY <1>3, <4>2, <4>3, <4>4 DEF Swept, Deletes
      <4>6. \A j \in DOMAIN writes : c \notin writes[j].list
        <5> SUFFICES ASSUME NEW j \in DOMAIN writes, c \in writes[j].list PROVE FALSE
          OBVIOUS
        <5>1. PICK k \in DOMAIN writes : k > j /\ writes[k].chan = c
          BY <4>3 DEF Swept
        <5>2. j \in Nat /\ j >= 1
          BY <1>3
        <5> QED
          BY <4>4, <5>1, <5>2
      <4>7. \A i \in DOMAIN rest : ~Revives(rest[i], c)
        BY <1>4, <4>1, <4>6 DEF Revives, Stores
      <4> QED
        BY <1>2, <1>3, <4>1, <4>2, <4>5, <4>6, <4>7 DEF TakesEffect, Stores
    <3> QED
      BY <3>1, <3>2
  <2> QED
    BY <1>4, <1>7, <2>1
<1> QED
  BY <1>8, <1>9, <1>10, <1>11 DEF DestroyInv

\* A session that shutdown() takes away, and the end of the process.
LEMMA LeavesDestroyed ==
    ASSUME SnapshotTypeOK, DestroyInv, NEW c \in VoiceChannels, ShutdownLeaves(c)
    PROVE  DestroyInv'
<1>0. /\ session \in [VoiceChannels -> SessionStates] /\ session' = [session EXCEPT ![c] = Closed]
      /\ UNCHANGED <<gone, snap, bound, ended>> /\ SameWrites(writes, writes')
  BY OrphanedOf DEF SnapshotTypeOK, ShutdownLeaves, stores
<1>1. DestroyedIsClosed'
  BY <1>0, OpenedTypes DEF DestroyInv, DestroyedIsClosed
<1>2. DestroyShape'
  BY <1>0 DEF DestroyInv, DestroyShape, SameWrites, Destroyers
<1>3. BeingSwept'
  BY <1>0, SweptSame DEF DestroyInv, BeingSwept
<1>4. NothingLeft'
  BY <1>0 DEF DestroyInv, NothingLeft, SameWrites, Revives, Stores
<1> QED
  BY <1>1, <1>2, <1>3, <1>4 DEF DestroyInv

LEMMA StoppedDestroyed ==
    ASSUME SnapshotTypeOK, DestroyInv, Stopped
    PROVE  DestroyInv'
<1>0. /\ session' = [c \in VoiceChannels |-> Closed] /\ gone' = {} /\ writes' = <<>>
      /\ ended' = [c \in VoiceChannels |-> IF ended[c] = "going" THEN "no" ELSE ended[c]]
      /\ UNCHANGED <<snap, bound>>
  BY DEF Stopped, stores
<1>1. DestroyedIsClosed'
  BY <1>0, OpenedTypes DEF DestroyedIsClosed
<1>2. DestroyShape'
  BY <1>0 DEF DestroyShape
<1>3. BeingSwept'
  BY <1>0 DEF BeingSwept
<1>4. NothingLeft'
  BY <1>0 DEF DestroyInv, NothingLeft
<1> QED
  BY <1>1, <1>2, <1>3, <1>4 DEF DestroyInv

-----------------------------------------------------------------------------
(* Every step keeps the types, what the restore holds, and DestroyInv.        *)

GoneInv == SnapshotTypeOK /\ BootShape /\ DestroyInv

\* The types of what Acts does not speak of.
OtherTypes ==
    /\ phase \in {"up", "persisting", "leaving", "down"} /\ togo \subseteq VoiceChannels
    /\ profile247 \in [VoiceChannels -> BOOLEAN] /\ boot \in BootStates
    /\ fresh \in Contents /\ moves \in 0 .. MaxMoves /\ starts \in 1 .. MaxStarts /\ fails \in 0 .. MaxFails
    /\ ended \in [VoiceChannels -> {"no", "going", "gone"}]

LEMMA ActsTypes ==
    ASSUME SnapshotTypeOK, NEW c \in VoiceChannels, NEW vs, Acts(c, vs), OtherTypes'
    PROVE  SnapshotTypeOK'
<1>1. writes' \in Seq(WriteStates)
  BY JoinedWrites DEF SnapshotTypeOK, Acts
<1> QED
  BY <1>1 DEF SnapshotTypeOK, OtherTypes, Acts, Released

LEMMA ActsBoot ==
    ASSUME BootShape, NEW c \in VoiceChannels, NEW vs, Acts(c, vs), boot' = boot
    PROVE  BootShape'
BY DEF BootShape, Acts

LEMMA MoveTypes ==
    ASSUME SnapshotTypeOK, Move
    PROVE  fresh' \in Contents /\ moves' \in 0 .. MaxMoves /\ starts' \in 1 .. MaxStarts /\ fails' \in 0 .. MaxFails
BY SnapshotAssumption DEF SnapshotTypeOK, Move

LEMMA SessionGone ==
    ASSUME GoneInv, NEW c \in VoiceChannels, SessionStep(c)
    PROVE  GoneInv'
<1>0. SnapshotTypeOK /\ BootShape /\ DestroyInv
  BY DEF GoneInv
<1>1. PICK vs : Acts(c, vs)
  BY <1>0, Changing DEF Changes
<1>2. session'[c].open = session[c].open
  BY <1>0, Changing DEF Changes
<1>3. boot' = boot /\ ended' = ended /\ UNCHANGED <<phase, togo>>
  BY DEF SessionStep, TrackChanges, CommandChanges, TracksAdded, QueueRunsOut, Set247, TextBound, LinkLost
<1>4. /\ fresh' \in Contents /\ moves' \in 0 .. MaxMoves /\ starts' \in 1 .. MaxStarts /\ fails' \in 0 .. MaxFails
      /\ profile247' \in [VoiceChannels -> BOOLEAN]
  <2>1. CASE TrackChanges(c) \/ CommandChanges(c) \/ TracksAdded(c)
    BY <1>0, <2>1, FreshContent DEF TrackChanges, CommandChanges, TracksAdded, SnapshotTypeOK
  <2>2. CASE QueueRunsOut(c)
    BY <1>0, <2>2 DEF QueueRunsOut, counters, SnapshotTypeOK
  <2>3. CASE Set247(c)
    <3>1. profile247' = [profile247 EXCEPT ![c] = ~profile247[c]]
      BY <2>3 DEF Set247
    <3> QED
      BY <1>0, <2>3, <3>1, MoveTypes DEF Set247, SnapshotTypeOK
  <2>4. CASE TextBound(c) \/ LinkLost(c)
    BY <1>0, <2>4, MoveTypes DEF TextBound, LinkLost, SnapshotTypeOK
  <2> QED
    BY <2>1, <2>2, <2>3, <2>4 DEF SessionStep
<1>5. OtherTypes'
  BY <1>0, <1>3, <1>4 DEF OtherTypes, SnapshotTypeOK
<1>6. SnapshotTypeOK'
  BY <1>0, <1>1, <1>5, ActsTypes
<1>7. BootShape'
  BY <1>0, <1>1, <1>3, ActsBoot
<1>8. DestroyInv'
  BY <1>0, <1>1, <1>2, <1>3, ActsDestroyed
<1> QED
  BY <1>6, <1>7, <1>8 DEF GoneInv

\* Flush and ShutdownPersists are persists.
PersistStep(c) == Flush(c) \/ ShutdownPersists(c)

LEMMA PersistOf ==
    ASSUME SnapshotTypeOK, NEW c \in VoiceChannels, PersistStep(c)
    PROVE  /\ \E vs : /\ Persists(c, vs)
                      /\ ShutdownPersists(c) /\ Worth(session[c]) =>
                            session[c].flying \/ \E i \in DOMAIN vs : Saves(vs[i], c)
           /\ UNCHANGED <<phase, profile247, boot, counters, kept, ended>>
<1>1. CASE Flush(c) /\ ~ShutdownPersists(c)
  BY <1>1, PersistActs DEF Flush, stores
<1>2. CASE ShutdownPersists(c)
  BY <1>2, PersistActs DEF ShutdownPersists, stores
<1> QED
  BY <1>1, <1>2 DEF PersistStep

LEMMA PersistGone ==
    ASSUME GoneInv, NEW c \in VoiceChannels, PersistStep(c)
    PROVE  GoneInv'
<1>0. SnapshotTypeOK /\ BootShape /\ DestroyInv
  BY DEF GoneInv
<1>1. PICK vs : Acts(c, vs) /\ session'[c].open = session[c].open
  BY <1>0, PersistOf DEF Persists
<1>2. UNCHANGED <<phase, profile247, boot, counters, ended>>
  BY <1>0, PersistOf
<1>3. togo' \subseteq VoiceChannels
  BY <1>0 DEF PersistStep, Flush, ShutdownPersists, SnapshotTypeOK
<1>4. OtherTypes'
  BY <1>0, <1>2, <1>3 DEF OtherTypes, SnapshotTypeOK, counters
<1> QED
  BY <1>0, <1>1, <1>2, <1>4, ActsTypes, ActsBoot, ActsDestroyed DEF GoneInv

LEMMA IntervalActs ==
    ASSUME SnapshotTypeOK, NEW c \in VoiceChannels, IntervalEnds(c)
    PROVE  /\ \E vs : Acts(c, vs)
           /\ session'[c] = [session[c] EXCEPT !.recent = FALSE]
           /\ session'[c].open = session[c].open
           /\ UNCHANGED <<phase, togo, gone, writes, stores, profile247, boot, counters, kept, ended>>
<1> DEFINE r == [session[c] EXCEPT !.recent = FALSE]
<1>0. session \in [VoiceChannels -> SessionStates] /\ session[c] \in SessionStates
  BY DEF SnapshotTypeOK
<1>1. r \in SessionStates /\ r.open = session[c].open /\ r.flying = session[c].flying
  BY <1>0 DEF SessionStates
<1>2. session' = [session EXCEPT ![c] = r]
  BY <1>0 DEF IntervalEnds
<1>3. UNCHANGED <<phase, togo, gone, writes, stores, profile247, boot, counters, kept, ended>>
  BY DEF IntervalEnds
<1>4. session'[c] = r
  BY <1>0, <1>1, <1>2
<1> HIDE DEF r
<1>5. \E vs : Acts(c, vs)
  BY <1>1, <1>2, <1>3, PlainActs, NothingKept DEF stores
<1> QED
  BY <1>1, <1>3, <1>4, <1>5 DEF r

LEMMA IntervalGone ==
    ASSUME GoneInv, NEW c \in VoiceChannels, IntervalEnds(c)
    PROVE  GoneInv'
<1>0. SnapshotTypeOK /\ BootShape /\ DestroyInv
  BY DEF GoneInv
<1>1. PICK vs : Acts(c, vs)
  BY <1>0, IntervalActs
<1>2. /\ session'[c].open = session[c].open
      /\ UNCHANGED <<phase, togo, gone, writes, stores, profile247, boot, counters, kept, ended>>
  BY <1>0, IntervalActs
<1>3. OtherTypes'
  BY <1>0, <1>2 DEF OtherTypes, SnapshotTypeOK, counters
<1> QED
  BY <1>0, <1>1, <1>2, <1>3, ActsTypes, ActsBoot, ActsDestroyed DEF GoneInv

LEMMA JoinGone ==
    ASSUME GoneInv, NEW c \in VoiceChannels, Join(c)
    PROVE  GoneInv'
<1>0. SnapshotTypeOK /\ BootShape /\ DestroyInv /\ ended \in [VoiceChannels -> {"no", "going", "gone"}]
  BY DEF GoneInv, SnapshotTypeOK
<1>1. PICK vs : Acts(c, vs)
  BY <1>0, JoinActs
<1>2. Move /\ ended' = [ended EXCEPT ![c] = "no"] /\ UNCHANGED <<phase, togo, profile247, boot>>
  BY DEF Join
<1>3. ended'[c] = "no" /\ ended' \in [VoiceChannels -> {"no", "going", "gone"}]
  BY <1>0, <1>2
<1>4. OtherTypes'
  BY <1>0, <1>2, <1>3, MoveTypes DEF OtherTypes, SnapshotTypeOK
<1> QED
  BY <1>0, <1>1, <1>2, <1>3, <1>4, ActsTypes, ActsBoot, ActsDestroyed DEF GoneInv

LEMMA TakeGone ==
    ASSUME GoneInv, NEW c \in VoiceChannels, TakeBinding(c)
    PROVE  GoneInv'
<1>0. SnapshotTypeOK /\ BootShape /\ DestroyInv /\ ended \in [VoiceChannels -> {"no", "going", "gone"}]
  BY DEF GoneInv, SnapshotTypeOK
<1>1. PICK vs : Acts(c, vs)
  BY <1>0, TakeActs
<1>2. /\ session'[c].open => session[c].open \/ ended'[c] = "no"
      /\ ended' = ended \/ ended' = [ended EXCEPT ![c] = "no"]
      /\ boot' \in BootStates /\ boot'.chan = c /\ boot'.step \in {"clearing", "reading", "connecting"}
      /\ boot'.mine => session'[c].open
  BY <1>0, TakeActs
<1>3. UNCHANGED <<phase, togo, profile247, counters>>
  BY DEF TakeBinding
<1>4. OtherTypes'
  BY <1>0, <1>2, <1>3 DEF OtherTypes, SnapshotTypeOK, counters
<1>5. BootShape'
  BY <1>2 DEF BootShape
<1> QED
  BY <1>0, <1>1, <1>2, <1>4, <1>5, ActsTypes, ActsDestroyed DEF GoneInv

LEMMA BootMoves ==
    ASSUME SnapshotTypeOK, BootStep
    PROVE  /\ boot' \in BootStates /\ boot'.chan = boot.chan /\ boot'.mine = boot.mine
           /\ boot'.content = boot.content
           /\ boot'.step \in {"reading", "clearing", "failed", "syncing", "waiting"}
           /\ boot'.step = "syncing" => boot.step = "resolving"
           /\ boot.step \in {"connecting", "resolving", "syncing"}
           /\ Alive /\ UNCHANGED <<phase, togo, profile247, moves, starts, fails, ended>>
           /\ fresh' \in Contents
<1>1. boot \in BootStates
  BY DEF SnapshotTypeOK
<1>2. PICK s \in {"reading", "clearing", "failed", "syncing", "waiting"} : boot' = [boot EXCEPT !.step = s]
  BY DEF BootStep, RestoreConnected, RestoreFails, Restored, RestoreSyncs
<1>3. /\ boot' \in BootStates /\ boot'.chan = boot.chan /\ boot'.mine = boot.mine
      /\ boot'.content = boot.content /\ boot'.step = s
  BY <1>1, <1>2 DEF BootStates, Steps
<1>4. s = "syncing" => boot.step = "resolving"
  BY <1>1, <1>2, <1>3 DEF BootStep, RestoreConnected, RestoreFails, Restored, RestoreSyncs, Restoring, BootStates
<1>5. boot.step \in {"connecting", "resolving", "syncing"} /\ Alive
      /\ UNCHANGED <<phase, togo, profile247, moves, starts, fails, ended>>
  BY DEF BootStep, RestoreConnected, RestoreFails, Restored, RestoreSyncs, Restoring, counters
<1>6. fresh' \in Contents
  BY FreshContent DEF BootStep, RestoreConnected, RestoreFails, Restored, RestoreSyncs, counters, SnapshotTypeOK
<1> QED
  BY <1>3, <1>4, <1>5, <1>6

LEMMA BootGone ==
    ASSUME GoneInv, BootStep
    PROVE  GoneInv'
<1> DEFINE c == boot.chan
<1>0. SnapshotTypeOK /\ BootShape /\ DestroyInv
  BY DEF GoneInv
<1>1. c \in VoiceChannels /\ session'[c].open = session[c].open /\ \E vs : Acts(c, vs)
  BY <1>0, BootActs DEF BootActed
<1>2. PICK vs : Acts(c, vs)
  BY <1>1
<1>3. /\ boot' \in BootStates /\ boot'.chan = c /\ boot'.mine = boot.mine
      /\ boot'.step \in {"reading", "clearing", "failed", "syncing", "waiting"}
      /\ UNCHANGED <<phase, togo, profile247, moves, starts, fails, ended>> /\ fresh' \in Contents
  BY <1>0, BootMoves
<1>4. OtherTypes'
  BY <1>0, <1>3 DEF OtherTypes, SnapshotTypeOK
<1>5. BootShape'
  BY <1>0, <1>1, <1>3 DEF BootShape
<1>6. SnapshotTypeOK'
  BY <1>0, <1>1, <1>2, <1>4, ActsTypes
<1>7. DestroyInv'
  BY <1>0, <1>1, <1>2, <1>3, ActsDestroyed
<1> QED
  BY <1>5, <1>6, <1>7 DEF GoneInv

-----------------------------------------------------------------------------
\* A step of which sessions, writes and stores know nothing.
LEMMA QuietGone ==
    ASSUME GoneInv, UNCHANGED <<session, gone, writes, snap, bound, ended>>, OtherTypes', BootShape',
           kept' \in [VoiceChannels -> Contents \cup {Nothing}]
    PROVE  GoneInv'
<1>1. SnapshotTypeOK'
  BY DEF GoneInv, SnapshotTypeOK, OtherTypes
<1>2. DestroyInv'
  BY DEF GoneInv, DestroyInv, DestroyedIsClosed, DestroyShape, BeingSwept, NothingLeft
<1> QED
  BY <1>1, <1>2 DEF GoneInv

LEMMA ListedGone ==
    ASSUME GoneInv, Listed \/ RestoreEnds \/ SnapshotRead
    PROVE  GoneInv'
<1>0. SnapshotTypeOK /\ BootShape /\ boot \in BootStates
  BY DEF GoneInv, SnapshotTypeOK
<1>1. UNCHANGED <<phase, togo, session, gone, writes, snap, bound, profile247, counters, kept, ended>>
  BY DEF Listed, RestoreEnds, SnapshotRead, stores
<1>2. boot' \in BootStates /\ BootShape'
  <2>1. CASE Listed
    <3>1. PICK list \in {bound, {}} : boot' = [boot EXCEPT !.step = "next", !.todo = list]
      BY <2>1 DEF Listed
    <3>2. list \subseteq VoiceChannels /\ boot.step = "listing"
      BY <1>0, <2>1 DEF SnapshotTypeOK, Listed, Restoring
    <3>3. boot' \in BootStates /\ boot'.step = "next" /\ boot'.mine = boot.mine
      BY <1>0, <3>1, <3>2 DEF BootStates, Steps
    <3> QED
      BY <1>0, <3>2, <3>3 DEF BootShape
  <2>2. CASE RestoreEnds
    <3>1. boot' = Off
      BY <2>2 DEF RestoreEnds
    <3> QED
      BY <3>1 DEF BootShape, BootStates, Off, Steps
  <2>3. CASE SnapshotRead
    <3> DEFINE x == snap[boot.chan]
               s == IF boot.mine /\ x \notin {Nothing, 0} THEN "resolving" ELSE "syncing"
    <3>1. boot' = [boot EXCEPT !.content = x, !.step = s]
      BY <2>3 DEF SnapshotRead
    <3>2. boot.step = "reading" /\ boot.chan \in VoiceChannels
      BY <1>0, <2>3 DEF SnapshotRead, Restoring, BootShape
    <3>3. x \in Contents \cup {Nothing} /\ s \in {"resolving", "syncing"} /\ (s = "resolving" => x \in Contents)
      BY <1>0, <3>2 DEF SnapshotTypeOK
    <3> HIDE DEF x, s
    <3>4. boot' \in BootStates /\ boot'.step = s /\ boot'.content = x /\ boot'.chan = boot.chan /\ boot'.mine = boot.mine
      BY <1>0, <3>1, <3>3 DEF BootStates, Steps
    <3> QED
      BY <1>0, <1>1, <3>2, <3>3, <3>4 DEF BootShape
  <2> QED
    BY <2>1, <2>2, <2>3
<1>3. OtherTypes' /\ kept' \in [VoiceChannels -> Contents \cup {Nothing}]
  BY <1>0, <1>1, <1>2 DEF OtherTypes, SnapshotTypeOK, counters
<1> QED
  BY <1>1, <1>2, <1>3, QuietGone

LEMMA PhaseGone ==
    ASSUME GoneInv, Shutdown \/ Start
    PROVE  GoneInv'
<1>0. SnapshotTypeOK /\ BootShape
  BY DEF GoneInv
<1>1. UNCHANGED <<session, gone, writes, snap, bound, profile247, fresh, moves, fails, ended>>
  BY DEF Shutdown, Start, stores, counters
<1>2. CASE Shutdown
  <2>1. phase' \in {"leaving", "persisting"} /\ togo' \subseteq VoiceChannels /\ UNCHANGED <<boot, starts>>
    BY <1>2 DEF Shutdown, OpenChannels, counters
  <2>2. kept' \in [VoiceChannels -> Contents \cup {Nothing}]
    <3>1. \A c \in VoiceChannels : session[c].content \in Contents
      BY <1>0 DEF SnapshotTypeOK, SessionStates
    <3> QED
      BY <1>2, <3>1 DEF Shutdown
  <2>3. OtherTypes' /\ BootShape'
    BY <1>0, <1>1, <2>1 DEF OtherTypes, SnapshotTypeOK, BootShape
  <2> QED
    BY <1>1, <2>2, <2>3, QuietGone
<1>3. CASE Start
  <2>1. phase' = "up" /\ UNCHANGED <<togo, kept>> /\ starts' \in 1 .. MaxStarts
    BY <1>0, <1>3, SnapshotAssumption DEF Start, SnapshotTypeOK
  <2>2. boot' = [Off EXCEPT !.step = "listing"]
    BY <1>3 DEF Start
  <2>3. boot' \in BootStates /\ BootShape'
    BY <2>2 DEF BootShape, BootStates, Off, Steps
  <2>4. OtherTypes' /\ kept' \in [VoiceChannels -> Contents \cup {Nothing}]
    BY <1>0, <1>1, <2>1, <2>3 DEF OtherTypes, SnapshotTypeOK
  <2> QED
    BY <1>1, <2>3, <2>4, QuietGone
<1> QED
  BY <1>2, <1>3

\* destroy() up to its await, and the end of a session in shutdown().
LEMMA DestroyTypes ==
    ASSUME SnapshotTypeOK, NEW c \in VoiceChannels, NEW by \in Destroyers, Destroy(c, by)
    PROVE  /\ session' \in [VoiceChannels -> SessionStates] /\ \A d \in VoiceChannels \ {c} : session'[d] = session[d]
           /\ kept' \in [VoiceChannels -> Contents \cup {Nothing}]
           /\ kept'[c] = Nothing /\ \A d \in VoiceChannels \ {c} : kept'[d] = kept[d]
           /\ gone' \subseteq [chan : VoiceChannels, by : Waiters]
           /\ \A g \in gone' : g \in gone \/ g.chan = c
           /\ ended' \in [VoiceChannels -> {"no", "going", "gone"}]
<1>1. /\ session' = [session EXCEPT ![c] = Closed] /\ kept' = [kept EXCEPT ![c] = Nothing]
      /\ gone' = gone \cup {[chan |-> c, by |-> by]} /\ ended' = [ended EXCEPT ![c] = "going"]
  BY DEF Destroy
<1>2. [chan |-> c, by |-> by] \in [chan : VoiceChannels, by : Waiters] /\ [chan |-> c, by |-> by].chan = c
  BY DEF Destroyers, Waiters
<1> QED
  BY <1>1, <1>2, OpenedTypes DEF SnapshotTypeOK

LEMMA NotMine ==
    ASSUME SnapshotTypeOK, NEW s \in Steps
    PROVE  /\ LET b == [boot EXCEPT !.mine = FALSE]
              IN  b \in BootStates /\ b.chan = boot.chan /\ b.step = boot.step /\ b.content = boot.content /\ ~b.mine
           /\ LET b == [boot EXCEPT !.step = s, !.mine = FALSE]
              IN  b \in BootStates /\ b.chan = boot.chan /\ b.step = s /\ b.content = boot.content /\ ~b.mine
BY DEF SnapshotTypeOK, BootStates

\* Taken from the table, the session is the restore's no longer.
LEMMA BootLeft ==
    ASSUME SnapshotTypeOK, BootShape, NEW c \in VoiceChannels,
           \A d \in VoiceChannels \ {c} : session'[d] = session[d],
           boot' = IF boot.chan = c THEN [boot EXCEPT !.mine = FALSE] ELSE boot
    PROVE  /\ boot' \in BootStates /\ BootShape'
           /\ boot'.chan = boot.chan /\ boot'.step = boot.step /\ boot'.content = boot.content
<1>0. boot \in BootStates /\ "off" \in Steps
  BY DEF SnapshotTypeOK, Steps
<1>1. CASE boot.chan = c
  <2>1. /\ boot' \in BootStates /\ boot'.chan = boot.chan /\ boot'.step = boot.step
        /\ boot'.content = boot.content /\ ~boot'.mine
    BY <1>0, <1>1, NotMine
  <2> QED
    BY <2>1 DEF BootShape
<1>2. CASE boot.chan # c
  BY <1>0, <1>2 DEF BootShape
<1> QED
  BY <1>1, <1>2

LEMMA LeaveGone ==
    ASSUME GoneInv, NEW c \in VoiceChannels, LeaveChannel(c)
    PROVE  GoneInv'
<1>0. SnapshotTypeOK /\ BootShape /\ DestroyInv /\ "destroy" \in Destroyers
  BY DEF GoneInv, Destroyers
<1>1. /\ Move /\ Destroy(c, "destroy") /\ writes' = Orphaned(c)
      /\ boot' = IF boot.chan = c THEN [boot EXCEPT !.mine = FALSE] ELSE boot
      /\ UNCHANGED <<phase, togo, snap, bound, profile247>>
  BY DEF LeaveChannel, stores
<1>2. /\ session' \in [VoiceChannels -> SessionStates] /\ \A d \in VoiceChannels \ {c} : session'[d] = session[d]
      /\ kept' \in [VoiceChannels -> Contents \cup {Nothing}] /\ gone' \subseteq [chan : VoiceChannels, by : Waiters]
      /\ ended' \in [VoiceChannels -> {"no", "going", "gone"}]
  BY <1>0, <1>1, DestroyTypes
<1>3. boot' \in BootStates /\ BootShape'
  BY <1>0, <1>1, <1>2, BootLeft
<1>4. SnapshotTypeOK'
  BY <1>0, <1>1, <1>2, <1>3, MoveTypes, OrphanedOf DEF SnapshotTypeOK
<1>5. DestroyInv'
  BY <1>0, <1>1, DestroyDestroyed
<1> QED
  BY <1>3, <1>4, <1>5 DEF GoneInv

LEMMA UndoneGone ==
    ASSUME GoneInv, RestoreUndone
    PROVE  GoneInv'
<1> DEFINE c == boot.chan
<1>0. SnapshotTypeOK /\ BootShape /\ DestroyInv /\ "undo" \in Destroyers /\ "waiting" \in Steps /\ c \in VoiceChannels
  BY DEF GoneInv, Destroyers, Steps, RestoreUndone, Restoring, BootShape
<1>1. UNCHANGED <<phase, togo, snap, bound, profile247, counters>>
  BY DEF RestoreUndone, stores
<1>2. CASE boot.undo /\ session[c].open
  <2>1. Destroy(c, "undo") /\ writes' = Orphaned(c) /\ boot' = [boot EXCEPT !.step = "waiting", !.mine = FALSE]
    BY <1>2 DEF RestoreUndone
  <2>2. /\ session' \in [VoiceChannels -> SessionStates]
        /\ kept' \in [VoiceChannels -> Contents \cup {Nothing}] /\ gone' \subseteq [chan : VoiceChannels, by : Waiters]
        /\ ended' \in [VoiceChannels -> {"no", "going", "gone"}]
    BY <1>0, <2>1, DestroyTypes
  <2>3. boot' \in BootStates /\ boot'.chan = c /\ boot'.step = "waiting" /\ ~boot'.mine
    BY <1>0, <2>1, NotMine
  <2>4. BootShape'
    BY <1>0, <2>3 DEF BootShape
  <2>5. SnapshotTypeOK'
    BY <1>0, <1>1, <2>1, <2>2, <2>3, OrphanedOf DEF SnapshotTypeOK, counters
  <2>6. DestroyInv'
    BY <1>0, <1>1, <2>1, DestroyDestroyed
  <2> QED
    BY <2>4, <2>5, <2>6 DEF GoneInv
<1>3. CASE ~(boot.undo /\ session[c].open)
  <2>1. NextBinding /\ UNCHANGED <<session, gone, kept, ended, writes>>
    BY <1>3 DEF RestoreUndone
  <2>2. boot' \in BootStates /\ boot'.step = "next" /\ ~boot'.mine
    BY <1>0, <2>1, NextBindingOf
  <2>3. BootShape'
    BY <2>2 DEF BootShape
  <2>4. OtherTypes' /\ kept' \in [VoiceChannels -> Contents \cup {Nothing}]
    BY <1>0, <1>1, <2>1, <2>2 DEF OtherTypes, SnapshotTypeOK, counters
  <2> QED
    BY <1>1, <2>1, <2>3, <2>4, QuietGone
<1> QED
  BY <1>2, <1>3

LEMMA ShutdownLeavesGone ==
    ASSUME GoneInv, NEW c \in VoiceChannels, ShutdownLeaves(c)
    PROVE  GoneInv'
<1>0. SnapshotTypeOK /\ BootShape /\ DestroyInv /\ session \in [VoiceChannels -> SessionStates]
  BY DEF GoneInv, SnapshotTypeOK
<1>1. /\ session' = [session EXCEPT ![c] = Closed] /\ writes' = Orphaned(c) /\ togo' = togo \ {c}
      /\ boot' = IF boot.chan = c THEN [boot EXCEPT !.mine = FALSE] ELSE boot
      /\ UNCHANGED <<phase, gone, snap, bound, profile247, counters, kept, ended>>
  BY DEF ShutdownLeaves, stores
<1>2. session' \in [VoiceChannels -> SessionStates] /\ \A d \in VoiceChannels \ {c} : session'[d] = session[d]
  BY <1>0, <1>1, OpenedTypes
<1>3. boot' \in BootStates /\ BootShape'
  BY <1>0, <1>1, <1>2, BootLeft
<1>4. SnapshotTypeOK'
  BY <1>0, <1>1, <1>2, <1>3, OrphanedOf DEF SnapshotTypeOK, counters
<1>5. DestroyInv'
  BY <1>0, LeavesDestroyed
<1> QED
  BY <1>3, <1>4, <1>5 DEF GoneInv

LEMMA DeletesGone ==
    ASSUME GoneInv, NEW g \in gone, DestroyDeletes(g)
    PROVE  GoneInv'
<1>0. SnapshotTypeOK /\ BootShape /\ DestroyInv /\ g.chan \in VoiceChannels /\ g.by \in Waiters
  BY DEF GoneInv, SnapshotTypeOK
<1>1. /\ gone' = gone \ {g} /\ writes' = Append(writes, Write("delete", g.chan, g.by))
      /\ UNCHANGED <<phase, togo, session, snap, bound, profile247, boot, counters, kept, ended>>
  BY DEF DestroyDeletes, stores
<1>2. Write("delete", g.chan, g.by) \in WriteStates
  BY <1>0, WriteOf
<1>3. SnapshotTypeOK'
  BY <1>0, <1>1, <1>2 DEF SnapshotTypeOK, counters
<1>4. BootShape'
  BY <1>0, <1>1 DEF BootShape
<1>5. DestroyInv'
  BY <1>0, DeletesDestroyed
<1> QED
  BY <1>3, <1>4, <1>5 DEF GoneInv

LEMMA AnswersGone ==
    ASSUME GoneInv, NEW ok \in BOOLEAN, ok => Applied, ~ok => Fails
    PROVE  GoneInv'
<1> DEFINE w == Head(writes)
<1>0. SnapshotTypeOK /\ BootShape /\ DestroyInv
  BY DEF GoneInv
<1>1. writes # <<>> /\ TakesEffect(w, ok) /\ UNCHANGED <<phase, togo, profile247>>
  BY <1>0, AnswerOf
<1>2. PICK vs : Answers(w, ok, vs)
  BY <1>0, AnswerOf
<1>3. w.list \subseteq VoiceChannels /\ Tail(writes) \in Seq(WriteStates)
  BY <1>0, <1>1, HeadWrite
<1> HIDE DEF w
<1>4. writes' \in Seq(WriteStates)
  BY <1>2, <1>3, JoinedWrites DEF Answers
<1>5. fails' \in 0 .. MaxFails /\ UNCHANGED <<fresh, moves, starts>> /\ kept' \in [VoiceChannels -> Contents \cup {Nothing}]
  <2>1. CASE ok
    BY <1>0, <2>1 DEF SnapshotTypeOK, Applied, counters
  <2>2. CASE ~ok
    <3>1. fails \in 0 .. MaxFails /\ MaxFails \in Nat
      BY <1>0, SnapshotAssumption DEF SnapshotTypeOK
    <3> QED
      BY <2>2, <3>1 DEF Fails
  <2> QED
    BY <2>1, <2>2
<1>6. boot' \in BootStates
  BY <1>0, <1>2 DEF Answers, NextBoot, SnapshotTypeOK
<1>7. snap' \in [VoiceChannels -> Contents \cup {Nothing}] /\ bound' \subseteq VoiceChannels
  BY <1>0, <1>1, <1>3 DEF TakesEffect, SnapshotTypeOK
<1>8. SnapshotTypeOK'
  BY <1>0, <1>1, <1>2, <1>4, <1>5, <1>6, <1>7 DEF SnapshotTypeOK, Answers
<1>9. BootShape'
  BY <1>0, <1>2 DEF Answers, NextBoot, BootShape, SameSession
<1>10. DestroyInv'
  BY <1>0, AnswersDestroyed
<1> QED
  BY <1>8, <1>9, <1>10 DEF GoneInv

LEMMA SyncsGone ==
    ASSUME GoneInv, ShutdownSyncs
    PROVE  GoneInv'
<1> DEFINE w == Sync(session, "nobody")
           vs == Hold(<<w>>)
<1>0. SnapshotTypeOK /\ BootShape /\ DestroyInv /\ session \in [VoiceChannels -> SessionStates] /\ "nobody" \in Waiters
  BY DEF GoneInv, SnapshotTypeOK, Waiters
<1>1. /\ phase' = "leaving" /\ togo' \subseteq VoiceChannels /\ writes' = writes \o vs
      /\ UNCHANGED <<session, gone, snap, bound, profile247, boot, counters, kept, ended>>
  BY DEF ShutdownSyncs, stores, OpenChannels
<1>2. w \in WriteStates /\ w.kind = "sync" /\ w.chan = Nothing /\ w.by = "nobody" /\ \A d \in w.list : session[d].open
  BY <1>0, SyncOf
<1> HIDE DEF w
<1>3. <<w>> \in Seq(WriteStates) /\ DOMAIN <<w>> = {1} /\ <<w>>[1] = w
  BY <1>2, OneWrite
<1>4. /\ vs \in Seq(WriteStates)
      /\ \A i \in DOMAIN vs : vs[i].kind = "sync" /\ vs[i].by = "nobody" /\ \A d \in vs[i].list : session[d].open
  BY <1>2, <1>3, HoldOf
<1> HIDE DEF vs
<1>5. Sends(vs)
  BY <1>1, <1>4 DEF Sends, Destroyers
<1>6. SnapshotTypeOK'
  BY <1>0, <1>1, <1>4, JoinedWrites DEF SnapshotTypeOK, counters
<1>7. BootShape'
  BY <1>0, <1>1 DEF BootShape
<1>8. DestroyInv'
  <2>1. DestroyedIsClosed'
    BY <1>0, <1>1 DEF DestroyInv, DestroyedIsClosed
  <2> QED
    BY <1>0, <1>1, <1>5, <2>1, SendsDestroyed
<1> QED
  BY <1>6, <1>7, <1>8 DEF GoneInv

LEMMA StoppedGone ==
    ASSUME GoneInv, ShutdownDone \/ Crash
    PROVE  GoneInv'
<1>0. SnapshotTypeOK /\ BootShape /\ DestroyInv
  BY DEF GoneInv
<1>1. Stopped
  BY DEF ShutdownDone, Crash
<1>2. kept' \in [VoiceChannels -> Contents \cup {Nothing}]
  BY <1>0 DEF ShutdownDone, Crash, SnapshotTypeOK
<1>3. boot' = Off /\ Off \in BootStates
  BY <1>1 DEF Stopped, Off, BootStates, Steps
<1>4. session' \in [VoiceChannels -> SessionStates]
  BY <1>0, <1>1, OpenedTypes DEF Stopped
<1>5. ended' \in [VoiceChannels -> {"no", "going", "gone"}]
  BY <1>0, <1>1 DEF Stopped, SnapshotTypeOK
<1>6. SnapshotTypeOK'
  BY <1>0, <1>1, <1>2, <1>3, <1>4, <1>5, NoWrite DEF Stopped, SnapshotTypeOK, stores, counters
<1>7. BootShape'
  BY <1>3 DEF BootShape, Off
<1>8. DestroyInv'
  BY <1>0, <1>1, StoppedDestroyed
<1> QED
  BY <1>6, <1>7, <1>8 DEF GoneInv
-----------------------------------------------------------------------------
LEMMA SnapshotStart == SnapshotInit => GoneInv
<1> SUFFICES ASSUME SnapshotInit PROVE GoneInv
  OBVIOUS
<1>1. 0 \in Contents /\ 0 \in 0 .. MaxMoves /\ 0 \in 0 .. MaxFails /\ 1 \in 1 .. MaxStarts
  BY SnapshotAssumption DEF Contents
<1>2. Closed \in SessionStates /\ ~Closed.open
  BY <1>1 DEF Closed, SessionStates
<1>3. Off \in BootStates /\ Off.step = "off" /\ ~Off.mine
  BY DEF Off, BootStates, Steps
<1>4. SnapshotTypeOK
  BY <1>1, <1>2, <1>3, NoWrite DEF SnapshotInit, SnapshotTypeOK
<1>5. BootShape
  BY <1>3 DEF SnapshotInit, BootShape
<1>6. DestroyInv
  BY NoWrite DEF SnapshotInit, DestroyInv, DestroyedIsClosed, DestroyShape, BeingSwept, NothingLeft
<1> QED
  BY <1>4, <1>5, <1>6 DEF GoneInv

LEMMA SnapshotStep == GoneInv /\ [SnapshotNext]_snapshotVars => GoneInv'
<1> SUFFICES ASSUME GoneInv, [SnapshotNext]_snapshotVars PROVE GoneInv'
  OBVIOUS
<1>1. CASE UNCHANGED snapshotVars
  BY <1>1 DEF snapshotVars, stores, counters, GoneInv, SnapshotTypeOK, BootShape, DestroyInv,
              DestroyedIsClosed, DestroyShape, BeingSwept, NothingLeft
<1>2. ASSUME NEW c \in VoiceChannels,
             \/ TrackChanges(c) \/ CommandChanges(c) \/ TracksAdded(c) \/ QueueRunsOut(c)
             \/ Set247(c) \/ TextBound(c) \/ LinkLost(c) \/ Flush(c) \/ IntervalEnds(c)
             \/ Join(c) \/ LeaveChannel(c) \/ ShutdownPersists(c) \/ ShutdownLeaves(c)
      PROVE  GoneInv'
  <2>1. CASE SessionStep(c)
    BY <2>1, SessionGone
  <2>2. CASE Flush(c) \/ ShutdownPersists(c)
    BY <2>2, PersistGone DEF PersistStep
  <2>3. CASE IntervalEnds(c)
    BY <2>3, IntervalGone
  <2>4. CASE Join(c)
    BY <2>4, JoinGone
  <2>5. CASE LeaveChannel(c)
    BY <2>5, LeaveGone
  <2>6. CASE ShutdownLeaves(c)
    BY <2>6, ShutdownLeavesGone
  <2> QED
    BY <1>2, <2>1, <2>2, <2>3, <2>4, <2>5, <2>6 DEF SessionStep
<1>3. CASE \E g \in gone : DestroyDeletes(g)
  BY <1>3, DeletesGone
<1>4. CASE Applied
  BY <1>4, AnswersGone
<1>5. CASE Fails
  BY <1>5, AnswersGone
<1>6. CASE Restore
  <2>1. CASE BootStep
    BY <2>1, BootGone
  <2>2. CASE Listed \/ RestoreEnds \/ SnapshotRead
    BY <2>2, ListedGone
  <2>3. CASE RestoreUndone
    BY <2>3, UndoneGone
  <2>4. CASE \E c \in VoiceChannels : TakeBinding(c)
    BY <2>4, TakeGone
  <2> QED
    BY <1>6, <2>1, <2>2, <2>3, <2>4 DEF Restore, BootStep
<1>7. CASE Shutdown \/ Start
  BY <1>7, PhaseGone
<1>8. CASE ShutdownSyncs
  BY <1>8, SyncsGone
<1>9. CASE ShutdownDone \/ Crash
  BY <1>9, StoppedGone
<1> QED
  BY <1>1, <1>2, <1>3, <1>4, <1>5, <1>6, <1>7, <1>8, <1>9 DEF SnapshotNext

LEMMA SnapshotInvariance == SnapshotSpec => []GoneInv
BY SnapshotStart, SnapshotStep, PTL DEF SnapshotSpec

\* test/session247Persistence.test.ts: a session that was destroyed leaves no binding and
\* no snapshot, whatever was written before, during and after its destroy().
THEOREM DestroyedForGood == SnapshotSpec => []DestroyedStaysGone
<1>1. GoneInv => DestroyedStaysGone
  BY DEF GoneInv, DestroyInv, NothingLeft, DestroyedStaysGone
<1> QED
  BY <1>1, SnapshotInvariance, PTL

-----------------------------------------------------------------------------
(* What an orderly shutdown promised to keep.                               *)

AtLeast(x, k) == x # Nothing /\ x >= k
Coming(c) == AtLeast(snap[c], kept[c]) \/ \E i \in DOMAIN writes : Stores(writes[i], c)

\* Nothing under way takes away what is kept for c.
Unharmed(c) ==
    /\ \A g \in gone : g.chan # c
    /\ \A i \in DOMAIN writes : writes[i].chan = c => Stores(writes[i], c) /\ writes[i].content >= kept[c]

\* A session r that has nothing to store yet, or what is kept.
Good(r, k) == r.open => (~r.dirty /\ r.content = 0) \/ Fits(r, k)

\* The last synchronisation that shutdown() awaits is answered, or is the last write.
Bound(c) ==
    \/ writes = <<>> /\ c \in bound
    \/ /\ writes # <<>> /\ writes[Len(writes)].held /\ writes[Len(writes)].kind = "sync"
       /\ c \in writes[Len(writes)].list

ReadsBack(c) == boot.chan = c /\ boot.step \in {"resolving", "syncing"}

Promised(c) ==
    /\ phase # "down" => Unharmed(c)
    /\ phase = "up" => /\ AtLeast(snap[c], kept[c]) /\ Good(session[c], kept[c])
                       /\ ReadsBack(c) => AtLeast(boot.content, kept[c])
    /\ phase = "persisting" => /\ Fits(session[c], kept[c]) /\ session[c].linked
                               /\ c \notin togo => Coming(c)
    /\ phase = "leaving" => AtRest /\ Coming(c) /\ Bound(c)
    /\ phase = "down" => c \in bound /\ AtLeast(snap[c], kept[c])

Flying == \A c \in VoiceChannels : session[c].flying => \E i \in DOMAIN writes : Saves(writes[i], c)
AtDown == phase = "down" => writes = <<>> /\ gone = {} /\ session = [c \in VoiceChannels |-> Closed]
Promises == \A c \in VoiceChannels : kept[c] # Nothing => Promised(c)

KeptInv == GoneInv /\ Flying /\ AtDown /\ Promises

LEMMA ActsFlying ==
    ASSUME SnapshotTypeOK, Flying, NEW c \in VoiceChannels, NEW vs, Acts(c, vs)
    PROVE  Flying'
<1> SUFFICES ASSUME NEW d \in VoiceChannels, session'[d].flying
             PROVE  \E i \in DOMAIN writes' : Saves(writes'[i], d)
  BY DEF Flying
<1>0. writes \in Seq(WriteStates) /\ vs \in Seq(WriteStates) /\ writes' = writes \o vs
  BY DEF SnapshotTypeOK, Acts
<1>1. CASE session[d].flying
  <2>1. PICK i \in DOMAIN writes : Saves(writes[i], d)
    BY <1>1 DEF Flying
  <2> QED
    BY <1>0, <2>1, JoinedWrites
<1>2. CASE ~session[d].flying
  <2>1. d = c /\ \E i \in DOMAIN vs : Saves(vs[i], c)
    BY <1>2 DEF Acts
  <2>2. PICK i \in DOMAIN vs : Saves(vs[i], c)
    BY <2>1
  <2>3. Len(writes) + i \in DOMAIN writes' /\ writes'[Len(writes) + i] = vs[i]
    BY <1>0, JoinedWrites
  <2> QED
    BY <2>1, <2>2, <2>3
<1> QED
  BY <1>1, <1>2

\* The promise of any channel d, when the session of c acts while the process is up or
\* begins to shut down.
Keeps(c, vs) ==
    /\ \A i \in DOMAIN vs : vs[i].chan = c => Stores(vs[i], c) /\ vs[i].content >= kept'[c]
    /\ phase = "up" => Good(session'[c], kept'[c])
    /\ phase = "persisting" => Fits(session'[c], kept'[c]) /\ session'[c].linked

LEMMA ActsPromised ==
    ASSUME GoneInv, Promises, NEW c \in VoiceChannels, NEW vs, Acts(c, vs),
           phase' = phase, phase \in {"up", "persisting"},
           NEW d \in VoiceChannels, kept'[d] # Nothing, d = c => Keeps(c, vs),
           ReadsBack(d)' => ReadsBack(d) /\ boot'.content = boot.content,
           d \notin togo' => d \notin togo \/ \E i \in DOMAIN writes' : Stores(writes'[i], d)
    PROVE  Promised(d)'
<1>0. SnapshotTypeOK
  BY DEF GoneInv
<1>1. writes \in Seq(WriteStates) /\ vs \in Seq(WriteStates) /\ writes' = writes \o vs /\ d # Nothing
  BY <1>0, SnapshotAssumption DEF SnapshotTypeOK, Acts
<1>2. kept'[d] = kept[d] /\ UNCHANGED <<gone, snap, bound>>
  BY DEF Acts, Released
<1>3. Promised(d)
  BY <1>2 DEF Promises
<1>4. Unharmed(d)'
  <2>1. \A i \in DOMAIN writes' : \/ i \in DOMAIN writes /\ writes'[i] = writes[i]
                                 \/ \E j \in DOMAIN vs : writes'[i] = vs[j]
    BY <1>1, JoinedWrites
  <2>2. \A j \in DOMAIN vs : vs[j].chan = d => Stores(vs[j], d) /\ vs[j].content >= kept'[d]
    BY <1>1 DEF Acts, Honest, Keeps
  <2> QED
    BY <1>2, <1>3, <2>1, <2>2 DEF Unharmed, Promised
<1>5. d # c => session'[d] = session[d]
  BY DEF Acts
<1>6. CASE phase = "up"
  BY <1>2, <1>3, <1>4, <1>5, <1>6 DEF Promised, Keeps
<1>7. CASE phase = "persisting"
  <2>1. Coming(d) => Coming(d)'
    <3>1. \A i \in DOMAIN writes : i \in DOMAIN writes' /\ writes'[i] = writes[i]
      BY <1>1, JoinedWrites
    <3> QED
      BY <1>2, <3>1 DEF Coming
  <2>2. d \notin togo' => Coming(d)'
    BY <1>3, <1>7, <2>1 DEF Promised, Coming
  <2> QED
    BY <1>2, <1>3, <1>4, <1>5, <1>7, <2>2 DEF Promised, Keeps
<1> QED
  BY <1>6, <1>7

\* The writes of an act are good for what is kept, when the session is.
LEMMA FitsKeeps ==
    ASSUME NEW c \in VoiceChannels, NEW vs, Acts(c, vs), kept'[c] # Nothing,
           Fits(session'[c], kept'[c]), phase = "persisting" => session'[c].linked
    PROVE  Keeps(c, vs)
BY DEF Acts, Honest, Keeps, Good, Fits, Stores

\* What every step shows that is one of a session c.
LEMMA ActsKept ==
    ASSUME KeptInv, GoneInv', NEW c \in VoiceChannels, NEW vs, Acts(c, vs),
           phase' = phase, phase \in {"up", "persisting"},
           kept'[c] # Nothing => Keeps(c, vs),
           \A d \in VoiceChannels : kept'[d] # Nothing /\ ReadsBack(d)' => ReadsBack(d) /\ boot'.content = boot.content,
           togo' = togo \/ (togo' = togo \ {c} /\ (kept'[c] # Nothing => \E i \in DOMAIN writes' : Stores(writes'[i], c)))
    PROVE  KeptInv'
<1>1. GoneInv /\ SnapshotTypeOK /\ Flying /\ Promises
  BY DEF KeptInv, GoneInv
<1>2. Flying'
  BY <1>1, ActsFlying
<1>3. AtDown'
  BY DEF AtDown
<1>4. ASSUME NEW d \in VoiceChannels, kept'[d] # Nothing PROVE Promised(d)'
  <2>1. d \notin togo' => d \notin togo \/ \E i \in DOMAIN writes' : Stores(writes'[i], d)
    BY <1>4
  <2> QED
    BY <1>1, <1>4, <2>1, ActsPromised
<1> QED
  BY <1>2, <1>3, <1>4 DEF KeptInv, Promises

LEMMA AlivePhase ==
    ASSUME QuietEnd, SnapshotTypeOK, Alive
    PROVE  phase \in {"up", "persisting"}
BY DEF SnapshotTypeOK, Alive

LEMMA SessionKept ==
    ASSUME QuietEnd, KeptInv, GoneInv', NEW c \in VoiceChannels, SessionStep(c)
    PROVE  KeptInv'
<1>0. SnapshotTypeOK
  BY DEF KeptInv, GoneInv
<1>1. PICK vs : Acts(c, vs)
  BY <1>0, Changing DEF Changes
<1>2. kept'[c] # Nothing => Fits(session'[c], kept'[c]) /\ session'[c].linked
  BY <1>0, Changing DEF Changes
<1>3. Alive /\ phase' = phase /\ togo' = togo /\ boot' = boot
  BY DEF SessionStep, TrackChanges, CommandChanges, TracksAdded, QueueRunsOut, Set247, TextBound, LinkLost, Here
<1>4. kept'[c] # Nothing => Keeps(c, vs)
  BY <1>1, <1>2, FitsKeeps
<1>5. \A d \in VoiceChannels : ReadsBack(d)' => ReadsBack(d) /\ boot'.content = boot.content
  BY <1>3 DEF ReadsBack
<1> QED
  BY <1>0, <1>1, <1>3, <1>4, <1>5, AlivePhase, ActsKept

LEMMA PersistKept ==
    ASSUME QuietEnd, KeptInv, GoneInv', NEW c \in VoiceChannels, PersistStep(c)
    PROVE  KeptInv'
<1>0. SnapshotTypeOK /\ Flying /\ Promises
  BY DEF KeptInv, GoneInv
<1>1. PICK vs : /\ Persists(c, vs)
                /\ ShutdownPersists(c) /\ Worth(session[c]) =>
                      session[c].flying \/ \E i \in DOMAIN vs : Saves(vs[i], c)
  BY <1>0, PersistOf
<1>2. phase' = phase /\ boot' = boot /\ kept' = kept /\ phase \in {"up", "persisting"}
  <2>1. Flush(c) => Alive
    BY DEF Flush
  <2>2. ShutdownPersists(c) => phase = "persisting"
    BY DEF ShutdownPersists
  <2> QED
    BY <1>0, <2>1, <2>2, PersistOf, AlivePhase DEF PersistStep
<1>3. Acts(c, vs) /\ session'[c].linked = session[c].linked
      /\ \A k : Fits(session[c], k) => Fits(session'[c], k)
  BY <1>1 DEF Persists, Fits
<1>4. ASSUME kept'[c] # Nothing PROVE Fits(session[c], kept[c]) /\ (phase = "persisting" => session[c].linked)
  <2>1. Promised(c)
    BY <1>0, <1>2, <1>4 DEF Promises
  <2>2. CASE phase = "persisting"
    BY <2>1, <2>2 DEF Promised
  <2>3. CASE phase = "up"
    <3>1. session[c].open /\ (session[c].dirty \/ session[c].content # 0)
      BY <2>3 DEF PersistStep, Flush, ShutdownPersists, Recoverable
    <3> QED
      BY <2>1, <2>3, <3>1 DEF Promised, Good
  <2> QED
    BY <1>2, <2>2, <2>3
<1>5. kept'[c] # Nothing => Keeps(c, vs)
  BY <1>2, <1>3, <1>4, FitsKeeps
<1>6. \A d \in VoiceChannels : ReadsBack(d)' => ReadsBack(d) /\ boot'.content = boot.content
  BY <1>2 DEF ReadsBack
<1>7. togo' = togo \/ (togo' = togo \ {c} /\ (kept'[c] # Nothing => \E i \in DOMAIN writes' : Stores(writes'[i], c)))
  <2>1. CASE Flush(c)
    BY <2>1 DEF Flush
  <2>2. ASSUME ShutdownPersists(c), kept'[c] # Nothing
        PROVE  \E i \in DOMAIN writes' : Stores(writes'[i], c)
    <3>0. writes \in Seq(WriteStates) /\ vs \in Seq(WriteStates) /\ writes' = writes \o vs
      BY <1>0, <1>3 DEF SnapshotTypeOK, Acts
    <3>1. session[c].flying \/ \E i \in DOMAIN vs : Saves(vs[i], c)
      BY <1>1, <1>4, <2>2 DEF Fits
    <3>2. CASE session[c].flying
      <4>1. PICK i \in DOMAIN writes : Saves(writes[i], c)
        BY <1>0, <3>2 DEF Flying
      <4> QED
        BY <3>0, <4>1, JoinedWrites DEF Saves
    <3>3. CASE \E i \in DOMAIN vs : Saves(vs[i], c)
      <4>1. PICK i \in DOMAIN vs : Saves(vs[i], c)
        BY <3>3
      <4>2. Len(writes) + i \in DOMAIN writes' /\ writes'[Len(writes) + i] = vs[i]
        BY <3>0, JoinedWrites
      <4> QED
        BY <4>1, <4>2 DEF Saves
    <3> QED
      BY <3>1, <3>2, <3>3
  <2>3. ShutdownPersists(c) => togo' = togo \ {c}
    BY DEF ShutdownPersists
  <2> QED
    BY <2>1, <2>2, <2>3 DEF PersistStep
<1> QED
  BY <1>2, <1>3, <1>5, <1>6, <1>7, ActsKept

LEMMA IntervalKept ==
    ASSUME KeptInv, GoneInv', NEW c \in VoiceChannels, IntervalEnds(c)
    PROVE  KeptInv'
<1>0. SnapshotTypeOK /\ Flying /\ Promises /\ AtDown
  BY DEF KeptInv, GoneInv
<1>1. /\ session'[c] = [session[c] EXCEPT !.recent = FALSE]
      /\ UNCHANGED <<phase, togo, gone, writes, snap, bound, boot, kept>>
  BY <1>0, IntervalActs DEF stores
<1>2. session[c] \in SessionStates /\ \A d \in VoiceChannels \ {c} : session'[d] = session[d]
  BY <1>0 DEF SnapshotTypeOK, IntervalEnds
<1>3. /\ session'[c].open = session[c].open /\ session'[c].linked = session[c].linked
      /\ session'[c].content = session[c].content /\ session'[c].dirty = session[c].dirty
      /\ session'[c].stay = session[c].stay /\ session'[c].flying = session[c].flying
  BY <1>1, <1>2 DEF SessionStates
<1>4. \A d \in VoiceChannels : /\ session'[d].flying = session[d].flying /\ session'[d].linked = session[d].linked
                               /\ \A k : Good(session[d], k) => Good(session'[d], k)
                               /\ \A k : Fits(session[d], k) => Fits(session'[d], k)
  BY <1>2, <1>3 DEF Good, Fits, Worth, Recoverable
<1>5. Flying'
  BY <1>0, <1>1, <1>4 DEF Flying
<1>6. phase # "down"
  <2> SUFFICES ASSUME phase = "down" PROVE FALSE
    OBVIOUS
  <2>1. session[c] = Closed
    BY <1>0 DEF AtDown
  <2> QED
    BY <2>1 DEF IntervalEnds, Closed
<1>7. AtDown'
  BY <1>1, <1>6 DEF AtDown
<1>8. ASSUME NEW d \in VoiceChannels, kept'[d] # Nothing PROVE Promised(d)'
  <2>1. Promised(d)
    BY <1>0, <1>1, <1>8 DEF Promises
  <2> QED
    BY <1>1, <1>4, <2>1 DEF Promised, Unharmed, Coming, Bound, AtRest, ReadsBack
<1> QED
  BY <1>5, <1>7, <1>8 DEF KeptInv, Promises

LEMMA JoinKept ==
    ASSUME QuietEnd, KeptInv, GoneInv', NEW c \in VoiceChannels, Join(c)
    PROVE  KeptInv'
<1>0. SnapshotTypeOK
  BY DEF KeptInv, GoneInv
<1>1. PICK vs : Acts(c, vs)
  BY <1>0, JoinActs
<1>2. kept'[c] = Nothing
  BY <1>0, JoinActs
<1>3. Alive /\ phase' = phase /\ togo' = togo /\ boot' = boot
  BY DEF Join
<1>4. \A d \in VoiceChannels : ReadsBack(d)' => ReadsBack(d) /\ boot'.content = boot.content
  BY <1>3 DEF ReadsBack
<1> QED
  BY <1>0, <1>1, <1>2, <1>3, <1>4, AlivePhase, ActsKept

LEMMA TakeKept ==
    ASSUME QuietEnd, KeptInv, GoneInv', NEW c \in VoiceChannels, TakeBinding(c)
    PROVE  KeptInv'
<1>0. SnapshotTypeOK /\ BootShape /\ Promises
  BY DEF KeptInv, GoneInv
<1>1. PICK vs : Acts(c, vs)
  BY <1>0, TakeActs
<1>2. /\ boot'.step \in {"clearing", "reading", "connecting"}
      /\ \/ kept'[c] = Nothing
         \/ /\ kept' = kept /\ phase = "up" /\ writes' = writes
            /\ session'[c] = session[c] \/ session'[c] = Opened(c)
  BY <1>0, TakeActs
<1>3. Alive /\ phase' = phase /\ togo' = togo
  BY DEF TakeBinding, Restoring
<1>4. \A d \in VoiceChannels : ~ReadsBack(d)'
  BY <1>2 DEF ReadsBack
<1>5. ASSUME kept'[c] # Nothing PROVE Keeps(c, vs)
  <2>1. kept' = kept /\ phase = "up" /\ writes' = writes /\ (session'[c] = session[c] \/ session'[c] = Opened(c))
    BY <1>2, <1>5
  <2>2. Promised(c)
    BY <1>0, <1>5, <2>1 DEF Promises
  <2>3. Good(session'[c], kept'[c])
    BY <1>0, <2>1, <2>2, OpenedTypes DEF Promised, Good
  <2>4. vs \in Seq(WriteStates) /\ writes \in Seq(WriteStates) /\ writes = writes \o vs
    BY <1>0, <1>1, <2>1 DEF Acts, SnapshotTypeOK
  <2>5. \A i \in DOMAIN vs : FALSE
    <3>1. Len(writes) = Len(writes) + Len(vs) /\ Len(writes) \in Nat /\ Len(vs) \in Nat
      BY <2>4
    <3> QED
      BY <2>4, <3>1
  <2> QED
    BY <2>1, <2>3, <2>5 DEF Keeps
<1> QED
  BY <1>0, <1>1, <1>3, <1>4, <1>5, AlivePhase, ActsKept

LEMMA BootKept ==
    ASSUME QuietEnd, KeptInv, GoneInv', BootStep
    PROVE  KeptInv'
<1> DEFINE c == boot.chan
<1>0. SnapshotTypeOK /\ BootShape /\ Promises
  BY DEF KeptInv, GoneInv
<1>1. BootActed(c) /\ c \in VoiceChannels
  BY <1>0, BootActs DEF BootActed
<1>2. /\ boot'.chan = c /\ boot'.content = boot.content
      /\ boot'.step \in {"reading", "clearing", "failed", "syncing", "waiting"}
      /\ boot'.step = "syncing" => boot.step = "resolving"
      /\ Alive /\ phase' = phase /\ togo' = togo
  BY <1>0, BootMoves
<1>3. \A d \in VoiceChannels : ReadsBack(d)' => ReadsBack(d) /\ boot'.content = boot.content
  BY <1>2 DEF ReadsBack
<1> HIDE DEF c
<1>4. PICK vs : /\ Acts(c, vs)
                /\ \/ kept'[c] = Nothing
                   \/ Fits(session'[c], kept'[c]) /\ session'[c].linked
                   \/ /\ \A i \in DOMAIN vs : vs[i].chan = Nothing
                      /\ session'[c] \in {session[c], [session[c] EXCEPT !.linked = TRUE]}
  BY <1>1 DEF BootActed
<1>5. phase \in {"up", "persisting"}
  BY <1>0, <1>2, AlivePhase
<1>6. ASSUME kept'[c] # Nothing PROVE Keeps(c, vs)
  <2>1. CASE Fits(session'[c], kept'[c]) /\ session'[c].linked
    BY <1>1, <1>4, <1>6, <2>1, FitsKeeps
  <2>2. CASE /\ \A i \in DOMAIN vs : vs[i].chan = Nothing
             /\ session'[c] \in {session[c], [session[c] EXCEPT !.linked = TRUE]}
    <3>0. session[c] \in SessionStates /\ c # Nothing
      BY <1>0, <1>1, SnapshotAssumption DEF SnapshotTypeOK
    <3>1. Promised(c) /\ kept'[c] = kept[c]
      BY <1>0, <1>1, <1>4, <1>6 DEF Promises, Acts, Released
    <3>2. /\ session'[c].open = session[c].open /\ session'[c].content = session[c].content
          /\ session'[c].dirty = session[c].dirty /\ session'[c].stay = session[c].stay
          /\ session[c].linked => session'[c].linked
      BY <2>2, <3>0 DEF SessionStates
    <3>3. \A k : /\ Good(session[c], k) => Good(session'[c], k)
                 /\ Fits(session[c], k) => Fits(session'[c], k)
      BY <3>2 DEF Good, Fits, Worth, Recoverable
    <3>4. /\ phase = "up" => Good(session'[c], kept'[c])
          /\ phase = "persisting" => Fits(session'[c], kept'[c]) /\ session'[c].linked
      BY <3>1, <3>2, <3>3 DEF Promised
    <3> QED
      BY <2>2, <3>0, <3>4 DEF Keeps
  <2> QED
    BY <1>4, <1>6, <2>1, <2>2
<1> QED
  BY <1>1, <1>2, <1>3, <1>4, <1>5, <1>6, ActsKept

-----------------------------------------------------------------------------
\* A write takes effect.
LEMMA FlyingAnswered ==
    ASSUME SnapshotTypeOK, Flying, writes # <<>>, NEW ok \in BOOLEAN, NEW vs, Answers(Head(writes), ok, vs)
    PROVE  Flying'
<1> DEFINE w == Head(writes)
<1> SUFFICES ASSUME NEW d \in VoiceChannels, session'[d].flying
             PROVE  \E i \in DOMAIN writes' : Saves(writes'[i], d)
  BY DEF Flying
<1>0. writes \in Seq(WriteStates) /\ vs \in Seq(WriteStates) /\ writes' = Tail(writes) \o vs
      /\ Tail(writes) \in Seq(WriteStates)
  BY HeadWrite DEF SnapshotTypeOK, Answers
<1>1. session[d].flying /\ ~Saves(w, d)
  BY DEF Answers, SameSession
<1>2. PICK i \in DOMAIN writes : Saves(writes[i], d)
  BY <1>1 DEF Flying
<1>3. i # 1
  BY <1>0, <1>1, <1>2, TailWrites
<1>4. i - 1 \in DOMAIN Tail(writes) /\ Tail(writes)[i - 1] = writes[i]
  BY <1>0, <1>3, TailWrites
<1>5. i - 1 \in DOMAIN writes' /\ writes'[i - 1] = writes[i]
  BY <1>0, <1>4, JoinedWrites
<1> QED
  BY <1>2, <1>5

LEMMA AppliedKept ==
    ASSUME KeptInv, GoneInv', Applied
    PROVE  KeptInv'
<1> DEFINE w == Head(writes)
           rest == Tail(writes)
<1>0. SnapshotTypeOK /\ Flying /\ Promises /\ AtDown /\ writes \in Seq(WriteStates)
  BY DEF KeptInv, GoneInv, SnapshotTypeOK
<1>1. writes # <<>> /\ TakesEffect(w, TRUE) /\ UNCHANGED <<phase, togo>>
  BY <1>0, AnswerOf
<1>2. PICK vs : Answers(w, TRUE, vs)
  BY <1>0, AnswerOf
<1>3. kept' = kept /\ gone' = gone /\ phase # "down"
  BY <1>0, <1>1, <1>2 DEF Applied, Answers, AtDown
<1>4. /\ rest \in Seq(WriteStates) /\ vs \in Seq(WriteStates) /\ writes' = rest \o vs
      /\ 1 \in DOMAIN writes /\ w = writes[1] /\ Len(rest) = Len(writes) - 1
      /\ \A i \in DOMAIN rest : i + 1 \in DOMAIN writes /\ rest[i] = writes[i + 1]
      /\ \A i \in DOMAIN writes : i = 1 \/ (i - 1 \in DOMAIN rest /\ rest[i - 1] = writes[i])
  BY <1>0, <1>1, <1>2, TailWrites DEF Answers
<1>5. Flying'
  BY <1>0, <1>1, <1>2, FlyingAnswered
<1> HIDE DEF w, rest
<1>6. ASSUME NEW d \in VoiceChannels, kept'[d] # Nothing PROVE Promised(d)'
  <2>0. Promised(d) /\ Unharmed(d) /\ d # Nothing
    BY <1>0, <1>3, <1>6, SnapshotAssumption DEF Promises, Promised
  <2>1. /\ \A k : Good(session[d], k) => Good(session'[d], k)
        /\ \A k : Fits(session[d], k) => Fits(session'[d], k)
        /\ session'[d].linked = session[d].linked
    BY <1>2 DEF Answers, SameSession, Good, Fits
  <2>2. w.chan = d => Stores(w, d) /\ w.content >= kept[d]
    BY <1>4, <2>0 DEF Unharmed
  <2>3. \A i \in DOMAIN vs : vs[i].chan # d
    <3> SUFFICES ASSUME NEW i \in DOMAIN vs, vs[i].chan = d PROVE FALSE
      OBVIOUS
    <3>1. Follows(vs[i], w)
      BY <1>2 DEF Answers
    <3> QED
      BY <2>0, <2>2, <3>1 DEF Follows, Stores
  <2>4. Unharmed(d)'
    <3>1. \A i \in DOMAIN writes' : writes'[i].chan = d => \E j \in DOMAIN writes : writes'[i] = writes[j]
      <4>1. \A i \in DOMAIN writes' : \/ i \in DOMAIN rest /\ writes'[i] = rest[i]
                                     \/ \E j \in DOMAIN vs : writes'[i] = vs[j]
        BY <1>4, JoinedWrites
      <4> QED
        BY <1>4, <2>3, <4>1
    <3> QED
      BY <1>3, <2>0, <3>1 DEF Unharmed
  <2>5. w.content \in Nat /\ w.content # Nothing /\ w.content \in Contents
    <3>1. w \in WriteStates
      BY <1>0, <1>1, HeadWrite DEF w
    <3> QED
      BY <3>1, SnapshotAssumption DEF WriteStates, Contents
  <2>6. Stores(w, d) => AtLeast(snap'[d], kept[d])
    BY <1>1, <2>2, <2>5 DEF TakesEffect, AtLeast, Stores
  <2>7. AtLeast(snap[d], kept[d]) => AtLeast(snap'[d], kept[d])
    BY <1>1, <2>2, <2>6 DEF TakesEffect, AtLeast, Stores
  <2>8. Coming(d) => Coming(d)'
    <3>1. CASE AtLeast(snap[d], kept[d])
      BY <1>3, <2>7, <3>1 DEF Coming
    <3>2. ASSUME NEW i \in DOMAIN writes, Stores(writes[i], d) PROVE Coming(d)'
      <4>1. CASE i = 1
        BY <1>3, <1>4, <2>6, <3>2, <4>1 DEF Coming
      <4>2. CASE i # 1
        <5>1. i - 1 \in DOMAIN rest /\ rest[i - 1] = writes[i]
          BY <1>4, <4>2
        <5>2. i - 1 \in DOMAIN writes' /\ writes'[i - 1] = writes[i]
          BY <1>4, <5>1, JoinedWrites
        <5> QED
          BY <3>2, <5>2 DEF Coming
      <4> QED
        BY <4>1, <4>2
    <3> QED
      BY <3>1, <3>2 DEF Coming
  <2>9. CASE phase = "up"
    <3>1. ReadsBack(d)' => ReadsBack(d) /\ boot'.content = boot.content
      BY <1>2 DEF Answers, NextBoot, ReadsBack
    <3> QED
      BY <1>1, <1>3, <2>0, <2>1, <2>4, <2>7, <2>9, <3>1 DEF Promised
  <2>10. CASE phase = "persisting"
    BY <1>1, <1>3, <2>0, <2>1, <2>4, <2>8, <2>10 DEF Promised
  <2>11. CASE phase = "leaving"
    <3>1. AtRest /\ Coming(d) /\ Bound(d)
      BY <2>0, <2>11 DEF Promised
    <3>2. w.by \in {"session", "nobody"}
      BY <1>4, <3>1 DEF AtRest
    <3>3. \A i \in DOMAIN vs : FALSE
      <4> SUFFICES ASSUME NEW i \in DOMAIN vs PROVE FALSE
        OBVIOUS
      <4>1. Follows(vs[i], w)
        BY <1>2 DEF Answers
      <4> QED
        BY <3>2, <4>1 DEF Follows
    <3>4. vs = <<>> /\ writes' = rest
      BY SMTT(30), <1>4, <3>3
    <3>5. AtRest'
      BY <1>3, <1>4, <3>1, <3>4 DEF AtRest
    <3>6. writes[Len(writes)].held /\ writes[Len(writes)].kind = "sync" /\ d \in writes[Len(writes)].list
      BY <1>1, <3>1 DEF Bound
    <3>7. Bound(d)'
      <4>1. CASE rest = <<>>
        <5>1. Len(writes) = 1
          BY <1>0, <1>4, <4>1
        <5> QED
          BY <1>1, <1>4, <3>4, <3>6, <4>1, <5>1 DEF Bound, TakesEffect
      <4>2. CASE rest # <<>>
        <5>1. Len(rest) \in DOMAIN rest /\ Len(rest) + 1 = Len(writes)
          BY <1>0, <1>4, <4>2
        <5>2. rest[Len(rest)] = writes[Len(writes)]
          BY <1>4, <5>1
        <5> QED
          BY <3>4, <3>6, <4>2, <5>2 DEF Bound
      <4> QED
        BY <4>1, <4>2
    <3> QED
      BY <1>1, <2>4, <2>8, <2>11, <3>1, <3>5, <3>7 DEF Promised
  <2> QED
    BY <1>0, <1>3, <2>9, <2>10, <2>11 DEF SnapshotTypeOK
<1>7. AtDown'
  BY <1>1, <1>3 DEF AtDown
<1> QED
  BY <1>5, <1>6, <1>7 DEF KeptInv, Promises

\* A write fails, or the process dies: nothing is promised any longer.
LEMMA FailsKept ==
    ASSUME KeptInv, GoneInv', Fails
    PROVE  KeptInv'
<1>0. SnapshotTypeOK /\ Flying /\ AtDown
  BY DEF KeptInv, GoneInv
<1>1. writes # <<>> /\ phase' = phase
  BY <1>0, AnswerOf
<1>2. PICK vs : Answers(Head(writes), FALSE, vs)
  BY <1>0, AnswerOf
<1>3. Flying'
  BY <1>0, <1>1, <1>2, FlyingAnswered
<1>4. Promises'
  BY DEF Fails, Promises
<1>5. AtDown'
  BY <1>0, <1>1 DEF AtDown
<1> QED
  BY <1>3, <1>4, <1>5 DEF KeptInv

-----------------------------------------------------------------------------
\* The answers to the writes of a channel concern no session any more.
LEMMA FlyingOrphaned ==
    ASSUME SnapshotTypeOK, Flying, NEW c \in VoiceChannels, writes' = Orphaned(c),
           session'[c] = Closed, \A d \in VoiceChannels \ {c} : session'[d] = session[d]
    PROVE  Flying'
<1> SUFFICES ASSUME NEW d \in VoiceChannels, session'[d].flying
             PROVE  \E i \in DOMAIN writes' : Saves(writes'[i], d)
  BY DEF Flying
<1>1. d # c /\ session[d].flying
  BY OpenedTypes
<1>2. PICK i \in DOMAIN writes : Saves(writes[i], d)
  BY <1>1 DEF Flying
<1>3. i \in DOMAIN writes' /\ writes'[i] = writes[i]
  BY <1>1, <1>2, OrphanedOf DEF Saves, Stores, SameWrites
<1> QED
  BY <1>2, <1>3

LEMMA SamePromise ==
    ASSUME SnapshotTypeOK, NEW us \in Seq(WriteStates), SameWrites(writes, us), writes' = us,
           NEW d \in VoiceChannels, kept'[d] = kept[d], UNCHANGED <<snap, bound>>
    PROVE  /\ Coming(d) => Coming(d)'
           /\ Bound(d) => Bound(d)'
           /\ Unharmed(d) /\ (\A g \in gone' : g \in gone \/ g.chan # d) => Unharmed(d)'
<1>0. writes \in Seq(WriteStates) /\ Len(us) = Len(writes)
  BY DEF SnapshotTypeOK, SameWrites
<1>1. Coming(d) => Coming(d)'
  BY DEF Coming, SameWrites, Stores
<1>2. Bound(d) => Bound(d)'
  <2>1. CASE writes = <<>>
    BY <1>0, <2>1 DEF Bound
  <2>2. CASE writes # <<>>
    <3>1. us # <<>> /\ Len(writes) \in DOMAIN writes
      BY <1>0, <2>2
    <3> QED
      BY <1>0, <2>2, <3>1 DEF Bound, SameWrites
  <2> QED
    BY <2>1, <2>2
<1>3. Unharmed(d) /\ (\A g \in gone' : g \in gone \/ g.chan # d) => Unharmed(d)'
  BY DEF Unharmed, SameWrites, Stores
<1> QED
  BY <1>1, <1>2, <1>3

LEMMA DestroyKept ==
    ASSUME KeptInv, GoneInv', NEW c \in VoiceChannels, NEW by \in Destroyers, Destroy(c, by),
           writes' = Orphaned(c), UNCHANGED <<phase, togo, snap, bound>>, phase \in {"up", "persisting"},
           \A d \in VoiceChannels : ReadsBack(d)' => ReadsBack(d) /\ boot'.content = boot.content
    PROVE  KeptInv'
<1>0. SnapshotTypeOK /\ Flying /\ Promises
  BY DEF KeptInv, GoneInv
<1>1. /\ \A d \in VoiceChannels \ {c} : session'[d] = session[d]
      /\ kept'[c] = Nothing /\ \A d \in VoiceChannels \ {c} : kept'[d] = kept[d]
      /\ \A g \in gone' : g \in gone \/ g.chan = c
  BY <1>0, DestroyTypes
<1>2. session'[c] = Closed
  BY <1>0 DEF Destroy, SnapshotTypeOK
<1>3. Flying'
  BY <1>0, <1>1, <1>2, FlyingOrphaned
<1>4. AtDown'
  BY DEF AtDown
<1>5. ASSUME NEW d \in VoiceChannels, kept'[d] # Nothing PROVE Promised(d)'
  <2>1. d # c /\ kept'[d] = kept[d] /\ session'[d] = session[d] /\ Promised(d)
    BY <1>0, <1>1, <1>5 DEF Promises
  <2>2. Orphaned(c) \in Seq(WriteStates) /\ SameWrites(writes, Orphaned(c))
    BY <1>0, OrphanedOf
  <2>3. (Coming(d) => Coming(d)') /\ (Unharmed(d) => Unharmed(d)')
    BY <1>0, <1>1, <2>1, <2>2, SamePromise
  <2> QED
    BY <2>1, <2>3 DEF Promised
<1> QED
  BY <1>3, <1>4, <1>5 DEF KeptInv, Promises

LEMMA LeaveKept ==
    ASSUME QuietEnd, KeptInv, GoneInv', NEW c \in VoiceChannels, LeaveChannel(c)
    PROVE  KeptInv'
<1>0. SnapshotTypeOK /\ BootShape /\ "destroy" \in Destroyers
  BY DEF KeptInv, GoneInv, Destroyers
<1>1. /\ Destroy(c, "destroy") /\ writes' = Orphaned(c) /\ UNCHANGED <<phase, togo, snap, bound>>
      /\ boot' = IF boot.chan = c THEN [boot EXCEPT !.mine = FALSE] ELSE boot
      /\ Alive
  BY DEF LeaveChannel, stores
<1>2. \A d \in VoiceChannels \ {c} : session'[d] = session[d]
  BY <1>0, <1>1, DestroyTypes
<1>3. boot'.chan = boot.chan /\ boot'.step = boot.step /\ boot'.content = boot.content
  BY <1>0, <1>1, <1>2, BootLeft
<1>4. \A d \in VoiceChannels : ReadsBack(d)' => ReadsBack(d) /\ boot'.content = boot.content
  BY <1>3 DEF ReadsBack
<1> QED
  BY <1>0, <1>1, <1>4, AlivePhase, DestroyKept

LEMMA ShutdownLeavesKept ==
    ASSUME KeptInv, GoneInv', NEW c \in VoiceChannels, ShutdownLeaves(c)
    PROVE  KeptInv'
<1>0. SnapshotTypeOK /\ BootShape /\ Flying /\ Promises /\ session \in [VoiceChannels -> SessionStates]
  BY DEF KeptInv, GoneInv, SnapshotTypeOK
<1>1. /\ session' = [session EXCEPT ![c] = Closed] /\ writes' = Orphaned(c) /\ phase = "leaving"
      /\ UNCHANGED <<phase, gone, snap, bound, kept>>
  BY DEF ShutdownLeaves, stores
<1>2. session'[c] = Closed /\ \A d \in VoiceChannels \ {c} : session'[d] = session[d]
  BY <1>0, <1>1
<1>3. Flying'
  BY <1>0, <1>1, <1>2, FlyingOrphaned
<1>4. AtDown'
  BY <1>1 DEF AtDown
<1>5. ASSUME NEW d \in VoiceChannels, kept'[d] # Nothing PROVE Promised(d)'
  <2>1. Promised(d)
    BY <1>0, <1>1, <1>5 DEF Promises
  <2>2. Orphaned(c) \in Seq(WriteStates) /\ SameWrites(writes, Orphaned(c))
    BY <1>0, OrphanedOf
  <2>3. (Coming(d) => Coming(d)') /\ (Unharmed(d) => Unharmed(d)') /\ (Bound(d) => Bound(d)')
    BY <1>0, <1>1, <2>2, SamePromise
  <2>4. AtRest => AtRest'
    BY <1>1, <2>2 DEF AtRest, SameWrites
  <2> QED
    BY <1>1, <2>1, <2>3, <2>4 DEF Promised
<1> QED
  BY <1>3, <1>4, <1>5 DEF KeptInv, Promises

LEMMA DeletesKept ==
    ASSUME KeptInv, GoneInv', NEW g \in gone, DestroyDeletes(g)
    PROVE  KeptInv'
<1> DEFINE w == Write("delete", g.chan, g.by)
<1>0. /\ SnapshotTypeOK /\ Flying /\ Promises /\ AtDown /\ writes \in Seq(WriteStates)
      /\ g.chan \in VoiceChannels /\ g.by \in Waiters
  BY DEF KeptInv, GoneInv, SnapshotTypeOK
<1>1. /\ gone' = gone \ {g} /\ writes' = Append(writes, w)
      /\ UNCHANGED <<phase, togo, session, snap, bound, boot, kept>>
  BY DEF DestroyDeletes, stores
<1>2. w \in WriteStates /\ w.chan = g.chan
  BY <1>0, WriteOf
<1> HIDE DEF w
<1>3. /\ \A i \in DOMAIN writes : i \in DOMAIN writes' /\ writes'[i] = writes[i]
      /\ \A i \in DOMAIN writes' : writes'[i] = w \/ (i \in DOMAIN writes /\ writes'[i] = writes[i])
  BY <1>0, <1>1, <1>2
<1>4. Flying'
  BY <1>0, <1>1, <1>3 DEF Flying
<1>5. phase # "down"
  BY <1>0 DEF AtDown
<1>6. AtDown'
  BY <1>1, <1>5 DEF AtDown
<1>7. ASSUME NEW d \in VoiceChannels, kept'[d] # Nothing PROVE Promised(d)'
  <2>1. Promised(d) /\ Unharmed(d)
    BY <1>0, <1>1, <1>5, <1>7 DEF Promises, Promised
  <2>2. g.chan # d
    BY <2>1 DEF Unharmed
  <2>3. Unharmed(d)'
    BY <1>1, <1>2, <1>3, <2>1, <2>2 DEF Unharmed
  <2>4. Coming(d) => Coming(d)'
    BY <1>1, <1>3 DEF Coming
  <2>5. phase # "leaving"
    BY <2>1 DEF Promised, AtRest
  <2> QED
    BY <1>1, <1>5, <2>1, <2>3, <2>4, <2>5 DEF Promised, ReadsBack
<1> QED
  BY <1>4, <1>6, <1>7 DEF KeptInv, Promises

LEMMA UndoneKept ==
    ASSUME QuietEnd, KeptInv, GoneInv', RestoreUndone
    PROVE  KeptInv'
<1> DEFINE c == boot.chan
<1>0. /\ SnapshotTypeOK /\ BootShape /\ Flying /\ AtDown /\ Promises
      /\ "undo" \in Destroyers /\ "waiting" \in Steps /\ c \in VoiceChannels
  BY DEF KeptInv, GoneInv, Destroyers, Steps, RestoreUndone, Restoring, BootShape
<1>1. Alive /\ UNCHANGED <<phase, togo, snap, bound>>
  BY DEF RestoreUndone, Restoring, stores
<1>2. CASE boot.undo /\ session[c].open
  <2>1. Destroy(c, "undo") /\ writes' = Orphaned(c) /\ boot' = [boot EXCEPT !.step = "waiting", !.mine = FALSE]
    BY <1>2 DEF RestoreUndone
  <2>2. boot'.step = "waiting"
    BY <1>0, <2>1, NotMine
  <2>3. \A d \in VoiceChannels : ~ReadsBack(d)'
    BY <2>2 DEF ReadsBack
  <2> QED
    BY <1>0, <1>1, <2>1, <2>3, AlivePhase, DestroyKept
<1>3. CASE ~(boot.undo /\ session[c].open)
  <2>1. NextBinding /\ UNCHANGED <<session, gone, kept, writes>>
    BY <1>3 DEF RestoreUndone
  <2>2. boot'.step = "next"
    BY <1>0, <2>1, NextBindingOf
  <2>3. Flying' /\ AtDown'
    BY <1>0, <1>1, <2>1 DEF Flying, AtDown
  <2>4. Promises'
    BY <1>0, <1>1, <2>1, <2>2 DEF Promises, Promised, Unharmed, Coming, Bound, AtRest, ReadsBack
  <2> QED
    BY <2>3, <2>4 DEF KeptInv
<1> QED
  BY <1>2, <1>3

LEMMA ListedKept ==
    ASSUME KeptInv, GoneInv', Listed \/ RestoreEnds \/ SnapshotRead
    PROVE  KeptInv'
<1>0. SnapshotTypeOK /\ Flying /\ AtDown /\ Promises /\ boot \in BootStates
  BY DEF KeptInv, GoneInv, SnapshotTypeOK
<1>1. UNCHANGED <<phase, togo, session, gone, writes, snap, bound, kept>>
  BY DEF Listed, RestoreEnds, SnapshotRead, stores
<1>2. \A d \in VoiceChannels : ReadsBack(d)' => boot'.content = snap[d]
  <2>1. CASE Listed
    <3>1. boot'.step = "next"
      BY <1>0, <2>1 DEF Listed, BootStates
    <3> QED
      BY <3>1 DEF ReadsBack
  <2>2. CASE RestoreEnds
    BY <2>2 DEF RestoreEnds, Off, ReadsBack
  <2>3. CASE SnapshotRead
    BY <1>0, <2>3 DEF SnapshotRead, ReadsBack, BootStates
  <2> QED
    BY <2>1, <2>2, <2>3
<1>3. Flying' /\ AtDown'
  BY <1>0, <1>1 DEF Flying, AtDown
<1>4. ASSUME NEW d \in VoiceChannels, kept'[d] # Nothing PROVE Promised(d)'
  <2>1. Promised(d)
    BY <1>0, <1>1, <1>4 DEF Promises
  <2> QED
    BY <1>1, <1>2, <2>1 DEF Promised, Unharmed, Coming, Bound, AtRest
<1> QED
  BY <1>3, <1>4 DEF KeptInv, Promises

LEMMA ShutdownKept ==
    ASSUME KeptInv, GoneInv', Shutdown
    PROVE  KeptInv'
<1>0. SnapshotTypeOK /\ Flying
  BY DEF KeptInv, GoneInv
<1>1. /\ togo' = OpenChannels /\ UNCHANGED <<session, gone, writes, snap, bound>>
      /\ phase' = IF OpenChannels = {} THEN "leaving" ELSE "persisting"
      /\ kept' = [c \in VoiceChannels |->
                   IF Worth(session[c]) /\ session[c].linked /\ Undisturbed(c)
                   THEN session[c].content ELSE Nothing]
  BY DEF Shutdown, stores
<1>2. Flying' /\ AtDown'
  BY <1>0, <1>1 DEF Flying, AtDown
<1>3. ASSUME NEW d \in VoiceChannels, kept'[d] # Nothing PROVE Promised(d)'
  <2>1. Worth(session[d]) /\ session[d].linked /\ Undisturbed(d) /\ kept'[d] = session[d].content
    BY <1>1, <1>3
  <2>2. session[d].content \in Nat
    BY <1>0, SnapshotAssumption DEF SnapshotTypeOK, SessionStates, Contents
  <2>3. d \in OpenChannels /\ phase' = "persisting"
    BY <1>1, <2>1 DEF OpenChannels, Worth
  <2>4. Unharmed(d)'
    BY <1>1, <2>1 DEF Unharmed, Undisturbed
  <2>5. Fits(session'[d], kept'[d])
    BY <1>1, <2>1, <2>2 DEF Fits
  <2> QED
    BY <1>1, <2>1, <2>3, <2>4, <2>5 DEF Promised
<1> QED
  BY <1>2, <1>3 DEF KeptInv, Promises

LEMMA SyncsKept ==
    ASSUME QuietEnd, KeptInv, GoneInv', ShutdownSyncs
    PROVE  KeptInv'
<1> DEFINE w == Sync(session, "nobody")
           vs == Hold(<<w>>)
<1>0. /\ SnapshotTypeOK /\ Flying /\ Promises /\ session \in [VoiceChannels -> SessionStates]
      /\ writes \in Seq(WriteStates) /\ "nobody" \in Waiters
  BY DEF KeptInv, GoneInv, SnapshotTypeOK, Waiters
<1>1. /\ phase = "persisting" /\ togo = {} /\ AtRest /\ phase' = "leaving" /\ writes' = writes \o vs
      /\ UNCHANGED <<session, gone, snap, bound, kept>>
  BY DEF ShutdownSyncs, stores
<1>2. /\ w \in WriteStates /\ w.kind = "sync" /\ w.chan = Nothing /\ w.by = "nobody"
      /\ w.list = {d \in VoiceChannels : Worth(session[d]) /\ session[d].linked}
  BY <1>0, SyncOf
<1> HIDE DEF w
<1>3. <<w>> \in Seq(WriteStates) /\ DOMAIN <<w>> = {1} /\ <<w>>[1] = w /\ Len(<<w>>) = 1
  BY <1>2, OneWrite
<1>4. /\ vs \in Seq(WriteStates) /\ DOMAIN vs = {1} /\ Len(vs) = 1
      /\ vs[1].held /\ vs[1].kind = "sync" /\ vs[1].chan = Nothing /\ vs[1].by = "nobody" /\ vs[1].list = w.list
  BY <1>2, <1>3, HoldOf
<1> HIDE DEF vs
<1>5. /\ \A i \in DOMAIN writes : i \in DOMAIN writes' /\ writes'[i] = writes[i]
      /\ \A i \in DOMAIN writes' : i \in DOMAIN writes \/ writes'[i] = vs[1]
      /\ writes' # <<>> /\ writes'[Len(writes')] = vs[1]
  <2>1. /\ \A i \in DOMAIN writes : i \in DOMAIN writes' /\ writes'[i] = writes[i]
        /\ \A i \in DOMAIN writes' : i \in DOMAIN writes \/ writes'[i] = vs[1]
    BY <1>0, <1>1, <1>4, JoinedWrites
  <2>2. Len(writes') = Len(writes) + 1 /\ writes' \in Seq(WriteStates) /\ writes'[Len(writes) + 1] = vs[1]
    BY <1>0, <1>1, <1>4, JoinedWrites
  <2>3. writes' # <<>>
    BY <1>0, <2>2
  <2> QED
    BY <2>1, <2>2, <2>3
<1>6. Flying'
  BY <1>0, <1>1, <1>5 DEF Flying
<1>7. AtDown'
  BY <1>1 DEF AtDown
<1>8. AtRest'
  BY <1>1, <1>4, <1>5 DEF AtRest
<1>9. ASSUME NEW d \in VoiceChannels, kept'[d] # Nothing PROVE Promised(d)'
  <2>1. Promised(d) /\ d # Nothing
    BY <1>0, <1>1, <1>9, SnapshotAssumption DEF Promises
  <2>2. Unharmed(d) /\ Coming(d) /\ Fits(session[d], kept[d]) /\ session[d].linked
    BY <1>1, <2>1 DEF Promised
  <2>3. Unharmed(d)'
    BY <1>1, <1>4, <1>5, <2>1, <2>2 DEF Unharmed
  <2>4. Coming(d)'
    BY <1>1, <1>5, <2>2 DEF Coming
  <2>5. Bound(d)'
    BY <1>2, <1>4, <1>5, <2>2 DEF Bound, Fits
  <2> QED
    BY <1>1, <1>8, <2>3, <2>4, <2>5 DEF Promised
<1> QED
  BY <1>6, <1>7, <1>9 DEF KeptInv, Promises

LEMMA StoppedKept ==
    ASSUME KeptInv, GoneInv', ShutdownDone \/ Crash
    PROVE  KeptInv'
<1>0. SnapshotTypeOK /\ Flying /\ Promises /\ writes \in Seq(WriteStates)
  BY DEF KeptInv, GoneInv, SnapshotTypeOK
<1>1. /\ phase' = "down" /\ session' = [c \in VoiceChannels |-> Closed] /\ gone' = {} /\ writes' = <<>>
      /\ UNCHANGED <<snap, bound>>
  BY DEF ShutdownDone, Crash, Stopped, stores
<1>2. Flying' /\ AtDown'
  BY <1>0, <1>1, OpenedTypes DEF Flying, AtDown
<1>3. ASSUME NEW d \in VoiceChannels, kept'[d] # Nothing PROVE Promised(d)'
  <2>1. ShutdownDone /\ kept' = kept /\ phase = "leaving" /\ ~Held
    BY <1>3 DEF ShutdownDone, Crash
  <2>2. Promised(d)
    BY <1>0, <1>3, <2>1 DEF Promises
  <2>3. writes = <<>> /\ d \in bound
    <3>1. writes # <<>> => Len(writes) \in DOMAIN writes
      BY <1>0
    <3> QED
      BY <2>1, <2>2, <3>1 DEF Promised, Bound, Held
  <2>4. AtLeast(snap[d], kept[d])
    BY <2>1, <2>2, <2>3 DEF Promised, Coming
  <2> QED
    BY <1>1, <2>1, <2>3, <2>4 DEF Promised
<1> QED
  BY <1>2, <1>3 DEF KeptInv, Promises

LEMMA StartKept ==
    ASSUME KeptInv, GoneInv', Start
    PROVE  KeptInv'
<1>0. SnapshotTypeOK /\ Flying /\ Promises /\ AtDown
  BY DEF KeptInv, GoneInv
<1>1. phase = "down" /\ phase' = "up" /\ UNCHANGED <<session, gone, writes, snap, bound, kept>>
      /\ boot' = [Off EXCEPT !.step = "listing"]
  BY DEF Start, stores
<1>2. writes = <<>> /\ gone = {} /\ \A d \in VoiceChannels : ~session[d].open
  BY <1>0, <1>1, OpenedTypes DEF AtDown
<1>3. Flying' /\ AtDown'
  BY <1>0, <1>1 DEF Flying, AtDown
<1>4. boot'.step = "listing"
  BY <1>1 DEF Off
<1>5. ASSUME NEW d \in VoiceChannels, kept'[d] # Nothing PROVE Promised(d)'
  <2>1. Promised(d)
    BY <1>0, <1>1, <1>5 DEF Promises
  <2>2. Unharmed(d)'
    BY <1>1, <1>2 DEF Unharmed
  <2> QED
    BY <1>1, <1>2, <1>4, <2>1, <2>2 DEF Promised, Good, ReadsBack
<1> QED
  BY <1>3, <1>5 DEF KeptInv, Promises
-----------------------------------------------------------------------------
LEMMA KeptStart == SnapshotInit => KeptInv
<1> SUFFICES ASSUME SnapshotInit PROVE KeptInv
  OBVIOUS
<1>1. GoneInv /\ SnapshotTypeOK
  BY SnapshotStart DEF GoneInv
<1>2. Flying
  BY <1>1, OpenedTypes DEF SnapshotInit, Flying
<1> QED
  BY <1>1, <1>2 DEF SnapshotInit, KeptInv, AtDown, Promises

LEMMA KeptStep == ASSUME QuietEnd PROVE KeptInv /\ [SnapshotNext]_snapshotVars => KeptInv'
<1> SUFFICES ASSUME KeptInv, [SnapshotNext]_snapshotVars PROVE KeptInv'
  OBVIOUS
<1>0. GoneInv'
  BY SnapshotStep DEF KeptInv
<1>1. CASE UNCHANGED snapshotVars
  BY <1>0, <1>1 DEF snapshotVars, stores, KeptInv, Flying, AtDown, Promises, Promised, Unharmed, Coming,
                    Bound, AtRest, ReadsBack
<1>2. ASSUME NEW c \in VoiceChannels,
             \/ TrackChanges(c) \/ CommandChanges(c) \/ TracksAdded(c) \/ QueueRunsOut(c)
             \/ Set247(c) \/ TextBound(c) \/ LinkLost(c) \/ Flush(c) \/ IntervalEnds(c)
             \/ Join(c) \/ LeaveChannel(c) \/ ShutdownPersists(c) \/ ShutdownLeaves(c)
      PROVE  KeptInv'
  <2>1. CASE SessionStep(c)
    BY <1>0, <2>1, SessionKept
  <2>2. CASE Flush(c) \/ ShutdownPersists(c)
    BY <1>0, <2>2, PersistKept DEF PersistStep
  <2>3. CASE IntervalEnds(c)
    BY <1>0, <2>3, IntervalKept
  <2>4. CASE Join(c)
    BY <1>0, <2>4, JoinKept
  <2>5. CASE LeaveChannel(c)
    BY <1>0, <2>5, LeaveKept
  <2>6. CASE ShutdownLeaves(c)
    BY <1>0, <2>6, ShutdownLeavesKept
  <2> QED
    BY <1>2, <2>1, <2>2, <2>3, <2>4, <2>5, <2>6 DEF SessionStep
<1>3. CASE \E g \in gone : DestroyDeletes(g)
  BY <1>0, <1>3, DeletesKept
<1>4. CASE Applied
  BY <1>0, <1>4, AppliedKept
<1>5. CASE Fails
  BY <1>0, <1>5, FailsKept
<1>6. CASE Restore
  <2>1. CASE BootStep
    BY <1>0, <2>1, BootKept
  <2>2. CASE Listed \/ RestoreEnds \/ SnapshotRead
    BY <1>0, <2>2, ListedKept
  <2>3. CASE RestoreUndone
    BY <1>0, <2>3, UndoneKept
  <2>4. CASE \E c \in VoiceChannels : TakeBinding(c)
    BY <1>0, <2>4, TakeKept
  <2> QED
    BY <1>6, <2>1, <2>2, <2>3, <2>4 DEF Restore, BootStep
<1>7. CASE Shutdown
  BY <1>0, <1>7, ShutdownKept
<1>8. CASE ShutdownSyncs
  BY <1>0, <1>8, SyncsKept
<1>9. CASE ShutdownDone \/ Crash
  BY <1>0, <1>9, StoppedKept
<1>10. CASE Start
  BY <1>0, <1>10, StartKept
<1> QED
  BY <1>1, <1>2, <1>3, <1>4, <1>5, <1>6, <1>7, <1>8, <1>9, <1>10 DEF SnapshotNext

\* test/session247Persistence.test.ts: a shutdown preserves the playback and the bindings,
\* and the next start restores them, for any sessions, writes and starts; if what was under
\* way is over when the shutdown comes to its last stage.
THEOREM ShutdownPreserves == ASSUME QuietEnd PROVE SnapshotSpec => []RestartBringsBack
<1>1. SnapshotSpec => []KeptInv
  BY KeptStart, KeptStep, PTL DEF SnapshotSpec
<1>2. KeptInv => RestartBringsBack
  BY DEF KeptInv, Promises, Promised, ReadsBack, AtLeast, RestartBringsBack
<1> QED
  BY <1>1, <1>2, PTL
=============================================================================
