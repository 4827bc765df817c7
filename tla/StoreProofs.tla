----------------------------- MODULE StoreProofs -----------------------------
(***************************************************************************)
(* What holds of the two stores in Mongo, for any guilds, settings, names, *)
(* tracks, calls and limits.                                               *)
(*                                                                         *)
(* The configuration, GuildConfigStore: loads are shared because the table *)
(* of loads and the calls agree in both directions (LoadsKnown).  The      *)
(* cache is coherent and the store implements GuildConfig because as long  *)
(* as it is calm only one call is under way (OneAtATime), so that the      *)
(* document it carries is the stored one (CarriesStored).                  *)
(*                                                                         *)
(* The library, DataCommands: every step of a call ends it or takes it to  *)
(* a stage that fits what it has read (CallShape), so that what it writes  *)
(* fits the documents.  The limit of playlists is exceeded only by calls   *)
(* that have counted and have yet to insert (Counted).                     *)
(* A command that runs alone keeps its promise because the documents are   *)
(* as they were when it began until it writes, and what it has read and    *)
(* checked of them still holds when it does (Held).                        *)
(***************************************************************************)
EXTENDS GuildConfigStore, DataCommands, SequenceTheorems, FiniteSetTheorems,
        WellFoundedInduction, TLAPS

\* What a call carries in each phase.
CallsTyped ==
    \A c \in Callers :
        /\ call[c].phase # "idle" => call[c].guild \in Guilds
        /\ call[c].phase \in {"found", "have", "writing", "written"} => call[c].doc \in Config
        /\ call[c].field # Nil => call[c].field \in Settings /\ call[c].value \in SettingValues
        /\ call[c].phase = "writing" => call[c].field # Nil

\* A key is in the order of the cache once.
KeysOnce == \A i, j \in DOMAIN order : order[i] = order[j] => i = j

\* A load in the table is under way, for that guild.
LoadsKnown ==
    \A g \in Guilds : inFlight[g] # Nil =>
        call[inFlight[g]].guild = g /\ call[inFlight[g]].phase \in {"finding", "found"}

OneAtATime == calm => \A c, d \in Callers : InProgress(c) /\ InProgress(d) => c = d

\* In a calm store what a call has found or written is what is stored, and what
\* it is about to write is that with its patch.
CarriesStored ==
    calm => \A c \in Callers :
        /\ call[c].phase \in {"found", "have", "written"} => call[c].doc = db[call[c].guild]
        /\ call[c].phase = "writing" =>
              call[c].doc = [db[call[c].guild] EXCEPT ![call[c].field] = call[c].value]

Inv ==
    /\ TypeOK /\ CallsTyped /\ KeysOnce
    /\ LoadsKnown /\ OneLoadPerGuild
    /\ OneAtATime /\ CarriesStored /\ CacheCoherent

-----------------------------------------------------------------------------
(* The order of the cache.                                                 *)

\* Deleting a key from the Map leaves the others once each, in their order.
LEMMA KeyRemoved ==
    ASSUME NEW S, NEW s \in Seq(S), NEW g,
           \A i, j \in DOMAIN s : s[i] = s[j] => i = j
    PROVE  LET r == RemoveFirst(s, g)
           IN  /\ r \in Seq(S) /\ Len(r) <= Len(s)
               /\ ToSet(r) = ToSet(s) \ {g}
               /\ \A i, j \in DOMAIN r : r[i] = r[j] => i = j
<1>1. CASE \A i \in 1..Len(s) : s[i] # g
  <2>1. RemoveFirst(s, g) = s
    BY <1>1 DEF RemoveFirst
  <2>2. ToSet(s) = ToSet(s) \ {g}
    BY <1>1 DEF ToSet
  <2> QED
    BY <2>1, <2>2
<1>2. ASSUME NEW k \in 1..Len(s), s[k] = g
      PROVE  LET r == RemoveFirst(s, g)
             IN  /\ r \in Seq(S) /\ Len(r) <= Len(s)
                 /\ ToSet(r) = ToSet(s) \ {g}
                 /\ \A i, j \in DOMAIN r : r[i] = r[j] => i = j
  <2> DEFINE r == RemoveFirst(s, g)
  <2>1. {i \in 1..Len(s) : s[i] = g} = {k}
    BY <1>2
  <2>2. SelectInSeq(s, LAMBDA v : v = g) = k
    BY <2>1 DEF SelectInSeq, Min
  <2>3. r = SubSeq(s, 1, k - 1) \o SubSeq(s, k + 1, Len(s))
    BY <1>2, <2>2 DEF RemoveFirst, RemoveAt
  <2> DEFINE before == SubSeq(s, 1, k - 1)
             after == SubSeq(s, k + 1, Len(s))
  <2>4. /\ before \in Seq(S) /\ Len(before) = k - 1
         /\ \A i \in 1..k - 1 : before[i] = s[i]
    BY <1>2
  <2>5. /\ after \in Seq(S) /\ Len(after) = Len(s) - k
         /\ \A i \in 1..Len(s) - k : after[i] = s[k + i]
    BY <1>2
  <2>6. r = before \o after
    BY <2>3
  <2> HIDE DEF r, before, after
  <2>7. /\ r \in Seq(S) /\ Len(r) = Len(before) + Len(after)
         /\ \A i \in 1..Len(before) + Len(after) :
               r[i] = IF i <= Len(before) THEN before[i] ELSE after[i - Len(before)]
    BY ZenonT(40), <2>4, <2>5, <2>6, ConcatProperties
  <2>8. r \in Seq(S) /\ Len(r) = Len(s) - 1
    BY <1>2, <2>4, <2>5, <2>7
  <2>9. \A i \in 1..Len(r) : r[i] = IF i < k THEN s[i] ELSE s[i + 1]
    <3> SUFFICES ASSUME NEW i \in 1..Len(r)
                 PROVE  r[i] = IF i < k THEN s[i] ELSE s[i + 1]
      OBVIOUS
    <3>1. CASE i < k
      <4>1. i \in 1..k - 1 /\ i <= Len(before) /\ i \in 1..Len(before) + Len(after)
        BY <1>2, <2>4, <2>5, <2>8, <3>1
      <4>2. r[i] = before[i]
        BY <2>7, <4>1
      <4> QED
        BY <2>4, <3>1, <4>1, <4>2
    <3>2. CASE ~(i < k)
      <4>1. /\ i - Len(before) \in 1..Len(s) - k
            /\ k + (i - Len(before)) = i + 1 /\ ~(i <= Len(before))
        BY <1>2, <2>8, <2>4, <3>2
      <4>2. r[i] = after[i - Len(before)]
        BY <2>8, <2>4, <2>5, <2>7, <4>1
      <4> QED
        BY <2>5, <3>2, <4>1, <4>2
    <3> QED
      BY <3>1, <3>2
  <2>10. /\ DOMAIN s = 1..Len(s) /\ DOMAIN r = 1..Len(s) - 1 /\ Len(s) \in Nat /\ Len(r) = Len(s) - 1
         /\ k \in 1..Len(s) /\ \A i \in 1..Len(s) : s[i] = g <=> i = k
         /\ \A i, j \in 1..Len(s) : s[i] = s[j] => i = j
    BY <1>2, <2>8
  <2>11. \A i \in 1..Len(s) - 1 : \E j \in 1..Len(s) : j # k /\ r[i] = s[j] /\ j = IF i < k THEN i ELSE i + 1
    <3> SUFFICES ASSUME NEW i \in 1..Len(s) - 1
                 PROVE  \E j \in 1..Len(s) : j # k /\ r[i] = s[j] /\ j = IF i < k THEN i ELSE i + 1
      OBVIOUS
    <3> DEFINE j == IF i < k THEN i ELSE i + 1
    <3>1. j \in 1..Len(s) /\ j # k
      BY <2>10
    <3>2. r[i] = s[j]
      BY <2>9, <2>10
    <3> HIDE DEF j
    <3> QED
      BY <3>1, <3>2 DEF j
  <2>12. \A j \in 1..Len(s) : j # k => \E i \in 1..Len(s) - 1 : r[i] = s[j]
    <3> SUFFICES ASSUME NEW j \in 1..Len(s), j # k  PROVE \E i \in 1..Len(s) - 1 : r[i] = s[j]
      OBVIOUS
    <3> DEFINE i == IF j < k THEN j ELSE j - 1
    <3>1. i \in 1..Len(s) - 1 /\ j = IF i < k THEN i ELSE i + 1
      BY <2>10
    <3> HIDE DEF i
    <3>2. r[i] = s[j]
      BY <2>9, <2>10, <3>1
    <3> QED
      BY <3>1, <3>2
  <2>13. \A i, j \in DOMAIN r : r[i] = r[j] => i = j
    <3> SUFFICES ASSUME NEW i \in 1..Len(s) - 1, NEW j \in 1..Len(s) - 1, r[i] = r[j]  PROVE i = j
      BY <2>10
    <3>1. PICK m \in 1..Len(s) : r[i] = s[m] /\ m = IF i < k THEN i ELSE i + 1
      BY <2>11
    <3>2. PICK n \in 1..Len(s) : r[j] = s[n] /\ n = IF j < k THEN j ELSE j + 1
      BY <2>11
    <3>3. m = n
      BY <2>10, <3>1, <3>2
    <3> QED
      BY <2>10, <3>1, <3>2, <3>3
  <2>14. ToSet(r) = ToSet(s) \ {g}
    <3>1. ToSet(r) = {r[i] : i \in 1..Len(s) - 1} /\ ToSet(s) = {s[i] : i \in 1..Len(s)}
      BY <2>10 DEF ToSet
    <3>2. ASSUME NEW v \in ToSet(r)  PROVE v \in ToSet(s) \ {g}
      BY <2>10, <2>11, <3>1
    <3>3. ASSUME NEW v \in ToSet(s) \ {g}  PROVE v \in ToSet(r)
      BY <2>10, <2>12, <3>1
    <3> QED
      BY <3>2, <3>3
  <2> QED
    BY <2>8, <2>10, <2>13, <2>14 DEF r
<1> QED
  BY <1>1, <1>2

\* _setCached: the cache holds what it held or the new entry, and no more
\* entries than it may.
LEMMA SetCachedEffect ==
    ASSUME TypeOK, KeysOnce, NEW g \in Guilds, NEW doc \in Config, SetCached(g, doc)
    PROVE  /\ order' \in Seq(Guilds) /\ Len(order') <= MaxCache
           /\ cache' \in [Guilds -> Config \cup {Nil}]
           /\ ToSet(order') = {h \in Guilds : cache'[h] # Nil}
           /\ KeysOnce'
           /\ \A h \in Guilds : cache'[h] \in {Nil, IF h = g THEN doc ELSE cache[h]}
<1> DEFINE rest == RemoveFirst(order, g)
           moved == Append(rest, g)
           kept == IF Len(moved) > MaxCache
                   THEN SubSeq(moved, Len(moved) - MaxCache + 1, Len(moved)) ELSE moved
<1>1. /\ rest \in Seq(Guilds) /\ Len(rest) <= MaxCache
      /\ ToSet(rest) = ToSet(order) \ {g}
      /\ \A i, j \in DOMAIN rest : rest[i] = rest[j] => i = j
  BY KeyRemoved, StoreAssumption DEF TypeOK, KeysOnce
<1>2. /\ moved \in Seq(Guilds) /\ Len(moved) <= MaxCache + 1
      /\ \A i \in DOMAIN moved : moved[i] \in ToSet(order) \cup {g}
  <2>1. moved \in Seq(Guilds) /\ Len(moved) = Len(rest) + 1
    BY <1>1
  <2>2. \A i \in 1..Len(rest) : moved[i] = rest[i] /\ rest[i] \in ToSet(rest)
    BY <1>1 DEF ToSet
  <2>3. moved[Len(rest) + 1] = g
    BY <1>1
  <2> QED
    BY <1>1, <2>1, <2>2, <2>3, StoreAssumption
<1>3. \A i, j \in DOMAIN moved : moved[i] = moved[j] => i = j
  BY <1>1 DEF ToSet
<1> HIDE DEF moved
<1>4. /\ kept \in Seq(Guilds) /\ Len(kept) <= MaxCache
      /\ \A i, j \in DOMAIN kept : kept[i] = kept[j] => i = j
      /\ \A i \in DOMAIN kept : kept[i] \in ToSet(order) \cup {g}
  BY <1>2, <1>3, StoreAssumption
<1>5. order' = kept
  BY DEF SetCached, moved
<1>6. cache' = [h \in Guilds |-> IF h \notin ToSet(kept) THEN Nil
                                 ELSE IF h = g THEN doc ELSE cache[h]]
  BY DEF SetCached, moved
<1> HIDE DEF kept
<1>7. ToSet(kept) \subseteq Guilds /\ \A h \in ToSet(kept) : h = g \/ cache[h] # Nil
  BY <1>4 DEF ToSet, TypeOK
<1>8. cache' \in [Guilds -> Config \cup {Nil}]
  BY <1>6 DEF TypeOK
<1>9. ToSet(kept) = {h \in Guilds : cache'[h] # Nil}
  BY <1>6, <1>7, StoreAssumption
<1> QED
  BY <1>4, <1>5, <1>6, <1>8, <1>9 DEF KeysOnce

-----------------------------------------------------------------------------
(* The invariant, action by action.                                        *)

LEMMA IdleState == NoCall \in CallStates /\ NoCall.phase = "idle" /\ NoCall.field = Nil
BY DEF NoCall, CallStates, Phases

LEMMA InitInv == Init => Inv
<1> SUFFICES ASSUME Init PROVE Inv
  OBVIOUS
<1>1. \A c \in Callers : call[c] = NoCall /\ ~InProgress(c)
  BY IdleState DEF Init, InProgress
<1>2. TypeOK
  <2>1. ToSet(order) = {} /\ {g \in Guilds : cache[g] # Nil} = {}
    BY DEF Init, ToSet
  <2> QED
    BY <2>1, IdleState, StoreAssumption DEF Init, TypeOK
<1>3. CallsTyped /\ KeysOnce
  BY <1>1, IdleState DEF Init, CallsTyped, KeysOnce
<1>4. LoadsKnown /\ OneLoadPerGuild
  BY <1>1, IdleState DEF Init, LoadsKnown, OneLoadPerGuild
<1>5. OneAtATime /\ CarriesStored /\ CacheCoherent
  BY <1>1, IdleState DEF Init, OneAtATime, CarriesStored, CacheCoherent
<1> QED
  BY <1>2, <1>3, <1>4, <1>5 DEF Inv

LEMMA ExpireInv == ASSUME Inv, NEW g \in Guilds, Expire(g) PROVE Inv'
<1>1. /\ order' \in Seq(Guilds) /\ Len(order') <= Len(order)
      /\ ToSet(order') = ToSet(order) \ {g} /\ KeysOnce'
  BY KeyRemoved DEF Inv, TypeOK, KeysOnce, Expire
<1>2. /\ cache' \in [Guilds -> Config \cup {Nil}]
      /\ {h \in Guilds : cache'[h] # Nil} = {h \in Guilds : cache[h] # Nil} \ {g}
  BY StoreAssumption DEF Inv, TypeOK, Expire
<1>3. TypeOK'
  BY <1>1, <1>2, StoreAssumption DEF Inv, TypeOK, Expire
<1>4. CallsTyped' /\ LoadsKnown' /\ OneLoadPerGuild' /\ OneAtATime' /\ CarriesStored'
  BY DEF Inv, Expire, CallsTyped, LoadsKnown, OneLoadPerGuild, OneAtATime, InProgress, CarriesStored
<1>5. CacheCoherent'
  BY <1>2 DEF Inv, TypeOK, Expire, CacheCoherent
<1> QED
  BY <1>1, <1>3, <1>4, <1>5 DEF Inv

LEMMA StartInv ==
    ASSUME Inv, NEW c \in Callers, NEW g \in Guilds,
           NEW f \in Settings \cup {Nil}, NEW v \in SettingValues \cup {Nil},
           f # Nil => f \in Settings /\ v \in SettingValues,
           Start(c, g, f, v)
    PROVE  Inv'
<1>1. PICK phase \in {"have", "joined", "finding"}, doc \in Config \cup {Nil} :
        /\ call' = [call EXCEPT ![c] =
              [phase |-> phase, guild |-> g, field |-> f, value |-> v, doc |-> doc]]
        /\ phase = "have" => cache[g] # Nil /\ doc = cache[g] /\ inFlight' = inFlight
        /\ phase = "joined" => inFlight[g] # Nil /\ inFlight' = inFlight
        /\ phase = "finding" => inFlight[g] = Nil /\ inFlight' = [inFlight EXCEPT ![g] = c]
  BY DEF Start, Inv, TypeOK
<1>2. /\ call'[c] = [phase |-> phase, guild |-> g, field |-> f, value |-> v, doc |-> doc]
      /\ \A d \in Callers \ {c} : call'[d] = call[d]
      /\ ~InProgress(c) /\ call[c].phase = "idle"
      /\ UNCHANGED <<db, cache, order>>
      /\ calm' => calm /\ \A d \in Callers : ~InProgress(d)
      /\ calm' \in BOOLEAN
  BY <1>1 DEF Inv, TypeOK, Start, InProgress
<1>3. TypeOK'
  <2>1. call' \in [Callers -> CallStates]
    BY <1>1 DEF Inv, TypeOK, CallStates, Phases
  <2>2. seen' \in [Callers -> Config \cup {Nil}] /\ inFlight' \in [Guilds -> Callers \cup {Nil}]
    BY <1>1 DEF Inv, TypeOK, Start
  <2> QED
    BY <1>2, <2>1, <2>2 DEF Inv, TypeOK
<1>4. CallsTyped' /\ KeysOnce'
  BY <1>1, <1>2 DEF Inv, TypeOK, CallsTyped, KeysOnce
<1>5. LoadsKnown'
  BY <1>1, <1>2, StoreAssumption DEF Inv, TypeOK, LoadsKnown
<1>6. OneLoadPerGuild'
  BY <1>1, <1>2, StoreAssumption DEF Inv, TypeOK, LoadsKnown, OneLoadPerGuild, CallsTyped
<1>7. OneAtATime'
  BY <1>2 DEF OneAtATime, InProgress
<1>8. CarriesStored'
  BY <1>1, <1>2 DEF Inv, TypeOK, CarriesStored, CacheCoherent, InProgress
<1>9. CacheCoherent'
  BY <1>1, <1>2 DEF Inv, TypeOK, CacheCoherent, InProgress
<1> QED
  BY <1>3, <1>4, <1>5, <1>6, <1>7, <1>8, <1>9 DEF Inv

\* The table of loads stays right when a load goes on, or a call that has none
\* and awaits none goes on or ends.
LEMMA LoadsKept ==
    ASSUME Inv, NEW c \in Callers, UNCHANGED inFlight,
           \A d \in Callers \ {c} : call'[d] = call[d],
           \/ /\ call[c].phase \in {"finding", "found"} /\ call'[c].phase \in {"finding", "found"}
              /\ call'[c].guild = call[c].guild
           \/ /\ call[c].phase \notin {"finding", "found"}
              /\ call'[c].phase \notin {"finding", "found", "joined"}
    PROVE  LoadsKnown' /\ OneLoadPerGuild'
<1>1. \A g \in Guilds : inFlight[g] # Nil => inFlight[g] \in Callers
  BY DEF Inv, TypeOK
<1>2. LoadsKnown'
  <2> SUFFICES ASSUME NEW g \in Guilds, inFlight[g] # Nil
               PROVE  /\ call'[inFlight[g]].guild = g
                      /\ call'[inFlight[g]].phase \in {"finding", "found"}
    BY DEF LoadsKnown
  <2>1. /\ inFlight[g] \in Callers /\ call[inFlight[g]].guild = g
        /\ call[inFlight[g]].phase \in {"finding", "found"}
    BY <1>1 DEF Inv, LoadsKnown
  <2> QED
    BY <2>1
<1>3. ASSUME NEW d \in Callers, call'[d].phase \in {"finding", "found"}
      PROVE  inFlight[call'[d].guild] = d
  BY <1>3 DEF Inv, OneLoadPerGuild
<1>4. ASSUME NEW d \in Callers, call'[d].phase = "joined"
      PROVE  /\ inFlight[call'[d].guild] # Nil
             /\ call'[inFlight[call'[d].guild]].phase \in {"finding", "found"}
  <2>1. d # c /\ call'[d] = call[d]
    BY <1>4
  <2>2. /\ inFlight[call[d].guild] # Nil
        /\ call[inFlight[call[d].guild]].phase \in {"finding", "found"}
    BY <1>4, <2>1 DEF Inv, OneLoadPerGuild
  <2>3. call[d].guild \in Guilds
    BY <1>4, <2>1 DEF Inv, CallsTyped
  <2> QED
    BY <1>1, <2>1, <2>2, <2>3
<1> QED
  BY <1>2, <1>3, <1>4 DEF OneLoadPerGuild

LEMMA FindOneInv == ASSUME Inv, NEW c \in Callers, FindOne(c) PROVE Inv'
<1>1. /\ call[c].phase = "finding" /\ call[c].guild \in Guilds
      /\ call'[c] = [call[c] EXCEPT !.phase = "found", !.doc = db[call[c].guild]]
      /\ \A d \in Callers \ {c} : call'[d] = call[d]
      /\ UNCHANGED <<db, cache, order, inFlight, seen, calm>>
  BY DEF Inv, TypeOK, CallsTyped, FindOne
<1>2. /\ call'[c].phase = "found" /\ call'[c].doc = db[call[c].guild]
      /\ call'[c].guild = call[c].guild /\ call'[c].field = call[c].field
      /\ call'[c].value = call[c].value
  BY <1>1 DEF Inv, TypeOK, CallStates
<1>3. TypeOK'
  <2>1. call'[c] \in CallStates
    BY ZenonT(40), <1>1 DEF Inv, TypeOK, CallStates, Phases
  <2>2. call' \in [Callers -> CallStates]
    BY <1>1, <2>1 DEF Inv, TypeOK, FindOne
  <2> QED
    BY <1>1, <2>2 DEF Inv, TypeOK
<1>4. CallsTyped' /\ KeysOnce'
  BY ZenonT(40), <1>1, <1>2 DEF Inv, TypeOK, CallsTyped, KeysOnce
<1>5. LoadsKnown' /\ OneLoadPerGuild'
  BY <1>1, <1>2, LoadsKept
<1>6. OneAtATime'
  BY <1>1, <1>2 DEF Inv, OneAtATime, InProgress
<1>7. CarriesStored'
  BY ZenonT(40), <1>1, <1>2 DEF Inv, CarriesStored
<1>8. CacheCoherent'
  BY <1>1, <1>2 DEF Inv, CacheCoherent
<1> QED
  BY <1>3, <1>4, <1>5, <1>6, <1>7, <1>8 DEF Inv

\* The calls that a load answers or fails.
LEMMA WaitersOf ==
    ASSUME Inv, NEW c \in Callers, call[c].phase \in {"finding", "found"}
    PROVE  /\ c \in Waiting(c) /\ call[c].guild \in Guilds /\ inFlight[call[c].guild] = c
           /\ \A d \in Waiting(c) : call[d].guild = call[c].guild
           /\ \A d \in Callers \ Waiting(c) :
                 call[d].phase \in {"finding", "found", "joined"} => call[d].guild # call[c].guild
           /\ calm => \A d \in Callers \ {c} : ~InProgress(d)
<1>1. c \in Waiting(c) /\ call[c].guild \in Guilds /\ inFlight[call[c].guild] = c
  BY DEF Inv, CallsTyped, OneLoadPerGuild, Waiting
<1>2. \A d \in Callers \ Waiting(c) :
         call[d].phase \in {"finding", "found", "joined"} => call[d].guild # call[c].guild
  BY <1>1 DEF Inv, OneLoadPerGuild, Waiting
<1>3. calm => \A d \in Callers \ {c} : ~InProgress(d)
  BY DEF Inv, OneAtATime, InProgress
<1> QED
  BY <1>1, <1>2, <1>3 DEF Waiting

\* When a load is over its entry leaves the table, and nobody awaits it.
LEMMA LoadOver ==
    ASSUME Inv, NEW c \in Callers, call[c].phase \in {"finding", "found"},
           inFlight' = [inFlight EXCEPT ![call[c].guild] = Nil],
           \A d \in Waiting(c) : call'[d].phase \notin {"finding", "found", "joined"},
           \A d \in Callers \ Waiting(c) : call'[d] = call[d]
    PROVE  LoadsKnown' /\ OneLoadPerGuild'
<1> DEFINE g == call[c].guild
<1>1. /\ g \in Guilds /\ inFlight'[g] = Nil
      /\ \A h \in Guilds \ {g} : inFlight'[h] = inFlight[h]
  BY WaitersOf DEF Inv, TypeOK
<1>2. \A h \in Guilds \ {g} : inFlight[h] # Nil =>
         /\ inFlight[h] \in Callers \ Waiting(c)
         /\ call[inFlight[h]].guild = h /\ call[inFlight[h]].phase \in {"finding", "found"}
  BY WaitersOf DEF Inv, TypeOK, LoadsKnown
<1>3. LoadsKnown'
  BY <1>1, <1>2 DEF LoadsKnown
<1>4. \A d \in Callers \ Waiting(c) :
         call[d].phase \in {"finding", "found", "joined"} => call[d].guild \in Guilds \ {g}
  BY WaitersOf DEF Inv, CallsTyped
<1>5. ASSUME NEW d \in Callers, call'[d].phase \in {"finding", "found"}
      PROVE  inFlight'[call'[d].guild] = d
  BY <1>1, <1>4, <1>5 DEF Inv, OneLoadPerGuild
<1>6. ASSUME NEW d \in Callers, call'[d].phase = "joined"
      PROVE  /\ inFlight'[call'[d].guild] # Nil
             /\ call'[inFlight'[call'[d].guild]].phase \in {"finding", "found"}
  <2>1. d \in Callers \ Waiting(c) /\ call'[d] = call[d]
    BY <1>6
  <2>2. inFlight[call[d].guild] # Nil /\ call[d].guild \in Guilds \ {g}
    BY <1>4, <1>6, <2>1 DEF Inv, OneLoadPerGuild
  <2> QED
    BY <1>1, <1>2, <2>1, <2>2
<1> QED
  BY <1>3, <1>5, <1>6 DEF OneLoadPerGuild

LEMMA LoadDoneInv == ASSUME Inv, NEW c \in Callers, LoadDone(c) PROVE Inv'
<1> DEFINE g == call[c].guild
<1>1. /\ call[c].phase = "found" /\ g \in Guilds /\ call[c].doc \in Config
      /\ SetCached(g, call[c].doc) /\ inFlight' = [inFlight EXCEPT ![g] = Nil]
      /\ UNCHANGED <<db, seen, calm>>
  BY DEF Inv, CallsTyped, LoadDone
<1>2. \A d \in Waiting(c) :
         /\ call'[d] \in CallStates
         /\ call'[d].phase = "have" /\ call'[d].doc = call[c].doc
         /\ call'[d].guild = call[d].guild /\ call'[d].field = call[d].field
         /\ call'[d].value = call[d].value
  BY ZenonT(40), <1>1 DEF Inv, TypeOK, CallStates, Phases, LoadDone, Waiting
<1>3. \A d \in Callers \ Waiting(c) : call'[d] = call[d]
  BY DEF LoadDone
<1>4. TypeOK' /\ KeysOnce'
  <2>1. call' \in [Callers -> CallStates]
    BY <1>2, <1>3 DEF Inv, TypeOK, LoadDone
  <2>2. inFlight' \in [Guilds -> Callers \cup {Nil}]
    BY <1>1 DEF Inv, TypeOK
  <2> QED
    BY <1>1, <2>1, <2>2, SetCachedEffect DEF Inv, TypeOK
<1>5. CallsTyped'
  BY <1>1, <1>2, <1>3, WaitersOf DEF Inv, CallsTyped
<1>6. LoadsKnown' /\ OneLoadPerGuild'
  BY <1>1, <1>2, <1>3, LoadOver
<1>7. calm => /\ call[c].doc = db[g] /\ \A d \in Callers \ {c} : ~InProgress(d)
  BY <1>1, WaitersOf DEF Inv, CarriesStored
<1>8. OneAtATime'
  BY <1>1, <1>2, <1>3, <1>7 DEF OneAtATime, InProgress, Waiting
<1>9. CarriesStored'
  BY <1>1, <1>2, <1>3, <1>7, WaitersOf DEF Inv, CarriesStored
<1>10. CacheCoherent'
  <2>1. \A h \in Guilds : cache'[h] \in {Nil, IF h = g THEN call[c].doc ELSE cache[h]}
    BY <1>1, SetCachedEffect DEF Inv
  <2>2. calm => \A d \in Callers : call[d].phase # "written"
    BY <1>1, <1>7 DEF InProgress
  <2> QED
    BY <1>1, <1>7, <2>1, <2>2 DEF Inv, CacheCoherent
<1> QED
  BY <1>4, <1>5, <1>6, <1>8, <1>9, <1>10 DEF Inv

LEMMA LoadFailsInv == ASSUME Inv, NEW c \in Callers, LoadFails(c) PROVE Inv'
<1>1. /\ call[c].phase \in {"finding", "found"}
      /\ inFlight' = [inFlight EXCEPT ![call[c].guild] = Nil]
      /\ \A d \in Waiting(c) : call'[d] = NoCall
      /\ \A d \in Callers \ Waiting(c) : call'[d] = call[d]
      /\ UNCHANGED <<db, cache, order, seen, calm>>
  BY DEF LoadFails, Waiting
<1>2. TypeOK'
  <2>1. call' \in [Callers -> CallStates]
    BY IdleState DEF Inv, TypeOK, LoadFails
  <2>2. inFlight' \in [Guilds -> Callers \cup {Nil}]
    BY <1>1 DEF Inv, TypeOK
  <2> QED
    BY <1>1, <2>1, <2>2 DEF Inv, TypeOK
<1>3. CallsTyped' /\ KeysOnce'
  BY <1>1, IdleState DEF Inv, CallsTyped, KeysOnce
<1>4. LoadsKnown' /\ OneLoadPerGuild'
  BY <1>1, IdleState, LoadOver
<1>5. OneAtATime' /\ CarriesStored'
  BY <1>1, IdleState DEF Inv, OneAtATime, InProgress, CarriesStored
<1>6. CacheCoherent'
  <2>1. calm => \A d \in Callers : call[d].phase # "written"
    BY <1>1, WaitersOf DEF InProgress
  <2> QED
    BY <1>1, <2>1 DEF Inv, CacheCoherent
<1> QED
  BY <1>2, <1>3, <1>4, <1>5, <1>6 DEF Inv

\* A call that returns or is rejected outside a load leaves the cache alone.
LEMMA CallEnds ==
    ASSUME Inv, NEW c \in Callers, call[c].phase \in {"have", "writing", "written"},
           call' = [call EXCEPT ![c] = NoCall], UNCHANGED <<db, cache, order, inFlight>>,
           seen' \in [Callers -> Config \cup {Nil}], calm' \in BOOLEAN, calm' => calm,
           calm' => cache[call[c].guild] \in {Nil, db[call[c].guild]} \/ call[c].phase # "written"
    PROVE  Inv'
<1>1. call'[c] = NoCall /\ \A d \in Callers \ {c} : call'[d] = call[d]
  BY DEF Inv, TypeOK
<1>2. TypeOK'
  BY IdleState DEF Inv, TypeOK
<1>3. CallsTyped' /\ KeysOnce'
  BY <1>1, IdleState DEF Inv, CallsTyped, KeysOnce
<1>4. LoadsKnown' /\ OneLoadPerGuild'
  BY <1>1, IdleState, LoadsKept
<1>5. OneAtATime' /\ CarriesStored'
  BY <1>1, IdleState DEF Inv, OneAtATime, InProgress, CarriesStored
<1>6. CacheCoherent'
  BY <1>1 DEF Inv, CacheCoherent
<1> QED
  BY <1>2, <1>3, <1>4, <1>5, <1>6 DEF Inv

\* The document an update is about to write.
LEMMA PatchedDocument ==
    ASSUME Inv, NEW c \in Callers, call[c].phase = "have", call[c].field # Nil
    PROVE  Patched(c) \in Config
BY DEF Inv, CallsTyped, Patched, Config

LEMMA ContinueInv == ASSUME Inv, NEW c \in Callers, Continue(c) PROVE Inv'
<1>1. call[c].phase = "have" /\ call[c].doc \in Config /\ UNCHANGED <<db, cache, order, inFlight, calm>>
  BY DEF Inv, CallsTyped, Continue
<1>2. CASE call' = [call EXCEPT ![c] = NoCall] /\ seen' = [seen EXCEPT ![c] = call[c].doc]
  <2>1. seen' \in [Callers -> Config \cup {Nil}] /\ calm' \in BOOLEAN
    BY <1>1, <1>2 DEF Inv, TypeOK
  <2> QED
    BY <1>1, <1>2, <2>1, CallEnds
<1>3. CASE /\ call[c].field # Nil
           /\ call' = [call EXCEPT ![c].phase = "writing", ![c].doc = Patched(c)]
           /\ seen' = seen
  <2>1. /\ call'[c] = [call[c] EXCEPT !.phase = "writing", !.doc = Patched(c)]
        /\ \A d \in Callers \ {c} : call'[d] = call[d]
    BY <1>3 DEF Inv, TypeOK
  <2>2. /\ call'[c].phase = "writing" /\ call'[c].doc = Patched(c) /\ call'[c].guild = call[c].guild
        /\ call'[c].field = call[c].field /\ call'[c].value = call[c].value
        /\ call'[c] \in CallStates
    BY ZenonT(40), <1>1, <1>3, <2>1, PatchedDocument DEF Inv, TypeOK, CallStates, Phases
  <2>3. TypeOK'
    <3>1. call' \in [Callers -> CallStates]
      BY <1>3, <2>1, <2>2 DEF Inv, TypeOK
    <3> QED
      BY <1>1, <1>3, <3>1 DEF Inv, TypeOK
  <2>4. CallsTyped' /\ KeysOnce'
    BY ZenonT(40), <1>1, <1>3, <2>1, <2>2, PatchedDocument DEF Inv, CallsTyped, KeysOnce
  <2>5. LoadsKnown' /\ OneLoadPerGuild'
    BY <1>1, <2>1, <2>2, LoadsKept
  <2>6. OneAtATime'
    BY <1>1, <2>1, <2>2 DEF Inv, OneAtATime, InProgress
  <2>7. CarriesStored'
    <3>1. calm => call[c].doc = db[call[c].guild]
      BY <1>1 DEF Inv, CarriesStored
    <3>2. calm => Patched(c) = [db[call[c].guild] EXCEPT ![call[c].field] = call[c].value]
      BY <3>1 DEF Patched
    <3>3. calm => call'[c].doc = [db[call'[c].guild] EXCEPT ![call'[c].field] = call'[c].value]
      BY <2>2, <3>2
    <3>4. calm' = calm /\ db' = db
      BY <1>1
    <3> QED
      BY <2>1, <2>2, <3>3, <3>4 DEF Inv, CarriesStored
  <2>8. CacheCoherent'
    BY <1>1, <2>1, <2>2 DEF Inv, CacheCoherent
  <2> QED
    BY <2>3, <2>4, <2>5, <2>6, <2>7, <2>8 DEF Inv
<1> QED
  BY <1>2, <1>3 DEF Continue

LEMMA UpdateOneInv == ASSUME Inv, NEW c \in Callers, UpdateOne(c) PROVE Inv'
<1>1. /\ call[c].phase = "writing" /\ call[c].guild \in Guilds /\ call[c].doc \in Config
      /\ db' = [db EXCEPT ![call[c].guild] = call[c].doc]
      /\ UNCHANGED <<cache, order, inFlight, seen, calm>>
  BY DEF Inv, CallsTyped, UpdateOne
<1>2. /\ call'[c] = [call[c] EXCEPT !.phase = "written"]
      /\ \A d \in Callers \ {c} : call'[d] = call[d]
  BY DEF Inv, TypeOK, UpdateOne
<1>3. /\ call'[c].phase = "written" /\ call'[c].doc = call[c].doc /\ call'[c].guild = call[c].guild
      /\ call'[c].field = call[c].field /\ call'[c].value = call[c].value
      /\ call'[c] \in CallStates
  BY <1>2 DEF Inv, TypeOK, CallStates, Phases
<1>4. TypeOK'
  <2>1. call' \in [Callers -> CallStates]
    BY <1>2, <1>3 DEF Inv, TypeOK, UpdateOne
  <2> QED
    BY <1>1, <2>1 DEF Inv, TypeOK
<1>5. CallsTyped' /\ KeysOnce'
  BY <1>1, <1>2, <1>3 DEF Inv, CallsTyped, KeysOnce
<1>6. LoadsKnown' /\ OneLoadPerGuild'
  BY <1>1, <1>2, <1>3, LoadsKept
<1>7. calm => \A d \in Callers \ {c} : ~InProgress(d)
  BY <1>1 DEF Inv, OneAtATime, InProgress
<1>8. OneAtATime'
  BY <1>1, <1>2, <1>7 DEF OneAtATime, InProgress
<1>9. CarriesStored'
  BY <1>1, <1>2, <1>3, <1>7 DEF Inv, TypeOK, CarriesStored, InProgress
<1>10. CacheCoherent'
  <2> SUFFICES ASSUME NEW h \in Guilds, calm, cache[h] # Nil,
                      \A d \in Callers : call'[d].guild = h => call'[d].phase # "written"
               PROVE  cache[h] = db'[h]
    BY <1>1 DEF CacheCoherent
  <2>1. h # call[c].guild /\ db'[h] = db[h]
    BY <1>1, <1>3 DEF Inv, TypeOK
  <2>2. \A d \in Callers : call[d].guild = h => call[d].phase # "written"
    BY <1>1, <1>2
  <2> QED
    BY <2>1, <2>2 DEF Inv, CacheCoherent
<1> QED
  BY <1>4, <1>5, <1>6, <1>8, <1>9, <1>10 DEF Inv

LEMMA SavedInv == ASSUME Inv, NEW c \in Callers, Saved(c) PROVE Inv'
<1> DEFINE g == call[c].guild
<1>1. /\ call[c].phase = "written" /\ g \in Guilds /\ call[c].doc \in Config
      /\ SetCached(g, call[c].doc) /\ call' = [call EXCEPT ![c] = NoCall]
      /\ UNCHANGED <<db, inFlight, calm>>
  BY DEF Inv, CallsTyped, Saved
<1>2. call'[c] = NoCall /\ \A d \in Callers \ {c} : call'[d] = call[d]
  BY <1>1 DEF Inv, TypeOK
<1>3. TypeOK' /\ KeysOnce'
  <2>1. seen' \in [Callers -> Config \cup {Nil}] /\ call' \in [Callers -> CallStates]
    BY <1>1, IdleState DEF Inv, TypeOK, Saved
  <2> QED
    BY <1>1, <2>1, SetCachedEffect DEF Inv, TypeOK
<1>4. CallsTyped' /\ LoadsKnown' /\ OneLoadPerGuild'
  BY <1>1, <1>2, IdleState, LoadsKept DEF Inv, CallsTyped
<1>5. OneAtATime' /\ CarriesStored'
  BY <1>1, <1>2, IdleState DEF Inv, OneAtATime, InProgress, CarriesStored
<1>6. CacheCoherent'
  <2>1. \A h \in Guilds : cache'[h] \in {Nil, IF h = g THEN call[c].doc ELSE cache[h]}
    BY <1>1, SetCachedEffect DEF Inv
  <2>2. calm => call[c].doc = db[g]
    BY <1>1 DEF Inv, CarriesStored
  <2>3. ASSUME NEW h \in Guilds, h # g,
               \A d \in Callers : call'[d].guild = h => call'[d].phase # "written"
        PROVE  \A d \in Callers : call[d].guild = h => call[d].phase # "written"
    BY <1>2, <2>3
  <2> QED
    BY <1>1, <2>1, <2>2, <2>3 DEF Inv, CacheCoherent
<1> QED
  BY <1>3, <1>4, <1>5, <1>6 DEF Inv

LEMMA WriteFailsInv == ASSUME Inv, NEW c \in Callers, WriteFails(c) PROVE Inv'
<1>1. /\ call[c].phase \in {"writing", "written"} /\ call' = [call EXCEPT ![c] = NoCall]
      /\ calm' = (calm /\ call[c].phase = "writing") /\ UNCHANGED <<db, cache, order, inFlight, seen>>
  BY DEF WriteFails
<1>2. seen' \in [Callers -> Config \cup {Nil}] /\ calm' \in BOOLEAN /\ (calm' => calm)
  BY <1>1 DEF Inv, TypeOK
<1>3. calm' => call[c].phase # "written"
  BY <1>1
<1> QED
  BY <1>1, <1>2, <1>3, CallEnds

LEMMA NextInv == Inv /\ [Next]_vars => Inv'
<1> SUFFICES ASSUME Inv, [Next]_vars PROVE Inv'
  OBVIOUS
<1>1. ASSUME NEW c \in Callers, Step(c) PROVE Inv'
  BY <1>1, FindOneInv, LoadDoneInv, LoadFailsInv, ContinueInv, UpdateOneInv, SavedInv, WriteFailsInv
     DEF Step
<1>2. ASSUME NEW c \in Callers, NEW g \in Guilds, Start(c, g, Nil, Nil) PROVE Inv'
  BY <1>2, StartInv
<1>3. ASSUME NEW c \in Callers, NEW g \in Guilds, NEW f \in Settings, NEW v \in SettingValues, Start(c, g, f, v)
      PROVE  Inv'
  BY <1>3, StartInv
<1>4. ASSUME NEW g \in Guilds, Expire(g) PROVE Inv'
  BY <1>4, ExpireInv
<1>5. CASE UNCHANGED vars
  BY <1>5 DEF vars, Inv, TypeOK, CallsTyped, KeysOnce, LoadsKnown, OneLoadPerGuild,
              OneAtATime, InProgress, CarriesStored, CacheCoherent
<1> QED
  BY <1>1, <1>2, <1>3, <1>4, <1>5 DEF Next

LEMMA Invariance == Spec => []Inv
<1>1. Init => Inv
  BY InitInv
<1>2. Inv /\ [Next]_vars => Inv'
  BY NextInv
<1> QED
  BY <1>1, <1>2, PTL DEF Spec

-----------------------------------------------------------------------------
(* Theorems.                                                               *)

\* Whatever calls race, fail and time out: the cache stays within its bound and
\* in step with its order, loads of a guild are shared and never abandoned, and
\* as long as no calls have raced the cache agrees with the collection.
THEOREM StoreIsSound == Spec => []StoreSound
<1>1. Inv => StoreSound
  BY DEF Inv, StoreSound
<1> QED
  BY <1>1, Invariance, PTL

\* A step of the store is a step of the register, or leaves it alone.
LEMMA StepRefines ==
    ASSUME Inv, [Next]_vars
    PROVE  [Register!Next]_<<db, seen, calm>>
<1> USE DEF Register!Next, Register!Race, Register!Begin, Register!Answer, Register!Apply
<1>1. CASE ~calm'
  BY <1>1
<1>2. CASE calm' /\ \E c \in Callers, g \in Guilds : \E f, v : Start(c, g, f, v)
  BY <1>2 DEF Start, Inv, TypeOK
<1>3. CASE calm' /\ \E c \in Callers : FindOne(c) \/ LoadDone(c) \/ LoadFails(c)
  BY <1>3 DEF FindOne, LoadDone, LoadFails
<1>4. ASSUME calm', NEW c \in Callers, Continue(c)
      PROVE  [Register!Next]_<<db, seen, calm>>
  <2>1. calm /\ call[c].phase = "have" /\ call[c].guild \in Guilds
    BY <1>4 DEF Inv, CallsTyped, Continue
  <2>2. call[c].doc = db[call[c].guild]
    BY <2>1 DEF Inv, CarriesStored
  <2> QED
    BY <1>4, <2>1, <2>2 DEF Continue
<1>5. ASSUME calm', NEW c \in Callers, UpdateOne(c)
      PROVE  [Register!Next]_<<db, seen, calm>>
  <2> DEFINE g == call[c].guild
             f == call[c].field
             v == call[c].value
  <2>1. /\ calm /\ call[c].phase = "writing"
        /\ g \in Guilds /\ f \in Settings /\ v \in SettingValues
    BY <1>5 DEF Inv, CallsTyped, UpdateOne
  <2>2. call[c].doc = [db[g] EXCEPT ![f] = v]
    BY <2>1 DEF Inv, CarriesStored
  <2>3. Register!Apply(g, f, v)
    BY <1>5, <2>2 DEF UpdateOne
  <2> QED
    BY <2>1, <2>3
<1>6. ASSUME calm', NEW c \in Callers, Saved(c)
      PROVE  [Register!Next]_<<db, seen, calm>>
  <2>1. calm /\ call[c].phase = "written" /\ call[c].guild \in Guilds
    BY <1>6 DEF Inv, CallsTyped, Saved
  <2>2. call[c].doc = db[call[c].guild]
    BY <2>1 DEF Inv, CarriesStored
  <2> QED
    BY <1>6, <2>1, <2>2 DEF Saved
<1>7. CASE calm' /\ \E c \in Callers : WriteFails(c)
  BY <1>7 DEF WriteFails, Inv, TypeOK
<1>8. CASE (\E g \in Guilds : Expire(g)) \/ UNCHANGED vars
  BY <1>8 DEF Expire, vars
<1> QED
  BY <1>1, <1>2, <1>3, <1>4, <1>5, <1>6, <1>7, <1>8 DEF Next, Step

\* As long as no calls have raced and no reply was lost, the store, with its
\* cache and its shared loads, is one register per guild: an update changes the
\* field of its patch and nothing else, and every answer is what is stored.
THEOREM StoreIsRegister == Spec => IsRegister
<1>1. Init => Register!Init
  BY StoreAssumption DEF Init, Register!Init, Config, Register!Config
<1>2. Inv /\ [Next]_vars => [Register!Next]_<<db, seen, calm>>
  BY StepRefines
<1> QED
  BY <1>1, <1>2, Invariance, PTL DEF Spec, IsRegister, Register!Spec

-----------------------------------------------------------------------------
(* The library, DataCommands: what a call carries.                         *)

\* The entries of a list of the feature document.
EntriesOf(l) ==
    {f \in [Keys -> Entry(l) \cup {None}] :
        l = "queueTemplates" => \A k \in Keys : f[k] # None => Len(f[k]) \in 1..MaxSaved}

\* What the arguments of a command are, and what it has read, at each stage.
CallShape(op, at, on, key, given, read) ==
    /\ op \in {"create", "delete", "add", "remove"} => on \in Names
    /\ op \in {"remove", "ufav"} => key \in Nat \ {0}
    /\ op \in {"add", "fav", "append", "import", "apply"} => given \in Seq(Songs)
    /\ op \in {"append", "apply"} \/ (op = "fav" /\ at \in {"read", "push"}) \/ (op = "import" /\ at = "read")
          => given # <<>>
    /\ op = "add" /\ at = "push" => read \in Seq(Songs)
    /\ op \in {"remove", "ufav"} /\ at = "write" => read \in Seq(Songs)
    /\ at = "access" => op \notin {"fav", "import"}
    /\ at = "preview" => op \in {"add", "edit", "fav", "import"}
    /\ at = "permission" => op \in {"edit", "drop", "apply"}
    /\ op = "import" => key \in Keys
    /\ op \in {"edit", "drop", "apply"} => on \in Lists /\ key \in Keys
    /\ op = "apply" => on = "queueTemplates"
    /\ op = "edit" => given \in IF on = "queueTemplates" THEN Seq(Songs) \ {<<>>} ELSE Values \cup {None}
    /\ op \in {"edit", "drop", "apply"} /\ at \in {"permission", "write"} => read[on] \in EntriesOf(on)
    /\ op = "set" => on \in Fields /\ key \in Keys /\ given \in Values \cup {None}

CallFits(k) ==
    /\ DOMAIN k = DOMAIN Idle /\ k.at \in Stages
    /\ k.at # "idle" => CallShape(k.op, k.at, k.on, k.key, k.given, k.seen)

CallsFit == DOMAIN calls = Calls /\ \A c \in Calls : CallFits(calls[c])

DocumentsFit ==
    /\ playlists \in [Names -> Seq(Songs) \cup {None}]
    /\ favorites \in Seq(Songs)
    /\ history \in Seq(Songs) /\ Len(history) <= MaxHistory
    /\ DOMAIN features = Lists \cup Fields
    /\ \A l \in Lists \cup Fields : features[l] \in EntriesOf(l)
    /\ begun \in 0..MaxBegun /\ recapSent \in BOOLEAN
    /\ pending # None => pending.key \in Keys /\ pending.tracks \in Seq(Songs) \ {<<>>}

\* Calls that have counted and have yet to insert.
Inserting == {c \in Calls : calls[c].at = "insert"}

Counted ==
    /\ IsFiniteSet(Existing)
    /\ Cardinality(Existing) + Cardinality(Inserting) <= MaxPlaylists + Cardinality(Calls) - 1

LibraryInv == DocumentsFit /\ CallsFit /\ Counted

(*----------------------------- sequences ----------------------------------*)
LEMMA SliceOfSongs ==
    ASSUME NEW s \in Seq(Songs), NEW n \in Nat
    PROVE  /\ Slice(s, 0, n) \in Seq(Songs) /\ Len(Slice(s, 0, n)) <= n
           /\ s # <<>> /\ n # 0 => Len(Slice(s, 0, n)) \in 1..n
<1>1. Len(s) \in Nat /\ \A i \in 1..Len(s) : s[i] \in Songs
  BY LenProperties, ElementOfSeq
<1> DEFINE m == IF n > Len(s) THEN Len(s) ELSE n
<1>2. m \in Nat /\ m <= Len(s) /\ m <= n /\ Slice(s, 0, n) = SubSeq(s, 1, m)
  BY <1>1 DEF Slice
<1>3. \A i \in 1..m : s[i] \in Songs
  BY <1>1, <1>2
<1> HIDE DEF m
<1>4. SubSeq(s, 1, m) \in Seq(Songs) /\ Len(SubSeq(s, 1, m)) = IF 1 <= m THEN m - 1 + 1 ELSE 0
  BY <1>2, <1>3, SubSeqProperties
<1>5. s # <<>> => Len(s) > 0
  BY <1>1, EmptySeq
<1> QED
  BY <1>1, <1>2, <1>4, <1>5 DEF m

LEMMA RemovedOfSongs ==
    ASSUME NEW s \in Seq(Songs), NEW i \in Nat \ {0}
    PROVE  i <= Len(s) => RemoveAt(s, i) \in Seq(Songs)
<1> SUFFICES ASSUME i <= Len(s) PROVE RemoveAt(s, i) \in Seq(Songs)
  OBVIOUS
<1>1. Len(s) \in Nat /\ \A j \in 1..Len(s) : s[j] \in Songs
  BY LenProperties, ElementOfSeq
<1>2. SubSeq(s, 1, i - 1) \in Seq(Songs)
  BY <1>1, SubSeqProperties
<1>3. SubSeq(s, i + 1, Len(s)) \in Seq(Songs)
  BY <1>1, SubSeqProperties
<1> QED
  BY <1>2, <1>3, ConcatProperties DEF RemoveAt

LEMMA PrefixOfConcat ==
    ASSUME NEW s \in Seq(Songs), NEW t \in Seq(Songs)
    PROVE  IsPrefix(s, s) /\ IsPrefix(s, s \o t)
<1>1. Len(s) \in Nat /\ Len(t) \in Nat /\ Len(s \o t) = Len(s) + Len(t) /\ s \o t \in Seq(Songs)
  BY LenProperties, ConcatProperties
<1>2. SubSeq(s, 1, Len(s)) = s
  BY SubSeqFull
<1>3. SubSeq(s \o t, 1, Len(s)) = SubSeq(s, 1, Len(s))
  <2>1. CASE Len(s) = 0
    BY <2>1, SubSeqEmpty
  <2>2. CASE Len(s) # 0
    BY <1>1, <2>2, SubSeqOfConcat1
  <2> QED
    BY <2>1, <2>2
<1> QED
  BY <1>1, <1>2, <1>3 DEF IsPrefix

(*------------------------- how a call goes on -----------------------------*)
CallFields == {"op", "at", "on", "key", "given", "seen", "before", "alone", "answer"}

Others(c) == DOMAIN calls' = Calls /\ \A d \in Calls \ {c} : calls'[d] = calls[d]
Over(c) == Others(c) /\ DOMAIN calls'[c] = DOMAIN Idle /\ calls'[c].at = "idle"
Turns(c, at, given, read) ==
    /\ Others(c) /\ DOMAIN calls'[c] = DOMAIN Idle
    /\ calls'[c].op = calls[c].op /\ calls'[c].on = calls[c].on /\ calls'[c].key = calls[c].key
    /\ calls'[c].at = at /\ calls'[c].given = given /\ calls'[c].seen = read

LEMMA IdleFields == DOMAIN Idle = CallFields /\ Idle.at = "idle" /\ CallFits(Idle)
BY DEF Idle, CallFields, CallFits, Stages

LEMMA AnswerEnds ==
    ASSUME CallsFit, NEW c \in Calls, NEW is, NEW of, Answer(c, is, of)
    PROVE  Over(c)
<1> DEFINE n == [Idle EXCEPT !.answer = [is |-> is, of |-> of]]
<1>1. calls' = [calls EXCEPT ![c] = n] /\ DOMAIN calls = Calls
  BY DEF Answer, CallsFit
<1>2. DOMAIN n = DOMAIN Idle /\ n.at = "idle"
  BY DEF Idle
<1> HIDE DEF n
<1> QED
  BY <1>1, <1>2 DEF Over, Others

LEMMA SaysEnds == ASSUME CallsFit, NEW c \in Calls, NEW is, Says(c, is)  PROVE Over(c)
BY AnswerEnds DEF Says

LEMMA GotoTurns ==
    ASSUME CallsFit, NEW c \in Calls, NEW stage, NEW read, Goto(c, stage, read)
    PROVE  Turns(c, stage, calls[c].given, read)
<1> DEFINE r == calls[c]
           n == [r EXCEPT !.at = stage, !.seen = read]
<1>1. DOMAIN r = CallFields /\ DOMAIN calls = Calls
  BY IdleFields DEF CallsFit, CallFits
<1>2. calls' = [calls EXCEPT ![c] = n]
  BY <1>1 DEF Goto
<1> HIDE DEF r
<1>3. /\ DOMAIN n = CallFields /\ n.op = r.op /\ n.on = r.on /\ n.key = r.key
      /\ n.at = stage /\ n.given = r.given /\ n.seen = read
  BY <1>1 DEF CallFields
<1> HIDE DEF n
<1> QED
  BY <1>1, <1>2, <1>3, IdleFields DEF Turns, Others, r

\* A call ends, or goes on to a stage that is not the insert with what fits there.
Proceeds(c) ==
    \/ Over(c)
    \/ \E at \in Stages \ {"idle", "insert"} : \E given, read :
          Turns(c, at, given, read)
          /\ CallShape(calls[c].op, at, calls[c].on, calls[c].key, given, read)

LEMMA GoesOn ==
    ASSUME CallsFit, NEW c \in Calls, NEW stage \in Stages \ {"idle", "insert"}, NEW read,
           Goto(c, stage, read),
           CallShape(calls[c].op, stage, calls[c].on, calls[c].key, calls[c].given, read)
    PROVE  Proceeds(c)
BY GotoTurns DEF Proceeds

LEMMA ProceedsFits == ASSUME CallsFit, NEW c \in Calls, Proceeds(c)  PROVE CallsFit' /\ Inserting' \subseteq Inserting
BY DEF Proceeds, Over, Turns, Others, CallsFit, CallFits, Inserting, Stages

\* createGuildPlaylist has counted and will insert.
GoesToInsert(c) ==
    /\ calls[c].at = "count" /\ calls[c].op = "create" /\ Turns(c, "insert", calls[c].given, None)
    /\ UNCHANGED playlists /\ ~(Cardinality(Existing) >= MaxPlaylists)

\* Nothing is asked of what is read at a stage without a write after it.
LEMMA PlainShape ==
    ASSUME CallsFit, NEW c \in Calls, calls[c].at # "idle", NEW stage, NEW read,
           stage \notin {"idle", "access", "read", "push", "write", "preview", "permission", "insert"}
    PROVE  CallShape(calls[c].op, stage, calls[c].on, calls[c].key, calls[c].given, read)
BY DEF CallsFit, CallFits, CallShape

LEMMA PlaylistCalls ==
    ASSUME DocumentsFit, CallsFit, NEW c \in Calls,
           CreateFinds(c) \/ CreateCounts(c) \/ CreateInserts(c) \/ DeletePlaylist(c)
             \/ AddFinds(c) \/ AddPushes(c) \/ RemoveFinds(c) \/ RemoveWrites(c)
             \/ ShowPlaylist(c) \/ ListCounts(c) \/ ListFetches(c)
    PROVE  Proceeds(c) \/ GoesToInsert(c)
<1> DEFINE k == calls[c]
<1>1. /\ k.at \in Stages
      /\ k.at # "idle" => CallShape(k.op, k.at, k.on, k.key, k.given, k.seen)
  BY DEF CallsFit, CallFits
<1>2. CASE CreateFinds(c)
  <2>1. CASE Says(c, "exists")
    BY <2>1, SaysEnds DEF Proceeds
  <2>2. CASE Goto(c, "count", None)
    BY <1>2, <2>2, PlainShape, GoesOn DEF CreateFinds, At, Stages
  <2> QED
    BY <1>2, <2>1, <2>2 DEF CreateFinds
<1>3. CASE CreateCounts(c)
  <2>1. CASE Says(c, "limit")
    BY <2>1, SaysEnds DEF Proceeds
  <2>2. CASE ~(Cardinality(Existing) >= MaxPlaylists) /\ Goto(c, "insert", None)
    BY <1>3, <2>2, GotoTurns DEF CreateCounts, At, GoesToInsert
  <2> QED
    BY <1>3, <2>1, <2>2 DEF CreateCounts
<1>4. CASE CreateInserts(c) \/ DeletePlaylist(c) \/ RemoveWrites(c) \/ AddPushes(c) \/ ShowPlaylist(c) \/ ListFetches(c)
  <2>1. (\E is : Says(c, is)) \/ \E is, of : Answer(c, is, of)
    BY <1>4 DEF CreateInserts, DeletePlaylist, RemoveWrites, AddPushes, ShowPlaylist, ListFetches
  <2> QED
    BY <2>1, SaysEnds, AnswerEnds DEF Proceeds
<1>5. CASE AddFinds(c)
  <2> DEFINE current == playlists[k.on]
             fits == Slice(k.given, 0, MaxTracks - Len(current))
  <2>1. CASE Says(c, "missing") \/ Says(c, "limit")
    BY <2>1, SaysEnds DEF Proceeds
  <2>2. CASE current # None /\ Len(current) < MaxTracks /\ Goto(c, "push", fits)
    <3>1. k.at = "read" /\ k.op = "add" /\ k.on \in Names /\ k.given \in Seq(Songs)
      BY <1>1, <1>5 DEF AddFinds, At, CallShape
    <3>2. current \in Seq(Songs) /\ Len(current) \in Nat
      BY <2>2, <3>1, LenProperties DEF DocumentsFit
    <3>3. MaxTracks - Len(current) \in Nat
      BY <2>2, <3>2, LibraryAssumption
    <3>4. fits \in Seq(Songs)
      BY <3>1, <3>3, SliceOfSongs
    <3> HIDE DEF fits
    <3>5. CallShape(k.op, "push", k.on, k.key, k.given, fits)
      BY <3>1, <3>4 DEF CallShape
    <3> QED
      BY <2>2, <3>5, GoesOn DEF Stages
  <2>3. MaxTracks \in Nat /\ (current # None /\ k.on \in Names => Len(current) \in Nat)
    BY LibraryAssumption, LenProperties DEF DocumentsFit
  <2>4. k.on \in Names /\ k.op = "add"
    BY <1>1, <1>5 DEF AddFinds, At, CallShape
  <2> QED
    BY <1>5, <2>1, <2>2, <2>3, <2>4 DEF AddFinds
<1>6. CASE RemoveFinds(c)
  <2> DEFINE current == playlists[k.on]
             left == RemoveAt(current, k.key)
  <2>1. CASE Says(c, "missing") \/ Says(c, "range")
    BY <2>1, SaysEnds DEF Proceeds
  <2>2. CASE current # None /\ ~(k.key > Len(current)) /\ Goto(c, "write", left)
    <3>1. k.at = "read" /\ k.op = "remove" /\ k.on \in Names /\ k.key \in Nat \ {0}
      BY <1>1, <1>6 DEF RemoveFinds, At, CallShape
    <3>2. current \in Seq(Songs) /\ Len(current) \in Nat
      BY <2>2, <3>1, LenProperties DEF DocumentsFit
    <3>3. left \in Seq(Songs)
      BY <2>2, <3>1, <3>2, RemovedOfSongs
    <3> HIDE DEF left
    <3>4. CallShape(k.op, "write", k.on, k.key, k.given, left)
      BY <3>1, <3>3 DEF CallShape
    <3> QED
      BY <2>2, <3>4, GoesOn DEF Stages
  <2> QED
    BY <1>6, <2>1, <2>2 DEF RemoveFinds
<1>7. CASE ListCounts(c)
  <2>1. PICK page : Goto(c, "page", page)
    BY <1>7 DEF ListCounts
  <2> QED
    BY <1>7, <2>1, PlainShape, GoesOn DEF ListCounts, At, Stages
<1> QED
  BY <1>2, <1>3, <1>4, <1>5, <1>6, <1>7

LEMMA UserCalls ==
    ASSUME DocumentsFit, CallsFit, NEW c \in Calls,
           FavoriteFinds(c) \/ FavoritePushes(c) \/ RecordUserSignal(c)
             \/ UnfavoriteFinds(c) \/ UnfavoriteWrites(c) \/ ListFavorites(c) \/ GetFavorite(c)
             \/ AppendHistory(c) \/ ListHistory(c) \/ ShowCharts(c) \/ RecapTop(c) \/ RecapPlays(c)
    PROVE  Proceeds(c)
<1> DEFINE k == calls[c]
<1>1. /\ k.at \in Stages
      /\ k.at # "idle" => CallShape(k.op, k.at, k.on, k.key, k.given, k.seen)
  BY DEF CallsFit, CallFits
<1>2. CASE FavoriteFinds(c)
  <2>1. CASE Says(c, "duplicate") \/ Says(c, "limit")
    BY <2>1, SaysEnds DEF Proceeds
  <2>2. CASE Goto(c, "push", None)
    <3>1. CallShape(k.op, "push", k.on, k.key, k.given, None)
      BY <1>1, <1>2 DEF FavoriteFinds, At, CallShape
    <3> QED
      BY <2>2, <3>1, GoesOn DEF Stages
  <2> QED
    BY <1>2, <2>1, <2>2 DEF FavoriteFinds
<1>3. CASE FavoritePushes(c) \/ AppendHistory(c)
  BY <1>3, PlainShape, GoesOn DEF FavoritePushes, AppendHistory, At, Stages
<1>4. CASE UnfavoriteFinds(c)
  <2> DEFINE left == RemoveAt(favorites, k.key)
  <2>1. CASE Says(c, "range")
    BY <2>1, SaysEnds DEF Proceeds
  <2>2. CASE ~(k.key > Len(favorites)) /\ Goto(c, "write", left)
    <3>1. k.op = "ufav" /\ k.key \in Nat \ {0}
      BY <1>1, <1>4 DEF UnfavoriteFinds, At, CallShape
    <3>2. favorites \in Seq(Songs) /\ Len(favorites) \in Nat
      BY LenProperties DEF DocumentsFit
    <3>3. left \in Seq(Songs)
      BY <2>2, <3>1, <3>2, RemovedOfSongs
    <3> HIDE DEF left
    <3>4. CallShape(k.op, "write", k.on, k.key, k.given, left)
      BY <3>1, <3>3 DEF CallShape
    <3> QED
      BY <2>2, <3>4, GoesOn DEF Stages
  <2> QED
    BY <1>4, <2>1, <2>2 DEF UnfavoriteFinds
<1>5. CASE RecapTop(c)
  <2>1. PICK top : Goto(c, "plays", top)
    BY <1>5 DEF RecapTop
  <2> QED
    BY <1>5, <2>1, PlainShape, GoesOn DEF RecapTop, At, Stages
<1>6. CASE RecordUserSignal(c) \/ UnfavoriteWrites(c) \/ ListFavorites(c) \/ GetFavorite(c)
             \/ ListHistory(c) \/ ShowCharts(c) \/ RecapPlays(c)
  <2>1. (\E is : Says(c, is)) \/ \E is, of : Answer(c, is, of)
    BY <1>6 DEF RecordUserSignal, UnfavoriteWrites, ListFavorites, GetFavorite, ListHistory, ShowCharts, RecapPlays
  <2> QED
    BY <2>1, SaysEnds, AnswerEnds DEF Proceeds
<1> QED
  BY <1>2, <1>3, <1>4, <1>5, <1>6

LEMMA FeatureCalls ==
    ASSUME DocumentsFit, CallsFit, NEW c \in Calls,
           FeaturesRead(c) \/ SetQueueTemplate(c) \/ SetGuildStation(c) \/ SetVoiceProfile(c)
             \/ DeleteGuildStation(c) \/ DeleteQueueTemplate(c) \/ SetWhatWasRead(c)
             \/ FieldPatched(c) \/ FeatureShown(c)
    PROVE  Proceeds(c)
<1> DEFINE k == calls[c]
<1>1. /\ k.at \in Stages
      /\ k.at # "idle" => CallShape(k.op, k.at, k.on, k.key, k.given, k.seen)
  BY DEF CallsFit, CallFits
<1>2. CASE FeaturesRead(c)
  <2>1. CASE Says(c, "missing")
    BY <2>1, SaysEnds DEF Proceeds
  <2>2. ASSUME NEW stage \in {"permission", "write"}, Goto(c, stage, features)
        PROVE  Proceeds(c)
    <3>1. features[k.on] \in EntriesOf(k.on)
      BY <1>1, <1>2 DEF FeaturesRead, At, CallShape, DocumentsFit
    <3>2. CallShape(k.op, stage, k.on, k.key, k.given, features)
      BY <1>1, <1>2, <2>2, <3>1 DEF FeaturesRead, At, CallShape
    <3> QED
      BY <2>2, <3>2, GoesOn DEF Stages
  <2> QED
    BY <1>2, <2>1, <2>2 DEF FeaturesRead
<1>3. CASE SetQueueTemplate(c)
  <2>1. k.at = "write"
    BY <1>3 DEF SetQueueTemplate, On, At
  <2>2. CASE Says(c, "ok")
    BY <2>2, SaysEnds DEF Proceeds
  <2>3. CASE Goto(c, "applied", None)
    BY <2>1, <2>3, PlainShape, GoesOn DEF Stages
  <2> QED
    BY <1>3, <2>2, <2>3 DEF SetQueueTemplate
<1>4. CASE SetGuildStation(c) \/ SetVoiceProfile(c) \/ DeleteGuildStation(c) \/ DeleteQueueTemplate(c)
             \/ SetWhatWasRead(c) \/ FieldPatched(c) \/ FeatureShown(c)
  <2>1. (\E is : Says(c, is)) \/ \E is, of : Answer(c, is, of)
    BY <1>4 DEF SetGuildStation, SetVoiceProfile, DeleteGuildStation, DeleteQueueTemplate,
                SetWhatWasRead, FieldPatched, FeatureShown
  <2> QED
    BY <2>1, SaysEnds, AnswerEnds DEF Proceeds
<1> QED
  BY <1>2, <1>3, <1>4

LEMMA StoreCalls ==
    ASSUME DocumentsFit, CallsFit, NEW c \in Calls, StoreStep(c)
    PROVE  Proceeds(c) \/ GoesToInsert(c)
BY PlaylistCalls, UserCalls, FeatureCalls DEF StoreStep

(*------------------- commands, before and after the store -----------------*)
LEMMA CommandCalls ==
    ASSUME DocumentsFit, CallsFit, NEW c \in Calls, CommandStep(c)
    PROVE  Proceeds(c) \/ GoesToInsert(c)
<1> DEFINE k == calls[c]
<1>1. /\ k.at \in Stages /\ DOMAIN k = CallFields /\ DOMAIN calls = Calls
      /\ k.at # "idle" => CallShape(k.op, k.at, k.on, k.key, k.given, k.seen)
  BY IdleFields DEF CallsFit, CallFits
<1>2. CASE Access(c)
  <2>1. CASE Says(c, "denied")
    BY <2>1, SaysEnds DEF Proceeds
  <2>2. CASE Goto(c, FirstStage(c), None)
    <3>1. FirstStage(c) \in {"count", "delete", "write", "preview", "read"}
      BY DEF FirstStage
    <3>2. CallShape(k.op, FirstStage(c), k.on, k.key, k.given, None)
      BY <1>1, <1>2 DEF Access, FirstStage, CallShape
    <3> QED
      BY <2>2, <3>1, <3>2, GoesOn DEF Stages
  <2> QED
    BY <1>2, <2>1, <2>2 DEF Access
<1>3. CASE Permission(c)
  <2>1. CASE Says(c, "denied")
    BY <2>1, SaysEnds DEF Proceeds
  <2>2. CASE Goto(c, "write", k.seen)
    <3>1. CallShape(k.op, "write", k.on, k.key, k.given, k.seen)
      BY <1>1, <1>3 DEF Permission, CallShape
    <3> QED
      BY <2>2, <3>1, GoesOn DEF Stages
  <2> QED
    BY <1>3, <2>1, <2>2 DEF Permission
<1>4. ASSUME NEW tracks, calls' = [calls EXCEPT ![c].at = "read", ![c].given = tracks]
      PROVE  Turns(c, "read", tracks, k.seen)
  <2> DEFINE r == calls[c]
             n == [r EXCEPT !.at = "read", !.given = tracks]
  <2>1. calls' = [calls EXCEPT ![c] = n]
    BY <1>1, <1>4
  <2>2. DOMAIN r = CallFields /\ k = r
    BY <1>1
  <2> HIDE DEF r
  <2>3. /\ DOMAIN n = CallFields /\ n.op = r.op /\ n.on = r.on /\ n.key = r.key
        /\ n.at = "read" /\ n.given = tracks /\ n.seen = r.seen
    BY <2>2 DEF CallFields
  <2> HIDE DEF n
  <2> QED
    BY <1>1, <2>1, <2>2, <2>3, IdleFields DEF Turns, Others, r
<1>5. CASE Preview(c)
  <2>1. PICK tracks \in Results :
          IF tracks = <<>> THEN Says(c, "nothing")
          ELSE IF calls[c].op = "edit" THEN Goto(c, "read", None)
          ELSE calls' = [calls EXCEPT ![c].at = "read", ![c].given =
                            IF calls[c].op = "fav" THEN <<Head(tracks)>> ELSE tracks]
    BY <1>5 DEF Preview
  <2>2. CASE Says(c, "nothing")
    BY <2>2, SaysEnds DEF Proceeds
  <2>3. CASE calls[c].op = "edit" /\ Goto(c, "read", None)
    <3>1. CallShape(k.op, "read", k.on, k.key, k.given, None)
      BY <1>1, <1>5, <2>3 DEF Preview, CallShape
    <3> QED
      BY <2>3, <3>1, GoesOn DEF Stages
  <2>4. CASE tracks # <<>> /\ calls[c].op # "edit"
    <3> DEFINE kept == IF calls[c].op = "fav" THEN <<Head(tracks)>> ELSE tracks
    <3>1. kept \in Seq(Songs) /\ kept # <<>>
      <4>1. CASE \E s \in Songs : tracks = <<s>>
        BY <4>1
      <4>2. CASE \E s, u \in Songs : tracks = <<s, u>>
        BY <4>2
      <4> QED
        BY <2>4, <4>1, <4>2 DEF Results
    <3>2. Turns(c, "read", kept, k.seen)
      BY <1>4, <2>1, <2>4
    <3> HIDE DEF kept
    <3>3. CallShape(k.op, "read", k.on, k.key, kept, k.seen)
      BY <1>1, <1>5, <2>4, <3>1 DEF Preview, CallShape
    <3> QED
      BY <3>2, <3>3 DEF Proceeds, Stages
  <2> QED
    BY <2>1, <2>2, <2>3, <2>4
<1>6. CASE ApplyReads(c)
  <2> DEFINE t == features["queueTemplates"][k.key]
             more == (IF t = None THEN <<>> ELSE t) \o k.given
  <2>1. k.op = "apply" /\ k.key \in Keys /\ k.given \in Seq(Songs) /\ k.given # <<>>
    BY <1>1, <1>6 DEF ApplyReads, At, CallShape
  <2>2. (IF t = None THEN <<>> ELSE t) \in Seq(Songs)
    BY <2>1 DEF DocumentsFit, EntriesOf, Entry, Lists
  <2>3. more \in Seq(Songs) /\ more # <<>>
    BY <2>1, <2>2, ConcatProperties, ConcatEqualIffEmpty
  <2>4. Turns(c, "read", more, k.seen)
    BY <1>1, <1>4, <1>6 DEF ApplyReads
  <2> HIDE DEF more
  <2>5. CallShape(k.op, "read", k.on, k.key, more, k.seen)
    BY <1>1, <1>6, <2>1, <2>3 DEF ApplyReads, At, CallShape
  <2> QED
    BY <2>4, <2>5 DEF Proceeds, Stages
<1>7. CASE ImportReady(c) \/ Applied(c) \/ SweepMarks(c)
  BY <1>7, SaysEnds DEF ImportReady, Applied, SweepMarks, Proceeds
<1>8. CASE SweepReadsFeatures(c)
  BY <1>8, SaysEnds, PlainShape, GoesOn DEF SweepReadsFeatures, At, Proceeds, Stages
<1>9. CASE SweepReadsState(c)
  <2>1. CASE Says(c, "skipped")
    BY <2>1, SaysEnds DEF Proceeds
  <2>2. CASE Goto(c, "read", None)
    <3>1. CallShape(k.op, "read", k.on, k.key, k.given, None)
      BY <1>1, <1>9 DEF SweepReadsState, At, CallShape
    <3> QED
      BY <2>2, <3>1, GoesOn DEF Stages
  <2> QED
    BY <1>9, <2>1, <2>2 DEF SweepReadsState
<1>10. CASE SweepCounts(c)
  BY <1>10, SaysEnds, PlainShape, GoesOn DEF SweepCounts, At, Proceeds, Stages
<1>11. CASE SweepPosts(c)
  BY <1>11, PlainShape, GoesOn DEF SweepPosts, At, Stages
<1> QED
  BY <1>2, <1>3, <1>5, <1>6, <1>7, <1>8, <1>9, <1>10, <1>11, StoreCalls DEF CommandStep

LEMMA ResultsAreSongs == \A tracks \in Results : tracks \in Seq(Songs)
<1> SUFFICES ASSUME NEW tracks \in Results PROVE tracks \in Seq(Songs)
  OBVIOUS
<1>1. CASE \E s \in Songs : tracks = <<s>>
  BY <1>1
<1>2. CASE \E s, u \in Songs : tracks = <<s, u>>
  BY <1>2
<1>3. CASE tracks = <<>>
  BY <1>3
<1>4. tracks = <<>> \/ (\E s \in Songs : tracks = <<s>>) \/ \E s, u \in Songs : tracks = <<s, u>>
  BY DEF Results
<1> QED
  BY <1>1, <1>2, <1>3, <1>4

\* A command begins with what fits its first stage.
StartsWell(c) ==
    \E stage \in Stages \ {"idle", "insert"} : \E op, on, key, given :
        Begin(c, op, stage, on, key, given) /\ CallShape(op, stage, on, key, given, None)

LEMMA StartsFit ==
    ASSUME CallsFit, NEW c \in Calls, StartsWell(c)
    PROVE  CallsFit' /\ Inserting' \subseteq Inserting
<1>1. PICK stage \in Stages \ {"idle", "insert"} : \E op, on, key, given :
        Begin(c, op, stage, on, key, given) /\ CallShape(op, stage, on, key, given, None)
  BY DEF StartsWell
<1>2. PICK op, on, key, given :
        Begin(c, op, stage, on, key, given) /\ CallShape(op, stage, on, key, given, None)
  BY <1>1
<1> DEFINE alone == \A d \in Calls : ~Active(d)
           was == IF alone THEN documents ELSE None
           n == [Idle EXCEPT !.op = op, !.at = stage, !.on = on, !.key = key, !.given = given,
                             !.alone = alone, !.before = was]
<1>3. calls' = [d \in Calls |-> IF d = c THEN n
                               ELSE IF Active(d) THEN [calls[d] EXCEPT !.alone = FALSE] ELSE Idle]
  BY <1>2 DEF Begin
<1> HIDE DEF alone, was
<1>4. /\ DOMAIN n = DOMAIN Idle /\ n.op = op /\ n.at = stage /\ n.on = on /\ n.key = key
      /\ n.given = given /\ n.seen = None
  BY DEF Idle
<1> HIDE DEF n
<1>5. ASSUME NEW k, CallFits(k)
      PROVE  CallFits([k EXCEPT !.alone = FALSE]) /\ [k EXCEPT !.alone = FALSE].at = k.at
  <2> DEFINE m == [k EXCEPT !.alone = FALSE]
  <2>1. DOMAIN k = CallFields
    BY <1>5, IdleFields DEF CallFits
  <2>2. /\ DOMAIN m = DOMAIN k /\ m.op = k.op /\ m.at = k.at /\ m.on = k.on /\ m.key = k.key
        /\ m.given = k.given /\ m.seen = k.seen
    BY <2>1 DEF CallFields
  <2> HIDE DEF m
  <2>3. CallFits(m) /\ m.at = k.at
    BY <1>5, <2>2 DEF CallFits
  <2> QED
    BY <2>3 DEF m
<1>6. CallFits(calls'[c]) /\ calls'[c].at # "insert"
  BY <1>2, <1>3, <1>4 DEF CallFits
<1>7. ASSUME NEW d \in Calls, d # c
      PROVE  CallFits(calls'[d]) /\ (calls'[d].at = "insert" => calls[d].at = "insert")
  <2>1. CallFits(calls[d])
    BY DEF CallsFit
  <2>2. calls'[d] = IF Active(d) THEN [calls[d] EXCEPT !.alone = FALSE] ELSE Idle
    BY <1>3, <1>7
  <2> QED
    BY <1>5, <2>1, <2>2, IdleFields
<1>8. DOMAIN calls' = Calls
  BY <1>3
<1> QED
  BY <1>6, <1>7, <1>8 DEF CallsFit, Inserting

LEMMA FieldStarts == ASSUME NEW c \in Calls, NEW f \in Fields, SetField(c, f)  PROVE StartsWell(c)
<1>1. FieldKey \in Keys
  BY LibraryAssumption DEF FieldKey
<1>2. PICK v \in Values \cup {None} : Begin(c, "set", "access", f, FieldKey, v)
  BY DEF SetField
<1>3. CallShape("set", "access", f, FieldKey, v, None)
  BY <1>1 DEF CallShape
<1> QED
  BY <1>2, <1>3 DEF StartsWell, Stages

LEMMA CommandStarts == ASSUME DocumentsFit, NEW c \in Calls, Command(c)  PROVE StartsWell(c)
<1>1. ASSUME NEW op \in {"list", "show", "entry", "favs", "ufav", "favplay", "charts", "recap", "history", "sweep"},
             NEW stage \in {"access", "read", "state"}, NEW on, NEW key \in Nat \ {0}, NEW given,
             Begin(c, op, stage, on, key, given)
      PROVE  StartsWell(c)
  <2>1. CallShape(op, stage, on, key, given, None)
    BY DEF CallShape
  <2> QED
    BY <1>1, <2>1 DEF StartsWell, Stages
<1>2. ASSUME NEW op \in {"entry", "charts", "recap", "sweep"}, NEW stage \in {"access", "read", "state"},
             NEW on, NEW key, NEW given, Begin(c, op, stage, on, key, given)
      PROVE  StartsWell(c)
  <2>1. CallShape(op, stage, on, key, given, None)
    BY DEF CallShape
  <2> QED
    BY <1>2, <2>1 DEF StartsWell, Stages
<1>3. ASSUME NEW op \in {"create", "delete", "add", "remove"}, NEW n \in Names, NEW key,
             op = "remove" => key \in Nat \ {0}, Begin(c, op, "access", n, key, <<>>)
      PROVE  StartsWell(c)
  <2>1. CallShape(op, "access", n, key, <<>>, None)
    BY <1>3 DEF CallShape
  <2> QED
    BY <1>3, <2>1 DEF StartsWell, Stages
<1>4. ASSUME NEW l \in Lists \ {"queueTemplates"}, NEW k \in Keys, NEW v \in Values \cup {None},
             NEW stage \in {"access", "read"}, Begin(c, "edit", stage, l, k, v)
      PROVE  StartsWell(c)
  <2>1. CallShape("edit", stage, l, k, v, None)
    BY DEF CallShape
  <2> QED
    BY <1>4, <2>1 DEF StartsWell, Stages
<1>5. ASSUME NEW l \in Lists, NEW k \in Keys, Begin(c, "drop", "access", l, k, None)
      PROVE  StartsWell(c)
  <2>1. CallShape("drop", "access", l, k, None, None)
    BY DEF CallShape
  <2> QED
    BY <1>5, <2>1 DEF StartsWell, Stages
<1>6. CASE PlaylistList(c) \/ PlaylistShow(c) \/ PlaylistPlay(c)
  BY <1>1, <1>6 DEF PlaylistList, PlaylistShow, PlaylistPlay, Pages
<1>7. CASE PlaylistCreate(c) \/ PlaylistDelete(c) \/ PlaylistAdd(c) \/ PlaylistRemove(c)
  BY <1>3, <1>7 DEF PlaylistCreate, PlaylistDelete, PlaylistAdd, PlaylistRemove, Pages
<1>8. CASE StationsShown(c) \/ TemplateShown(c) \/ VoiceProfileShown(c) \/ Charts(c) \/ RecapNow(c) \/ SweepStarts(c)
  BY <1>2, <1>8 DEF StationsShown, TemplateShown, VoiceProfileShown, Charts, RecapNow, SweepStarts
<1>9. CASE StationSave(c) \/ QueueGuard(c) \/ VoiceProfile(c) \/ StayInVoice(c) \/ DjRole(c)
  BY <1>4, <1>9 DEF StationSave, QueueGuard, VoiceProfile, StayInVoice, DjRole, Lists
<1>10. CASE StationDelete(c) \/ TemplateDelete(c)
  BY <1>5, <1>10 DEF StationDelete, TemplateDelete, Lists
<1>11. CASE Favorite(c)
  <2>1. CallShape("fav", "preview", None, None, <<>>, None)
    BY DEF CallShape
  <2> QED
    BY <1>11, <2>1 DEF Favorite, StartsWell, Stages
<1>12. CASE FavoritesShown(c) \/ Unfavorite(c) \/ FavoritePlay(c) \/ HistoryShown(c)
  BY <1>1, <1>12 DEF FavoritesShown, Unfavorite, FavoritePlay, HistoryShown, Pages
<1>13. CASE MusicWebhook(c) \/ RecapChannel(c) \/ Dedupe(c) \/ MinimalMode(c) \/ VolumeDefault(c)
              \/ Prefix(c) \/ MusicLog(c) \/ VoteSkipConfig(c)
  BY <1>13, FieldStarts
     DEF MusicWebhook, RecapChannel, Dedupe, MinimalMode, VolumeDefault, Prefix, MusicLog, VoteSkipConfig, Fields
<1>14. CASE TemplateSave(c)
  <2>1. PICK k \in Keys, tracks \in Results \ {<<>>} : Begin(c, "edit", "access", "queueTemplates", k, tracks)
    BY <1>14 DEF TemplateSave
  <2>2. CallShape("edit", "access", "queueTemplates", k, tracks, None)
    BY ResultsAreSongs DEF CallShape, Lists
  <2> QED
    BY <2>1, <2>2 DEF StartsWell, Stages
<1>15. CASE ImportPreview(c)
  <2>1. PICK k \in Keys : Begin(c, "import", "preview", "queueTemplates", k, <<>>)
    BY <1>15 DEF ImportPreview
  <2>2. CallShape("import", "preview", "queueTemplates", k, <<>>, None)
    BY DEF CallShape
  <2> QED
    BY <2>1, <2>2 DEF StartsWell, Stages
<1>16. CASE ImportApply(c)
  <2>1. pending.key \in Keys /\ pending.tracks \in Seq(Songs) \ {<<>>}
    BY <1>16 DEF ImportApply, DocumentsFit
  <2>2. PICK stage \in {"again", "read"} :
           Begin(c, "apply", stage, "queueTemplates", pending.key, pending.tracks)
    BY <1>16 DEF ImportApply
  <2>3. CallShape("apply", stage, "queueTemplates", pending.key, pending.tracks, None)
    BY <2>1 DEF CallShape, Lists
  <2> QED
    BY <2>2, <2>3 DEF StartsWell, Stages
<1>17. CASE TrackEnds(c)
  <2>1. PICK s \in Songs : Begin(c, "append", "append", None, None, <<s>>)
    BY <1>17 DEF TrackEnds
  <2>2. CallShape("append", "append", None, None, <<s>>, None)
    BY DEF CallShape
  <2> QED
    BY <2>1, <2>2 DEF StartsWell, Stages
<1> QED
  BY <1>6, <1>7, <1>8, <1>9, <1>10, <1>11, <1>12, <1>13, <1>14, <1>15, <1>16, <1>17 DEF Command

(*---------------------- what each step stores -----------------------------*)
StoresList(c) ==
    SetQueueTemplate(c) \/ SetGuildStation(c) \/ SetVoiceProfile(c) \/ DeleteGuildStation(c)
      \/ DeleteQueueTemplate(c) \/ SetWhatWasRead(c)

\* What a step of a command, or of the week, changes in the documents.
Stores(c) ==
    /\ UNCHANGED playlists \/ CreateInserts(c) \/ DeletePlaylist(c) \/ AddPushes(c) \/ RemoveWrites(c)
    /\ UNCHANGED favorites \/ FavoritePushes(c) \/ UnfavoriteWrites(c)
    /\ UNCHANGED history \/ AppendHistory(c)
    /\ UNCHANGED features \/ StoresList(c) \/ FieldPatched(c)
    /\ begun' = begun \/ (begun < MaxBegun /\ begun' = begun + 1)
    /\ pending' = pending \/ pending' = None \/ ImportReady(c)
    /\ recapSent' \in {TRUE, recapSent}

LEMMA StoreStores ==
    ASSUME NEW c \in Calls, StoreStep(c), UNCHANGED <<pending, recapSent>>
    PROVE  Stores(c)
<1>1. CASE CreateFinds(c) \/ CreateCounts(c) \/ CreateInserts(c) \/ DeletePlaylist(c)
             \/ AddFinds(c) \/ AddPushes(c) \/ RemoveFinds(c) \/ RemoveWrites(c)
  BY <1>1 DEF CreateFinds, CreateCounts, CreateInserts, DeletePlaylist, AddFinds, AddPushes, RemoveFinds,
              RemoveWrites, Stores
<1>2. CASE ShowPlaylist(c) \/ ListCounts(c) \/ ListFetches(c) \/ FavoriteFinds(c) \/ FavoritePushes(c)
             \/ RecordUserSignal(c) \/ UnfavoriteFinds(c) \/ UnfavoriteWrites(c) \/ ListFavorites(c)
  BY <1>2 DEF ShowPlaylist, ListCounts, ListFetches, FavoriteFinds, FavoritePushes, RecordUserSignal,
              UnfavoriteFinds, UnfavoriteWrites, ListFavorites, Stores
<1>3. CASE GetFavorite(c) \/ AppendHistory(c) \/ ListHistory(c) \/ ShowCharts(c) \/ RecapTop(c) \/ RecapPlays(c)
             \/ FeaturesRead(c) \/ FieldPatched(c) \/ FeatureShown(c)
  BY <1>3 DEF GetFavorite, AppendHistory, ListHistory, ShowCharts, RecapTop, RecapPlays, FeaturesRead,
              FieldPatched, FeatureShown, Stores
<1>4. CASE SetQueueTemplate(c) \/ SetGuildStation(c) \/ SetVoiceProfile(c) \/ DeleteGuildStation(c)
             \/ DeleteQueueTemplate(c) \/ SetWhatWasRead(c)
  BY <1>4 DEF SetQueueTemplate, SetGuildStation, SetVoiceProfile, DeleteGuildStation, DeleteQueueTemplate,
              SetWhatWasRead, PatchList, Stores, StoresList
<1> QED
  BY <1>1, <1>2, <1>3, <1>4 DEF StoreStep

LEMMA CommandStores == ASSUME NEW c \in Calls, CommandStep(c)  PROVE Stores(c)
<1>1. CASE Access(c) \/ Permission(c) \/ Preview(c) \/ ImportReady(c) \/ ApplyReads(c) \/ Applied(c)
  BY <1>1 DEF Access, Permission, Preview, ImportReady, ApplyReads, Applied, Stores
<1>2. CASE SweepReadsFeatures(c) \/ SweepReadsState(c) \/ SweepCounts(c) \/ SweepPosts(c) \/ SweepMarks(c)
  BY <1>2 DEF SweepReadsFeatures, SweepReadsState, SweepCounts, SweepPosts, SweepMarks, Stores
<1> QED
  BY <1>1, <1>2, StoreStores DEF CommandStep

LEMMA StartsStore == ASSUME NEW c \in Calls, StartsWell(c)  PROVE Stores(c) /\ UNCHANGED documents
BY DEF StartsWell, Begin, Stores, documents

\* An edit of a list writes the list it has read, with one entry set.
LEMMA ListsStored ==
    ASSUME CallsFit, NEW c \in Calls, StoresList(c)
    PROVE  /\ calls[c].on \in Lists /\ calls[c].at = "write" /\ calls[c].op \in {"edit", "drop", "apply"}
           /\ \E f \in EntriesOf(calls[c].on) : features' = [features EXCEPT ![calls[c].on] = f]
<1> DEFINE k == calls[c]
           old == k.seen[k.on]
<1>1. k.at = "write" /\ k.op \in {"edit", "drop", "apply"}
  BY DEF StoresList, SetQueueTemplate, SetGuildStation, SetVoiceProfile, DeleteGuildStation,
         DeleteQueueTemplate, SetWhatWasRead, On, At
<1>2. /\ k.on \in Lists /\ k.key \in Keys /\ old \in EntriesOf(k.on)
      /\ k.op = "edit" => k.given \in IF k.on = "queueTemplates" THEN Seq(Songs) \ {<<>>} ELSE Values \cup {None}
      /\ k.op = "apply" => k.given \in Seq(Songs) \ {<<>>} /\ k.on = "queueTemplates"
  BY <1>1 DEF CallsFit, CallFits, CallShape
<1>3. PICK e : features' = [features EXCEPT ![k.on] = WithEntry(c, e)]
               /\ (\/ e = None
                   \/ k.on # "queueTemplates" /\ e \in Values \cup {None}
                   \/ k.on = "queueTemplates" /\ e = Slice(k.given, 0, MaxSaved) /\ k.op \in {"edit", "apply"})
  <2>1. CASE SetQueueTemplate(c)
    BY <2>1 DEF SetQueueTemplate, PatchList, On, At
  <2>2. CASE SetGuildStation(c) \/ SetVoiceProfile(c) \/ SetWhatWasRead(c)
    BY <1>2, <2>2 DEF SetGuildStation, SetVoiceProfile, SetWhatWasRead, PatchList, On, At, AskedAfterwards
  <2>3. CASE DeleteGuildStation(c) \/ DeleteQueueTemplate(c)
    BY <2>3 DEF DeleteGuildStation, DeleteQueueTemplate, PatchList
  <2> QED
    BY <2>1, <2>2, <2>3 DEF StoresList
<1>4. e \in Entry(k.on) \cup {None} /\ (k.on = "queueTemplates" /\ e # None => Len(e) \in 1..MaxSaved)
  <2>1. CASE e = None
    BY <2>1
  <2>2. CASE k.on # "queueTemplates" /\ e \in Values \cup {None}
    BY <2>2 DEF Entry
  <2>3. CASE k.on = "queueTemplates" /\ e = Slice(k.given, 0, MaxSaved) /\ k.op \in {"edit", "apply"}
    <3>1. k.given \in Seq(Songs) /\ k.given # <<>> /\ MaxSaved \in Nat /\ MaxSaved # 0
      BY <1>2, <2>3, LibraryAssumption
    <3>2. e \in Seq(Songs) /\ Len(e) \in 1..MaxSaved
      BY <2>3, <3>1, SliceOfSongs
    <3> QED
      BY <2>3, <3>2 DEF Entry
  <2> QED
    BY <1>3, <2>1, <2>2, <2>3
<1>5. WithEntry(c, e) = [old EXCEPT ![k.key] = e]
  BY DEF WithEntry
<1> HIDE DEF old
<1>6. [old EXCEPT ![k.key] = e] \in EntriesOf(k.on)
  BY <1>2, <1>4 DEF EntriesOf
<1> QED
  BY <1>1, <1>2, <1>3, <1>5, <1>6

\* What a step stores fits: the limits of the arrays that are cut hold.
LEMMA DocumentsStay ==
    ASSUME DocumentsFit, CallsFit, NEW c \in Calls, Stores(c)
    PROVE  DocumentsFit'
<1> DEFINE k == calls[c]
<1>1. k.at # "idle" => CallShape(k.op, k.at, k.on, k.key, k.given, k.seen)
  BY DEF CallsFit, CallFits
<1>2. playlists' \in [Names -> Seq(Songs) \cup {None}]
  <2>1. playlists \in [Names -> Seq(Songs) \cup {None}] /\ <<>> \in Seq(Songs)
    BY DEF DocumentsFit
  <2>2. CASE CreateInserts(c)
    <3>1. k.on \in Names
      BY <1>1, <2>2 DEF CreateInserts, At, CallShape
    <3> QED
      BY <2>1, <2>2, <3>1 DEF CreateInserts
  <2>3. CASE DeletePlaylist(c)
    BY <2>1, <2>3 DEF DeletePlaylist
  <2>4. CASE AddPushes(c)
    <3>1. k.on \in Names /\ k.seen \in Seq(Songs)
      BY <1>1, <2>4 DEF AddPushes, At, CallShape
    <3>2. playlists[k.on] # None => playlists[k.on] \o k.seen \in Seq(Songs)
      BY <2>1, <3>1, ConcatProperties
    <3>3. playlists' = [playlists EXCEPT ![k.on] = IF playlists[k.on] = None THEN None
                                                  ELSE playlists[k.on] \o k.seen]
      BY <2>1, <2>4, <3>1 DEF AddPushes
    <3> QED
      BY <2>1, <3>2, <3>3
  <2>5. CASE RemoveWrites(c)
    <3>1. k.on \in Names /\ k.seen \in Seq(Songs)
      BY <1>1, <2>5 DEF RemoveWrites, At, CallShape
    <3>2. playlists' = [playlists EXCEPT ![k.on] = IF playlists[k.on] = None THEN None ELSE k.seen]
      BY <2>1, <2>5, <3>1 DEF RemoveWrites
    <3> QED
      BY <2>1, <3>1, <3>2
  <2> QED
    BY <2>1, <2>2, <2>3, <2>4, <2>5 DEF Stores
<1>3. favorites' \in Seq(Songs)
  <2>1. favorites \in Seq(Songs)
    BY DEF DocumentsFit
  <2>2. CASE FavoritePushes(c)
    <3>1. k.given \in Seq(Songs) /\ k.given # <<>>
      BY <1>1, <2>2 DEF FavoritePushes, At, CallShape
    <3>2. Head(k.given) \in Songs
      BY <3>1, HeadTailProperties
    <3> QED
      BY <2>1, <2>2, <3>2, AppendProperties DEF FavoritePushes
  <2>3. CASE UnfavoriteWrites(c)
    BY <1>1, <2>3 DEF UnfavoriteWrites, At, CallShape
  <2> QED
    BY <2>1, <2>2, <2>3 DEF Stores
<1>4. history' \in Seq(Songs) /\ Len(history') <= MaxHistory
  <2>1. history \in Seq(Songs) /\ Len(history) <= MaxHistory /\ Len(history) \in Nat /\ MaxHistory \in Nat
    BY LenProperties, LibraryAssumption DEF DocumentsFit
  <2>2. CASE AppendHistory(c)
    <3> DEFINE longer == Append(history, Head(k.given))
    <3>1. k.given \in Seq(Songs) /\ k.given # <<>>
      BY <1>1, <2>2 DEF AppendHistory, At, CallShape
    <3>2. Head(k.given) \in Songs
      BY <3>1, HeadTailProperties
    <3>3. longer \in Seq(Songs) /\ longer # <<>> /\ Len(longer) = Len(history) + 1
      BY <2>1, <3>2, AppendProperties
    <3>4. history' = IF Len(longer) > MaxHistory THEN Tail(longer) ELSE longer
      BY <2>2 DEF AppendHistory
    <3> HIDE DEF longer
    <3>5. Tail(longer) \in Seq(Songs) /\ Len(Tail(longer)) = Len(longer) - 1
      BY <3>3, HeadTailProperties
    <3> QED
      BY <2>1, <3>3, <3>4, <3>5
  <2> QED
    BY <2>1, <2>2 DEF Stores
<1>5. DOMAIN features' = Lists \cup Fields /\ \A l \in Lists \cup Fields : features'[l] \in EntriesOf(l)
  <2>1. DOMAIN features = Lists \cup Fields /\ \A l \in Lists \cup Fields : features[l] \in EntriesOf(l)
    BY DEF DocumentsFit
  <2>2. ASSUME NEW l \in Lists \cup Fields, NEW f \in EntriesOf(l), features' = [features EXCEPT ![l] = f]
        PROVE  DOMAIN features' = Lists \cup Fields /\ \A m \in Lists \cup Fields : features'[m] \in EntriesOf(m)
    BY <2>1, <2>2
  <2>3. CASE StoresList(c)
    <3>1. PICK f : features' = [features EXCEPT ![k.on] = f] /\ k.on \in Lists /\ f \in EntriesOf(k.on)
      BY <2>3, ListsStored
    <3> QED
      BY <2>2, <3>1
  <2>4. CASE FieldPatched(c)
    <3>1. k.on \in Fields /\ k.key \in Keys /\ k.given \in Values \cup {None}
      BY <1>1, <2>4 DEF FieldPatched, At, CallShape
    <3> DEFINE old == features[k.on]
               f == [old EXCEPT ![k.key] = k.given]
    <3>2. features' = [features EXCEPT ![k.on] = f]
      BY <2>4 DEF FieldPatched
    <3>3. old \in EntriesOf(k.on)
      BY <2>1, <3>1
    <3>4. old \in [Keys -> Values \cup {None}] /\ k.on # "queueTemplates"
      BY <3>1, <3>3 DEF EntriesOf, Entry, Fields
    <3> HIDE DEF old
    <3>5. f \in EntriesOf(k.on)
      BY <3>1, <3>4 DEF EntriesOf, Entry
    <3> QED
      BY <2>2, <3>1, <3>2, <3>5
  <2> QED
    BY <2>1, <2>3, <2>4 DEF Stores
<1>6. begun' \in 0..MaxBegun /\ recapSent' \in BOOLEAN
  <2>1. begun \in 0..MaxBegun /\ MaxBegun \in Nat /\ recapSent \in BOOLEAN
    BY LibraryAssumption DEF DocumentsFit
  <2>2. (begun' = begun \/ (begun < MaxBegun /\ begun' = begun + 1)) /\ recapSent' \in {TRUE, recapSent}
    BY DEF Stores
  <2>3. begun' \in 0..MaxBegun
    BY <2>1, <2>2
  <2>4. recapSent' \in BOOLEAN
    BY <2>1, <2>2
  <2> QED
    BY <2>3, <2>4
<1>7. pending' # None => pending'.key \in Keys /\ pending'.tracks \in Seq(Songs) \ {<<>>}
  <2>1. CASE ImportReady(c)
    <3>1. pending' = [key |-> k.key, tracks |-> k.given] /\ k.key \in Keys /\ k.given \in Seq(Songs) \ {<<>>}
      BY <1>1, <2>1 DEF ImportReady, At, CallShape
    <3> QED
      BY <3>1
  <2> QED
    BY <2>1 DEF Stores, DocumentsFit
<1> QED
  BY <1>2, <1>3, <1>4, <1>5, <1>6, <1>7 DEF DocumentsFit

(*---------------------------- the limit of playlists ----------------------*)
\* Only an insert adds a playlist.
LEMMA OnlyInsertsAdd ==
    ASSUME DocumentsFit, CallsFit, NEW c \in Calls, Stores(c)
    PROVE  \/ Existing' \subseteq Existing
           \/ /\ CreateInserts(c) /\ Over(c) /\ calls[c].on \in Names
              /\ playlists[calls[c].on] = None /\ Existing' = Existing \cup {calls[c].on}
<1> DEFINE n == calls[c].on
<1>1. playlists \in [Names -> Seq(Songs) \cup {None}]
  BY DEF DocumentsFit
<1>2. CASE UNCHANGED playlists
  BY <1>2 DEF Existing
<1>3. CASE CreateInserts(c)
  <2>1. CASE playlists[n] # None
    BY <1>3, <2>1 DEF CreateInserts, Existing
  <2>2. CASE playlists[n] = None
    <3>1. n \in Names
      BY <1>3 DEF CreateInserts, At, CallsFit, CallFits, CallShape
    <3>2. playlists' = [playlists EXCEPT ![n] = <<>>] /\ Over(c)
      BY <1>3, <2>2, SaysEnds DEF CreateInserts
    <3>3. CASE <<>> = None
      BY <1>1, <2>2, <3>1, <3>2, <3>3 DEF Existing
    <3>4. CASE <<>> # None
      <4>1. Existing' = Existing \cup {n}
        BY <1>1, <3>1, <3>2, <3>4 DEF Existing
      <4> QED
        BY <1>3, <2>2, <3>1, <3>2, <4>1
    <3> QED
      BY <3>3, <3>4
  <2> QED
    BY <2>1, <2>2
<1>4. CASE DeletePlaylist(c) \/ AddPushes(c) \/ RemoveWrites(c)
  <2>1. PICK t : playlists' = [playlists EXCEPT ![n] = t] /\ (n \in Names /\ playlists[n] = None => t = None)
    <3>1. CASE DeletePlaylist(c)
      BY <3>1 DEF DeletePlaylist
    <3>2. n \in Names => playlists[n] = playlists[n]
      OBVIOUS
    <3>3. CASE AddPushes(c)
      <4>1. playlists' = [playlists EXCEPT ![n] = IF playlists[n] = None THEN None ELSE playlists[n] \o calls[c].seen]
        BY <1>1, <3>3 DEF AddPushes
      <4> QED
        BY <4>1
    <3>4. CASE RemoveWrites(c)
      <4>1. playlists' = [playlists EXCEPT ![n] = IF playlists[n] = None THEN None ELSE calls[c].seen]
        BY <1>1, <3>4 DEF RemoveWrites
      <4> QED
        BY <4>1
    <3> QED
      BY <1>4, <3>1, <3>3, <3>4
  <2> QED
    BY <1>1, <2>1 DEF Existing
<1> QED
  BY <1>2, <1>3, <1>4 DEF Stores

\* A call that is about to insert has found room; two that have found the same
\* room both insert.
LEMMA CountedStays ==
    ASSUME LibraryInv, NEW c \in Calls, Stores(c),
           Inserting' \subseteq Inserting
             \/ GoesToInsert(c)
    PROVE  (Over(c) => Inserting' = Inserting \ {c}) => Counted'
<1> SUFFICES ASSUME Over(c) => Inserting' = Inserting \ {c} PROVE Counted'
  OBVIOUS
<1> DEFINE x == Cardinality(Existing)
           i == Cardinality(Inserting)
           all == Cardinality(Calls)
<1>1. /\ IsFiniteSet(Existing) /\ IsFiniteSet(Calls) /\ IsFiniteSet(Inserting)
      /\ x \in Nat /\ all \in Nat /\ i \in Nat /\ MaxPlaylists \in Nat /\ x + i <= MaxPlaylists + all - 1
  <2>1. IsFiniteSet(Calls) /\ Inserting \in SUBSET Calls
    BY LibraryAssumption DEF Inserting
  <2>2. IsFiniteSet(Inserting)
    BY <2>1, FS_Subset
  <2> QED
    BY <2>1, <2>2, FS_CardinalityType, LibraryAssumption DEF LibraryInv, Counted
<1>2. CASE GoesToInsert(c)
  <2>1. Existing' = Existing /\ x < MaxPlaylists
    BY <1>1, <1>2 DEF GoesToInsert, Existing
  <2>2. Inserting' \in SUBSET Calls
    BY DEF Inserting
  <2>3. Cardinality(Inserting') <= all /\ IsFiniteSet(Inserting') /\ Cardinality(Inserting') \in Nat
    BY <1>1, <2>2, FS_Subset, FS_CardinalityType
  <2> QED
    BY <1>1, <2>1, <2>3 DEF Counted
<1>3. CASE Inserting' \subseteq Inserting /\ Existing' \subseteq Existing
  <2>1. /\ IsFiniteSet(Existing') /\ Cardinality(Existing') <= x /\ Cardinality(Existing') \in Nat
        /\ Cardinality(Inserting') <= i /\ Cardinality(Inserting') \in Nat
    BY <1>1, <1>3, FS_Subset, FS_CardinalityType
  <2> QED
    BY <1>1, <2>1 DEF Counted
<1>4. CASE /\ CreateInserts(c) /\ Over(c) /\ calls[c].on \in Names
           /\ playlists[calls[c].on] = None /\ Existing' = Existing \cup {calls[c].on}
  <2>1. calls[c].on \notin Existing /\ c \in Inserting /\ Inserting' = Inserting \ {c}
    BY <1>4 DEF Existing, Inserting, CreateInserts, At
  <2>2. IsFiniteSet(Existing') /\ Cardinality(Existing') = x + 1
    BY <1>1, <1>4, <2>1, FS_AddElement
  <2>3. Cardinality(Inserting') = i - 1
    BY <1>1, <2>1, FS_RemoveElement
  <2> QED
    BY <1>1, <2>2, <2>3 DEF Counted
<1> QED
  BY <1>2, <1>3, <1>4, OnlyInsertsAdd DEF LibraryInv

LEMMA LibraryNextInv == ASSUME LibraryInv, [LibraryNext]_libraryVars  PROVE LibraryInv'
<1>1. ASSUME NEW c \in Calls, CommandStep(c)  PROVE LibraryInv'
  <2>1. Stores(c) /\ DocumentsFit'
    BY <1>1, CommandStores, DocumentsStay DEF LibraryInv
  <2>2. CASE Proceeds(c)
    <3>1. CallsFit' /\ Inserting' \subseteq Inserting
      BY <2>2, ProceedsFits DEF LibraryInv
    <3>2. Over(c) => Inserting' = Inserting \ {c}
      BY DEF Over, Others, Inserting
    <3> QED
      BY <2>1, <3>1, <3>2, CountedStays DEF LibraryInv
  <2>3. CASE GoesToInsert(c)
    <3>1. CallsFit'
      BY <2>3 DEF LibraryInv, GoesToInsert, Turns, Others, CallsFit, CallFits, CallShape, Stages
    <3>2. ~Over(c)
      BY <2>3 DEF GoesToInsert, Turns, Over
    <3> QED
      BY <2>1, <2>3, <3>1, <3>2, CountedStays DEF LibraryInv
  <2> QED
    BY <1>1, <2>2, <2>3, CommandCalls DEF LibraryInv
<1>2. ASSUME NEW c \in Calls, Command(c)  PROVE LibraryInv'
  <2>1. StartsWell(c)
    BY <1>2, CommandStarts DEF LibraryInv
  <2>2. Stores(c) /\ DocumentsFit'
    BY <2>1, StartsStore, DocumentsStay DEF LibraryInv
  <2>3. CallsFit' /\ Inserting' \subseteq Inserting
    BY <2>1, StartsFit DEF LibraryInv
  <2>4. Over(c) => Inserting' = Inserting \ {c}
    BY DEF Over, Others, Inserting
  <2> QED
    BY <2>2, <2>3, <2>4, CountedStays DEF LibraryInv
<1>3. CASE UNCHANGED <<playlists, favorites, history, features, calls, begun>>
           /\ (pending' = pending \/ pending' = None) /\ (recapSent' = recapSent \/ recapSent' = FALSE)
  <2>1. DocumentsFit'
    BY <1>3 DEF LibraryInv, DocumentsFit
  <2>2. CallsFit' /\ Counted'
    BY <1>3 DEF LibraryInv, CallsFit, Counted, Existing, Inserting
  <2> QED
    BY <2>1, <2>2 DEF LibraryInv
<1> QED
  BY <1>1, <1>2, <1>3 DEF LibraryNext, ImportForgotten, WeekPasses, libraryVars

LEMMA LibraryInitInv == LibraryInit => LibraryInv
<1> SUFFICES ASSUME LibraryInit PROVE LibraryInv
  OBVIOUS
<1>1. DocumentsFit
  <2>1. <<>> \in Seq(Songs) /\ Len(<<>>) = 0 /\ MaxHistory \in Nat /\ MaxBegun \in Nat
    BY EmptySeq, LibraryAssumption
  <2>2. \A l \in Lists \cup Fields : [k \in Keys |-> None] \in EntriesOf(l)
    BY DEF EntriesOf
  <2>3. playlists \in [Names -> Seq(Songs) \cup {None}] /\ favorites \in Seq(Songs)
    BY <2>1 DEF LibraryInit
  <2>4. history \in Seq(Songs) /\ Len(history) <= MaxHistory
    BY <2>1 DEF LibraryInit
  <2>5. DOMAIN features = Lists \cup Fields /\ \A l \in Lists \cup Fields : features[l] \in EntriesOf(l)
    BY <2>2 DEF LibraryInit
  <2>6. begun \in 0..MaxBegun /\ pending = None
    BY <2>1 DEF LibraryInit
  <2>7. recapSent \in BOOLEAN
    BY DEF LibraryInit
  <2> QED
    BY <2>3, <2>4, <2>5, <2>6, <2>7 DEF DocumentsFit
<1>2. CallsFit
  BY IdleFields DEF LibraryInit, CallsFit
<1>3. Existing = {} /\ Inserting = {}
  BY IdleFields DEF LibraryInit, Existing, Inserting
<1>4. MaxPlaylists \in Nat \ {0} /\ IsFiniteSet(Calls) /\ Cardinality(Calls) \in Nat
  BY LibraryAssumption, FS_CardinalityType
<1>5. Counted
  BY <1>3, <1>4, FS_EmptySet DEF Counted
<1> QED
  BY <1>1, <1>2, <1>5 DEF LibraryInv

LEMMA LibraryInvariant == LibrarySpec => []LibraryInv
BY LibraryInitInv, LibraryNextInv, PTL DEF LibrarySpec

\* The limit of playlists is exceeded by at most the number of calls that count
\* before one of them inserts, less one; templates and the history keep theirs.
THEOREM LimitsAlmostHold == LibrarySpec => []ExcessBounded
<1>1. LibraryInv => LibraryTypeOK
  <2> SUFFICES ASSUME LibraryInv PROVE LibraryTypeOK
    OBVIOUS
  <2>1. \A l \in Lists \cup Fields : features[l] \in [Keys -> Entry(l) \cup {None}]
    BY DEF LibraryInv, DocumentsFit, EntriesOf
  <2>2. \A k \in Keys : features["queueTemplates"][k] # None => Len(features["queueTemplates"][k]) \in 1..MaxSaved
    BY DEF LibraryInv, DocumentsFit, EntriesOf, Lists
  <2> QED
    BY <2>1, <2>2 DEF LibraryInv, DocumentsFit, CallsFit, CallFits, LibraryTypeOK
<1>2. LibraryInv => Cardinality(Existing) <= MaxPlaylists + Cardinality(Calls) - 1
  <2> SUFFICES ASSUME LibraryInv PROVE Cardinality(Existing) <= MaxPlaylists + Cardinality(Calls) - 1
    OBVIOUS
  <2>1. IsFiniteSet(Calls) /\ Inserting \in SUBSET Calls /\ IsFiniteSet(Existing) /\ MaxPlaylists \in Nat
    BY LibraryAssumption DEF Inserting, LibraryInv, Counted
  <2>2. Cardinality(Inserting) \in Nat /\ Cardinality(Calls) \in Nat /\ Cardinality(Existing) \in Nat
    BY <2>1, FS_Subset, FS_CardinalityType
  <2> QED
    BY <2>1, <2>2 DEF LibraryInv, Counted
<1> QED
  BY <1>1, <1>2, LibraryInvariant, PTL DEF ExcessBounded

(*--------------------- what others have stored is kept --------------------*)
\* The three steps that OthersAreKept forbids do not happen.
Unrevived ==
    \A n \in Names : playlists[n] = None /\ playlists'[n] # None =>
        \E c \in Calls : At(c, "insert", {"create"}) /\ calls[c].on = n /\ Answers(c)
Undiminished ==
    /\ \A n \in Names :
          playlists[n] # None /\ ~(playlists'[n] # None /\ IsPrefix(playlists[n], playlists'[n])) =>
             \E c \in Calls : calls[c].op \in {"remove", "delete"} /\ calls[c].on = n /\ Answers(c)
    /\ ~IsPrefix(favorites, favorites') => \E c \in Calls : calls[c].op = "ufav" /\ Answers(c)
Apart ==
    \A l \in DOMAIN features : features[l] # features'[l] =>
        \E c \in Calls : calls[c].on = l /\ At(c, "write", {"edit", "drop", "set", "apply"})
                          /\ calls'[c].at # "write"

LEMMA NothingStored ==
    ASSUME DocumentsFit, UNCHANGED documents
    PROVE  Unrevived /\ Undiminished /\ Apart
<1>1. \A n \in Names : playlists[n] # None => IsPrefix(playlists[n], playlists[n])
  BY PrefixOfConcat DEF DocumentsFit
<1>2. IsPrefix(favorites, favorites)
  BY PrefixOfConcat DEF DocumentsFit
<1> QED
  BY <1>1, <1>2 DEF Unrevived, Undiminished, Apart, documents

LEMMA PlaylistsKept ==
    ASSUME DocumentsFit, CallsFit, NEW c \in Calls, Stores(c), NEW n \in Names
    PROVE  /\ playlists[n] = None /\ playlists'[n] # None =>
                 At(c, "insert", {"create"}) /\ calls[c].on = n /\ Answers(c)
           /\ playlists[n] # None /\ ~(playlists'[n] # None /\ IsPrefix(playlists[n], playlists'[n])) =>
                 calls[c].op \in {"remove", "delete"} /\ calls[c].on = n /\ Answers(c)
<1> DEFINE k == calls[c]
<1>1. /\ playlists \in [Names -> Seq(Songs) \cup {None}]
      /\ k.at # "idle" => CallShape(k.op, k.at, k.on, k.key, k.given, k.seen)
  BY DEF DocumentsFit, CallsFit, CallFits
<1>2. \A t \in Seq(Songs) : playlists[n] # None => IsPrefix(playlists[n], playlists[n])
                                                  /\ IsPrefix(playlists[n], playlists[n] \o t)
  BY <1>1, PrefixOfConcat
<1>3. <<>> \in Seq(Songs)
  OBVIOUS
<1>4. Over(c) /\ k.at # "idle" => Answers(c)
  BY DEF Over, Answers, Active
<1>5. CASE playlists'[n] = playlists[n]
  BY <1>2, <1>3, <1>5
<1>6. CASE CreateInserts(c) /\ playlists'[n] # playlists[n]
  <2>1. k.on = n /\ playlists[n] = None
    BY <1>1, <1>6 DEF CreateInserts
  <2>2. Over(c)
    BY <1>6, SaysEnds DEF CreateInserts
  <2>3. At(c, "insert", {"create"})
    BY <1>6 DEF CreateInserts
  <2> QED
    BY <1>4, <2>1, <2>2, <2>3 DEF At
<1>7. CASE DeletePlaylist(c) /\ playlists'[n] # playlists[n]
  <2>1. k.on = n /\ playlists'[n] = None
    BY <1>1, <1>7 DEF DeletePlaylist
  <2>2. Over(c)
    BY <1>7, SaysEnds DEF DeletePlaylist
  <2> QED
    BY <1>4, <1>7, <2>1, <2>2 DEF At, DeletePlaylist
<1>8. CASE AddPushes(c) /\ playlists'[n] # playlists[n]
  <2>1. k.on = n /\ playlists[n] # None /\ playlists'[n] = playlists[n] \o k.seen
    BY <1>1, <1>8 DEF AddPushes
  <2>2. k.seen \in Seq(Songs)
    BY <1>1, <1>8 DEF AddPushes, At, CallShape
  <2>3. IsPrefix(playlists[n], playlists'[n])
    BY <1>2, <2>1, <2>2
  <2>4. CASE playlists'[n] # None
    BY <2>1, <2>3, <2>4
  <2>5. CASE playlists'[n] = None
    <3>1. playlists[n] \in Seq(Songs)
      BY <1>1, <2>1
    <3>2. playlists'[n] \in Seq(Songs)
      BY <2>1, <2>2, <3>1, ConcatProperties
    <3> QED
      BY <2>5, <3>2, LibraryAssumption
  <2> QED
    BY <2>4, <2>5
<1>9. CASE RemoveWrites(c) /\ playlists'[n] # playlists[n]
  <2>1. k.on = n /\ playlists[n] # None
    BY <1>1, <1>9 DEF RemoveWrites
  <2>2. Over(c)
    BY <1>9, SaysEnds DEF RemoveWrites
  <2> QED
    BY <1>4, <1>9, <2>1, <2>2 DEF At, RemoveWrites
<1> QED
  BY <1>5, <1>6, <1>7, <1>8, <1>9 DEF Stores

LEMMA FavoritesKept ==
    ASSUME DocumentsFit, CallsFit, NEW c \in Calls, Stores(c)
    PROVE  ~IsPrefix(favorites, favorites') => calls[c].op = "ufav" /\ Answers(c)
<1> DEFINE k == calls[c]
           song == Head(k.given)
<1>1. favorites \in Seq(Songs) /\ IsPrefix(favorites, favorites)
  BY PrefixOfConcat DEF DocumentsFit
<1>2. CASE FavoritePushes(c)
  <2>1. k.given \in Seq(Songs) /\ k.given # <<>>
    BY <1>2 DEF FavoritePushes, At, CallsFit, CallFits, CallShape
  <2>2. song \in Songs
    BY <2>1, HeadTailProperties
  <2>3. favorites' = Append(favorites, song)
    BY <1>2 DEF FavoritePushes
  <2> HIDE DEF song
  <2>4. favorites' = favorites \o <<song>> /\ <<song>> \in Seq(Songs)
    BY <1>1, <2>2, <2>3, AppendIsConcat
  <2> QED
    BY <1>1, <2>4, PrefixOfConcat
<1>3. CASE UnfavoriteWrites(c)
  <2>1. Over(c)
    BY <1>3, SaysEnds DEF UnfavoriteWrites
  <2> QED
    BY <1>3, <2>1 DEF UnfavoriteWrites, At, Over, Answers, Active
<1> QED
  BY <1>1, <1>2, <1>3 DEF Stores

LEMMA ListsApart ==
    ASSUME DocumentsFit, CallsFit, NEW c \in Calls, Stores(c), NEW l \in DOMAIN features,
           features[l] # features'[l]
    PROVE  calls[c].on = l /\ At(c, "write", {"edit", "drop", "set", "apply"}) /\ calls'[c].at # "write"
<1> DEFINE k == calls[c]
<1>1. CASE StoresList(c)
  <2>1. k.on = l /\ k.at = "write" /\ k.op \in {"edit", "drop", "apply"}
    BY <1>1, ListsStored
  <2>2. Says(c, "ok") \/ Goto(c, "applied", None)
    BY <1>1 DEF StoresList, SetQueueTemplate, SetGuildStation, SetVoiceProfile, DeleteGuildStation,
                DeleteQueueTemplate, SetWhatWasRead
  <2>3. calls'[c].at # "write"
    BY <2>2, SaysEnds, GotoTurns DEF Over, Turns
  <2> QED
    BY <2>1, <2>3 DEF At
<1>2. CASE FieldPatched(c)
  <2>1. k.on = l
    BY <1>2 DEF FieldPatched
  <2>2. Over(c)
    BY <1>2, SaysEnds DEF FieldPatched
  <2> QED
    BY <1>2, <2>1, <2>2 DEF FieldPatched, At, Over
<1> QED
  BY <1>1, <1>2 DEF Stores

LEMMA StepKeeps ==
    ASSUME LibraryInv, [LibraryNext]_libraryVars
    PROVE  Unrevived /\ Undiminished /\ Apart
<1>1. ASSUME NEW c \in Calls, CommandStep(c)  PROVE Unrevived /\ Undiminished /\ Apart
  <2>1. Stores(c)
    BY <1>1, CommandStores
  <2> QED
    BY <2>1, PlaylistsKept, FavoritesKept, ListsApart DEF LibraryInv, Unrevived, Undiminished, Apart
<1>2. ASSUME NEW c \in Calls, Command(c)  PROVE UNCHANGED documents
  BY <1>2, CommandStarts, StartsStore DEF LibraryInv
<1> QED
  BY <1>1, <1>2, NothingStored
     DEF LibraryNext, LibraryInv, ImportForgotten, WeekPasses, libraryVars, documents

\* What commands have stored stays as it is when others store beside it: deleted
\* playlists stay deleted, tracks stay until they or their playlist are removed,
\* and an edit of one list of the feature document leaves the others alone.
THEOREM OthersKept == LibrarySpec => OthersAreKept
<1>1. LibraryInv /\ [LibraryNext]_libraryVars => [Unrevived]_libraryVars
  BY StepKeeps
<1>2. LibraryInv /\ [LibraryNext]_libraryVars => [Undiminished]_libraryVars
  BY StepKeeps
<1>3. LibraryInv /\ [LibraryNext]_libraryVars => [Apart]_libraryVars
  BY StepKeeps
<1>4. LibrarySpec => [][Unrevived]_libraryVars /\ [][Undiminished]_libraryVars /\ [][Apart]_libraryVars
  BY <1>1, <1>2, <1>3, LibraryInvariant, PTL DEF LibrarySpec
<1> QED
  BY <1>4 DEF OthersAreKept, NoRevival, AddsAreKept, ListsIndependent, Unrevived, Undiminished, Apart

-----------------------------------------------------------------------------
(* The library: what a command that runs alone promises. *)

(*--------------------------- pages and charts -----------------------------*)
\* The page shown is one there is, none that is empty if there is anything, and
\* none after the one asked for.
LEMMA PageShown ==
    ASSUME NEW S, NEW s \in Seq(S), NEW page \in Nat \ {0}
    PROVE  LET a == Paginate(s, page)
           IN  /\ a.page \in 1..a.totalPages /\ a.page <= page
               /\ s # <<>> => a.items # <<>>
               /\ Len(a.items) <= PageSize
<1> DEFINE n == Len(s)
           total == IF s = <<>> THEN 1 ELSE (n + PageSize - 1) \div PageSize
           safe == IF page > total THEN total ELSE page
           start == (safe - 1) * PageSize
           last == IF start + PageSize > n THEN n ELSE start + PageSize
<1>1. PageSize \in Nat \ {0} /\ n \in Nat /\ (s # <<>> => n # 0) /\ \A i \in 1..n : s[i] \in S
  BY LibraryAssumption, LenProperties, ElementOfSeq, EmptySeq
<1>2. total \in Nat \ {0} /\ (s # <<>> => (total - 1) * PageSize < n)
  <2>1. CASE s = <<>>
    BY <2>1
  <2>2. CASE s # <<>>
    <3> HIDE DEF n
    <3>1. (n + PageSize - 1) \div PageSize \in Nat \ {0} /\ ((n + PageSize - 1) \div PageSize - 1) * PageSize < n
      BY <1>1, <2>2
    <3> QED
      BY <2>2, <3>1
  <2> QED
    BY <2>1, <2>2
<1>3. Paginate(s, page) = [items |-> SubSeq(s, start + 1, last), page |-> safe, totalPages |-> total]
  BY DEF Paginate, Slice
<1> HIDE DEF total, n
<1>4. safe \in 1..total /\ safe <= page
  BY <1>2
<1>5. (safe - 1) * PageSize <= (total - 1) * PageSize /\ (safe - 1) * PageSize \in Nat
  BY <1>1, <1>2, <1>4
<1>6. start \in Nat /\ (s # <<>> => start < n)
  BY <1>1, <1>2, <1>5
<1> HIDE DEF safe, start
<1>7. /\ last \in Nat /\ last <= n /\ last <= start + PageSize
      /\ s # <<>> => start + 1 <= last
  BY <1>1, <1>6
<1> HIDE DEF last
<1>8. /\ \A i \in start + 1..last : s[i] \in S
      /\ start + 1 \in Int /\ last \in Int
  BY <1>1, <1>6, <1>7
<1>9. Len(SubSeq(s, start + 1, last)) = IF start + 1 <= last THEN last - (start + 1) + 1 ELSE 0
  BY <1>8, SubSeqProperties
<1> DEFINE shown == SubSeq(s, start + 1, last)
           a == Paginate(s, page)
<1>10. Len(shown) <= PageSize /\ (s # <<>> => Len(shown) >= 1)
  BY <1>1, <1>6, <1>7, <1>9
<1>11. a = [items |-> shown, page |-> safe, totalPages |-> total]
  BY ONLY <1>3
<1> HIDE DEF shown, a
<1>12. s # <<>> => shown # <<>>
  BY <1>10
<1> SUFFICES a.page \in 1..a.totalPages /\ a.page <= page /\ (s # <<>> => a.items # <<>>) /\ Len(a.items) <= PageSize
  BY DEF a
<1> QED
  BY <1>4, <1>10, <1>11, <1>12

\* Numbers have a least one, and a greatest if they have a bound.
LEMMA LeastOf ==
    ASSUME NEW T \in SUBSET Nat, T # {}
    PROVE  \E x \in T : \A y \in T : x <= y
<1> DEFINE R == OpToRel(<, Nat)
<1>1. IsWellFoundedOn(R, Nat)
  BY NatLessThanWellFounded
<1>2. R = {ss \in Nat \X Nat : ss[1] < ss[2]}
  BY DEF OpToRel
<1> HIDE DEF R
<1>3. T \subseteq Nat
  OBVIOUS
<1>4. PICK x \in T : \A y \in T : ~(<<y, x>> \in R)
  BY ONLY <1>3, T # {}, <1>1, WFMin
<1>5. \A y \in T : ~(y < x)
  BY <1>2, <1>4
<1> QED
  BY <1>5

LEMMA GreatestOf ==
    ASSUME NEW T \in SUBSET Nat, T # {}, NEW b \in Nat, \A x \in T : x <= b
    PROVE  \E x \in T : \A y \in T : y <= x
<1> DEFINE U == {b - x : x \in T}
<1>1. U \in SUBSET Nat /\ U # {}
  <2>1. \A x \in T : b - x \in Nat
    OBVIOUS
  <2> QED
    BY <2>1
<1>2. PICK u \in U : \A v \in U : u <= v
  BY <1>1, LeastOf
<1>3. PICK x \in T : u = b - x
  OBVIOUS
<1>4. \A y \in T : b - x <= b - y
  BY <1>2, <1>3
<1> QED
  BY <1>4

\* What a finite set holds can be listed by a measure, largest first.
LEMMA Ranked ==
    ASSUME NEW S, IsFiniteSet(S), NEW b \in Nat, NEW f \in [S -> 0..b]
    PROVE  \E t \in SetToSeqs(S) : \A i, j \in DOMAIN t : i < j => f[t[i]] >= f[t[j]]
<1> DEFINE n == Cardinality(S)
           Tops(k) == {t \in [1..k -> S] :
                          /\ \A i, j \in 1..k : i # j => t[i] # t[j]
                          /\ \A i, j \in 1..k : i < j => f[t[i]] >= f[t[j]]
                          /\ \A i \in 1..k, x \in S : (\A j \in 1..k : t[j] # x) => f[t[i]] >= f[x]}
           Reached == {k \in 0..n : Tops(k) # {}}
<1>1. n \in Nat
  BY FS_CardinalityType
<1>2. 0 \in Reached
  <2>1. [i \in 1..0 |-> i] \in Tops(0)
    OBVIOUS
  <2> HIDE DEF Tops
  <2> QED
    BY <1>1, <2>1
<1>3. PICK k \in Reached : \A m \in Reached : m <= k
  <2>1. Reached \in SUBSET Nat /\ Reached # {} /\ \A m \in Reached : m <= n
    BY <1>1, <1>2
  <2> HIDE DEF Reached
  <2> QED
    BY <1>1, <2>1, GreatestOf
<1>4. PICK t \in Tops(k) : TRUE
  BY <1>3
<1>5. k \in 0..n /\ k + 1 \notin Reached
  <2>1. k \in 0..n
    BY <1>3
  <2> QED
    BY <1>1, <1>3, <2>1
<1>6. k = n
  <2> SUFFICES ASSUME k # n PROVE FALSE
    OBVIOUS
  <2>1. k \in Nat /\ k < n /\ k + 1 \in 0..n
    BY <1>1, <1>5
  <2> DEFINE U == {t[i] : i \in 1..k}
             Left == S \ U
  <2>2. U \subseteq S /\ t \in [1..k -> S]
    BY <1>4
  <2>3. Left # {}
    <3> SUFFICES ASSUME U = S PROVE FALSE
      BY <2>2
    <3>1. t \in Surjection(1..k, S)
      BY <2>2 DEF Surjection
    <3>2. IsFiniteSet(1..k) /\ Cardinality(1..k) = k
      <4>1. 1 \in Int /\ k \in Int
        BY <2>1
      <4>2. IsFiniteSet(1..k) /\ Cardinality(1..k) = IF 1 > k THEN 0 ELSE k - 1 + 1
        BY <4>1, FS_Interval
      <4> QED
        BY <2>1, <4>2
    <3>3. Cardinality(S) <= k
      BY <3>1, <3>2, FS_Surjection
    <3> QED
      BY <1>1, <2>1, <3>3
  <2>4. PICK x \in Left : \A y \in Left : f[y] <= f[x]
    <3> DEFINE V == {f[y] : y \in Left}
    <3>1. V \in SUBSET Nat /\ V # {} /\ \A v \in V : v <= b
      BY <2>3
    <3> HIDE DEF V
    <3>2. PICK v \in V : \A w \in V : w <= v
      BY <3>1, GreatestOf
    <3> QED
      BY <3>2 DEF V
  <2> DEFINE more == [i \in 1..k + 1 |-> IF i = k + 1 THEN x ELSE t[i]]
  <2>5. /\ \A i, j \in 1..k : i # j => t[i] # t[j]
        /\ \A i, j \in 1..k : i < j => f[t[i]] >= f[t[j]]
        /\ \A i \in 1..k, y \in S : (\A j \in 1..k : t[j] # y) => f[t[i]] >= f[y]
    BY <1>4
  <2>6. x \in S /\ \A i \in 1..k : t[i] # x /\ f[t[i]] >= f[x]
    BY <2>4, <2>5
  <2>7. more \in [1..k + 1 -> S] /\ more[k + 1] = x /\ \A i \in 1..k : more[i] = t[i]
    BY <2>1, <2>2, <2>6
  <2>8. \A i \in 1..k + 1 : i = k + 1 \/ i \in 1..k
    BY <2>1
  <2> HIDE DEF more
  <2>9. \A i, j \in 1..k + 1 : i # j => more[i] # more[j]
    BY <2>5, <2>6, <2>7, <2>8
  <2>10. \A i, j \in 1..k + 1 : i < j => f[more[i]] >= f[more[j]]
    <3> SUFFICES ASSUME NEW i \in 1..k + 1, NEW j \in 1..k + 1, i < j PROVE f[more[i]] >= f[more[j]]
      OBVIOUS
    <3>1. i \in 1..k
      BY <2>1
    <3> QED
      BY <2>5, <2>6, <2>7, <2>8, <3>1
  <2>11. \A i \in 1..k + 1, y \in S : (\A j \in 1..k + 1 : more[j] # y) => f[more[i]] >= f[y]
    <3> SUFFICES ASSUME NEW i \in 1..k + 1, NEW y \in S, \A j \in 1..k + 1 : more[j] # y
                 PROVE  f[more[i]] >= f[y]
      OBVIOUS
    <3>1. \A j \in 1..k : t[j] # y
      <4>1. \A j \in 1..k : j \in 1..k + 1
        BY <2>1
      <4> QED
        BY <2>7, <4>1
    <3>2. y \in Left
      BY <3>1
    <3>3. f[y] <= f[x]
      BY <2>4, <3>2
    <3>4. CASE i = k + 1
      BY <2>6, <2>7, <3>3, <3>4
    <3>5. CASE i \in 1..k
      BY <2>5, <2>7, <3>1, <3>5
    <3> QED
      BY <2>8, <3>4, <3>5
  <2>12. more \in Tops(k + 1)
    BY <2>7, <2>9, <2>10, <2>11
  <2> QED
    BY <1>5, <2>1, <2>12
<1>7. t \in SetToSeqs(S)
  BY <1>4, <1>6 DEF SetToSeqs
<1>8. \A i, j \in DOMAIN t : i < j => f[t[i]] >= f[t[j]]
  BY <1>4
<1> QED
  BY <1>7, <1>8

\* The charts are in the order of plays.
LEMMA ChartsSorted ==
    ASSUME NEW h \in Seq(Songs)
    PROVE  \A i, j \in DOMAIN TopTracks(h) : i < j => Plays(h, TopTracks(h)[i]) >= Plays(h, TopTracks(h)[j])
<1> DEFINE S == ToSet(h)
           b == Len(h)
           f == [s \in S |-> Plays(h, s)]
<1>1. b \in Nat /\ DOMAIN h = 1..b
  BY LenProperties
<1>2. IsFiniteSet(1..b) /\ Cardinality(1..b) = b
  BY <1>1, FS_Interval
<1>3. IsFiniteSet(S)
  <2>1. h \in Surjection(1..b, S)
    BY <1>1 DEF Surjection, ToSet
  <2> QED
    BY <1>2, <2>1, FS_Surjection
<1>4. \A s \in S : Plays(h, s) \in 0..b
  <2> SUFFICES ASSUME NEW s \in S PROVE Plays(h, s) \in 0..b
    OBVIOUS
  <2> DEFINE I == {i \in DOMAIN h : h[i] = s}
  <2>1. I \in SUBSET (1..b)
    BY <1>1
  <2> HIDE DEF I
  <2>2. Cardinality(I) <= b /\ Cardinality(I) \in Nat
    BY <1>2, <2>1, FS_Subset, FS_CardinalityType
  <2> QED
    BY <2>2 DEF Plays, I
<1>5. f \in [S -> 0..b]
  BY <1>4
<1>6. \E t \in SetToSeqs(S) : \A i, j \in DOMAIN t : i < j => f[t[i]] >= f[t[j]]
  <2> HIDE DEF f, S, b
  <2> QED
    BY <1>1, <1>3, <1>5, Ranked
<1>7. \E t \in SetToSeqs(S) : \A i, j \in DOMAIN t : i < j => Plays(h, t[i]) >= Plays(h, t[j])
  <2>1. \A t \in SetToSeqs(S) : \A i \in DOMAIN t : t[i] \in S
    BY DEF SetToSeqs
  <2>2. \A s \in S : f[s] = Plays(h, s)
    OBVIOUS
  <2> HIDE DEF f, S
  <2> QED
    BY <1>6, <2>1, <2>2
<1> QED
  BY <1>7 DEF TopTracks

(*------------------------- a command that runs alone ----------------------*)
\* What a command that has run alone so far knows of the documents: but for what
\* it has written itself they are as they were when it began, and what it has
\* checked or read of them holds.
Held(k) ==
    /\ k.at \notin {"signal", "applied"} => documents = k.before
    /\ k.at = "access" => k.op \notin {"favs", "history", "charts", "sweep"}
    /\ k.op \in {"list", "show", "favs", "history"} => k.key \in Nat \ {0}
    /\ k.op = "show" => k.on \in Names
    /\ k.op = "create" /\ k.at \in {"count", "insert"} => playlists[k.on] = None
    /\ k.op = "create" /\ k.at = "insert" => Cardinality(Existing) < MaxPlaylists
    /\ k.op = "add" /\ k.at \in {"read", "push"} => k.given # <<>>
    /\ k.op = "add" /\ k.at = "push" =>
          /\ playlists[k.on] # None /\ Len(playlists[k.on]) < MaxTracks
          /\ k.seen = Slice(k.given, 0, MaxTracks - Len(playlists[k.on]))
    /\ k.op = "remove" /\ k.at = "write" =>
          playlists[k.on] # None /\ k.seen = RemoveAt(playlists[k.on], k.key)
    /\ k.op = "fav" /\ k.at = "push" =>
          Len(favorites) < MaxFavorites /\ Head(k.given) \notin ToSet(favorites)
    /\ k.op = "fav" /\ k.at = "signal" =>
          /\ favorites = Append(k.before[2], Head(k.given))
          /\ ~(Len(k.before[2]) >= MaxFavorites) /\ Head(k.given) \notin ToSet(k.before[2])
    /\ k.op = "ufav" /\ k.at = "write" => k.seen = RemoveAt(favorites, k.key)
    /\ k.op \in {"edit", "drop"} /\ k.at \in {"permission", "write"} => k.seen = features
    /\ k.op = "list" /\ k.at = "page" =>
          k.seen \in Nat \ {0} /\ (Existing # {} => (k.seen - 1) * PageSize < Cardinality(Existing))
    /\ k.op = "sweep" /\ k.at \in {"again", "read", "plays", "post", "mark"} =>
          features["recapChannelId"][FieldKey] # None
    /\ k.op = "sweep" /\ k.at \in {"post", "mark"} => history # <<>>

\* A command is alone only if no other is under way.
AloneInv ==
    \A c \in Calls : Active(c) /\ calls[c].alone =>
        Held(calls[c]) /\ \A d \in Calls \ {c} : ~Active(d)

Closes(c, is, of) == Over(c) /\ calls'[c].answer = [is |-> is, of |-> of]
Moves(c, at, given, read) == Turns(c, at, given, read) /\ calls'[c].before = calls[c].before
SameDocuments == UNCHANGED <<playlists, favorites, history, features>>

\* A step of a command that runs alone: what it promised when it is over, what it
\* knows when it goes on.
TrueToWord(c) == IF calls'[c].at = "idle" THEN Promised(c) ELSE Held(calls[c])'

LEMMA AnswerCloses ==
    ASSUME CallsFit, NEW c \in Calls, NEW is, NEW of, Answer(c, is, of)
    PROVE  Closes(c, is, of)
<1> DEFINE n == [Idle EXCEPT !.answer = [is |-> is, of |-> of]]
<1>1. calls' = [calls EXCEPT ![c] = n] /\ DOMAIN calls = Calls
  BY DEF Answer, CallsFit
<1>2. n.answer = [is |-> is, of |-> of]
  BY DEF Idle
<1> HIDE DEF n
<1> QED
  BY <1>1, <1>2, AnswerEnds DEF Closes

LEMMA SaysCloses == ASSUME CallsFit, NEW c \in Calls, NEW is, Says(c, is)  PROVE Closes(c, is, None)
BY AnswerCloses DEF Says

LEMMA GotoMoves ==
    ASSUME CallsFit, NEW c \in Calls, NEW stage, NEW read, Goto(c, stage, read)
    PROVE  Moves(c, stage, calls[c].given, read)
<1> DEFINE r == calls[c]
           n == [r EXCEPT !.at = stage, !.seen = read]
<1>1. DOMAIN r = CallFields /\ DOMAIN calls = Calls
  BY IdleFields DEF CallsFit, CallFits
<1>2. calls' = [calls EXCEPT ![c] = n]
  BY <1>1 DEF Goto
<1> HIDE DEF r
<1>3. n.before = r.before
  BY <1>1 DEF CallFields
<1> HIDE DEF n
<1> QED
  BY <1>1, <1>2, <1>3, GotoTurns DEF Moves, r

LEMMA GivenMoves ==
    ASSUME CallsFit, NEW c \in Calls, NEW tracks, calls' = [calls EXCEPT ![c].at = "read", ![c].given = tracks]
    PROVE  Moves(c, "read", tracks, calls[c].seen)
<1> DEFINE r == calls[c]
           n == [r EXCEPT !.at = "read", !.given = tracks]
<1>1. DOMAIN r = CallFields /\ DOMAIN calls = Calls
  BY IdleFields DEF CallsFit, CallFits
<1>2. calls' = [calls EXCEPT ![c] = n]
  BY <1>1
<1> HIDE DEF r
<1>3. /\ DOMAIN n = CallFields /\ n.op = r.op /\ n.on = r.on /\ n.key = r.key /\ n.before = r.before
      /\ n.at = "read" /\ n.given = tracks /\ n.seen = r.seen
  BY <1>1 DEF CallFields
<1> HIDE DEF n
<1> QED
  BY <1>1, <1>2, <1>3, IdleFields DEF Moves, Turns, Others, r

\* An answer that reports nothing done is right if nothing was done, and if a
\* playlist was refused there was one of that name or no room.
LEMMA Refused ==
    ASSUME NEW c \in Calls, Held(calls[c]), calls[c].at \notin {"idle", "signal", "applied"},
           NEW is, NEW of, is \notin {"ok", "page", "posted"}, Closes(c, is, of), SameDocuments,
           calls[c].op \notin {"list", "favs", "history", "charts"},
           calls[c].op = "create" =>
              is = "denied" \/ playlists[calls[c].on] # None \/ ~(Cardinality(Existing) < MaxPlaylists)
    PROVE  TrueToWord(c)
<1> DEFINE k == calls[c]
<1>1. /\ k.before = <<playlists, favorites, history, features>> /\ documents' = documents
      /\ k.before[1] = playlists /\ k.before[2] = favorites /\ k.before[4] = features
      /\ documents' = k.before
  BY DEF Held, SameDocuments, documents
<1>2. calls'[c].at = "idle" /\ calls'[c].answer.is = is
  BY DEF Closes, Over
<1>3. CASE k.op = "create"
  BY <1>1, <1>2, <1>3 DEF Promised, Bears, TrueToWord, Existing, SameDocuments
<1>4. CASE k.op \in {"add", "remove", "ufav", "show", "sweep"}
  BY <1>2, <1>4 DEF Promised, Bears, TrueToWord
<1>5. CASE k.op = "fav"
  BY <1>1, <1>2, <1>5 DEF Promised, Bears, TrueToWord, SameDocuments
<1>6. CASE k.op \in {"edit", "drop"}
  BY <1>1, <1>2, <1>6 DEF Promised, Bears, TrueToWord, SameDocuments
<1>7. CASE k.op \notin {"create", "add", "remove", "ufav", "show", "sweep", "fav", "edit", "drop",
                        "list", "favs", "history", "charts"}
  BY <1>2, <1>7 DEF Promised, TrueToWord
<1> QED
  BY <1>3, <1>4, <1>5, <1>6, <1>7

\* The context of the lemmas on single steps: an invariant, and a command alone.
AloneNow(c) == LibraryInv /\ c \in Calls /\ Held(calls[c]) /\ calls[c].at # "idle"

LEMMA AloneFacts ==
    ASSUME NEW c \in Calls, AloneNow(c)
    PROVE  /\ DocumentsFit /\ CallsFit /\ IsFiniteSet(Existing) /\ Cardinality(Existing) \in Nat
           /\ CallShape(calls[c].op, calls[c].at, calls[c].on, calls[c].key, calls[c].given, calls[c].seen)
           /\ playlists \in [Names -> Seq(Songs) \cup {None}] /\ favorites \in Seq(Songs) /\ history \in Seq(Songs)
           /\ MaxPlaylists \in Nat \ {0} /\ MaxTracks \in Nat \ {0} /\ MaxFavorites \in Nat \ {0}
           /\ PageSize \in Nat \ {0}
           /\ calls[c].at \notin {"signal", "applied"} =>
                 /\ calls[c].before = <<playlists, favorites, history, features>>
                 /\ calls[c].before[1] = playlists /\ calls[c].before[2] = favorites
                 /\ calls[c].before[3] = history /\ calls[c].before[4] = features
<1>1. DocumentsFit /\ CallsFit /\ IsFiniteSet(Existing) /\ Cardinality(Existing) \in Nat
  BY FS_CardinalityType DEF AloneNow, LibraryInv, Counted
<1>2. CallShape(calls[c].op, calls[c].at, calls[c].on, calls[c].key, calls[c].given, calls[c].seen)
  BY <1>1 DEF AloneNow, CallsFit, CallFits
<1>3. calls[c].at \notin {"signal", "applied"} => calls[c].before = <<playlists, favorites, history, features>>
  BY DEF AloneNow, Held, documents
<1>4. playlists \in [Names -> Seq(Songs) \cup {None}] /\ favorites \in Seq(Songs) /\ history \in Seq(Songs)
  BY <1>1 DEF DocumentsFit
<1>5. /\ MaxPlaylists \in Nat \ {0} /\ MaxTracks \in Nat \ {0} /\ MaxFavorites \in Nat \ {0}
      /\ PageSize \in Nat \ {0}
  BY LibraryAssumption
<1> QED
  BY <1>1, <1>2, <1>3, <1>4, <1>5

(*------- the steps of a command that runs alone, command by command -------*)
LEMMA CreateAlone ==
    ASSUME NEW c \in Calls, AloneNow(c), CreateFinds(c) \/ CreateCounts(c) \/ CreateInserts(c)
    PROVE  TrueToWord(c)
<1> DEFINE k == calls[c]
<1>1. CallsFit /\ k.op = "create" /\ k.at \in {"read", "count", "insert"} /\ k.on \in Names
  BY AloneFacts DEF CreateFinds, CreateCounts, CreateInserts, At, CallShape
<1>2. Held(k) /\ documents = k.before
  BY <1>1 DEF AloneNow, Held
<1>3. CASE CreateFinds(c)
  <2>1. SameDocuments
    BY <1>3 DEF CreateFinds, SameDocuments
  <2>2. CASE playlists[k.on] # None /\ Says(c, "exists")
    BY <1>1, <1>2, <2>1, <2>2, SaysCloses, Refused
  <2>3. CASE playlists[k.on] = None /\ Goto(c, "count", None)
    BY <1>1, <1>2, <2>1, <2>3, GotoMoves DEF Moves, Turns, TrueToWord, Held, SameDocuments, documents, Existing
  <2> QED
    BY <1>3, <2>2, <2>3 DEF CreateFinds
<1>4. CASE CreateCounts(c)
  <2>1. SameDocuments /\ k.at = "count"
    BY <1>4 DEF CreateCounts, SameDocuments, At
  <2>2. Cardinality(Existing) \in Nat /\ MaxPlaylists \in Nat
    BY AloneFacts
  <2>3. CASE Cardinality(Existing) >= MaxPlaylists /\ Says(c, "limit")
    BY <1>1, <1>2, <2>1, <2>2, <2>3, SaysCloses, Refused
  <2>4. CASE ~(Cardinality(Existing) >= MaxPlaylists) /\ Goto(c, "insert", None)
    BY <1>1, <1>2, <2>1, <2>2, <2>4, GotoMoves DEF Moves, Turns, TrueToWord, Held, SameDocuments, documents, Existing
  <2> QED
    BY <1>4, <2>3, <2>4 DEF CreateCounts
<1>5. CASE CreateInserts(c)
  <2>1. k.at = "insert" /\ playlists[k.on] = None /\ Cardinality(Existing) < MaxPlaylists
    BY <1>1, <1>2, <1>5 DEF CreateInserts, At, Held
  <2>2. Says(c, "ok") /\ playlists' = [playlists EXCEPT ![k.on] = <<>>]
    BY <1>5, <2>1 DEF CreateInserts
  <2>3. Closes(c, "ok", None) /\ k.before[1] = playlists
    BY <1>1, <2>1, <2>2, SaysCloses, AloneFacts
  <2> QED
    BY <1>1, <2>1, <2>2, <2>3 DEF Closes, Over, TrueToWord, Promised, Bears, Existing
<1> QED
  BY <1>3, <1>4, <1>5

LEMMA AddAlone ==
    ASSUME NEW c \in Calls, AloneNow(c), AddFinds(c) \/ AddPushes(c)
    PROVE  TrueToWord(c)
<1> DEFINE k == calls[c]
           current == playlists[k.on]
<1>1. /\ CallsFit /\ k.op = "add" /\ k.at \in {"read", "push"} /\ k.on \in Names /\ k.given \in Seq(Songs)
      /\ MaxTracks \in Nat \ {0}
  BY AloneFacts DEF AddFinds, AddPushes, At, CallShape
<1>2. Held(k) /\ documents = k.before /\ k.given # <<>>
  BY <1>1 DEF AloneNow, Held
<1>3. current # None => current \in Seq(Songs) /\ Len(current) \in Nat
  BY <1>1, AloneFacts, LenProperties
<1>4. CASE AddFinds(c)
  <2> DEFINE fits == Slice(k.given, 0, MaxTracks - Len(current))
  <2>1. SameDocuments
    BY <1>4 DEF AddFinds, SameDocuments
  <2>2. CASE Says(c, "missing") \/ Says(c, "limit")
    BY <1>1, <1>2, <2>1, <2>2, SaysCloses, Refused
  <2>3. CASE current # None /\ ~(Len(current) >= MaxTracks) /\ Goto(c, "push", fits)
    <3>1. Len(current) < MaxTracks
      BY <1>1, <1>3, <2>3
    <3> HIDE DEF fits
    <3>2. Moves(c, "push", k.given, fits)
      BY <1>1, <2>3, GotoMoves
    <3>3. /\ documents' = documents /\ playlists' = playlists
          /\ fits = Slice(k.given, 0, MaxTracks - Len(current))
      BY <2>1 DEF SameDocuments, documents, fits
    <3> QED
      BY <1>1, <1>2, <2>3, <3>1, <3>2, <3>3 DEF Moves, Turns, TrueToWord, Held
  <2> QED
    BY <1>4, <2>2, <2>3 DEF AddFinds
<1>5. CASE AddPushes(c)
  <2> DEFINE left == MaxTracks - Len(current)
             given == k.given
             fits == Slice(given, 0, left)
             now == current \o fits
  <2>1. current # None /\ Len(current) < MaxTracks /\ k.seen = fits
    BY <1>1, <1>2, <1>5 DEF AddPushes, At, Held
  <2>2. left \in Nat /\ left # 0
    BY <1>1, <1>3, <2>1
  <2>3. fits \in Seq(Songs) /\ Len(fits) \in 1..left /\ Len(fits) = IF left > Len(given) THEN Len(given) ELSE left
    <3> HIDE DEF left, given
    <3>1. fits \in Seq(Songs) /\ Len(fits) \in 1..left
      BY <1>1, <1>2, <2>2, SliceOfSongs DEF given
    <3>2. given \in Seq(Songs) /\ Len(given) \in Nat /\ \A i \in 1..Len(given) : given[i] \in Songs
      BY <1>1, LenProperties, ElementOfSeq DEF given
    <3> DEFINE m == IF left > Len(given) THEN Len(given) ELSE left
    <3>3. fits = SubSeq(given, 1, m) /\ m \in Nat /\ m <= Len(given)
      BY <2>2, <3>2 DEF Slice
    <3> HIDE DEF fits, m
    <3>4. Len(fits) = IF 1 <= m THEN m - 1 + 1 ELSE 0
      BY <3>2, <3>3, SubSeqProperties
    <3>5. Len(fits) = m
      BY <3>3, <3>4
    <3> QED
      BY <3>1, <3>5 DEF m
  <2>4. playlists' = [playlists EXCEPT ![k.on] = now]
    BY <1>1, <1>5, <2>1, AloneFacts DEF AddPushes
  <2>5. Closes(c, "ok", Len(k.seen))
    BY <1>1, <1>5, AnswerCloses DEF AddPushes
  <2> HIDE DEF fits, left
  <2>6. now \in Seq(Songs) /\ Len(now) = Len(current) + Len(fits) /\ IsPrefix(current, now)
    BY <1>3, <2>1, <2>3, ConcatProperties, PrefixOfConcat
  <2>7. playlists'[k.on] = now /\ k.before[1] = playlists
    BY <1>1, <2>4, AloneFacts
  <2> HIDE DEF now, current
  <2>8. Len(given) \in Nat
    BY <1>1, LenProperties
  <2>9. /\ ~(Len(current) >= MaxTracks) /\ Len(now) <= MaxTracks /\ Len(fits) = Len(now) - Len(current)
        /\ Len(fits) > 0 /\ (Len(now) >= MaxTracks \/ Len(now) = Len(current) + Len(given))
    BY <1>1, <1>3, <2>1, <2>2, <2>3, <2>6, <2>8 DEF left
  <2>10. calls'[c].at = "idle" /\ calls'[c].answer = [is |-> "ok", of |-> Len(fits)]
    BY <2>1, <2>5 DEF Closes, Over
  <2>11. /\ calls'[c].at = "idle" /\ calls'[c].answer.of = Len(fits)
    BY <2>10
  <2>12. k.before[1][k.on] = current
    BY <2>7 DEF current
  <2> QED
    BY <1>1, <2>6, <2>7, <2>9, <2>11, <2>12 DEF TrueToWord, Promised, Bears
<1> QED
  BY <1>4, <1>5

LEMMA RemoveAlone ==
    ASSUME NEW c \in Calls, AloneNow(c), RemoveFinds(c) \/ RemoveWrites(c)
    PROVE  TrueToWord(c)
<1> DEFINE k == calls[c]
           current == playlists[k.on]
<1>1. CallsFit /\ k.op = "remove" /\ k.at \in {"read", "write"} /\ k.on \in Names
  BY AloneFacts DEF RemoveFinds, RemoveWrites, At, CallShape
<1>2. Held(k) /\ documents = k.before
  BY <1>1 DEF AloneNow, Held
<1>3. CASE RemoveFinds(c)
  <2> DEFINE less == RemoveAt(current, k.key)
  <2>1. SameDocuments
    BY <1>3 DEF RemoveFinds, SameDocuments
  <2>2. CASE Says(c, "missing") \/ Says(c, "range")
    BY <1>1, <1>2, <2>1, <2>2, SaysCloses, Refused
  <2>3. CASE current # None /\ Goto(c, "write", less)
    <3> HIDE DEF less
    <3>1. Moves(c, "write", k.given, less)
      BY <1>1, <2>3, GotoMoves
    <3>2. documents' = documents /\ playlists' = playlists /\ less = RemoveAt(current, k.key)
      BY <2>1 DEF SameDocuments, documents, less
    <3> QED
      BY <1>1, <1>2, <2>3, <3>1, <3>2 DEF Moves, Turns, TrueToWord, Held
  <2> QED
    BY <1>3, <2>2, <2>3 DEF RemoveFinds
<1>4. CASE RemoveWrites(c)
  <2>1. current # None /\ k.seen = RemoveAt(current, k.key)
    BY <1>1, <1>2, <1>4 DEF RemoveWrites, At, Held
  <2>2. playlists' = [playlists EXCEPT ![k.on] = k.seen] /\ Closes(c, "ok", None)
    BY <1>1, <1>4, <2>1, AloneFacts, SaysCloses DEF RemoveWrites
  <2>3. playlists'[k.on] = k.seen /\ k.before[1] = playlists
    BY <1>1, <2>2, AloneFacts
  <2> QED
    BY <1>1, <2>1, <2>2, <2>3 DEF Closes, Over, TrueToWord, Promised, Bears
<1> QED
  BY <1>3, <1>4

LEMMA ShowAlone ==
    ASSUME NEW c \in Calls, AloneNow(c), ShowPlaylist(c) \/ ListFavorites(c) \/ ListHistory(c) \/ ShowCharts(c)
    PROVE  TrueToWord(c)
<1> DEFINE k == calls[c]
<1>1. CallsFit /\ k.at = "read" /\ k.op \in {"show", "favs", "history", "charts"}
  BY AloneFacts DEF ShowPlaylist, ListFavorites, ListHistory, ShowCharts, At
<1>2. Held(k) /\ documents = k.before /\ (k.op # "charts" => k.key \in Nat \ {0})
  BY <1>1 DEF AloneNow, Held
<1>3. k.before[1] = playlists /\ k.before[2] = favorites /\ k.before[3] = history
  BY <1>1, AloneFacts
<1>4. ASSUME NEW s \in Seq(Songs), k.key \in Nat \ {0}, Answer(c, "page", Paginate(s, k.key))
      PROVE  LET a == calls'[c].answer
             IN  /\ calls'[c].at = "idle" /\ a.of.page \in 1..a.of.totalPages /\ a.of.page <= k.key
                 /\ s # <<>> => a.of.items # <<>>
                 /\ Len(a.of.items) <= PageSize
  <2> DEFINE shown == Paginate(s, k.key)
  <2>1. /\ shown.page \in 1..shown.totalPages /\ shown.page <= k.key /\ (s # <<>> => shown.items # <<>>)
        /\ Len(shown.items) <= PageSize
    BY <1>4, PageShown
  <2> HIDE DEF shown
  <2>2. Closes(c, "page", shown)
    BY <1>1, <1>4, AnswerCloses DEF shown
  <2>3. calls'[c].at = "idle" /\ calls'[c].answer.of = shown
    BY <2>2 DEF Closes, Over
  <2> QED
    BY <2>1, <2>3
<1>5. CASE ShowPlaylist(c)
  <2>1. k.op = "show" /\ k.on \in Names /\ SameDocuments
    BY <1>2, <1>5 DEF ShowPlaylist, At, Held, SameDocuments
  <2>2. CASE Says(c, "missing")
    BY <1>1, <1>2, <2>1, <2>2, SaysCloses, Refused
  <2>3. CASE playlists[k.on] # None /\ Answer(c, "page", Paginate(playlists[k.on], k.key))
    <3>1. playlists[k.on] \in Seq(Songs)
      BY <2>1, <2>3, AloneFacts
    <3> QED
      BY <1>2, <1>3, <1>4, <2>1, <2>3, <3>1 DEF TrueToWord, Promised
  <2> QED
    BY <1>5, <2>2, <2>3 DEF ShowPlaylist
<1>6. CASE ListFavorites(c)
  BY <1>2, <1>3, <1>4, <1>6, AloneFacts DEF ListFavorites, At, TrueToWord, Promised
<1>7. CASE ListHistory(c)
  <2> DEFINE s == Reverse(history)
  <2>1. history \in Seq(Songs) /\ Len(history) \in Nat
    BY AloneFacts, LenProperties
  <2>2. s \in Seq(Songs) /\ Len(s) = Len(history)
    BY <2>1 DEF Reverse
  <2>3. k.op = "history" /\ Answer(c, "page", Paginate(s, k.key))
    BY <1>7 DEF ListHistory, At
  <2> HIDE DEF s
  <2>4. history # <<>> => s # <<>>
    BY <2>1, <2>2, EmptySeq
  <2> QED
    BY <1>2, <1>3, <1>4, <2>2, <2>3, <2>4 DEF TrueToWord, Promised
<1>8. CASE ShowCharts(c)
  <2> DEFINE top == TopTracks(history)
  <2>1. k.op = "charts" /\ Closes(c, "top", top)
    BY <1>1, <1>8, AnswerCloses DEF ShowCharts, At
  <2>2. \A i, j \in DOMAIN top : i < j => Plays(history, top[i]) >= Plays(history, top[j])
    BY AloneFacts, ChartsSorted
  <2> HIDE DEF top
  <2>3. calls'[c].at = "idle" /\ calls'[c].answer.of = top
    BY <2>1 DEF Closes, Over
  <2> QED
    BY <1>3, <2>1, <2>2, <2>3 DEF TrueToWord, Promised
<1> QED
  BY <1>5, <1>6, <1>7, <1>8

LEMMA ListAlone ==
    ASSUME NEW c \in Calls, AloneNow(c), ListCounts(c) \/ ListFetches(c)
    PROVE  TrueToWord(c)
<1> DEFINE k == calls[c]
           n == Cardinality(Existing)
<1>1. CallsFit /\ k.op = "list" /\ k.at \in {"count", "page"} /\ SameDocuments
  BY AloneFacts DEF ListCounts, ListFetches, At, SameDocuments
<1>2. Held(k) /\ documents = k.before /\ k.key \in Nat \ {0}
  BY <1>1 DEF AloneNow, Held
<1>3. n \in Nat /\ PageSize \in Nat \ {0} /\ (Existing # {} => n # 0)
  BY AloneFacts, FS_EmptySet
<1>4. CASE ListCounts(c)
  <2> DEFINE pages == IF n = 0 THEN 1 ELSE (n + PageSize - 1) \div PageSize
             page == IF k.key > pages THEN pages ELSE k.key
  <2>1. Goto(c, "page", page)
    BY <1>4 DEF ListCounts
  <2> HIDE DEF n
  <2>2. pages \in Nat \ {0} /\ (n # 0 => (pages - 1) * PageSize < n)
    <3>1. CASE n = 0
      BY <3>1
    <3>2. CASE n # 0
      <4>1. (n + PageSize - 1) \div PageSize \in Nat \ {0} /\ ((n + PageSize - 1) \div PageSize - 1) * PageSize < n
        BY <1>3, <3>2
      <4> QED
        BY <3>2, <4>1
    <3> QED
      BY <3>1, <3>2
  <2> HIDE DEF pages
  <2>3. page \in 1..pages
    BY <1>2, <2>2
  <2> HIDE DEF page
  <2>4. (page - 1) * PageSize <= (pages - 1) * PageSize /\ page \in Nat \ {0}
    BY <1>3, <2>2, <2>3
  <2>5. Existing # {} => (page - 1) * PageSize < n
    <3>1. (page - 1) * PageSize \in Int /\ (pages - 1) * PageSize \in Int
      BY <1>3, <2>2, <2>4
    <3> QED
      BY <1>3, <2>2, <2>4, <3>1
  <2>6. Moves(c, "page", k.given, page)
    BY <1>1, <2>1, GotoMoves
  <2>7. documents' = documents /\ Existing' = Existing
    BY <1>1 DEF SameDocuments, documents, Existing
  <2> QED
    BY <1>1, <1>2, <2>4, <2>5, <2>6, <2>7 DEF Moves, Turns, TrueToWord, Held, n
<1>5. CASE ListFetches(c)
  <2> DEFINE left == n - (k.seen - 1) * PageSize
             shown == IF left < 0 THEN 0 ELSE IF left > PageSize THEN PageSize ELSE left
  <2>1. k.at = "page" /\ Answer(c, "count", shown)
    BY <1>5 DEF ListFetches, At
  <2>2. k.seen \in Nat \ {0} /\ (Existing # {} => (k.seen - 1) * PageSize < n)
    BY <1>1, <1>2, <2>1 DEF Held
  <2>3. (k.seen - 1) * PageSize \in Nat
    BY <1>3, <2>2
  <2> HIDE DEF n
  <2>4. left \in Int /\ (Existing # {} => left > 0)
    BY <1>3, <2>2, <2>3
  <2> HIDE DEF left
  <2>5. Existing # {} => shown > 0
    BY <1>3, <2>4
  <2> HIDE DEF shown
  <2>6. calls'[c].at = "idle" /\ calls'[c].answer.of = shown
    <3>1. Closes(c, "count", shown)
      BY <1>1, <2>1, AnswerCloses
    <3> QED
      BY <3>1 DEF Closes, Over
  <2>7. (\E m \in Names : k.before[1][m] # None) => Existing # {}
    BY <1>1, AloneFacts DEF Existing
  <2> QED
    BY <1>1, <2>5, <2>6, <2>7 DEF TrueToWord, Promised
<1> QED
  BY <1>4, <1>5

LEMMA FavoriteAlone ==
    ASSUME NEW c \in Calls, AloneNow(c),
           FavoriteFinds(c) \/ FavoritePushes(c) \/ (RecordUserSignal(c) /\ calls[c].op = "fav")
    PROVE  TrueToWord(c)
<1> DEFINE k == calls[c]
           song == Head(k.given)
<1>1. CallsFit /\ k.op = "fav" /\ k.at \in {"read", "push", "signal"}
  BY AloneFacts DEF FavoriteFinds, FavoritePushes, RecordUserSignal, At
<1>2. Held(k) /\ (k.at # "signal" => documents = k.before /\ k.before[2] = favorites)
  BY <1>1, AloneFacts DEF AloneNow, Held
<1>3. CASE FavoriteFinds(c)
  <2>1. SameDocuments /\ k.at = "read"
    BY <1>3 DEF FavoriteFinds, SameDocuments, At
  <2>2. Len(favorites) \in Nat /\ MaxFavorites \in Nat
    BY AloneFacts, LenProperties
  <2>3. CASE Says(c, "duplicate") \/ Says(c, "limit")
    BY <1>1, <1>2, <2>1, <2>3, SaysCloses, Refused
  <2>4. CASE song \notin ToSet(favorites) /\ ~(Len(favorites) >= MaxFavorites) /\ Goto(c, "push", None)
    <3>1. Moves(c, "push", k.given, None) /\ Len(favorites) < MaxFavorites
      BY <1>1, <2>2, <2>4, GotoMoves
    <3>2. documents' = documents /\ favorites' = favorites
      BY <2>1 DEF SameDocuments, documents
    <3>3. ToSet(favorites)' = ToSet(favorites)
      BY <3>2 DEF ToSet
    <3> QED
      BY <1>1, <1>2, <2>1, <2>4, <3>1, <3>2, <3>3 DEF Moves, Turns, TrueToWord, Held
  <2> QED
    BY <1>3, <2>3, <2>4 DEF FavoriteFinds
<1>4. CASE FavoritePushes(c)
  <2>1. /\ k.at = "push" /\ favorites' = Append(favorites, song) /\ Moves(c, "signal", k.given, None)
        /\ Len(favorites) < MaxFavorites /\ song \notin ToSet(favorites)
    BY <1>1, <1>2, <1>4, GotoMoves DEF FavoritePushes, At, Held
  <2>2. k.before[2] = favorites /\ ~(Len(favorites) >= MaxFavorites)
    BY <1>2, <2>1, AloneFacts, LenProperties
  <2> QED
    BY <1>1, <2>1, <2>2 DEF Moves, Turns, TrueToWord, Held
<1>5. CASE RecordUserSignal(c)
  <2>1. k.at = "signal" /\ Closes(c, "ok", None) /\ favorites' = favorites
    BY <1>1, <1>5, SaysCloses DEF RecordUserSignal, At
  <2>2. /\ favorites = Append(k.before[2], song) /\ ~(Len(k.before[2]) >= MaxFavorites)
        /\ song \notin ToSet(k.before[2])
    BY <1>1, <1>2, <2>1 DEF Held
  <2> QED
    BY <1>1, <2>1, <2>2 DEF Closes, Over, TrueToWord, Promised, Bears
<1> QED
  BY <1>1, <1>3, <1>4, <1>5

LEMMA UnfavoriteAlone ==
    ASSUME NEW c \in Calls, AloneNow(c), UnfavoriteFinds(c) \/ UnfavoriteWrites(c)
    PROVE  TrueToWord(c)
<1> DEFINE k == calls[c]
           less == RemoveAt(favorites, k.key)
<1>1. CallsFit /\ k.op = "ufav" /\ k.at \in {"read", "write"}
  BY AloneFacts DEF UnfavoriteFinds, UnfavoriteWrites, At
<1>2. Held(k) /\ documents = k.before /\ k.before[2] = favorites
  BY <1>1, AloneFacts DEF AloneNow, Held
<1>3. CASE UnfavoriteFinds(c)
  <2>1. SameDocuments
    BY <1>3 DEF UnfavoriteFinds, SameDocuments
  <2>2. CASE Says(c, "range")
    BY <1>1, <1>2, <2>1, <2>2, SaysCloses, Refused
  <2>3. CASE Goto(c, "write", less)
    <3> HIDE DEF less
    <3>1. Moves(c, "write", k.given, less)
      BY <1>1, <2>3, GotoMoves
    <3>2. documents' = documents /\ favorites' = favorites /\ less = RemoveAt(favorites, k.key)
      BY <2>1 DEF SameDocuments, documents, less
    <3> QED
      BY <1>1, <1>2, <3>1, <3>2 DEF Moves, Turns, TrueToWord, Held
  <2> QED
    BY <1>3, <2>2, <2>3 DEF UnfavoriteFinds
<1>4. CASE UnfavoriteWrites(c)
  <2>1. k.at = "write" /\ favorites' = k.seen /\ Closes(c, "ok", None)
    BY <1>1, <1>4, SaysCloses DEF UnfavoriteWrites, At
  <2>2. k.seen = less
    BY <1>1, <1>2, <2>1 DEF Held
  <2> QED
    BY <1>1, <1>2, <2>1, <2>2 DEF Closes, Over, TrueToWord, Promised, Bears
<1> QED
  BY <1>3, <1>4

\* What an edit is to leave in its entry.
Wanted(k) == IF k.op = "drop" THEN None
             ELSE IF k.on = "queueTemplates" THEN Slice(k.given, 0, MaxSaved) ELSE k.given

\* An edit that runs alone changes the entry it is about and no other.
LEMMA EditWritten ==
    ASSUME NEW c \in Calls, AloneNow(c), calls[c].op \in {"edit", "drop"}, calls[c].at = "write",
           features' = [features EXCEPT ![calls[c].on] = WithEntry(c, Wanted(calls[c]))], Closes(c, "ok", None)
    PROVE  TrueToWord(c)
<1> DEFINE k == calls[c]
           old == features[k.on]
           e == Wanted(k)
<1>1. Held(k) /\ k.before[4] = features /\ k.on \in Lists /\ k.key \in Keys
  BY AloneFacts DEF AloneNow, CallShape
<1>2. k.seen = features
  BY <1>1 DEF Held
<1>3. DOMAIN features = Lists \cup Fields /\ \A l \in Lists \cup Fields : DOMAIN features[l] = Keys
  BY AloneFacts DEF DocumentsFit, EntriesOf
<1>4. features' = [features EXCEPT ![k.on] = [old EXCEPT ![k.key] = e]]
  BY <1>2 DEF WithEntry
<1>5. ASSUME NEW l \in DOMAIN features, NEW i \in Keys
      PROVE  features'[l][i] = IF <<l, i>> = <<k.on, k.key>> THEN e ELSE features[l][i]
  <2>1. DOMAIN old = Keys
    BY <1>1, <1>3
  <2> HIDE DEF old
  <2>2. features'[k.on] = [old EXCEPT ![k.key] = e]
    BY <1>1, <1>3, <1>4
  <2>3. CASE l # k.on
    BY <1>4, <2>3
  <2>4. CASE l = k.on
    <3>1. features'[l][i] = IF i = k.key THEN e ELSE old[i]
      BY <2>1, <2>2, <2>4
    <3> QED
      BY <2>4, <3>1 DEF old
  <2> QED
    BY <2>3, <2>4
<1>6. calls'[c].at = "idle" /\ Bears(c, "ok")
  BY DEF Closes, Over, Bears
<1>7. k.op \in {"edit", "drop"} /\ e = IF k.op = "drop" THEN None
                                      ELSE IF k.on = "queueTemplates" THEN Slice(k.given, 0, MaxSaved)
                                      ELSE k.given
  BY DEF Wanted
<1> HIDE DEF k, e
<1>8. \A l \in DOMAIN features, i \in Keys :
          features'[l][i] = IF <<l, i>> = <<k.on, k.key>> /\ Bears(c, "ok")
                            THEN (IF k.op = "drop" THEN None
                                  ELSE IF l = "queueTemplates" THEN Slice(k.given, 0, MaxSaved) ELSE k.given)
                            ELSE k.before[4][l][i]
  BY <1>1, <1>5, <1>6, <1>7 DEF k
<1> QED
  BY <1>6, <1>7, <1>8 DEF TrueToWord, Promised, k

LEMMA FeaturesAlone ==
    ASSUME NEW c \in Calls, AloneNow(c), calls[c].op \in {"edit", "drop"},
           \/ FeaturesRead(c) \/ SetQueueTemplate(c) \/ SetGuildStation(c) \/ SetVoiceProfile(c)
           \/ DeleteGuildStation(c) \/ DeleteQueueTemplate(c) \/ SetWhatWasRead(c)
    PROVE  TrueToWord(c)
<1> DEFINE k == calls[c]
<1>1. CallsFit /\ Held(k)
  BY AloneFacts DEF AloneNow
<1>2. CASE FeaturesRead(c)
  <2>1. SameDocuments /\ k.at = "read"
    BY <1>2 DEF FeaturesRead, SameDocuments, At
  <2>2. CASE Says(c, "missing")
    BY <1>1, <2>1, <2>2, SaysCloses, Refused
  <2>3. ASSUME NEW stage \in {"permission", "write"}, Goto(c, stage, features)
        PROVE  TrueToWord(c)
    <3>1. Moves(c, stage, k.given, features) /\ stage \notin {"idle", "signal", "applied", "access"}
      BY <1>1, <2>3, GotoMoves
    <3>2. documents' = documents /\ documents = k.before /\ features' = features
      BY <1>1, <2>1 DEF SameDocuments, documents, Held
    <3> QED
      BY <2>1, <3>1, <3>2 DEF Moves, Turns, TrueToWord, Held
  <2> QED
    BY <1>2, <2>2, <2>3 DEF FeaturesRead
<1>3. CASE SetQueueTemplate(c)
  <2>1. k.on = "queueTemplates" /\ k.at = "write" /\ k.op = "edit"
    BY <1>3 DEF SetQueueTemplate, On, At
  <2>2. features' = [features EXCEPT ![k.on] = WithEntry(c, Slice(k.given, 0, MaxSaved))] /\ Says(c, "ok")
    BY <1>3, <2>1 DEF SetQueueTemplate, PatchList
  <2>3. Slice(k.given, 0, MaxSaved) = Wanted(k)
    BY <2>1 DEF Wanted
  <2>4. Closes(c, "ok", None)
    BY <1>1, <2>2, SaysCloses
  <2> QED
    BY <2>1, <2>2, <2>3, <2>4, EditWritten
<1>4. CASE SetGuildStation(c) \/ SetVoiceProfile(c) \/ SetWhatWasRead(c)
  <2>1. k.on # "queueTemplates" /\ k.at = "write" /\ k.op = "edit"
    BY <1>4 DEF SetGuildStation, SetVoiceProfile, SetWhatWasRead, AskedAfterwards, On, At
  <2>2. features' = [features EXCEPT ![k.on] = WithEntry(c, k.given)] /\ Says(c, "ok")
    BY <1>4 DEF SetGuildStation, SetVoiceProfile, SetWhatWasRead, PatchList
  <2>3. k.given = Wanted(k)
    BY <2>1 DEF Wanted
  <2>4. Closes(c, "ok", None)
    BY <1>1, <2>2, SaysCloses
  <2> QED
    BY <2>1, <2>2, <2>3, <2>4, EditWritten
<1>5. CASE DeleteGuildStation(c) \/ DeleteQueueTemplate(c)
  <2>1. k.at = "write" /\ k.op = "drop"
    BY <1>5 DEF DeleteGuildStation, DeleteQueueTemplate, On, At
  <2>2. features' = [features EXCEPT ![k.on] = WithEntry(c, None)] /\ Says(c, "ok")
    BY <1>5 DEF DeleteGuildStation, DeleteQueueTemplate, PatchList
  <2>3. None = Wanted(k)
    BY <2>1 DEF Wanted
  <2>4. Closes(c, "ok", None)
    BY <1>1, <2>2, SaysCloses
  <2> QED
    BY <2>1, <2>2, <2>3, <2>4, EditWritten
<1> QED
  BY <1>2, <1>3, <1>4, <1>5

\* Of these a promise says nothing, and what they know is what they began with.
Unpromised == {"delete", "favplay", "append", "recap", "import", "apply", "set", "entry"}

LEMMA UnpromisedEnds ==
    ASSUME NEW c \in Calls, calls[c].op \in Unpromised, Over(c)
    PROVE  TrueToWord(c)
BY DEF Over, TrueToWord, Promised, Unpromised

LEMMA UnpromisedGoes ==
    ASSUME NEW c \in Calls, AloneNow(c), calls[c].op \in Unpromised,
           NEW at \in Stages \ {"idle", "access"}, NEW given, NEW read, Moves(c, at, given, read),
           at \in {"signal", "applied"} \/ (SameDocuments /\ calls[c].at \notin {"signal", "applied"})
    PROVE  TrueToWord(c)
<1>1. /\ calls'[c].at = at /\ calls'[c].op = calls[c].op
      /\ at \notin {"signal", "applied"} => documents' = calls'[c].before
  BY DEF AloneNow, Held, SameDocuments, documents, Moves, Turns
<1> QED
  BY <1>1 DEF TrueToWord, Held, Unpromised

LEMMA UnpromisedAlone ==
    ASSUME NEW c \in Calls, AloneNow(c), calls[c].op \in Unpromised, StoreStep(c)
    PROVE  TrueToWord(c)
<1> DEFINE k == calls[c]
<1>1. CallsFit
  BY AloneFacts
<1>2. CASE DeletePlaylist(c) \/ GetFavorite(c) \/ RecordUserSignal(c) \/ RecapPlays(c) \/ FieldPatched(c) \/ FeatureShown(c)
  <2>1. (\E is : Says(c, is)) \/ \E is, of : Answer(c, is, of)
    BY <1>2 DEF DeletePlaylist, GetFavorite, RecordUserSignal, RecapPlays, FieldPatched, FeatureShown
  <2> QED
    BY <1>1, <2>1, SaysEnds, AnswerEnds, UnpromisedEnds
<1>3. CASE AppendHistory(c)
  BY <1>1, <1>3, GotoMoves, UnpromisedGoes DEF AppendHistory, Stages
<1>4. CASE RecapTop(c)
  <2>1. PICK top : Goto(c, "plays", top)
    BY <1>4 DEF RecapTop
  <2>2. SameDocuments /\ k.at = "read"
    BY <1>4 DEF RecapTop, SameDocuments, At
  <2> QED
    BY <1>1, <2>1, <2>2, GotoMoves, UnpromisedGoes DEF Stages
<1>5. CASE FeaturesRead(c)
  <2>1. SameDocuments /\ k.at = "read"
    BY <1>5 DEF FeaturesRead, SameDocuments, At
  <2>2. Says(c, "missing") \/ Goto(c, "permission", features) \/ Goto(c, "write", features)
    BY <1>5 DEF FeaturesRead
  <2> QED
    BY <1>1, <2>1, <2>2, SaysEnds, UnpromisedEnds, GotoMoves, UnpromisedGoes DEF Stages
<1>6. CASE SetQueueTemplate(c)
  <2>1. Says(c, "ok") \/ Goto(c, "applied", None)
    BY <1>6 DEF SetQueueTemplate
  <2> QED
    BY <1>1, <2>1, SaysEnds, UnpromisedEnds, GotoMoves, UnpromisedGoes DEF Stages
<1>7. ~(CreateFinds(c) \/ CreateCounts(c) \/ CreateInserts(c) \/ AddFinds(c) \/ AddPushes(c) \/ RemoveFinds(c)
        \/ RemoveWrites(c) \/ ShowPlaylist(c) \/ ListCounts(c) \/ ListFetches(c))
  BY DEF Unpromised, CreateFinds, CreateCounts, CreateInserts, AddFinds, AddPushes, RemoveFinds, RemoveWrites,
         ShowPlaylist, ListCounts, ListFetches, At
<1>8. ~(FavoriteFinds(c) \/ FavoritePushes(c) \/ UnfavoriteFinds(c) \/ UnfavoriteWrites(c) \/ ListFavorites(c)
        \/ ListHistory(c) \/ ShowCharts(c))
  BY DEF Unpromised, FavoriteFinds, FavoritePushes, UnfavoriteFinds, UnfavoriteWrites, ListFavorites,
         ListHistory, ShowCharts, At
<1>9. ~(SetGuildStation(c) \/ SetVoiceProfile(c) \/ DeleteGuildStation(c) \/ DeleteQueueTemplate(c)
        \/ SetWhatWasRead(c))
  BY DEF Unpromised, SetGuildStation, SetVoiceProfile, DeleteGuildStation, DeleteQueueTemplate,
         SetWhatWasRead, On, At
<1> QED
  BY <1>2, <1>3, <1>4, <1>5, <1>6, <1>7, <1>8, <1>9 DEF StoreStep

\* The permission of the caller and the preview, for whatever command.
LEMMA AccessAlone ==
    ASSUME NEW c \in Calls, AloneNow(c), Access(c) \/ Permission(c) \/ Preview(c)
    PROVE  TrueToWord(c)
<1> DEFINE k == calls[c]
<1>1. /\ CallsFit /\ SameDocuments /\ k.at \in {"access", "permission", "preview"} /\ Held(k)
      /\ CallShape(k.op, k.at, k.on, k.key, k.given, k.seen)
  BY AloneFacts DEF AloneNow, Access, Permission, Preview, SameDocuments
<1>2. /\ documents' = documents /\ playlists' = playlists /\ features' = features /\ favorites' = favorites
      /\ documents = k.before
  BY <1>1 DEF SameDocuments, documents, Held
<1>3. k.op \notin {"list", "favs", "history", "charts", "sweep"} \/ (k.op = "list" /\ k.at = "access")
  BY <1>1 DEF Held, CallShape
<1>4. CASE Access(c)
  <2>1. CASE k.op # "list" /\ Says(c, "denied")
    BY <1>1, <1>3, <2>1, SaysCloses, Refused
  <2>2. CASE Goto(c, FirstStage(c), None)
    <3> DEFINE at == FirstStage(c)
    <3>1. /\ k.at = "access"
          /\ at \in {"count", "delete", "write", "preview", "read"}
          /\ at = "count" <=> k.op = "list"
          /\ at = "write" <=> k.op = "set"
          /\ k.op = "add" => at = "preview"
      BY <1>4 DEF Access, FirstStage
    <3> HIDE DEF at
    <3>2. Moves(c, at, k.given, None)
      BY <1>1, <2>2, GotoMoves DEF at
    <3> QED
      BY <1>1, <1>2, <1>3, <3>1, <3>2 DEF Moves, Turns, TrueToWord, Held
  <2> QED
    BY <1>4, <2>1, <2>2 DEF Access
<1>5. CASE Permission(c)
  <2>1. k.at = "permission" /\ k.op \in {"edit", "drop", "apply"}
    BY <1>1, <1>5 DEF Permission, CallShape
  <2>2. CASE Says(c, "denied")
    BY <1>1, <2>1, <2>2, SaysCloses, Refused
  <2>3. CASE Goto(c, "write", k.seen)
    BY <1>1, <1>2, <2>1, <2>3, GotoMoves DEF Moves, Turns, TrueToWord, Held
  <2> QED
    BY <1>5, <2>2, <2>3 DEF Permission
<1>6. CASE Preview(c)
  <2>1. k.at = "preview" /\ k.op \in {"add", "edit", "fav", "import"}
    BY <1>1, <1>6 DEF Preview, CallShape
  <2>2. PICK tracks \in Results :
          IF tracks = <<>> THEN Says(c, "nothing")
          ELSE IF calls[c].op = "edit" THEN Goto(c, "read", None)
          ELSE calls' = [calls EXCEPT ![c].at = "read", ![c].given =
                            IF calls[c].op = "fav" THEN <<Head(tracks)>> ELSE tracks]
    BY <1>6 DEF Preview
  <2>3. CASE Says(c, "nothing")
    BY <1>1, <2>1, <2>3, SaysCloses, Refused
  <2>4. CASE k.op = "edit" /\ Goto(c, "read", None)
    BY <1>1, <1>2, <2>1, <2>4, GotoMoves DEF Moves, Turns, TrueToWord, Held
  <2>5. CASE tracks # <<>> /\ k.op # "edit"
    <3> DEFINE found == IF k.op = "fav" THEN <<Head(tracks)>> ELSE tracks
    <3>1. calls' = [calls EXCEPT ![c].at = "read", ![c].given = found]
      BY <2>2, <2>5
    <3>2. k.op = "add" => found # <<>>
      BY <2>5
    <3> HIDE DEF found
    <3>3. Moves(c, "read", found, k.seen)
      BY <1>1, <3>1, GivenMoves
    <3> QED
      BY <1>1, <1>2, <2>1, <2>5, <3>2, <3>3 DEF Moves, Turns, TrueToWord, Held
  <2> QED
    BY <2>2, <2>3, <2>4, <2>5
<1> QED
  BY <1>4, <1>5, <1>6

LEMMA ImportAlone ==
    ASSUME NEW c \in Calls, AloneNow(c), ImportReady(c) \/ ApplyReads(c) \/ Applied(c)
    PROVE  TrueToWord(c)
<1> DEFINE k == calls[c]
<1>1. CallsFit /\ k.op \in Unpromised
  BY AloneFacts DEF ImportReady, ApplyReads, Applied, At, Unpromised
<1>2. CASE ImportReady(c) \/ Applied(c)
  BY <1>1, <1>2, SaysEnds, UnpromisedEnds DEF ImportReady, Applied
<1>3. CASE ApplyReads(c)
  <2> DEFINE t == features["queueTemplates"][k.key]
             more == (IF t = None THEN <<>> ELSE t) \o k.given
  <2>1. SameDocuments /\ k.at = "again" /\ DOMAIN calls = Calls /\ DOMAIN k = CallFields
    BY <1>1, <1>3, IdleFields DEF ApplyReads, At, SameDocuments, CallsFit, CallFits
  <2>2. calls' = [calls EXCEPT ![c].at = "read", ![c].given = more]
    BY <1>3, <2>1 DEF ApplyReads, CallFields
  <2> HIDE DEF more
  <2>3. Moves(c, "read", more, k.seen)
    BY <1>1, <2>2, GivenMoves
  <2> QED
    BY <1>1, <2>1, <2>3, UnpromisedGoes DEF Stages
<1> QED
  BY <1>2, <1>3

LEMMA SweepAlone ==
    ASSUME NEW c \in Calls, AloneNow(c), calls[c].op = "sweep",
           \/ SweepReadsFeatures(c) \/ SweepReadsState(c) \/ SweepCounts(c) \/ SweepPosts(c) \/ SweepMarks(c)
           \/ RecapTop(c)
    PROVE  TrueToWord(c)
<1> DEFINE k == calls[c]
<1>1. /\ CallsFit /\ SameDocuments /\ k.at \in {"state", "again", "plays", "post", "mark", "read"} /\ Held(k)
  BY AloneFacts DEF AloneNow, SweepReadsFeatures, SweepReadsState, SweepCounts, SweepPosts, SweepMarks,
                    RecapTop, SameDocuments, At
<1>2. /\ documents' = documents /\ features' = features /\ history' = history /\ documents = k.before
  BY <1>1 DEF SameDocuments, documents, Held
<1>3. CASE Says(c, "skipped")
  BY <1>1, <1>3, SaysCloses, Refused
<1>4. ASSUME NEW at \in {"again", "read", "plays", "post", "mark"}, NEW read, Goto(c, at, read),
             features["recapChannelId"][FieldKey] # None, at \in {"post", "mark"} => history # <<>>
      PROVE  TrueToWord(c)
  <2>1. Moves(c, at, k.given, read)
    BY <1>1, <1>4, GotoMoves
  <2> QED
    BY <1>1, <1>2, <1>4, <2>1 DEF Moves, Turns, TrueToWord, Held
<1>5. CASE SweepReadsFeatures(c)
  BY <1>3, <1>4, <1>5 DEF SweepReadsFeatures
<1>6. CASE SweepReadsState(c) \/ SweepCounts(c) \/ SweepPosts(c) \/ RecapTop(c)
  <2>1. features["recapChannelId"][FieldKey] # None
    BY <1>1, <1>6 DEF SweepReadsState, SweepCounts, SweepPosts, RecapTop, At, Held
  <2>2. CASE SweepReadsState(c)
    BY <1>3, <1>4, <2>1, <2>2 DEF SweepReadsState
  <2>3. CASE SweepCounts(c)
    BY <1>3, <1>4, <2>1, <2>3 DEF SweepCounts
  <2>4. CASE SweepPosts(c)
    <3>1. history # <<>>
      BY <1>1, <2>4 DEF SweepPosts, At, Held
    <3> QED
      BY <1>4, <2>1, <2>4, <3>1 DEF SweepPosts
  <2>5. CASE RecapTop(c)
    BY <1>4, <2>1, <2>5 DEF RecapTop
  <2> QED
    BY <1>6, <2>2, <2>3, <2>4, <2>5
<1>7. CASE SweepMarks(c)
  <2>1. k.at = "mark" /\ Says(c, "posted")
    BY <1>7 DEF SweepMarks, At
  <2>2. features["recapChannelId"][FieldKey] # None /\ history # <<>>
    BY <1>1, <2>1 DEF Held
  <2>3. FieldKey \in Keys
    BY LibraryAssumption DEF FieldKey
  <2>4. k.before[3] = history /\ k.before[4] = features
    BY <2>1, AloneFacts
  <2>5. calls'[c].at = "idle"
    BY <1>1, <2>1, SaysEnds DEF Over
  <2> QED
    BY <2>2, <2>3, <2>4, <2>5 DEF TrueToWord, Promised
<1> QED
  BY <1>5, <1>6, <1>7

LEMMA StepAlone ==
    ASSUME NEW c \in Calls, AloneNow(c), CommandStep(c)
    PROVE  TrueToWord(c)
<1> DEFINE k == calls[c]
<1>1. CASE Access(c) \/ Permission(c) \/ Preview(c)
  BY <1>1, AccessAlone
<1>2. CASE ImportReady(c) \/ ApplyReads(c) \/ Applied(c)
  BY <1>2, ImportAlone
<1>3. CASE SweepReadsFeatures(c) \/ SweepReadsState(c) \/ SweepCounts(c) \/ SweepPosts(c) \/ SweepMarks(c)
  BY <1>3, SweepAlone DEF SweepReadsFeatures, SweepReadsState, SweepCounts, SweepPosts, SweepMarks, At
<1>4. CASE StoreStep(c) /\ k.op \notin Unpromised
  <2>1. CASE CreateFinds(c) \/ CreateCounts(c) \/ CreateInserts(c)
    BY <2>1, CreateAlone
  <2>2. CASE AddFinds(c) \/ AddPushes(c)
    BY <2>2, AddAlone
  <2>3. CASE RemoveFinds(c) \/ RemoveWrites(c)
    BY <2>3, RemoveAlone
  <2>4. CASE ShowPlaylist(c) \/ ListFavorites(c) \/ ListHistory(c) \/ ShowCharts(c)
    BY <2>4, ShowAlone
  <2>5. CASE ListCounts(c) \/ ListFetches(c)
    BY <2>5, ListAlone
  <2>6. CASE FavoriteFinds(c) \/ FavoritePushes(c) \/ RecordUserSignal(c)
    BY <1>4, <2>6, FavoriteAlone DEF RecordUserSignal, At, Unpromised
  <2>7. CASE UnfavoriteFinds(c) \/ UnfavoriteWrites(c)
    BY <2>7, UnfavoriteAlone
  <2>8. CASE FeaturesRead(c) \/ SetQueueTemplate(c)
    BY <1>4, <2>8, FeaturesAlone DEF FeaturesRead, SetQueueTemplate, On, At, Unpromised
  <2>9. CASE SetGuildStation(c) \/ SetVoiceProfile(c) \/ DeleteGuildStation(c) \/ DeleteQueueTemplate(c)
               \/ SetWhatWasRead(c)
    BY <2>9, FeaturesAlone DEF SetGuildStation, SetVoiceProfile, DeleteGuildStation, DeleteQueueTemplate,
                               SetWhatWasRead, On, At
  <2>10. CASE RecapTop(c)
    BY <1>4, <2>10, SweepAlone DEF RecapTop, At, Unpromised
  <2>11. ~(DeletePlaylist(c) \/ GetFavorite(c) \/ AppendHistory(c) \/ RecapPlays(c) \/ FieldPatched(c) \/ FeatureShown(c))
    BY <1>4 DEF Unpromised, DeletePlaylist, GetFavorite, AppendHistory, RecapPlays, FieldPatched, FeatureShown, At
  <2> QED
    BY <1>4, <2>1, <2>2, <2>3, <2>4, <2>5, <2>6, <2>7, <2>8, <2>9, <2>10, <2>11 DEF StoreStep
<1> QED
  BY <1>1, <1>2, <1>3, <1>4, UnpromisedAlone DEF CommandStep

\* How a command begins, as far as a promise is concerned.
Opens(op, stage, on, key) ==
    /\ stage \in {"access", "read", "preview", "append", "again", "state"}
    /\ op \in {"list", "show", "favs", "history"} => key \in Nat \ {0}
    /\ op = "show" => on \in Names
    /\ stage = "access" => op \notin {"favs", "history", "charts", "sweep"}
    /\ op = "add" => stage = "access"
    /\ op = "sweep" => stage = "state"
OpensWell(c) == \E op, stage, on, key, given : Begin(c, op, stage, on, key, given) /\ Opens(op, stage, on, key)

LEMMA CommandOpens == ASSUME NEW c \in Calls, Command(c)  PROVE OpensWell(c)
<1>1. ASSUME NEW op, NEW stage, NEW on, NEW key, NEW given,
             Begin(c, op, stage, on, key, given), Opens(op, stage, on, key)
      PROVE  OpensWell(c)
  BY <1>1 DEF OpensWell
<1>2. ASSUME NEW op \in {"create", "delete", "add", "remove", "edit", "drop", "set"}, NEW on, NEW key, NEW given,
             Begin(c, op, "access", on, key, given)
      PROVE  OpensWell(c)
  <2>1. Opens(op, "access", on, key)
    BY DEF Opens
  <2> QED
    BY <1>1, <1>2, <2>1
<1>3. ASSUME NEW op \in {"entry", "ufav", "favplay", "charts", "recap", "edit", "apply"}, NEW on, NEW key, NEW given,
             NEW stage \in {"read", "again"}, Begin(c, op, stage, on, key, given)
      PROVE  OpensWell(c)
  <2>1. Opens(op, stage, on, key)
    BY DEF Opens
  <2> QED
    BY <1>1, <1>3, <2>1
<1>4. ASSUME NEW op \in {"list", "show"}, NEW on, NEW page \in Pages, op = "show" => on \in Names, NEW given,
             Begin(c, op, "access", on, page, given)
      PROVE  OpensWell(c)
  <2>1. Opens(op, "access", on, page)
    BY <1>4 DEF Opens, Pages
  <2> QED
    BY <1>1, <1>4, <2>1
<1>5. ASSUME NEW op \in {"favs", "history"}, NEW page \in Pages, NEW on, NEW given, Begin(c, op, "read", on, page, given)
      PROVE  OpensWell(c)
  <2>1. Opens(op, "read", on, page)
    BY <1>5 DEF Opens, Pages
  <2> QED
    BY <1>1, <1>5, <2>1
<1>6. ASSUME NEW op, NEW stage, NEW on, NEW key, NEW given, Begin(c, op, stage, on, key, given),
             <<op, stage>> \in {<<"fav", "preview">>, <<"import", "preview">>, <<"append", "append">>, <<"sweep", "state">>}
      PROVE  OpensWell(c)
  <2>1. Opens(op, stage, on, key)
    BY <1>6 DEF Opens
  <2> QED
    BY <1>1, <1>6, <2>1
<1>7. CASE PlaylistCreate(c) \/ PlaylistDelete(c) \/ PlaylistAdd(c) \/ PlaylistRemove(c) \/ StationSave(c)
             \/ StationDelete(c) \/ TemplateSave(c) \/ TemplateDelete(c) \/ VoiceProfile(c) \/ StayInVoice(c)
  BY <1>2, <1>7 DEF PlaylistCreate, PlaylistDelete, PlaylistAdd, PlaylistRemove, StationSave, StationDelete,
                    TemplateSave, TemplateDelete, VoiceProfile, StayInVoice
<1>8. CASE MusicWebhook(c) \/ RecapChannel(c) \/ Dedupe(c) \/ MinimalMode(c) \/ VolumeDefault(c)
             \/ Prefix(c) \/ MusicLog(c) \/ VoteSkipConfig(c)
  BY <1>2, <1>8 DEF MusicWebhook, RecapChannel, Dedupe, MinimalMode, VolumeDefault, Prefix, MusicLog,
                    VoteSkipConfig, SetField
<1>9. CASE StationsShown(c) \/ TemplateShown(c) \/ VoiceProfileShown(c) \/ Charts(c) \/ RecapNow(c)
             \/ Unfavorite(c) \/ FavoritePlay(c) \/ QueueGuard(c) \/ DjRole(c) \/ ImportApply(c)
  BY <1>3, <1>9 DEF StationsShown, TemplateShown, VoiceProfileShown, Charts, RecapNow, Unfavorite,
                    FavoritePlay, QueueGuard, DjRole, ImportApply
<1>10. CASE PlaylistList(c) \/ PlaylistShow(c) \/ PlaylistPlay(c)
  <2>1. 1 \in Pages
    BY DEF Pages
  <2> QED
    BY <1>4, <1>10, <2>1 DEF PlaylistList, PlaylistShow, PlaylistPlay
<1>11. CASE FavoritesShown(c) \/ HistoryShown(c)
  BY <1>5, <1>11 DEF FavoritesShown, HistoryShown
<1>12. CASE Favorite(c) \/ ImportPreview(c) \/ TrackEnds(c) \/ SweepStarts(c)
  BY <1>6, <1>12 DEF Favorite, ImportPreview, TrackEnds, SweepStarts
<1> QED
  BY <1>7, <1>8, <1>9, <1>10, <1>11, <1>12 DEF Command

\* A command that finds no other under way knows the documents, and with it no
\* other is alone.
LEMMA BeginAlone ==
    ASSUME CallsFit, NEW c \in Calls, Command(c)
    PROVE  AloneInv' /\ \A d \in Calls : Active(d) => Active(d)'
<1>1. PICK op, stage, on, key, given : Begin(c, op, stage, on, key, given) /\ Opens(op, stage, on, key)
  BY CommandOpens DEF OpensWell
<1> DEFINE alone == \A d \in Calls : ~Active(d)
           was == IF alone THEN documents ELSE None
           n == [Idle EXCEPT !.op = op, !.at = stage, !.on = on, !.key = key, !.given = given,
                             !.alone = alone, !.before = was]
<1>2. /\ calls' = [d \in Calls |-> IF d = c THEN n
                                  ELSE IF Active(d) THEN [calls[d] EXCEPT !.alone = FALSE] ELSE Idle]
      /\ SameDocuments /\ ~Active(c)
  BY <1>1 DEF Begin, SameDocuments
<1>3. /\ n.op = op /\ n.at = stage /\ n.on = on /\ n.key = key /\ n.alone = alone /\ n.before = was
  BY DEF Idle
<1>4. alone => was = documents
  OBVIOUS
<1> HIDE DEF n, was
<1>5. ASSUME NEW d \in Calls, d # c
      PROVE  /\ Active(d) => calls'[d].at = calls[d].at /\ calls'[d].alone = FALSE
             /\ ~Active(d) => calls'[d].at = "idle"
  <2> DEFINE r == calls[d]
             m == [r EXCEPT !.alone = FALSE]
  <2>1. DOMAIN r = CallFields
    BY IdleFields DEF CallsFit, CallFits
  <2> HIDE DEF r
  <2>2. m.at = r.at /\ m.alone = FALSE
    BY <2>1 DEF CallFields
  <2> HIDE DEF m
  <2>3. calls'[d] = IF Active(d) THEN m ELSE Idle
    BY <1>2, <1>5 DEF m, r
  <2> QED
    BY <2>2, <2>3, IdleFields DEF r
<1>6. \A d \in Calls : Active(d) => Active(d)'
  BY <1>2, <1>5 DEF Active
<1>7. ASSUME NEW d \in Calls, Active(d)', calls'[d].alone
      PROVE  Held(calls[d])' /\ \A e \in Calls \ {d} : ~Active(e)'
  <2>1. d = c
    BY <1>5, <1>7 DEF Active
  <2>2. calls'[c] = n
    BY <1>2
  <2>3. alone
    BY <1>3, <1>7, <2>1, <2>2
  <2>4. \A e \in Calls \ {c} : ~Active(e)'
    BY <1>5, <2>3 DEF Active
  <2>5. documents' = calls'[c].before
    BY <1>2, <1>3, <1>4, <2>2, <2>3 DEF SameDocuments, documents
  <2>6. Held(calls[c])'
    BY <1>1, <1>3, <2>2, <2>5 DEF Held, Opens
  <2> QED
    BY <2>1, <2>4, <2>6
<1> QED
  BY <1>6, <1>7 DEF AloneInv

\* What a step of a command does to the calls.
Plain(c) ==
    /\ calls[c].at # "idle"
    /\ \/ (\E is : Says(c, is)) \/ (\E is, of : Answer(c, is, of)) \/ (\E at, read : Goto(c, at, read))
       \/ \E tracks : calls' = [calls EXCEPT ![c].at = "read", ![c].given = tracks]

LEMMA StepsArePlain == ASSUME CallsFit, NEW c \in Calls, CommandStep(c)  PROVE Plain(c)
<1>1. DOMAIN calls[c] = CallFields /\ DOMAIN calls = Calls
  BY IdleFields DEF CallsFit, CallFits
<1>2. CASE CreateFinds(c) \/ CreateCounts(c) \/ CreateInserts(c) \/ DeletePlaylist(c) \/ AddFinds(c)
             \/ AddPushes(c) \/ RemoveFinds(c) \/ RemoveWrites(c) \/ ShowPlaylist(c) \/ ListCounts(c) \/ ListFetches(c)
  BY <1>2 DEF CreateFinds, CreateCounts, CreateInserts, DeletePlaylist, AddFinds, AddPushes, RemoveFinds,
              RemoveWrites, ShowPlaylist, ListCounts, ListFetches, At, Plain
<1>3. CASE FavoriteFinds(c) \/ FavoritePushes(c) \/ RecordUserSignal(c) \/ UnfavoriteFinds(c)
             \/ UnfavoriteWrites(c) \/ ListFavorites(c) \/ GetFavorite(c) \/ AppendHistory(c)
             \/ ListHistory(c) \/ ShowCharts(c) \/ RecapTop(c) \/ RecapPlays(c)
  BY <1>3 DEF FavoriteFinds, FavoritePushes, RecordUserSignal, UnfavoriteFinds, UnfavoriteWrites,
              ListFavorites, GetFavorite, AppendHistory, ListHistory, ShowCharts, RecapTop, RecapPlays, At, Plain
<1>4. CASE FeaturesRead(c) \/ SetQueueTemplate(c) \/ SetGuildStation(c) \/ SetVoiceProfile(c)
             \/ DeleteGuildStation(c) \/ DeleteQueueTemplate(c) \/ SetWhatWasRead(c) \/ FieldPatched(c) \/ FeatureShown(c)
  BY <1>4 DEF FeaturesRead, SetQueueTemplate, SetGuildStation, SetVoiceProfile, DeleteGuildStation,
              DeleteQueueTemplate, SetWhatWasRead, FieldPatched, FeatureShown, On, At, Plain
<1>5. CASE Access(c) \/ Permission(c) \/ ImportReady(c) \/ Applied(c)
  BY <1>5 DEF Access, Permission, ImportReady, Applied, At, Plain
<1>6. CASE SweepReadsFeatures(c) \/ SweepReadsState(c) \/ SweepCounts(c) \/ SweepPosts(c) \/ SweepMarks(c)
  BY <1>6 DEF SweepReadsFeatures, SweepReadsState, SweepCounts, SweepPosts, SweepMarks, At, Plain
<1>7. CASE Preview(c)
  <2>1. calls[c].at # "idle"
    BY <1>7 DEF Preview
  <2>2. PICK tracks \in Results :
          IF tracks = <<>> THEN Says(c, "nothing")
          ELSE IF calls[c].op = "edit" THEN Goto(c, "read", None)
          ELSE calls' = [calls EXCEPT ![c].at = "read", ![c].given =
                            IF calls[c].op = "fav" THEN <<Head(tracks)>> ELSE tracks]
    BY <1>7 DEF Preview
  <2> QED
    BY <2>1, <2>2 DEF Plain
<1>8. CASE ApplyReads(c)
  <2> DEFINE t == features["queueTemplates"][calls[c].key]
             more == (IF t = None THEN <<>> ELSE t) \o calls[c].given
  <2>1. calls[c].at # "idle" /\ calls' = [calls EXCEPT ![c].at = "read", ![c].given = more]
    BY <1>1, <1>8 DEF ApplyReads, At, CallFields
  <2> HIDE DEF more
  <2> QED
    BY <2>1 DEF Plain
<1> QED
  BY <1>2, <1>3, <1>4, <1>5, <1>6, <1>7, <1>8 DEF CommandStep, StoreStep

\* A step of a command changes no other, and none is alone that was not.
LEMMA StepsKeepApart ==
    ASSUME CallsFit, NEW c \in Calls, CommandStep(c)
    PROVE  Others(c) /\ calls[c].at # "idle" /\ (calls'[c].at # "idle" => calls'[c].alone = calls[c].alone)
<1> DEFINE r == calls[c]
<1>1. DOMAIN r = CallFields /\ DOMAIN calls = Calls
  BY IdleFields DEF CallsFit, CallFits
<1>2. Plain(c)
  BY StepsArePlain
<1>3. ASSUME NEW at, NEW read, Goto(c, at, read)
      PROVE  Others(c) /\ calls'[c].alone = calls[c].alone
  <2> DEFINE n == [r EXCEPT !.at = at, !.seen = read]
  <2>1. calls' = [calls EXCEPT ![c] = n]
    BY <1>1, <1>3 DEF Goto
  <2> HIDE DEF r
  <2>2. n.alone = r.alone
    BY <1>1 DEF CallFields
  <2> HIDE DEF n
  <2> QED
    BY <1>1, <2>1, <2>2 DEF Others, r
<1>4. ASSUME NEW tracks, calls' = [calls EXCEPT ![c].at = "read", ![c].given = tracks]
      PROVE  Others(c) /\ calls'[c].alone = calls[c].alone
  <2> DEFINE n == [r EXCEPT !.at = "read", !.given = tracks]
  <2>1. calls' = [calls EXCEPT ![c] = n]
    BY <1>1, <1>4
  <2> HIDE DEF r
  <2>2. n.alone = r.alone
    BY <1>1 DEF CallFields
  <2> HIDE DEF n
  <2> QED
    BY <1>1, <2>1, <2>2 DEF Others, r
<1> QED
  BY <1>2, <1>3, <1>4, SaysEnds, AnswerEnds DEF Over, Plain

LEMMA AloneStep ==
    ASSUME LibraryInv, AloneInv, [LibraryNext]_libraryVars
    PROVE  AloneInv' /\ \A c \in Calls : Answers(c) /\ calls[c].alone => Promised(c)
<1>1. ASSUME NEW c \in Calls, CommandStep(c)
      PROVE  AloneInv' /\ \A d \in Calls : Answers(d) /\ calls[d].alone => Promised(d)
  <2>1. Others(c) /\ Active(c) /\ (calls'[c].at # "idle" => calls'[c].alone = calls[c].alone)
    BY <1>1, StepsKeepApart DEF LibraryInv, Active
  <2>2. calls[c].alone => TrueToWord(c)
    <3> SUFFICES ASSUME calls[c].alone PROVE TrueToWord(c)
      OBVIOUS
    <3>1. AloneNow(c)
      BY <2>1 DEF AloneNow, AloneInv, Active
    <3> QED
      BY <1>1, <3>1, StepAlone
  <2>3. ASSUME NEW d \in Calls, d # c  PROVE calls'[d] = calls[d]
    BY <2>1, <2>3 DEF Others
  <2>4. ASSUME NEW d \in Calls, Answers(d), calls[d].alone  PROVE Promised(d)
    <3>1. d = c
      BY <2>3, <2>4 DEF Answers, Active
    <3> QED
      BY <2>2, <2>4, <3>1 DEF Answers, Active, TrueToWord
  <2>5. ASSUME NEW d \in Calls, Active(d)', calls'[d].alone
        PROVE  Held(calls[d])' /\ \A e \in Calls \ {d} : ~Active(e)'
    <3>1. CASE d # c
      <4>1. Active(d) /\ calls[d].alone
        BY <2>3, <2>5, <3>1 DEF Active
      <4> QED
        BY <2>1, <3>1, <4>1 DEF AloneInv
    <3>2. CASE d = c
      <4>1. calls[c].alone /\ calls'[c].at # "idle"
        BY <2>1, <2>5, <3>2 DEF Active
      <4>2. \A e \in Calls \ {c} : ~Active(e)
        BY <2>1, <4>1 DEF AloneInv
      <4>3. \A e \in Calls \ {c} : ~Active(e)'
        BY <2>3, <4>2 DEF Active
      <4> QED
        BY <2>2, <3>2, <4>1, <4>3 DEF TrueToWord
    <3> QED
      BY <3>1, <3>2
  <2> QED
    BY <2>4, <2>5 DEF AloneInv
<1>2. ASSUME NEW c \in Calls, Command(c)
      PROVE  AloneInv' /\ \A d \in Calls : Answers(d) /\ calls[d].alone => Promised(d)
  BY <1>2, BeginAlone DEF LibraryInv, Answers
<1>3. CASE UNCHANGED <<playlists, favorites, history, features, calls>>
  <2>1. \A c \in Calls : Active(c)' = Active(c) /\ Held(calls[c])' = Held(calls[c])
    BY <1>3 DEF Active, Held, documents, Existing, ToSet
  <2> QED
    BY <1>3, <2>1 DEF AloneInv, Answers
<1> QED
  BY <1>1, <1>2, <1>3 DEF LibraryNext, ImportForgotten, WeekPasses, libraryVars

LEMMA AloneAlways == LibrarySpec => []AloneInv
<1>1. LibraryInit => AloneInv
  BY IdleFields DEF LibraryInit, AloneInv, Active
<1>2. LibraryInv /\ AloneInv /\ [LibraryNext]_libraryVars => AloneInv'
  BY AloneStep
<1> QED
  BY <1>1, <1>2, LibraryInvariant, PTL DEF LibrarySpec

\* A command during which no other began or ran does what it says, whole and at
\* once, to what was there when it began: for any documents, limits and page size.
THEOREM AloneExact == LibrarySpec => AloneIsExact
<1>1. LibraryInv /\ AloneInv /\ [LibraryNext]_libraryVars =>
        [\A c \in Calls : Answers(c) /\ calls[c].alone => Promised(c)]_libraryVars
  BY AloneStep
<1> QED
  BY <1>1, LibraryInvariant, AloneAlways, PTL DEF LibrarySpec, AloneIsExact
=============================================================================
