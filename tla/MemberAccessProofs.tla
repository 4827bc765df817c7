-------------------------- MODULE MemberAccessProofs --------------------------
(***************************************************************************)
(* What holds of the requests of RestClient, of what MemberAccess knows of  *)
(* the guild, and of the verdicts it gives by what it reads, caches and is  *)
(* told, for any calls, limits, roles, lifetimes and events under way.      *)
(***************************************************************************)
EXTENDS MemberAccess, SequenceTheorems, TLAPS

(*------------------------------- requests ---------------------------------*)
Pcs == {"idle", "limited", "sent", "answered", "asleep", "returned", "failed"}
RestCalls == [pc : Pcs, kind : Kinds \cup {None}, attempt : Nat, left : Nat,
              out : Outcomes \cup {None}, wait : Nat, second : BOOLEAN]

RestTypeOK == /\ limited \in Nat /\ served \in [Slots -> Nat]
              /\ call \in [Slots -> RestCalls]

\* What may have been done by a call c that was served n times, n being all that
\* is known of what the server did.
DoneBy(c, n) ==
    c.kind \in {"message", "edit"} =>
        /\ c.pc \in {"idle", "limited", "sent", "asleep"} => n = 0
        /\ c.pc = "answered" => CASE c.out = "done" -> n = 1
                                  [] c.out = "unclear" -> n <= 1
                                  [] OTHER -> n = 0
        /\ c.pc = "returned" => n = 1
        /\ c.pc = "failed" => n <= 1

RestInv == RestTypeOK /\ \A s \in Slots : DoneBy(call[s], served[s])

\* The steps of the client, whoever takes them.
RestStep ==
    \/ \E some \in SUBSET Slots, kind \in Kinds : Begins(some, kind)
    \/ \E s \in Slots : Taken(s) \/ WaitEnds(s) \/ Receive(s) \/ Wakes(s)
    \/ \E s \in Slots, out \in Outcomes, wait \in Told \cup {0} : Serve(s, out, wait)
    \/ RestTick

LEMMA IdleCall == Idle \in RestCalls /\ Idle.pc = "idle" /\ Idle.left = 0 /\ DoneBy(Idle, 0)
BY DEF Idle, RestCalls, Pcs, DoneBy

\* The head of the loop sends only while no limit is known.
LEMMA HeadOfLoop ==
    ASSUME limited \in Nat, NEW c \in RestCalls
    PROVE  /\ WaitForGlobalRateLimit(c) \in RestCalls
           /\ WaitForGlobalRateLimit(c).pc \in {"limited", "sent"}
           /\ WaitForGlobalRateLimit(c).pc = "sent" => limited = 0
           /\ WaitForGlobalRateLimit(c).kind = c.kind
<1>1. CASE limited > 0
  <2>1. [c EXCEPT !.pc = "limited"] \in RestCalls
    BY DEF RestCalls, Pcs
  <2>2. WaitForGlobalRateLimit(c) = [[c EXCEPT !.pc = "limited"] EXCEPT !.left = limited]
    BY <1>1 DEF WaitForGlobalRateLimit
  <2> QED
    BY <2>1, <2>2 DEF RestCalls
<1>2. CASE limited = 0
  BY <1>2 DEF WaitForGlobalRateLimit, RestCalls, Pcs
<1> QED
  BY <1>1, <1>2

LEMMA FirstAttempt ==
    ASSUME limited \in Nat, NEW kind \in Kinds, NEW second \in BOOLEAN
    PROVE  /\ Requesting(kind, second) \in RestCalls
           /\ Requesting(kind, second).pc \in {"limited", "sent"}
           /\ Requesting(kind, second).pc = "sent" => limited = 0
           /\ DoneBy(Requesting(kind, second), 0)
<1>1. [Idle EXCEPT !.kind = kind, !.attempt = 1, !.second = second] \in RestCalls
  BY DEF Idle, RestCalls, Pcs
<1> QED
  BY <1>1, HeadOfLoop DEF Requesting, DoneBy

\* A step of one call: what it makes of the invariant is what it makes of that call.
LEMMA OneCall ==
    ASSUME RestInv, NEW s \in Slots, NEW c \in RestCalls, NEW n \in Nat, DoneBy(c, n),
           call' = [call EXCEPT ![s] = c], served' = [served EXCEPT ![s] = n], limited' \in Nat
    PROVE  RestInv'
<1>1. /\ call'[s] = c /\ served'[s] = n
      /\ \A r \in Slots \ {s} : call'[r] = call[r] /\ served'[r] = served[r]
  BY DEF RestInv, RestTypeOK
<1>2. RestTypeOK'
  BY DEF RestInv, RestTypeOK
<1> QED
  BY <1>1, <1>2 DEF RestInv

LEMMA ReceiveCases ==
    ASSUME RestInv, NEW s \in Slots, Receive(s)
    PROVE  /\ limited' \in Nat /\ limited' >= limited
           /\ \E c \in RestCalls : /\ call' = [call EXCEPT ![s] = c] /\ DoneBy(c, served[s])
                                   /\ c.pc = "sent" => limited = 0
<1> DEFINE c == call[s]
           again == ShouldRetry(c.kind, c.out) /\ c.attempt < MaxRetries
           falls == c.out = "fallback" /\ c.kind \in {"message", "gateway"} /\ ~c.second
<1> DEFINE next == CASE c.out = "done" -> [Idle EXCEPT !.pc = "returned", !.kind = c.kind]
                     [] again -> [c EXCEPT !.pc = "asleep", !.left = DelayOf(c), !.out = None, !.wait = 0]
                     [] falls -> Requesting(c.kind, TRUE)
                     [] OTHER -> [Idle EXCEPT !.pc = "failed", !.kind = c.kind]
<1>0. call' = [call EXCEPT ![s] = next]
  BY DEF Receive
<1>1. c \in RestCalls /\ served[s] \in Nat /\ DoneBy(c, served[s]) /\ c.pc = "answered" /\ limited \in Nat
  BY DEF RestInv, RestTypeOK, Receive
<1>2. DelayOf(c) \in Nat
  BY <1>1, RestAssumption DEF DelayOf, RestCalls
<1>3. limited' \in Nat /\ limited' >= limited
  BY <1>1, <1>2 DEF Receive, LimitAfter, Larger
<1>4. CASE c.out = "done"
  <2> DEFINE n == [Idle EXCEPT !.pc = "returned", !.kind = c.kind]
  <2>1. call' = [call EXCEPT ![s] = n]
    <3>1. ~again /\ ~falls
      BY <1>4 DEF ShouldRetry
    <3>2. next = n
      BY <1>4, <3>1
    <3> QED
      BY <1>0, <3>2
  <2>2. n \in RestCalls /\ n.pc = "returned" /\ n.kind = c.kind
    BY <1>1 DEF Idle, RestCalls, Pcs
  <2>3. DoneBy(n, served[s])
    BY <1>1, <1>4, <2>2 DEF DoneBy
  <2> HIDE DEF n
  <2> QED
    BY <1>3, <2>1, <2>2, <2>3
<1>5. CASE c.out # "done" /\ again
  <2> DEFINE n == [c EXCEPT !.pc = "asleep", !.left = DelayOf(c), !.out = None, !.wait = 0]
  <2>1. call' = [call EXCEPT ![s] = n]
    <3>1. ~falls
      BY <1>5 DEF ShouldRetry
    <3>2. next = n
      BY <1>5, <3>1
    <3> QED
      BY <1>0, <3>2
  <2>2. n \in RestCalls /\ n.pc = "asleep" /\ n.kind = c.kind
    <3> DEFINE n1 == [c EXCEPT !.pc = "asleep"]
               n2 == [n1 EXCEPT !.left = DelayOf(c)]
               n3 == [n2 EXCEPT !.out = None]
    <3>1. n1 \in RestCalls /\ n1.pc = "asleep" /\ n1.kind = c.kind
      BY <1>1 DEF RestCalls, Pcs
    <3>2. n2 \in RestCalls /\ n2.pc = "asleep" /\ n2.kind = c.kind
      <4> HIDE DEF n1
      <4> QED
        BY <1>2, <3>1 DEF RestCalls
    <3>3. n3 \in RestCalls /\ n3.pc = "asleep" /\ n3.kind = c.kind
      <4> HIDE DEF n2
      <4> QED
        BY <3>2 DEF RestCalls
    <3>4. n = [n3 EXCEPT !.wait = 0]
      OBVIOUS
    <3> HIDE DEF n, n3
    <3> QED
      BY <3>3, <3>4 DEF RestCalls
  <2>3. DoneBy(n, served[s])
    BY <1>1, <1>5, <2>2 DEF DoneBy, ShouldRetry, RetryFriendly, RetryUnsafe
  <2> HIDE DEF n
  <2> QED
    BY <1>3, <2>1, <2>2, <2>3
<1>6. CASE c.out # "done" /\ ~again /\ falls
  <2>1. call' = [call EXCEPT ![s] = Requesting(c.kind, TRUE)]
    BY <1>6 DEF Receive
  <2>2. c.kind \in Kinds /\ (c.kind \in {"message", "edit"} => served[s] = 0)
    BY <1>1, <1>6 DEF DoneBy, Kinds
  <2>3. /\ Requesting(c.kind, TRUE) \in RestCalls /\ Requesting(c.kind, TRUE).kind = c.kind
        /\ Requesting(c.kind, TRUE).pc = "sent" => limited = 0
        /\ DoneBy(Requesting(c.kind, TRUE), 0)
    <3>1. [Idle EXCEPT !.kind = c.kind, !.attempt = 1, !.second = TRUE] \in RestCalls
      BY <2>2 DEF Idle, RestCalls, Pcs
    <3>2. Requesting(c.kind, TRUE).kind = c.kind
      BY <1>1, <3>1, HeadOfLoop DEF Requesting, Idle
    <3> QED
      BY <1>1, <2>2, <3>2, FirstAttempt
  <2>4. DoneBy(Requesting(c.kind, TRUE), served[s])
    BY <2>2, <2>3 DEF DoneBy
  <2> QED
    BY <1>3, <2>1, <2>3, <2>4
<1>7. CASE c.out # "done" /\ ~again /\ ~falls
  <2> DEFINE n == [Idle EXCEPT !.pc = "failed", !.kind = c.kind]
  <2>1. call' = [call EXCEPT ![s] = n]
    BY <1>7 DEF Receive
  <2>2. n \in RestCalls /\ n.pc = "failed" /\ n.kind = c.kind
    BY <1>1 DEF Idle, RestCalls, Pcs
  <2>3. DoneBy(n, served[s])
    BY <1>1, <1>7, <2>2 DEF DoneBy
  <2> HIDE DEF n
  <2> QED
    BY <1>3, <2>1, <2>2, <2>3
<1> QED
  BY <1>4, <1>5, <1>6, <1>7

LEMMA BeginsInv ==
    ASSUME RestInv, NEW some \in SUBSET Slots, NEW kind \in Kinds, Begins(some, kind)
    PROVE  RestInv'
<1>1. \A s \in Slots : /\ call'[s] = IF s \in some THEN Requesting(kind, FALSE) ELSE call[s]
                       /\ served'[s] = IF s \in some THEN 0 ELSE served[s]
  BY DEF Begins
<1>2. Requesting(kind, FALSE) \in RestCalls /\ DoneBy(Requesting(kind, FALSE), 0)
  BY FirstAttempt DEF RestInv, RestTypeOK
<1>3. RestTypeOK'
  <2>1. call' \in [Slots -> RestCalls] /\ served' \in [Slots -> Nat]
    BY <1>2 DEF Begins, RestInv, RestTypeOK
  <2> QED
    BY <2>1 DEF Begins, RestInv, RestTypeOK
<1>4. \A s \in Slots : DoneBy(call'[s], served'[s])
  BY <1>1, <1>2 DEF RestInv
<1> QED
  BY <1>3, <1>4 DEF RestInv

LEMMA ServeInv ==
    ASSUME RestInv, NEW s \in Slots, NEW out \in Outcomes, NEW wait \in Told \cup {0},
           Serve(s, out, wait)
    PROVE  RestInv' /\ call'[s].pc = "answered" /\ \A r \in Slots \ {s} : call'[r] = call[r]
<1>1. /\ call[s] \in RestCalls /\ call[s].pc = "sent" /\ served[s] \in Nat /\ limited' = limited
      /\ DoneBy(call[s], served[s])
  BY DEF Serve, RestInv, RestTypeOK
<1>2. PICK done \in {0, 1} :
         /\ out = "done" /\ call[s].kind \notin {"get", "gateway"} => done = 1
         /\ done = 1 => out \in {"done", "unclear"} /\ call[s].kind \notin {"get", "gateway"}
         /\ served' = [served EXCEPT ![s] = @ + done]
  BY DEF Serve
<1> DEFINE n1 == [call[s] EXCEPT !.pc = "answered"]
           n2 == [n1 EXCEPT !.out = out]
           n == [n2 EXCEPT !.wait = wait]
<1>3. n1 \in RestCalls /\ n1.pc = "answered" /\ n1.kind = call[s].kind
  BY <1>1 DEF RestCalls, Pcs
<1>4. n2 \in RestCalls /\ n2.pc = "answered" /\ n2.kind = call[s].kind /\ n2.out = out
  <2> HIDE DEF n1
  <2> QED
    BY <1>3 DEF RestCalls
<1>5. n \in RestCalls /\ n.pc = "answered" /\ n.kind = call[s].kind /\ n.out = out
  <2>1. wait \in Nat
    BY RestAssumption
  <2> HIDE DEF n2
  <2> QED
    BY <1>4, <2>1 DEF RestCalls
<1>6. call' = [call EXCEPT ![s] = n]
  <2>1. call' = [call EXCEPT ![s] = [call[s] EXCEPT !.pc = "answered", !.out = out, !.wait = wait]]
    BY DEF Serve, RestInv, RestTypeOK
  <2> QED
    BY <2>1
<1>7. served[s] + done \in Nat /\ served' = [served EXCEPT ![s] = served[s] + done]
  BY <1>1, <1>2
<1>8. DoneBy(n, served[s] + done)
  <2> HIDE DEF n
  <2> QED
    BY <1>1, <1>2, <1>5 DEF DoneBy
<1>9. limited' \in Nat
  BY <1>1 DEF RestInv, RestTypeOK
<1> HIDE DEF n
<1>10. RestInv'
  BY <1>5, <1>6, <1>7, <1>8, <1>9, OneCall
<1> QED
  BY <1>5, <1>6, <1>10 DEF RestInv, RestTypeOK

LEMMA WakesInv ==
    ASSUME RestInv, NEW s \in Slots, Wakes(s)
    PROVE  /\ RestInv' /\ (call'[s].pc = "sent" => limited = 0)
           /\ \A r \in Slots \ {s} : call'[r] = call[r]
<1> DEFINE c == [call[s] EXCEPT !.attempt = call[s].attempt + 1]
           n == WaitForGlobalRateLimit(c)
<1>1. /\ call[s] \in RestCalls /\ call[s].pc = "asleep" /\ DoneBy(call[s], served[s])
      /\ limited \in Nat /\ served[s] \in Nat /\ UNCHANGED <<limited, served>>
  BY DEF Wakes, RestInv, RestTypeOK
<1>2. c \in RestCalls /\ c.kind = call[s].kind
  BY <1>1 DEF RestCalls
<1>3. /\ n \in RestCalls /\ n.pc \in {"limited", "sent"} /\ n.kind = call[s].kind
      /\ n.pc = "sent" => limited = 0
  BY <1>1, <1>2, HeadOfLoop
<1>4. call' = [call EXCEPT ![s] = n]
  BY DEF Wakes
<1>5. DoneBy(n, served[s])
  <2> HIDE DEF n
  <2> QED
    BY <1>1, <1>3 DEF DoneBy
<1>6. served' = [served EXCEPT ![s] = served[s]]
  BY <1>1 DEF RestInv, RestTypeOK
<1> HIDE DEF n
<1>7. RestInv'
  BY <1>1, <1>3, <1>4, <1>5, <1>6, OneCall
<1> QED
  BY <1>3, <1>4, <1>7 DEF RestInv, RestTypeOK

LEMMA WaitEndsInv ==
    ASSUME RestInv, NEW s \in Slots, WaitEnds(s)
    PROVE  RestInv' /\ call[s].pc = "limited" /\ \A r \in Slots \ {s} : call'[r] = call[r]
<1> DEFINE n == [call[s] EXCEPT !.pc = "sent"]
<1>1. /\ call[s] \in RestCalls /\ call[s].pc = "limited" /\ DoneBy(call[s], served[s])
      /\ limited \in Nat /\ served[s] \in Nat /\ UNCHANGED <<limited, served>>
  BY DEF WaitEnds, RestInv, RestTypeOK
<1>2. n \in RestCalls /\ n.pc = "sent" /\ n.kind = call[s].kind
  BY <1>1 DEF RestCalls, Pcs
<1>3. call' = [call EXCEPT ![s] = n] /\ served' = [served EXCEPT ![s] = served[s]]
  BY <1>1 DEF WaitEnds, RestInv, RestTypeOK
<1> HIDE DEF n
<1>4. DoneBy(n, served[s])
  BY <1>1, <1>2 DEF DoneBy
<1>5. RestInv'
  BY <1>1, <1>2, <1>3, <1>4, OneCall
<1> QED
  BY <1>1, <1>3, <1>5 DEF RestInv, RestTypeOK

LEMMA TakenInv ==
    ASSUME RestInv, NEW s \in Slots, Taken(s)
    PROVE  RestInv' /\ call'[s].pc = "idle" /\ \A r \in Slots \ {s} : call'[r] = call[r]
<1>1. RestInv'
  BY IdleCall, OneCall DEF Taken, RestInv, RestTypeOK
<1> QED
  BY <1>1, IdleCall DEF Taken, RestInv, RestTypeOK

LEMMA RestTickInv ==
    ASSUME RestInv, RestTick
    PROVE  /\ RestInv' /\ limited' >= Less(limited)
           /\ \A s \in Slots : call'[s].pc = call[s].pc
<1>1. \A s \in Slots : /\ call'[s] = [call[s] EXCEPT !.left = Less(call[s].left)]
                       /\ call[s] \in RestCalls
  BY DEF RestTick, RestInv, RestTypeOK
<1>2. \A n \in Nat : Less(n) \in Nat
  BY DEF Less
<1>3. \A s \in Slots : /\ call'[s] \in RestCalls /\ call'[s].pc = call[s].pc
                       /\ call'[s].kind = call[s].kind /\ call'[s].out = call[s].out
  <2> SUFFICES ASSUME NEW s \in Slots
               PROVE  /\ call'[s] \in RestCalls /\ call'[s].pc = call[s].pc
                      /\ call'[s].kind = call[s].kind /\ call'[s].out = call[s].out
    OBVIOUS
  <2>1. call[s] \in RestCalls /\ Less(call[s].left) \in Nat
    BY <1>1, <1>2 DEF RestCalls
  <2>2. call'[s] = [call[s] EXCEPT !.left = Less(call[s].left)]
    BY <1>1
  <2> QED
    BY <2>1, <2>2 DEF RestCalls
<1>4. RestTypeOK'
  <2>1. call' \in [Slots -> RestCalls]
    BY <1>3 DEF RestTick
  <2> QED
    BY <1>2, <2>1 DEF RestTick, RestInv, RestTypeOK
<1>5. \A s \in Slots : DoneBy(call'[s], served'[s])
  BY <1>3 DEF RestTick, RestInv, DoneBy
<1> QED
  BY <1>2, <1>3, <1>4, <1>5 DEF RestInv, RestTick, RestTypeOK

\* What every step of the client does: the invariant, the limit and what is sent.
LEMMA RestStepInv ==
    ASSUME RestInv, RestStep \/ UNCHANGED restVars
    PROVE  /\ RestInv' /\ limited' >= Less(limited)
           /\ \A s \in Slots : call'[s].pc = "sent" /\ call[s].pc # "sent"
                                  => limited = 0 \/ call[s].pc = "limited"
<1>1. limited \in Nat /\ limited >= Less(limited)
  BY DEF RestInv, RestTypeOK, Less
<1>2. CASE \E some \in SUBSET Slots, kind \in Kinds : Begins(some, kind)
  <2> PICK some \in SUBSET Slots, kind \in Kinds : Begins(some, kind)
    BY <1>2
  <2>1. \A s \in Slots : call'[s] = call[s] \/ (call'[s].pc = "sent" => limited = 0)
    BY <1>1, FirstAttempt DEF Begins
  <2> QED
    BY <1>1, <2>1, BeginsInv DEF Begins
<1>3. ASSUME NEW s \in Slots, Taken(s)
      PROVE  /\ RestInv' /\ limited' >= Less(limited)
             /\ \A r \in Slots : call'[r].pc = "sent" /\ call[r].pc # "sent"
                                    => limited = 0 \/ call[r].pc = "limited"
  BY <1>1, <1>3, TakenInv DEF Taken
<1>4. ASSUME NEW s \in Slots, WaitEnds(s)
      PROVE  /\ RestInv' /\ limited' >= Less(limited)
             /\ \A r \in Slots : call'[r].pc = "sent" /\ call[r].pc # "sent"
                                    => limited = 0 \/ call[r].pc = "limited"
  BY <1>1, <1>4, WaitEndsInv DEF WaitEnds
<1>5. ASSUME NEW s \in Slots, Receive(s)
      PROVE  /\ RestInv' /\ limited' >= Less(limited)
             /\ \A r \in Slots : call'[r].pc = "sent" /\ call[r].pc # "sent"
                                    => limited = 0 \/ call[r].pc = "limited"
  <2> PICK c \in RestCalls : /\ call' = [call EXCEPT ![s] = c] /\ DoneBy(c, served[s])
                             /\ c.pc = "sent" => limited = 0
    BY <1>5, ReceiveCases
  <2>1. limited' \in Nat /\ limited' >= Less(limited)
    BY <1>5, ReceiveCases DEF RestInv, RestTypeOK, Less
  <2>2. served' = [served EXCEPT ![s] = served[s]] /\ served[s] \in Nat
    BY <1>5 DEF Receive, RestInv, RestTypeOK
  <2>3. RestInv'
    BY <2>1, <2>2, OneCall
  <2> QED
    BY <2>1, <2>3 DEF RestInv, RestTypeOK
<1>6. ASSUME NEW s \in Slots, Wakes(s)
      PROVE  /\ RestInv' /\ limited' >= Less(limited)
             /\ \A r \in Slots : call'[r].pc = "sent" /\ call[r].pc # "sent"
                                    => limited = 0 \/ call[r].pc = "limited"
  BY <1>1, <1>6, WakesInv DEF Wakes
<1>7. ASSUME NEW s \in Slots, NEW out \in Outcomes, NEW wait \in Told \cup {0}, Serve(s, out, wait)
      PROVE  /\ RestInv' /\ limited' >= Less(limited)
             /\ \A r \in Slots : call'[r].pc = "sent" /\ call[r].pc # "sent"
                                    => limited = 0 \/ call[r].pc = "limited"
  BY <1>1, <1>7, ServeInv DEF Serve
<1>8. CASE RestTick
  BY <1>1, <1>8, RestTickInv
<1>9. CASE UNCHANGED restVars
  BY <1>1, <1>9 DEF restVars, RestInv, RestTypeOK
<1> QED
  BY <1>2, <1>3, <1>4, <1>5, <1>6, <1>7, <1>8, <1>9 DEF RestStep

LEMMA RestInitInv == RestInit => RestInv
<1> SUFFICES ASSUME RestInit PROVE RestInv
  OBVIOUS
<1>1. call \in [Slots -> RestCalls] /\ served \in [Slots -> Nat] /\ limited \in Nat
  BY IdleCall DEF RestInit
<1>2. \A s \in Slots : DoneBy(call[s], served[s])
  BY IdleCall DEF RestInit
<1> QED
  BY <1>1, <1>2 DEF RestInv, RestTypeOK

\* The permission and voice lookups, and whoever else calls, take only steps of the client.
LEMMA NextIsRest == ASSUME Next PROVE RestStep \/ UNCHANGED restVars
<1>1. "member" \in Slots /\ "guild" \in Slots /\ "channel" \in Slots /\ "get" \in Kinds /\ Posts \subseteq Slots
  BY AccessAssumption DEF Kinds
<1>2. ASSUME NEW some \in SUBSET Slots, Begins(some, "get") PROVE RestStep
  BY <1>1, <1>2 DEF RestStep
<1>3. ASSUME NEW s \in Slots, Taken(s) PROVE RestStep
  BY <1>3 DEF RestStep
<1>4. ASSUME NEW g, ChangesTo(g) PROVE UNCHANGED restVars
  BY <1>4 DEF ChangesTo
<1>5. CASE \/ RoleChanges \/ RoleGoes \/ MemberChanges \/ OwnerChanges \/ OverwriteChanges
           \/ VoiceMoves \/ GuildOutage \/ NewSession \/ Writes
  BY <1>4, <1>5 DEF RoleChanges, RoleGoes, MemberChanges, OwnerChanges, OverwriteChanges,
     VoiceMoves, GuildOutage, NewSession, Writes
<1>6. CASE OnGuild \/ OnGuildDelete \/ OnRole \/ OnVoiceState \/ LookTimesOut
  BY <1>6 DEF OnGuild, OnGuildDelete, OnRole, OnVoiceState, LookTimesOut
<1>7. CASE OnMessage
  <2>1. Begins({"member"}, "get") \/ UNCHANGED restVars
    BY <1>7 DEF OnMessage, Resolves
  <2> QED
    BY <1>1, <1>2, <2>1
<1>8. CASE MemberRead \/ GuildRead \/ RolesRead
  <2>1. Begins({"member"}, "get") \/ Taken("member")
    BY <1>8 DEF MemberRead, GuildRead, RolesRead, DecidedByRest
  <2> QED
    BY <1>1, <1>2, <1>3, <2>1
<1>9. CASE Looks \/ LookRead
  <2>1. Begins({"member"}, "get") \/ Taken("member") \/ UNCHANGED restVars
    BY <1>9 DEF Looks, LookRead
  <2> QED
    BY <1>1, <1>2, <1>3, <2>1
<1>10. CASE BotAsks
  <2>1. UNCHANGED restVars
        \/ Begins({s \in {"member", "guild"} : ~Holds(botCache[s])} \cup {"channel"}, "get")
    BY <1>10 DEF BotAsks
  <2> QED
    BY <1>1, <1>2, <2>1
<1>11. CASE \E s \in {"member", "guild", "channel"} : BotRead(s)
  BY <1>1, <1>3, <1>11 DEF BotRead
<1>12. CASE Posting
  <2>1. \E s \in Posts, kind \in Kinds : Begins({s}, kind)
    BY <1>12 DEF Posting
  <2> QED
    BY <1>1, <2>1 DEF RestStep
<1>13. CASE Served \/ Answered \/ Continues \/ Tick
  BY <1>13 DEF Served, Answered, Continues, Tick, RestStep
<1> QED
  BY <1>5, <1>6, <1>7, <1>8, <1>9, <1>10, <1>11, <1>12, <1>13 DEF Next

LEMMA RestNextInv ==
    ASSUME RestInv, [Next]_vars
    PROVE  /\ RestInv' /\ limited' >= Less(limited)
           /\ \A s \in Slots : call'[s].pc = "sent" /\ call[s].pc # "sent"
                                  => limited = 0 \/ call[s].pc = "limited"
BY NextIsRest, RestStepInv DEF vars

LEMMA RestAlways == Spec => []RestInv
<1>1. Init => RestInv
  BY RestInitInv DEF Init
<1>2. RestInv /\ [Next]_vars => RestInv'
  BY RestNextInv
<1> QED
  BY <1>1, <1>2, PTL DEF Spec

\* A message is posted and an edit made at most once, and once if the call returned,
\* whatever is lost, limited or refused and however many calls run side by side.
THEOREM MessagesPostedOnce == Spec => []PostedOnce
<1>1. RestInv => PostedOnce
  <2> SUFFICES ASSUME RestInv, NEW s \in Slots, call[s].kind \in {"message", "edit"}
               PROVE  served[s] <= 1 /\ (call[s].pc = "returned" => served[s] = 1)
    BY DEF PostedOnce
  <2>1. call[s].pc \in Pcs /\ served[s] \in Nat /\ DoneBy(call[s], served[s])
    BY DEF RestInv, RestTypeOK, RestCalls
  <2> QED
    BY <2>1 DEF DoneBy, Pcs
<1> QED
  BY <1>1, RestAlways, PTL

\* While a global limit is known only requests that were already waiting go out, and
\* no answer, however late, brings the end of the limit nearer.
THEOREM GlobalLimitRespected == Spec => LimitRespected
<1>1. RestInv /\ [Next]_vars => [\A s \in Slots : call'[s].pc = "sent" /\ call[s].pc # "sent"
                                    => limited = 0 \/ call[s].pc = "limited"]_restVars
  BY RestNextInv
<1>2. RestInv /\ [Next]_vars => [limited' >= Less(limited)]_restVars
  BY RestNextInv
<1>3. Spec => NoRushIntoLimit
  BY <1>1, RestAlways, PTL DEF Spec, NoRushIntoLimit
<1>4. Spec => LimitNeverShortened
  BY <1>2, RestAlways, PTL DEF Spec, LimitNeverShortened
<1> QED
  BY <1>3, <1>4 DEF LimitRespected

(*------------------- what the events under way will make ------------------*)
GuildEvents ==
    [kind : {"create"}, owner : BOOLEAN, roles : RoleTables, voice : Channels \cup {None}]
    \cup [kind : {"guild"}, owner : BOOLEAN]
    \cup [kind : {"ready", "delete"}]
    \cup [kind : {"role"}, role : Roles, bits : SUBSET Rights]
    \cup [kind : {"roleGone"}, role : Roles]
    \cup [kind : {"voice"}, channel : Channels \cup {None}]
    \cup [kind : {"message"}, carries : {"bits", "roles", "nothing"}, has : SUBSET Roles,
           bits : SUBSET Rights, truth : BOOLEAN]

GuildTypeOK ==
    /\ DOMAIN guild = {"owner", "roles", "member", "bot", "over", "voice"}
    /\ guild.owner \in BOOLEAN /\ guild.roles \in RoleTables
    /\ guild.member \subseteq Roles \cap DOMAIN guild.roles /\ guild.voice \in Channels \cup {None}
    /\ events \in Seq(GuildEvents)
    /\ DOMAIN check = DOMAIN Nobody
    /\ look \in [pc : {"idle", "asks", "waiting", "found", "none"}, joined : BOOLEAN]

\* What the cache knows once it has heard the event e.
NotNone(s) == IF s = None THEN NoGuild ELSE s
After(s, e) ==
    CASE e.kind = "create" -> [owner |-> Who(e.owner), roles |-> e.roles]
      [] e.kind = "guild" -> [NotNone(s) EXCEPT !.owner = Who(e.owner)]
      [] e.kind = "ready" -> NotNone(s)
      [] e.kind = "delete" -> None
      [] e.kind = "role" -> [NotNone(s) EXCEPT !.roles = With(@, e.role, e.bits)]
      [] e.kind = "roleGone" -> IF s = None THEN None
                                ELSE [s EXCEPT !.roles = [q \in DOMAIN @ \ {e.role} |-> @[q]]]
      [] OTHER -> s

\* A cache that knows the guild: its owner and its roles.
Knows(g) == [owner |-> Who(g.owner), roles |-> g.roles]

\* A message says the truth to a cache s that hears it, which knows the roles it names.
TrueTo(s, e) == e.kind = "message" =>
    /\ s # None /\ e.has \subseteq DOMAIN s.roles
    /\ e.truth = (s.owner = "user" \/ Manages(Bits(s.roles, e.has)))

\* Heard one after the other, the events lead the cache from one state to another,
\* past the messages at the moments they were written.
Replay(st, from, evts, to) ==
    /\ st[0] = from /\ st[Len(evts)] = to
    /\ \A i \in 1..Len(evts) : st[i] = After(st[i - 1], evts[i]) /\ TrueTo(st[i - 1], evts[i])

\* What is under way leads the cache to the guild as it is.
Leads == \E st : Replay(st, guildState, events, Knows(guild))
Unwritten == \A i \in 1..Len(events) : events[i].kind # "message"
Verdict == check.via = "gateway" => check.pc = "decided" /\ check.verdict = YesNo(check.sent)
Joins == look.joined => look.pc = "asks" /\ voiceState # None

EventsInv == /\ GuildTypeOK /\ mix \in Mixes /\ Verdict /\ Joins
             /\ IF mix = "manage" THEN Leads ELSE Unwritten

\* One more event under way.
LEMMA Extend ==
    ASSUME NEW S, NEW evts \in Seq(S), NEW e \in S, NEW st, NEW from, NEW to,
           Replay(st, from, evts, to), TrueTo(to, e)
    PROVE  \E longer : Replay(longer, from, evts \o <<e>>, After(to, e))
<1> DEFINE n == Len(evts)
           longer == [i \in 0..n + 1 |-> IF i <= n THEN st[i] ELSE After(to, e)]
<1>1. /\ n \in Nat /\ Len(evts \o <<e>>) = n + 1
      /\ \A i \in 1..n : (evts \o <<e>>)[i] = evts[i]
      /\ (evts \o <<e>>)[n + 1] = e
  OBVIOUS
<1>2. \A i \in 0..n : longer[i] = st[i]
  BY <1>1
<1>3. longer[n + 1] = After(to, e)
  BY <1>1
<1> HIDE DEF longer, n
<1>4. longer[0] = from /\ longer[n] = to
  BY <1>1, <1>2 DEF Replay, n
<1>5. \A i \in 1..n : /\ longer[i] = After(longer[i - 1], (evts \o <<e>>)[i])
                      /\ TrueTo(longer[i - 1], (evts \o <<e>>)[i])
  <2> SUFFICES ASSUME NEW i \in 1..n
               PROVE  /\ longer[i] = After(longer[i - 1], (evts \o <<e>>)[i])
                      /\ TrueTo(longer[i - 1], (evts \o <<e>>)[i])
    OBVIOUS
  <2>1. i \in 0..n /\ i - 1 \in 0..n
    BY <1>1
  <2> QED
    BY <2>1, <1>1, <1>2 DEF Replay, n
<1>6. Replay(longer, from, evts \o <<e>>, After(to, e))
  <2>1. \A i \in 1..n + 1 : i \in 1..n \/ i = n + 1
    BY <1>1
  <2>2. n + 1 - 1 = n
    BY <1>1
  <2> QED
    BY <1>1, <1>3, <1>4, <1>5, <2>1, <2>2 DEF Replay
<1> QED
  BY <1>6

\* The first event heard.
LEMMA Consume ==
    ASSUME NEW S, NEW evts \in Seq(S), evts # << >>, NEW st, NEW from, NEW to,
           Replay(st, from, evts, to)
    PROVE  /\ TrueTo(from, Head(evts))
           /\ \E rest : Replay(rest, After(from, Head(evts)), Tail(evts), to)
<1> DEFINE n == Len(evts)
           rest == [i \in 0..n - 1 |-> st[i + 1]]
<1>1. /\ n \in Nat \ {0} /\ Len(Tail(evts)) = n - 1 /\ Head(evts) = evts[1]
      /\ \A i \in 1..n - 1 : Tail(evts)[i] = evts[i + 1]
  OBVIOUS
<1>2. \A i \in 0..n - 1 : rest[i] = st[i + 1]
  OBVIOUS
<1> HIDE DEF rest, n
<1>3. /\ st[0] = from /\ st[n] = to
      /\ \A i \in 1..n : st[i] = After(st[i - 1], evts[i]) /\ TrueTo(st[i - 1], evts[i])
  BY DEF Replay, n
<1>4. st[1] = After(from, Head(evts)) /\ TrueTo(from, Head(evts))
  <2>1. 1 \in 1..n /\ 1 - 1 = 0
    BY <1>1
  <2> QED
    BY <1>1, <1>3, <2>1
<1>5. rest[0] = After(from, Head(evts)) /\ rest[n - 1] = to
  <2>1. 0 \in 0..n - 1 /\ n - 1 \in 0..n - 1 /\ 0 + 1 = 1 /\ n - 1 + 1 = n
    BY <1>1
  <2> QED
    BY <1>2, <1>3, <1>4, <2>1
<1>6. ASSUME NEW i \in 1..n - 1
      PROVE  rest[i] = After(rest[i - 1], Tail(evts)[i]) /\ TrueTo(rest[i - 1], Tail(evts)[i])
  <2>1. i \in 0..n - 1 /\ i - 1 \in 0..n - 1 /\ i - 1 + 1 = i /\ i + 1 \in 1..n /\ i + 1 - 1 = i
    BY <1>1
  <2>2. rest[i] = st[i + 1] /\ rest[i - 1] = st[i] /\ Tail(evts)[i] = evts[i + 1]
    BY <1>1, <1>2, <2>1
  <2>3. st[i + 1] = After(st[i], evts[i + 1]) /\ TrueTo(st[i], evts[i + 1])
    BY <1>3, <2>1
  <2> QED
    BY <2>2, <2>3
<1>7. Replay(rest, After(from, Head(evts)), Tail(evts), to)
  BY <1>1, <1>5, <1>6 DEF Replay
<1> QED
  BY <1>4, <1>7

LEMMA KnowsSomething == ASSUME GuildTypeOK PROVE Knows(guild) # None
BY AccessAssumption DEF GuildTypeOK, Knows, Who

LEMMA BitsTyped ==
    ASSUME NEW roles \in RoleTables, NEW ids PROVE Bits(roles, ids) \in SUBSET Rights
<1> PICK some \in SUBSET Roles : roles \in [some -> SUBSET Rights]
  BY DEF RoleTables
<1>1. \A r \in ids \cap DOMAIN roles : roles[r] \subseteq Rights
  OBVIOUS
<1> QED
  BY <1>1 DEF Bits
LEMMA TableWith ==
    ASSUME NEW roles \in RoleTables, NEW r \in Roles, NEW bits \in SUBSET Rights
    PROVE  With(roles, r, bits) \in RoleTables /\ DOMAIN With(roles, r, bits) = DOMAIN roles \cup {r}
<1> PICK some \in SUBSET Roles : roles \in [some -> SUBSET Rights]
  BY DEF RoleTables
<1>1. With(roles, r, bits) \in [some \cup {r} -> SUBSET Rights]
  BY DEF With
<1>2. DOMAIN With(roles, r, bits) = DOMAIN roles \cup {r}
  BY DEF With
<1> QED
  BY <1>1, <1>2 DEF RoleTables

LEMMA TableWithout ==
    ASSUME NEW roles \in RoleTables, NEW r
    PROVE  [q \in DOMAIN roles \ {r} |-> roles[q]] \in RoleTables
<1> PICK some \in SUBSET Roles : roles \in [some -> SUBSET Rights]
  BY DEF RoleTables
<1>1. [q \in DOMAIN roles \ {r} |-> roles[q]] \in [some \ {r} -> SUBSET Rights]
  OBVIOUS
<1> QED
  BY <1>1 DEF RoleTables

\* What the part under the invariant says of the events.
EventsFit == /\ events \in Seq(GuildEvents)
             /\ IF mix = "manage" THEN Leads ELSE Unwritten

LEMMA TellsOne ==
    ASSUME EventsFit, NEW e \in GuildEvents, events' = events \o <<e>>,
           guildState' = guildState, mix' = mix,
           After(Knows(guild), e) = Knows(guild)', TrueTo(Knows(guild), e),
           mix # "manage" => e.kind # "message"
    PROVE  EventsFit'
<1>1. events' \in Seq(GuildEvents)
  BY DEF EventsFit
<1>2. CASE mix = "manage"
  <2> PICK st : Replay(st, guildState, events, Knows(guild))
    BY <1>2 DEF EventsFit, Leads
  <2>1. \E longer : Replay(longer, guildState, events \o <<e>>, After(Knows(guild), e))
    BY Extend DEF EventsFit
  <2>2. Leads'
    BY <2>1 DEF Leads, Replay
  <2> QED
    BY <1>1, <1>2, <2>2 DEF EventsFit
<1>3. CASE mix # "manage"
  <2>1. \A i \in 1..Len(events) : events[i].kind # "message"
    BY <1>3 DEF EventsFit, Unwritten
  <2>2. \A i \in 1..Len(events') : events'[i] = e \/ (i \in 1..Len(events) /\ events'[i] = events[i])
    BY DEF EventsFit
  <2> QED
    BY <1>1, <1>3, <2>1, <2>2 DEF EventsFit, Unwritten
<1> QED
  BY <1>2, <1>3

\* An event that the cache has heard.
LEMMA HearsOne ==
    ASSUME EventsFit, events # << >>, events' = Tail(events), mix' = mix,
           guildState' = After(guildState, Head(events)), Knows(guild)' = Knows(guild)
    PROVE  EventsFit'
<1>1. events' \in Seq(GuildEvents)
  BY DEF EventsFit
<1>2. CASE mix = "manage"
  <2> PICK st : Replay(st, guildState, events, Knows(guild))
    BY <1>2 DEF EventsFit, Leads
  <2>1. \E rest : Replay(rest, After(guildState, Head(events)), Tail(events), Knows(guild))
    BY Consume DEF EventsFit
  <2>2. Leads'
    BY <2>1 DEF Leads, Replay
  <2> QED
    BY <1>1, <1>2, <2>2 DEF EventsFit
<1>3. CASE mix # "manage"
  <2>1. \A i \in 1..Len(events) : events[i].kind # "message"
    BY <1>3 DEF EventsFit, Unwritten
  <2>2. \A i \in 1..Len(events') : i + 1 \in 1..Len(events) /\ events'[i] = events[i + 1]
    BY DEF EventsFit
  <2> QED
    BY <1>1, <1>3, <2>1, <2>2 DEF EventsFit, Unwritten
<1> QED
  BY <1>2, <1>3

\* No event, and nothing the events speak of.
LEMMA HearsNothing ==
    ASSUME EventsFit, events' = events, guildState' = guildState, mix' = mix,
           Knows(guild)' = Knows(guild)
    PROVE  EventsFit'
BY DEF EventsFit, Leads, Unwritten, Replay
GuildFits == /\ DOMAIN guild = {"owner", "roles", "member", "bot", "over", "voice"}
             /\ guild.owner \in BOOLEAN /\ guild.roles \in RoleTables
             /\ guild.member \subseteq Roles \cap DOMAIN guild.roles /\ guild.voice \in Channels \cup {None}

\* The guild changes, and what it tells of the change makes a cache that knew
\* it know it again.
LEMMA GuildTells ==
    ASSUME GuildTypeOK, EventsFit, mix \in Mixes,
           \/ RoleChanges \/ RoleGoes \/ MemberChanges \/ OwnerChanges \/ OverwriteChanges \/ VoiceMoves
    PROVE  GuildFits' /\ EventsFit'
<1> USE DEF GuildTypeOK, GuildFits
<1>1. Knows(guild) # None
  BY KnowsSomething
<1>2. CASE RoleChanges
  <2> PICK r \in Roles, b \in Grants[mix] :
         /\ guild' = [guild EXCEPT !.roles = With(guild.roles, r, b)]
         /\ events' = events \o <<[kind |-> "role", role |-> r, bits |-> b]>>
         /\ mix' = mix /\ guildState' = guildState
    BY <1>2 DEF RoleChanges, ChangesTo, Tells, cacheVars
  <2> DEFINE e == [kind |-> "role", role |-> r, bits |-> b]
             new == With(guild.roles, r, b)
  <2>0. b \in SUBSET Rights
    BY AccessAssumption
  <2>1. new \in RoleTables /\ DOMAIN guild.roles \subseteq DOMAIN new
    <3>1. new \in RoleTables /\ DOMAIN new = DOMAIN guild.roles \cup {r}
      BY <2>0, TableWith, Zenon
    <3> HIDE DEF new
    <3> QED
      BY <3>1
  <2>2. e \in GuildEvents
    BY <2>0 DEF GuildEvents
  <2>3. events' = events \o <<e>> /\ guild' = [guild EXCEPT !.roles = new]
    OBVIOUS
  <2>4. After(Knows(guild), e) = [Knows(guild) EXCEPT !.roles = new]
    BY <1>1 DEF After, NotNone, Knows
  <2> HIDE DEF new
  <2>5. GuildFits'
    BY <2>1, <2>3
  <2>6. Knows(guild)' = [Knows(guild) EXCEPT !.roles = new]
    BY <2>3 DEF Knows
  <2>7. TrueTo(Knows(guild), e) /\ e.kind # "message"
    BY DEF TrueTo
  <2> HIDE DEF e
  <2> QED
    BY <2>2, <2>3, <2>4, <2>5, <2>6, <2>7, TellsOne
<1>3. CASE RoleGoes
  <2> PICK r \in DOMAIN guild.roles :
         /\ guild' = [guild EXCEPT !.roles = [q \in DOMAIN guild.roles \ {r} |-> guild.roles[q]],
                                   !.member = guild.member \ {r}, !.bot = guild.bot \ {r}]
         /\ events' = events \o <<[kind |-> "roleGone", role |-> r]>>
         /\ mix' = mix /\ guildState' = guildState
    BY <1>3 DEF RoleGoes, ChangesTo, Tells, cacheVars
  <2> DEFINE e == [kind |-> "roleGone", role |-> r]
             new == [q \in DOMAIN guild.roles \ {r} |-> guild.roles[q]]
  <2>1. r \in Roles /\ new \in RoleTables /\ DOMAIN new = DOMAIN guild.roles \ {r}
    BY TableWithout DEF RoleTables
  <2>2. e \in GuildEvents
    BY <2>1 DEF GuildEvents
  <2>4. After(Knows(guild), e) = [Knows(guild) EXCEPT !.roles = new]
    BY <1>1 DEF After, Knows
  <2> DEFINE n1 == [guild EXCEPT !.roles = new]
             n2 == [n1 EXCEPT !.member = guild.member \ {r}]
  <2>3. /\ events' = events \o <<e>>
        /\ guild' = [n2 EXCEPT !.bot = guild.bot \ {r}]
    OBVIOUS
  <2> HIDE DEF new
  <2>8. /\ DOMAIN n1 = DOMAIN guild /\ n1.owner = guild.owner /\ n1.roles = new
        /\ n1.member = guild.member /\ n1.voice = guild.voice
    OBVIOUS
  <2> HIDE DEF n1
  <2>9. /\ DOMAIN n2 = DOMAIN guild /\ n2.owner = guild.owner /\ n2.roles = new
        /\ n2.member = guild.member \ {r} /\ n2.voice = guild.voice
    BY <2>8
  <2> HIDE DEF n2
  <2>10. /\ DOMAIN guild' = DOMAIN guild /\ guild'.owner = guild.owner /\ guild'.roles = new
         /\ guild'.member = guild.member \ {r} /\ guild'.voice = guild.voice
    BY <2>3, <2>9
  <2>5. GuildFits'
    BY <2>1, <2>10
  <2>6. Knows(guild)' = [Knows(guild) EXCEPT !.roles = new]
    BY <2>10 DEF Knows
  <2>7. TrueTo(Knows(guild), e) /\ e.kind # "message"
    BY DEF TrueTo
  <2> HIDE DEF e
  <2> QED
    BY <2>2, <2>3, <2>4, <2>5, <2>6, <2>7, TellsOne
<1>4. CASE MemberChanges \/ OverwriteChanges
  <2>1. /\ events' = events \o << >> /\ mix' = mix /\ guildState' = guildState
        /\ \/ \E ids \in SUBSET DOMAIN guild.roles :
                 \/ guild' = [guild EXCEPT !.member = ids]
                 \/ guild' = [guild EXCEPT !.bot = ids]
           \/ \E o \in Overs : guild' = [guild EXCEPT !.over[o[1]] = o[2]]
    BY <1>4 DEF MemberChanges, OverwriteChanges, ChangesTo, Tells, cacheVars
  <2>2. DOMAIN guild.roles \subseteq Roles
    BY DEF RoleTables
  <2>3. GuildFits' /\ guild'.owner = guild.owner /\ guild'.roles = guild.roles
    BY <2>1, <2>2
  <2>4. events' = events
    BY <2>1
  <2> QED
    BY <2>1, <2>3, <2>4, HearsNothing DEF Knows
<1>5. CASE OwnerChanges
  <2> DEFINE e == [kind |-> "guild", owner |-> ~guild.owner]
  <2>1. /\ guild' = [guild EXCEPT !.owner = ~guild.owner] /\ events' = events \o <<e>>
        /\ mix' = mix /\ guildState' = guildState
    BY <1>5 DEF OwnerChanges, ChangesTo, Tells, cacheVars
  <2>2. e \in GuildEvents
    BY DEF GuildEvents
  <2>3. GuildFits' /\ guild'.owner = ~guild.owner /\ guild'.roles = guild.roles
    BY <2>1
  <2>4. After(Knows(guild), e) = [Knows(guild) EXCEPT !.owner = Who(~guild.owner)]
    BY <1>1 DEF After, NotNone
  <2>5. After(Knows(guild), e) = Knows(guild)'
    BY <2>3, <2>4 DEF Knows
  <2>6. TrueTo(Knows(guild), e) /\ e.kind # "message"
    BY DEF TrueTo
  <2> HIDE DEF e
  <2> QED
    BY <2>1, <2>2, <2>3, <2>5, <2>6, TellsOne
<1>6. CASE VoiceMoves
  <2> PICK c \in Channels \cup {None} :
         /\ guild' = [guild EXCEPT !.voice = c]
         /\ events' = events \o <<[kind |-> "voice", channel |-> c]>>
         /\ mix' = mix /\ guildState' = guildState
    BY <1>6 DEF VoiceMoves, ChangesTo, Tells, cacheVars
  <2> DEFINE e == [kind |-> "voice", channel |-> c]
  <2>1. e \in GuildEvents
    BY DEF GuildEvents
  <2>2. GuildFits' /\ guild'.owner = guild.owner /\ guild'.roles = guild.roles
    OBVIOUS
  <2>3. After(Knows(guild), e) = Knows(guild)
    BY DEF After
  <2>4. Knows(guild)' = Knows(guild)
    BY <2>2 DEF Knows
  <2>5. TrueTo(Knows(guild), e) /\ e.kind # "message" /\ events' = events \o <<e>>
    BY DEF TrueTo
  <2> HIDE DEF e
  <2> QED
    BY <2>1, <2>2, <2>3, <2>4, <2>5, TellsOne
<1> QED
  BY <1>2, <1>3, <1>4, <1>5, <1>6
LEMMA WholeTells ==
    ASSUME GuildTypeOK
    PROVE  /\ Whole \in GuildEvents /\ Whole.kind = "create"
           /\ \A s : After(s, Whole) = Knows(guild) /\ TrueTo(s, Whole)
BY DEF GuildTypeOK, Whole, GuildEvents, After, Knows, TrueTo

\* An outage leads through nothing, a new session begins anywhere.
LEMMA SessionTells ==
    ASSUME GuildTypeOK, EventsFit, GuildOutage \/ NewSession
    PROVE  EventsFit'
<1>0. /\ guild' = guild /\ guildState' = guildState /\ mix' = mix /\ Knows(guild)' = Knows(guild)
  BY DEF GuildOutage, NewSession, cacheVars, Knows
<1>1. CASE GuildOutage
  <2> DEFINE e == [kind |-> "delete"]
             half == events \o <<e>>
  <2>1. events' = events \o <<e, Whole>>
    BY <1>1 DEF GuildOutage, Tells
  <2>2. e \in GuildEvents /\ e.kind = "delete"
    BY DEF GuildEvents
  <2> HIDE DEF e
  <2>3. half \in Seq(GuildEvents) /\ events' = half \o <<Whole>> /\ events' \in Seq(GuildEvents)
    BY <2>1, <2>2, WholeTells DEF EventsFit
  <2>4. \A s : TrueTo(s, e) /\ After(s, e) = None
    BY <2>2 DEF TrueTo, After
  <2>5. CASE mix = "manage"
    <3> PICK st : Replay(st, guildState, events, Knows(guild))
      BY <2>5 DEF EventsFit, Leads
    <3>1. \E longer : Replay(longer, guildState, half, After(Knows(guild), e))
      BY <2>2, <2>4, Extend DEF EventsFit
    <3> PICK st2 : Replay(st2, guildState, half, After(Knows(guild), e))
      BY <3>1
    <3> HIDE DEF half
    <3>2. \E longer : Replay(longer, guildState, half \o <<Whole>>, After(After(Knows(guild), e), Whole))
      BY <2>3, WholeTells, Extend
    <3>3. \E longer : Replay(longer, guildState', events', Knows(guild)')
      BY <1>0, <2>3, <3>2, WholeTells
    <3>4. Leads'
      BY <3>3 DEF Leads, Replay
    <3> QED
      BY <1>0, <2>3, <2>5, <3>4 DEF EventsFit
  <2>6. CASE mix # "manage"
    <3>1. \A i \in 1..Len(events') :
             \/ i \in 1..Len(events) /\ events'[i] = events[i]
             \/ events'[i] = e \/ events'[i] = Whole
      BY <2>1 DEF EventsFit
    <3> QED
      BY <1>0, <2>2, <2>3, <2>6, <3>1, WholeTells DEF EventsFit, Unwritten
  <2> QED
    BY <2>5, <2>6
<1>2. CASE NewSession
  <2> DEFINE e == [kind |-> "ready"]
  <2>1. events' = <<e, Whole>>
    BY <1>2 DEF NewSession
  <2>2. e \in GuildEvents /\ e.kind = "ready"
    BY DEF GuildEvents
  <2> HIDE DEF e
  <2>3. /\ events' \in Seq(GuildEvents) /\ Len(events') = 2
        /\ events'[1] = e /\ events'[2] = Whole
    BY <2>1, <2>2, WholeTells
  <2>4. \A s : TrueTo(s, e)
    BY <2>2 DEF TrueTo
  <2> DEFINE st == [i \in 0..2 |-> IF i = 0 THEN guildState
                                    ELSE IF i = 1 THEN After(guildState, e) ELSE Knows(guild)]
  <2>5. st[0] = guildState /\ st[1] = After(guildState, e) /\ st[2] = Knows(guild)
    OBVIOUS
  <2> HIDE DEF st
  <2>6. \A i \in 1..2 : st[i] = After(st[i - 1], events'[i]) /\ TrueTo(st[i - 1], events'[i])
    <3>1. \A i \in 1..2 : (i = 1 /\ i - 1 = 0) \/ (i = 2 /\ i - 1 = 1)
      OBVIOUS
    <3> QED
      BY <2>3, <2>4, <2>5, <3>1, WholeTells
  <2>7. Replay(st, guildState, events', Knows(guild))
    BY <2>3, <2>5, <2>6 DEF Replay
  <2>8. \E some : Replay(some, guildState', events', Knows(guild)')
    BY <1>0, <2>7
  <2>9. Leads'
    BY <2>8 DEF Leads, Replay
  <2>10. Unwritten'
    BY <2>2, <2>3, WholeTells DEF Unwritten
  <2> QED
    BY <1>0, <2>3, <2>9, <2>10 DEF EventsFit
<1> QED
  BY <1>1, <1>2

\* A message speaks to a cache that knows the guild.
LEMMA WritesTells == ASSUME GuildTypeOK, EventsFit, Writes PROVE EventsFit'
<1> PICK carries \in {"bits", "roles", "nothing"} :
       /\ mix = "manage" /\ mix' = mix /\ guild' = guild /\ guildState' = guildState
       /\ events' = events \o <<[kind |-> "message", carries |-> carries, has |-> guild.member,
                 bits |-> Bits(guild.roles, guild.member), truth |-> MayManage(guild)]>>
  BY DEF Writes, Tells, cacheVars
<1> DEFINE b == Bits(guild.roles, guild.member)
           e == [kind |-> "message", carries |-> carries, has |-> guild.member,
                 bits |-> b, truth |-> MayManage(guild)]
<1>1. b \in SUBSET Rights /\ MayManage(guild) \in BOOLEAN
  BY BitsTyped DEF GuildTypeOK, MayManage, Manages
<1>2. MayManage(guild) = (guild.owner \/ Manages(b))
  BY DEF MayManage
<1>3. e.truth = (Knows(guild).owner = "user" \/ Manages(Bits(Knows(guild).roles, e.has)))
  BY <1>2 DEF Knows, Who, GuildTypeOK
<1>4. events' = events \o <<e>>
  OBVIOUS
<1> HIDE DEF b
<1>5. e \in GuildEvents
  BY <1>1 DEF GuildEvents, GuildTypeOK
<1>6. After(Knows(guild), e) = Knows(guild) /\ Knows(guild)' = Knows(guild)
  BY DEF After, Knows
<1>7. TrueTo(Knows(guild), e)
  <2>1. Knows(guild) # None /\ guild.member \subseteq DOMAIN guild.roles
    BY KnowsSomething DEF GuildTypeOK
  <2> QED
    BY <1>3, <2>1 DEF TrueTo, Knows
<1> HIDE DEF e
<1> QED
  BY <1>4, <1>5, <1>6, <1>7, TellsOne

\* Whatever is delivered, the cache makes of it what After says.
LEMMA DeliveredHeard ==
    ASSUME GuildTypeOK, EventsFit, OnGuild \/ OnGuildDelete \/ OnRole \/ OnVoiceState \/ OnMessage
    PROVE  EventsFit' /\ guildState' = After(guildState, Head(events))
<1>1. /\ events # << >> /\ events' = Tail(events) /\ mix' = mix /\ guild' = guild
      /\ Knows(guild)' = Knows(guild)
  BY DEF OnGuild, OnGuildDelete, OnRole, OnVoiceState, OnMessage, Delivered, Knows
<1>2. Head(events) \in GuildEvents
  BY <1>1 DEF EventsFit
<1>3. guildState' = After(guildState, Head(events))
  <2> DEFINE e == Head(events)
  <2>1. CASE OnGuild
    <3>1. /\ e.kind \in {"create", "guild", "ready"}
          /\ guildState' = UpsertGuild(IF e.kind = "ready" THEN e ELSE [e EXCEPT !.owner = Who(e.owner)])
      BY <2>1 DEF OnGuild
    <3>2. CASE e.kind = "create"
      <4>1. e \in [kind : {"create"}, owner : BOOLEAN, roles : RoleTables, voice : Channels \cup {None}]
        BY <1>2, <3>2 DEF GuildEvents
      <4>2. guildState' = UpsertGuild([e EXCEPT !.owner = Who(e.owner)])
        BY <3>1, <3>2
      <4> QED
        BY <3>2, <4>1, <4>2 DEF UpsertGuild, After, RolesOf
    <3>3. CASE e.kind = "guild"
      <4>1. e \in [kind : {"guild"}, owner : BOOLEAN]
        BY <1>2, <3>3 DEF GuildEvents
      <4>2. guildState' = UpsertGuild([e EXCEPT !.owner = Who(e.owner)])
        BY <3>1, <3>3
      <4> QED
        BY <3>3, <4>1, <4>2 DEF UpsertGuild, After, Existing, NotNone
    <3>4. CASE e.kind = "ready"
      BY <3>1, <3>4 DEF UpsertGuild, After, Existing, NotNone
    <3> QED
      BY <3>1, <3>2, <3>3, <3>4
  <2>2. CASE OnGuildDelete
    BY <2>2 DEF OnGuildDelete, After
  <2>3. CASE OnRole
    BY <2>3 DEF OnRole, UpsertRole, DropRole, After, Existing, NotNone
  <2>4. CASE OnVoiceState
    BY <2>4 DEF OnVoiceState, After
  <2>5. CASE OnMessage
    BY <2>5 DEF OnMessage, After
  <2> QED
    BY <2>1, <2>2, <2>3, <2>4, <2>5
<1> QED
  BY <1>1, <1>3, HearsOne
\* The others neither change the guild nor hear of it.
LEMMA EventsStep ==
    ASSUME GuildTypeOK, EventsFit, mix \in Mixes, [Next]_vars
    PROVE  GuildFits' /\ EventsFit' /\ mix' = mix
<1> DEFINE Same == guild' = guild
           Deaf == events' = events /\ guildState' = guildState
<1>1. CASE \/ RoleChanges \/ RoleGoes \/ MemberChanges \/ OwnerChanges \/ OverwriteChanges \/ VoiceMoves
  <2>1. mix' = mix
    BY <1>1 DEF RoleChanges, RoleGoes, MemberChanges, OwnerChanges, OverwriteChanges, VoiceMoves, ChangesTo
  <2> QED
    BY <1>1, <2>1, GuildTells
<1>2. CASE GuildOutage \/ NewSession \/ Writes
  BY <1>2, SessionTells, WritesTells
     DEF GuildOutage, NewSession, Writes, GuildFits, GuildTypeOK
<1>3. CASE OnGuild \/ OnGuildDelete \/ OnRole \/ OnVoiceState \/ OnMessage
  BY <1>3, DeliveredHeard
     DEF OnGuild, OnGuildDelete, OnRole, OnVoiceState, OnMessage, Delivered, GuildFits, GuildTypeOK
<1>4. ASSUME Same, Deaf, mix' = mix PROVE GuildFits' /\ EventsFit' /\ mix' = mix
  BY <1>4, HearsNothing DEF GuildFits, GuildTypeOK, Knows
<1>5. CASE MemberRead \/ GuildRead \/ RolesRead
  BY <1>4, <1>5 DEF MemberRead, GuildRead, RolesRead, guildVars
<1>6. CASE Looks \/ LookRead \/ LookTimesOut
  BY <1>4, <1>6 DEF Looks, LookRead, LookTimesOut, guildVars, cacheVars
<1>7. CASE BotAsks \/ \E s \in {"member", "guild", "channel"} : BotRead(s)
  BY <1>4, <1>7 DEF BotAsks, BotRead, guildVars, cacheVars
<1>8. CASE Posting \/ Served \/ Answered \/ Continues
  BY <1>4, <1>8 DEF Posting, Served, Answered, Continues, accessVars, guildVars, cacheVars
<1>9. CASE Tick
  BY <1>4, <1>9 DEF Tick
<1>10. CASE UNCHANGED vars
  BY <1>4, <1>10 DEF vars, accessVars, guildVars, cacheVars
<1> QED
  BY <1>1, <1>2, <1>3, <1>5, <1>6, <1>7, <1>8, <1>9, <1>10 DEF Next

\* A message that comes first was written to the guild the cache knows.
LEMMA HeadIsTrue ==
    ASSUME EventsFit, events # << >>, Head(events).kind = "message"
    PROVE  /\ TrueTo(guildState, Head(events))
           /\ Head(events) \in [kind : {"message"}, carries : {"bits", "roles", "nothing"},
                has : SUBSET Roles, bits : SUBSET Rights, truth : BOOLEAN]
<1>1. Head(events) \in GuildEvents
  BY DEF EventsFit
<1>2. mix = "manage"
  <2> SUFFICES ASSUME mix # "manage" PROVE FALSE
    OBVIOUS
  <2>1. 1 \in 1..Len(events) /\ Head(events) = events[1]
    BY DEF EventsFit
  <2> QED
    BY <2>1 DEF EventsFit, Unwritten
<1>3. PICK st : Replay(st, guildState, events, Knows(guild))
  BY <1>2 DEF EventsFit, Leads
<1>4. TrueTo(guildState, Head(events))
  BY <1>3, Consume DEF EventsFit
<1> QED
  BY <1>1, <1>4 DEF GuildEvents

CheckFits == DOMAIN check = DOMAIN Nobody /\ Verdict

\* A verdict of the gateway is the truth of the message; no other way of deciding
\* passes for one.
LEMMA CheckStep ==
    ASSUME GuildTypeOK, EventsFit, CheckFits, [Next]_vars PROVE CheckFits'
<1> USE DEF CheckFits, Verdict
<1>1. ASSUME check' = check PROVE CheckFits'
  BY <1>1
<1>2. ASSUME NEW c, NEW via, NEW v, check' = Decided(c, via, v), via # "gateway" PROVE CheckFits'
  BY <1>2 DEF Decided, Nobody
<1>3. CASE OnMessage
  <2> DEFINE m == Head(events)
             c == Asked(m)
  <2>1. /\ TrueTo(guildState, m)
        /\ m \in [kind : {"message"}, carries : {"bits", "roles", "nothing"}, has : SUBSET Roles,
                  bits : SUBSET Rights, truth : BOOLEAN]
    BY <1>3, HeadIsTrue DEF OnMessage, Delivered
  <2>2. /\ c.sent = m.truth /\ c.via = None /\ DOMAIN c = DOMAIN Nobody /\ c.pc = "member"
        /\ c.has = IF m.carries = "nothing" THEN {} ELSE m.has
    BY DEF Asked, Nobody
  <2>3. \/ check' = c
        \/ check' = Decided(c, "message", FromMessage(m))
        \/ check' = Decided(c, "cache", verdicts.value)
        \/ ComputeManage(c.has) # None /\ check' = Decided(c, "gateway", ComputeManage(c.has))
    BY <1>3 DEF OnMessage, Resolves
  <2> HIDE DEF c, m
  <2>4. ASSUME ComputeManage(c.has) # None PROVE ComputeManage(c.has) = YesNo(m.truth)
    <3>1. guildState # None /\ c.has = m.has
      BY <2>2, <2>4 DEF ComputeManage
    <3>2. m.truth = (guildState.owner = "user" \/ Manages(Bits(guildState.roles, m.has)))
      BY <2>1 DEF TrueTo
    <3> QED
      BY <2>4, <3>1, <3>2 DEF ComputeManage, YesNo
  <2>5. ASSUME check' = c PROVE CheckFits'
    <3>1. check'.via # "gateway"
      BY <2>2, <2>5, AccessAssumption
    <3> QED
      BY <2>2, <2>5, <3>1
  <2>6. ASSUME ComputeManage(c.has) # None, check' = Decided(c, "gateway", ComputeManage(c.has))
        PROVE  CheckFits'
    BY <2>2, <2>4, <2>6 DEF Decided, Nobody
  <2> QED
    BY <1>2, <2>3, <2>5, <2>6
<1>4. CASE MemberRead \/ GuildRead \/ RolesRead
  <2>1. \/ \E v : check' = Decided(check, "rest", v)
        \/ \E ids : check' = [check EXCEPT !.pc = "guild", !.member = ids]
        \/ \E some : check' = [check EXCEPT !.pc = "roles", !.roles = some]
    BY <1>4 DEF MemberRead, GuildRead, RolesRead, DecidedByRest
  <2>2. check.via # "gateway"
    BY <1>4 DEF MemberRead, GuildRead, RolesRead
  <2>3. ASSUME NEW ids, check' = [check EXCEPT !.pc = "guild", !.member = ids] PROVE CheckFits'
    <3>1. check'.via = check.via
      BY <2>3 DEF Nobody
    <3> QED
      BY <2>2, <2>3, <3>1
  <2>4. ASSUME NEW some, check' = [check EXCEPT !.pc = "roles", !.roles = some] PROVE CheckFits'
    <3>1. check'.via = check.via
      BY <2>4 DEF Nobody
    <3> QED
      BY <2>2, <2>4, <3>1
  <2>5. CASE \E v : check' = Decided(check, "rest", v)
    BY <1>2, <2>5
  <2>6. CASE \E ids : check' = [check EXCEPT !.pc = "guild", !.member = ids]
    BY <2>3, <2>6
  <2>7. CASE \E some : check' = [check EXCEPT !.pc = "roles", !.roles = some]
    BY <2>4, <2>7
  <2> QED
    BY <2>1, <2>5, <2>6, <2>7
<1>5. CASE \/ RoleChanges \/ RoleGoes \/ MemberChanges \/ OwnerChanges \/ OverwriteChanges
           \/ VoiceMoves \/ GuildOutage \/ NewSession \/ Writes
  BY <1>1, <1>5 DEF RoleChanges, RoleGoes, MemberChanges, OwnerChanges, OverwriteChanges,
     VoiceMoves, GuildOutage, NewSession, Writes, ChangesTo, callVars
<1>6. CASE OnGuild \/ OnGuildDelete \/ OnRole \/ OnVoiceState
  BY <1>1, <1>6 DEF OnGuild, OnGuildDelete, OnRole, OnVoiceState
<1>7. CASE Looks \/ LookRead \/ LookTimesOut \/ BotAsks \/ \E s \in {"member", "guild", "channel"} : BotRead(s)
  BY <1>1, <1>7 DEF Looks, LookRead, LookTimesOut, BotAsks, BotRead
<1>8. CASE Posting \/ Served \/ Answered \/ Continues \/ Tick
  BY <1>1, <1>8 DEF Posting, Served, Answered, Continues, Tick, accessVars, callVars
<1>9. CASE UNCHANGED vars
  BY <1>1, <1>9 DEF vars, accessVars, callVars
<1> QED
  BY <1>3, <1>4, <1>5, <1>6, <1>7, <1>8, <1>9 DEF Next
LookFits == /\ look \in [pc : {"idle", "asks", "waiting", "found", "none"}, joined : BOOLEAN]
            /\ Joins

\* While a lookup asks, a join is in the store, where the lookup will find it;
\* once it waits, a join ends the wait.
LEMMA LookStep == ASSUME LookFits, [Next]_vars PROVE LookFits'
<1> USE DEF LookFits, Joins
<1>1. ASSUME look' = look, voiceState' = voiceState PROVE LookFits'
  BY <1>1
<1>0. ASSUME NEW b \in BOOLEAN, look' = [look EXCEPT !.joined = b],
              b => look.pc = "asks" /\ voiceState' # None
       PROVE  LookFits'
  BY <1>0
<1>2. ASSUME NEW c, Upsert(c) \/ Seed(c) PROVE LookFits'
  <2>1. (look.pc = "asks" /\ c # None) \in BOOLEAN /\ (look.pc = "asks") \in BOOLEAN
    OBVIOUS
  <2>2. CASE Seed(c)
    BY <1>0, <2>1, <2>2 DEF Seed
  <2>3. CASE Upsert(c) /\ c = None
    BY <1>0, <2>3 DEF Upsert
  <2>4. CASE Upsert(c) /\ c # None /\ look.pc = "waiting"
    BY <2>4 DEF Upsert
  <2>5. CASE Upsert(c) /\ c # None /\ look.pc # "waiting"
    BY <1>0, <2>1, <2>5 DEF Upsert
  <2> QED
    BY <1>2, <2>2, <2>3, <2>4, <2>5
<1>3. CASE OnGuild
  <2>1. (\E c : Seed(c)) \/ (look' = look /\ voiceState' = voiceState)
    BY <1>3 DEF OnGuild
  <2> QED
    BY <1>1, <1>2, <2>1
<1>4. CASE OnGuildDelete \/ OnVoiceState
  BY <1>2, <1>4 DEF OnGuildDelete, OnVoiceState
<1>5. CASE OnRole \/ OnMessage
  BY <1>1, <1>5 DEF OnRole, OnMessage
<1>6. CASE Looks
  BY <1>6 DEF Looks, NoLook, cacheVars
<1>7. CASE LookRead
  <2>1. \/ look' = [pc |-> "found", joined |-> FALSE]
        \/ look' = WaitFor(look) /\ voiceState' = voiceState
    BY <1>7 DEF LookRead
  <2>2. CASE look' = [pc |-> "found", joined |-> FALSE]
    BY <2>2
  <2>3. CASE look' = WaitFor(look) /\ voiceState' = voiceState /\ voiceState # None
    <3>1. [look EXCEPT !.pc = "found"] \in [pc : {"found"}, joined : BOOLEAN]
      OBVIOUS
    <3>2. look' = [[look EXCEPT !.pc = "found"] EXCEPT !.joined = FALSE]
      BY <2>3 DEF WaitFor
    <3>3. look' = [pc |-> "found", joined |-> FALSE]
      BY <3>1, <3>2
    <3> QED
      BY <3>3
  <2>4. CASE look' = WaitFor(look) /\ voiceState' = voiceState /\ voiceState = None
    BY <2>4 DEF WaitFor
  <2> QED
    BY <2>1, <2>2, <2>3, <2>4
<1>8. CASE LookTimesOut
  BY <1>8 DEF LookTimesOut, cacheVars
<1>9. CASE \/ RoleChanges \/ RoleGoes \/ MemberChanges \/ OwnerChanges \/ OverwriteChanges
           \/ VoiceMoves \/ GuildOutage \/ NewSession \/ Writes
  BY <1>1, <1>9 DEF RoleChanges, RoleGoes, MemberChanges, OwnerChanges, OverwriteChanges,
     VoiceMoves, GuildOutage, NewSession, Writes, ChangesTo, callVars, cacheVars
<1>10. CASE MemberRead \/ GuildRead \/ RolesRead
  BY <1>1, <1>10 DEF MemberRead, GuildRead, RolesRead
<1>11. CASE BotAsks \/ \E s \in {"member", "guild", "channel"} : BotRead(s)
  BY <1>1, <1>11 DEF BotAsks, BotRead, cacheVars
<1>12. CASE Posting \/ Served \/ Answered \/ Continues \/ Tick
  BY <1>1, <1>12 DEF Posting, Served, Answered, Continues, Tick, accessVars, callVars, cacheVars
<1>13. CASE UNCHANGED vars
  BY <1>1, <1>13 DEF vars, accessVars, callVars, cacheVars
<1> QED
  BY <1>3, <1>4, <1>5, <1>6, <1>7, <1>8, <1>9, <1>10, <1>11, <1>12, <1>13 DEF Next

LEMMA EventsParts ==
    EventsInv <=> GuildFits /\ EventsFit /\ CheckFits /\ LookFits /\ mix \in Mixes
BY DEF EventsInv, GuildTypeOK, GuildFits, EventsFit, CheckFits, LookFits

LEMMA EventsInit == Init => EventsInv
<1> SUFFICES ASSUME Init PROVE EventsInv
  OBVIOUS
<1>1. GuildFits
  <2>1. [r \in Roles |-> {}] \in RoleTables
    BY DEF RoleTables
  <2> QED
    BY <2>1 DEF Init, GuildFits
<1>2. CheckFits /\ LookFits /\ mix \in Mixes
  BY AccessAssumption DEF Init, CheckFits, Verdict, LookFits, Joins, Nobody, NoLook
<1>3. Whole \in GuildEvents /\ Whole.kind = "create" /\ \A s : After(s, Whole) = Knows(guild) /\ TrueTo(s, Whole)
  BY <1>1 DEF GuildFits, Whole, GuildEvents, After, Knows, TrueTo
<1>4. CASE mix \in {"manage", "voice"}
  <2> DEFINE e == [kind |-> "ready"]
             st == [i \in 0..2 |-> IF i = 0 THEN guildState
                                   ELSE IF i = 1 THEN After(guildState, e) ELSE Knows(guild)]
  <2>1. e \in GuildEvents /\ e.kind = "ready" /\ TrueTo(guildState, e)
    BY DEF GuildEvents, TrueTo
  <2>2. events = <<e, Whole>>
    BY <1>4 DEF Init
  <2> HIDE DEF e
  <2>3. events \in Seq(GuildEvents) /\ Len(events) = 2 /\ events[1] = e /\ events[2] = Whole
    BY <1>3, <2>1, <2>2
  <2>4. st[0] = guildState /\ st[1] = After(guildState, e) /\ st[2] = Knows(guild)
    OBVIOUS
  <2> HIDE DEF st
  <2>5. \A i \in 1..2 : st[i] = After(st[i - 1], events[i]) /\ TrueTo(st[i - 1], events[i])
    <3>1. \A i \in 1..2 : (i = 1 /\ i - 1 = 0) \/ (i = 2 /\ i - 1 = 1)
      OBVIOUS
    <3> QED
      BY <1>3, <2>1, <2>3, <2>4, <3>1
  <2>6. Leads /\ Unwritten
    BY <1>3, <2>1, <2>3, <2>4, <2>5 DEF Leads, Replay, Unwritten
  <2> QED
    BY <1>1, <1>2, <2>3, <2>6, EventsParts DEF EventsFit
<1>5. CASE mix \notin {"manage", "voice"}
  <2>1. events = << >> /\ mix # "manage"
    BY <1>5 DEF Init
  <2> QED
    BY <1>1, <1>2, <2>1, EventsParts DEF EventsFit, Unwritten
<1> QED
  BY <1>4, <1>5

LEMMA EventsNext == ASSUME EventsInv, [Next]_vars PROVE EventsInv'
<1>1. GuildTypeOK /\ EventsFit /\ CheckFits /\ LookFits /\ mix \in Mixes
  BY EventsParts DEF EventsInv
<1>2. GuildFits' /\ EventsFit' /\ mix' = mix
  BY <1>1, EventsStep
<1>3. CheckFits' /\ LookFits'
  BY <1>1, CheckStep, LookStep
<1> QED
  BY <1>1, <1>2, <1>3 DEF EventsInv, GuildTypeOK, GuildFits, EventsFit, CheckFits, LookFits

\* A verdict by what the gateway told is what was true when the message was written,
\* and a join during a lookup is never missed, for any number of changes and any
\* events under way, across outages and new sessions.
THEOREM EventsHeeded == Spec => []EventsAreHeeded
<1>1. EventsInv => EventsAreHeeded
  BY DEF EventsInv, Verdict, Joins, EventsAreHeeded, GatewayVerdictIsFresh, NoLostJoin
<1>2. Init => EventsInv
  BY EventsInit
<1>3. EventsInv /\ [Next]_vars => EventsInv'
  BY EventsNext
<1> QED
  BY <1>1, <1>2, <1>3, PTL DEF Spec

(*------------------------------- how old a read is ------------------------*)
\* While no limit is met, a request is answered or repeated after Backoff ticks.
Unhindered(f) == f \cap {"route", "global"} = {}
Longest(f) == IF "unclear" \in f THEN (MaxRetries - 1) * Backoff ELSE 0
OnTime(c, f) ==
    /\ c.pc # "idle" => c.pc # "limited" /\ c.kind = "get"
    /\ c.pc \in {"sent", "answered", "asleep"} => c.attempt \in 1..MaxRetries
    /\ c.pc \in {"sent", "answered"} => c.attempt = 1 \/ "unclear" \in f
    /\ c.pc = "answered" => c.out \in {"done"} \cup f /\ c.wait = 0
    /\ c.pc = "asleep" => c.attempt < MaxRetries /\ "unclear" \in f /\ c.left <= Backoff

\* The ticks a call has taken, or the most it may have if it is over.
Spent(c, f) == CASE c.pc \in {"sent", "answered"} -> (c.attempt - 1) * Backoff
                 [] c.pc = "asleep" -> c.attempt * Backoff - c.left
                 [] OTHER -> Longest(f)
\* What a call c may become: it goes on.
GoesOn(c, n, f) ==
    /\ OnTime(n, f) /\ n \in RestCalls /\ Spent(n, f) >= Spent(c, f)
    /\ (n.pc = "idle") = (c.pc = "idle")
\* There is, or will be, what it read.
Carries(c) == c.pc = "returned" \/ (c.pc = "answered" /\ c.out = "done")

LEMMA Times ==
    ASSUME NEW n \in Nat
    PROVE  /\ n * Backoff \in Nat /\ (n + 1) * Backoff = n * Backoff + Backoff
           /\ \A m \in Nat : m <= n => m * Backoff <= n * Backoff
<1>1. Backoff \in Nat
  BY RestAssumption
<1>2. n * Backoff \in Nat /\ (n + 1) * Backoff = n * Backoff + Backoff
  BY <1>1
<1>3. ASSUME NEW m \in Nat, m <= n PROVE m * Backoff <= n * Backoff
  <2> PICK k \in Nat : n = m + k
    BY <1>3
  <2>1. n * Backoff = m * Backoff + k * Backoff /\ k * Backoff \in Nat /\ m * Backoff \in Nat
    BY <1>1
  <2> QED
    BY <2>1
<1> QED
  BY <1>2, <1>3

LEMMA SpentBounds ==
    ASSUME NEW f, NEW c \in RestCalls, OnTime(c, f)
    PROVE  Longest(f) \in Nat /\ Spent(c, f) \in 0..Longest(f)
<1> DEFINE m == MaxRetries - 1
<1>0. m \in Nat /\ MaxRetries \in Nat /\ Backoff \in Nat
  BY RestAssumption
<1>1. m * Backoff \in Nat /\ \A n \in Nat : n <= m => n * Backoff <= m * Backoff
  BY <1>0, Times
<1>2. Longest(f) \in Nat
  BY <1>1 DEF Longest
<1>3. CASE c.pc \in {"sent", "answered"}
  <2>1. c.attempt \in 1..MaxRetries /\ (c.attempt = 1 \/ "unclear" \in f)
    BY <1>3 DEF OnTime
  <2>2. c.attempt - 1 \in Nat /\ c.attempt - 1 <= m
    BY <2>1, <1>0
  <2>3. Spent(c, f) = (c.attempt - 1) * Backoff
    BY <1>3 DEF Spent
  <2>4. CASE "unclear" \in f
    <3>1. Longest(f) = m * Backoff
      BY <2>4 DEF Longest
    <3>2. (c.attempt - 1) * Backoff <= m * Backoff /\ (c.attempt - 1) * Backoff \in Nat
      BY <1>1, <2>2, Times
    <3> QED
      BY <1>1, <2>3, <3>1, <3>2
  <2>5. CASE c.attempt = 1
    <3>1. c.attempt - 1 = 0 /\ 0 * Backoff = 0
      BY <1>0, <2>5
    <3> QED
      BY <1>2, <2>3, <3>1
  <2> QED
    BY <2>1, <2>4, <2>5
<1>4. CASE c.pc = "asleep"
  <2>1. c.attempt \in 1..MaxRetries /\ c.attempt < MaxRetries /\ "unclear" \in f /\ c.left <= Backoff /\ c.left \in Nat
    BY <1>4 DEF OnTime, RestCalls
  <2>2. c.attempt - 1 \in Nat /\ c.attempt \in Nat /\ c.attempt <= m
    BY <2>1, <1>0
  <2>3. Spent(c, f) = c.attempt * Backoff - c.left
    BY <1>4 DEF Spent
  <2>4. c.attempt * Backoff <= m * Backoff /\ c.attempt * Backoff \in Nat
    BY <1>1, <2>2, Times
  <2>5. c.attempt * Backoff = (c.attempt - 1) * Backoff + Backoff /\ (c.attempt - 1) * Backoff \in Nat
    <3> DEFINE k == c.attempt - 1
    <3>1. k \in Nat /\ k + 1 = c.attempt
      BY <2>2
    <3>2. k * Backoff \in Nat /\ (k + 1) * Backoff = k * Backoff + Backoff
      BY <3>1, Times
    <3> QED
      BY <3>1, <3>2
  <2>6. Longest(f) = m * Backoff
    BY <2>1 DEF Longest
  <2> QED
    BY <1>0, <1>1, <2>1, <2>3, <2>4, <2>5, <2>6
<1>5. CASE c.pc \notin {"sent", "answered", "asleep"}
  BY <1>2, <1>5 DEF Spent
<1> QED
  BY <1>2, <1>3, <1>4, <1>5

\* A call that begins has taken no time.
LEMMA AskedOnTime ==
    ASSUME limited = 0, NEW f, NEW c, c = Requesting("get", FALSE)
    PROVE  c \in RestCalls /\ OnTime(c, f) /\ c.pc = "sent" /\ Spent(c, f) = 0
<1> DEFINE i == [Idle EXCEPT !.kind = "get", !.attempt = 1, !.second = FALSE]
<1>1. i \in RestCalls /\ i.kind = "get" /\ i.attempt = 1
  BY DEF Idle, RestCalls, Pcs, Kinds
<1>2. c = [i EXCEPT !.pc = "sent"]
  BY DEF Requesting, WaitForGlobalRateLimit
<1> HIDE DEF i
<1>3. c \in RestCalls /\ c.pc = "sent" /\ c.kind = "get" /\ c.attempt = 1
  BY <1>1, <1>2 DEF RestCalls, Pcs
<1>4. OnTime(c, f)
  <2>1. 1 \in 1..MaxRetries
    BY RestAssumption
  <2> QED
    BY <1>3, <2>1 DEF OnTime
<1>5. Spent(c, f) = 0
  <2>1. (1 - 1) * Backoff = 0
    BY RestAssumption
  <2> QED
    BY <1>3, <2>1 DEF Spent
<1> QED
  BY <1>3, <1>4, <1>5

\* No other ends than these, and it is repeated only if nobody knows what came of it.
LEMMA ReceivedOnTime ==
    ASSUME RestInv, limited = 0, NEW s \in Slots, NEW f, Unhindered(f), OnTime(call[s], f), Receive(s)
    PROVE  /\ limited' = 0
           /\ \E n : call' = [call EXCEPT ![s] = n] /\ GoesOn(call[s], n, f) /\ (Carries(call[s]) => Carries(n))
<1> DEFINE c == call[s]
           again == ShouldRetry(c.kind, c.out) /\ c.attempt < MaxRetries
           falls == c.out = "fallback" /\ c.kind \in {"message", "gateway"} /\ ~c.second
           next == CASE c.out = "done" -> [Idle EXCEPT !.pc = "returned", !.kind = c.kind]
                     [] again -> [c EXCEPT !.pc = "asleep", !.left = DelayOf(c), !.out = None, !.wait = 0]
                     [] falls -> Requesting(c.kind, TRUE)
                     [] OTHER -> [Idle EXCEPT !.pc = "failed", !.kind = c.kind]
<1>0. call' = [call EXCEPT ![s] = next]
  BY DEF Receive
<1>1. /\ c \in RestCalls /\ c.pc = "answered" /\ c.kind = "get" /\ c.out \in {"done"} \cup f /\ c.wait = 0
      /\ c.attempt \in 1..MaxRetries
  BY DEF RestInv, RestTypeOK, Receive, OnTime
<1>2. c.out \notin {"route", "global"} /\ ~falls
  BY <1>1 DEF Unhindered
<1>3. limited' = 0
  BY <1>2 DEF Receive, LimitAfter
<1>4. Spent(c, f) \in 0..Longest(f) /\ Longest(f) \in Nat
  BY <1>1, SpentBounds
<1>5. ASSUME NEW pc \in {"returned", "failed"}, next = [Idle EXCEPT !.pc = pc, !.kind = c.kind]
      PROVE  GoesOn(c, next, f) /\ next.pc = pc
  <2>1. next \in RestCalls /\ next.pc = pc /\ next.kind = "get"
    <3> HIDE DEF next
    <3> QED
      BY <1>1, <1>5 DEF Idle, RestCalls, Pcs
  <2> HIDE DEF next
  <2>2. Spent(next, f) = Longest(f) /\ OnTime(next, f)
    BY <2>1 DEF Spent, OnTime
  <2> QED
    BY <1>1, <1>4, <2>1, <2>2 DEF GoesOn
<1>6. CASE c.out = "done"
  <2>1. next = [Idle EXCEPT !.pc = "returned", !.kind = c.kind]
    BY <1>6, <1>2 DEF ShouldRetry
  <2>2. GoesOn(c, next, f) /\ Carries(next)
    BY <1>5, <2>1 DEF Carries
  <2> HIDE DEF next
  <2> QED
    BY <1>0, <1>3, <2>2
<1>7. CASE c.out # "done" /\ again
  <2> DEFINE n1 == [c EXCEPT !.pc = "asleep"]
             n2 == [n1 EXCEPT !.left = Backoff]
             n3 == [n2 EXCEPT !.out = None]
             n == [n3 EXCEPT !.wait = 0]
  <2>1. next = n
    BY <1>1, <1>2, <1>7 DEF DelayOf
  <2>2. n1 \in RestCalls /\ n1.pc = "asleep" /\ n1.kind = "get" /\ n1.attempt = c.attempt
    BY <1>1 DEF RestCalls, Pcs
  <2>3. n2 \in RestCalls /\ n2.pc = "asleep" /\ n2.kind = "get" /\ n2.attempt = c.attempt /\ n2.left = Backoff
    <3> HIDE DEF n1
    <3> QED
      BY <2>2, RestAssumption DEF RestCalls
  <2>4. n3 \in RestCalls /\ n3.pc = "asleep" /\ n3.kind = "get" /\ n3.attempt = c.attempt /\ n3.left = Backoff
    <3> HIDE DEF n2
    <3> QED
      BY <2>3 DEF RestCalls
  <2>5. n \in RestCalls /\ n.pc = "asleep" /\ n.kind = "get" /\ n.attempt = c.attempt /\ n.left = Backoff
    <3> HIDE DEF n3
    <3> QED
      BY <2>4 DEF RestCalls
  <2> HIDE DEF n, next
  <2>6. "unclear" \in f /\ c.attempt < MaxRetries
    BY <1>1, <1>2, <1>7 DEF ShouldRetry
  <2>7. OnTime(n, f)
    BY <1>1, <2>5, <2>6, RestAssumption DEF OnTime
  <2>8. Spent(n, f) = Spent(c, f)
    <3> DEFINE k == c.attempt - 1
    <3>1. k \in Nat /\ k + 1 = c.attempt
      BY <1>1
    <3>2. k * Backoff \in Nat /\ (k + 1) * Backoff = k * Backoff + Backoff
      BY <3>1, Times
    <3>3. Spent(n, f) = c.attempt * Backoff - Backoff /\ Spent(c, f) = k * Backoff
      BY <1>1, <2>5 DEF Spent
    <3> QED
      BY <3>1, <3>2, <3>3, RestAssumption
  <2>9. GoesOn(c, n, f)
    BY <1>1, <1>4, <2>5, <2>7, <2>8 DEF GoesOn
  <2>10. ~Carries(c)
    BY <1>1, <1>7 DEF Carries
  <2> QED
    BY <1>0, <1>3, <2>1, <2>9, <2>10
<1>8. CASE c.out # "done" /\ ~again
  <2>1. next = [Idle EXCEPT !.pc = "failed", !.kind = c.kind]
    BY <1>8, <1>2
  <2>2. GoesOn(c, next, f)
    BY <1>5, <2>1
  <2> HIDE DEF next
  <2> QED
    BY <1>0, <1>1, <1>3, <1>8, <2>2 DEF Carries
<1> QED
  BY <1>6, <1>7, <1>8

LEMMA ServedOnTime ==
    ASSUME RestInv, NEW s \in Slots, NEW out \in Outcomes, NEW wait \in Told \cup {0}, NEW f, Unhindered(f),
           out \in {"done"} \cup f, OnTime(call[s], f), Serve(s, out, wait)
    PROVE  /\ limited' = limited /\ call[s].pc = "sent"
           /\ \E n : call' = [call EXCEPT ![s] = n] /\ GoesOn(call[s], n, f) /\ n.pc = "answered" /\ n.out = out
<1> DEFINE c == call[s]
           n1 == [c EXCEPT !.pc = "answered"]
           n2 == [n1 EXCEPT !.out = out]
           n == [n2 EXCEPT !.wait = 0]
<1>1. /\ c \in RestCalls /\ c.pc = "sent" /\ limited' = limited /\ c.kind = "get"
      /\ c.attempt \in 1..MaxRetries /\ (c.attempt = 1 \/ "unclear" \in f)
  BY DEF Serve, RestInv, RestTypeOK, OnTime
<1>2. wait = 0
  BY DEF Serve, Unhindered
<1>3. n1 \in RestCalls /\ n1.pc = "answered" /\ n1.kind = c.kind /\ n1.attempt = c.attempt
  BY <1>1 DEF RestCalls, Pcs
<1>4. n2 \in RestCalls /\ n2.pc = "answered" /\ n2.kind = c.kind /\ n2.attempt = c.attempt /\ n2.out = out
  <2> HIDE DEF n1
  <2> QED
    BY <1>3 DEF RestCalls
<1>5. /\ n \in RestCalls /\ n.pc = "answered" /\ n.kind = c.kind /\ n.attempt = c.attempt /\ n.out = out
      /\ n.wait = 0
  <2> HIDE DEF n2
  <2> QED
    BY <1>4 DEF RestCalls
<1>6. call' = [call EXCEPT ![s] = n]
  <2>1. call' = [call EXCEPT ![s] = [call[s] EXCEPT !.pc = "answered", !.out = out, !.wait = wait]]
    BY DEF Serve, RestInv, RestTypeOK
  <2> QED
    BY <1>2, <2>1
<1> HIDE DEF n
<1>7. OnTime(n, f)
  BY <1>1, <1>5 DEF OnTime
<1>8. Spent(n, f) = Spent(c, f) /\ Spent(c, f) \in Nat
  <2>1. Spent(n, f) = Spent(c, f)
    BY <1>1, <1>5 DEF Spent
  <2>2. Spent(n, f) \in 0..Longest(f) /\ Longest(f) \in Nat
    BY <1>5, <1>7, SpentBounds
  <2> QED
    BY <2>1, <2>2
<1>9. GoesOn(c, n, f)
  BY <1>1, <1>5, <1>7, <1>8 DEF GoesOn
<1> QED
  BY <1>1, <1>5, <1>6, <1>9

LEMMA WokenOnTime ==
    ASSUME RestInv, limited = 0, NEW s \in Slots, NEW f, OnTime(call[s], f), Wakes(s)
    PROVE  /\ limited' = 0 /\ ~Carries(call[s])
           /\ \E n : call' = [call EXCEPT ![s] = n] /\ GoesOn(call[s], n, f)
<1> DEFINE c == call[s]
           n1 == [c EXCEPT !.attempt = c.attempt + 1]
           n == [n1 EXCEPT !.pc = "sent"]
<1>1. /\ c \in RestCalls /\ c.pc = "asleep" /\ c.left = 0 /\ limited' = 0 /\ c.kind = "get"
      /\ c.attempt \in 1..MaxRetries /\ c.attempt < MaxRetries /\ "unclear" \in f
  BY DEF Wakes, RestInv, RestTypeOK, OnTime
<1>2. n1 \in RestCalls /\ n1.kind = "get" /\ n1.attempt = c.attempt + 1
  BY <1>1 DEF RestCalls
<1>3. n \in RestCalls /\ n.kind = "get" /\ n.attempt = c.attempt + 1 /\ n.pc = "sent"
  <2> HIDE DEF n1
  <2> QED
    BY <1>2 DEF RestCalls, Pcs
<1>4. call' = [call EXCEPT ![s] = n]
  BY <1>1 DEF Wakes, WaitForGlobalRateLimit
<1> HIDE DEF n
<1>5. c.attempt + 1 \in 1..MaxRetries /\ (c.attempt + 1) - 1 = c.attempt
  BY <1>1, RestAssumption
<1>6. OnTime(n, f)
  BY <1>1, <1>3, <1>5 DEF OnTime
<1>7. Spent(n, f) = Spent(c, f)
  <2>1. c.attempt * Backoff \in Nat
    BY <1>1, Times
  <2>2. Spent(n, f) = c.attempt * Backoff
    BY <1>3, <1>5 DEF Spent
  <2>3. Spent(c, f) = c.attempt * Backoff - 0
    BY <1>1 DEF Spent
  <2> QED
    BY <2>1, <2>2, <2>3
<1>8. Spent(n, f) \in 0..Longest(f) /\ Longest(f) \in Nat
  BY <1>3, <1>6, SpentBounds
<1>9. GoesOn(c, n, f)
  BY <1>1, <1>3, <1>6, <1>7, <1>8 DEF GoesOn
<1> QED
  BY <1>1, <1>4, <1>9 DEF Carries

LEMMA TickedOnTime ==
    ASSUME RestInv, RestTick, limited = 0, NEW s \in Slots, NEW f, OnTime(call[s], f)
    PROVE  /\ OnTime(call'[s], f) /\ call'[s] \in RestCalls /\ call'[s].pc = call[s].pc /\ limited' = 0
           /\ call[s].pc \in {"asleep", "idle", "returned", "failed"}
           /\ call[s].pc = "asleep" => Spent(call'[s], f) = Spent(call[s], f) + 1
<1> DEFINE c == call[s]
           n == [c EXCEPT !.left = Less(c.left)]
<1>1. c \in RestCalls /\ call'[s] = n /\ c.pc \notin {"sent", "answered"} /\ limited' = 0
      /\ (c.pc = "asleep" => c.left > 0) /\ c.pc \in Pcs
  BY DEF RestTick, RestInv, RestTypeOK, Less, RestCalls
<1>2. Less(c.left) \in Nat /\ Less(c.left) <= c.left /\ (c.left > 0 => Less(c.left) = c.left - 1) /\ c.left \in Nat
  BY <1>1 DEF Less, RestCalls
<1>3. n \in RestCalls /\ n.pc = c.pc /\ n.kind = c.kind /\ n.attempt = c.attempt /\ n.left = Less(c.left)
  BY <1>1, <1>2 DEF RestCalls
<1> HIDE DEF n
<1>4. c.pc \in {"asleep", "idle", "returned", "failed"}
  BY <1>1 DEF OnTime, Pcs
<1>5. OnTime(n, f)
  <2>1. c.pc = "asleep" => c.left <= Backoff /\ Backoff \in Nat
    BY RestAssumption DEF OnTime
  <2>2. c.pc = "asleep" => n.left <= Backoff
    BY <1>2, <1>3, <2>1
  <2> QED
    BY <1>3, <1>4, <2>2 DEF OnTime
<1>6. c.pc = "asleep" => Spent(n, f) = Spent(c, f) + 1
  <2> SUFFICES ASSUME c.pc = "asleep" PROVE Spent(n, f) = Spent(c, f) + 1
    OBVIOUS
  <2>1. c.attempt * Backoff \in Nat
    BY Times DEF OnTime
  <2>2. Spent(n, f) = c.attempt * Backoff - (c.left - 1) /\ Spent(c, f) = c.attempt * Backoff - c.left
    BY <1>1, <1>2, <1>3 DEF Spent
  <2> QED
    BY <1>2, <2>1, <2>2
<1> QED
  BY <1>1, <1>3, <1>4, <1>5, <1>6

(*----------------------- the reads of the two lookups ---------------------*)
\* The calls that a lookup of the user's right, or of the bot's, waits for.
RestPcs == {"member", "guild", "roles"}
Asking == IF mix = "manage" THEN IF check.pc \in RestPcs THEN {"member"} ELSE {} ELSE botCheck.open
Looked == mix \in {"manage", "bot"} /\ Unhindered(Fails[mix])

\* Nobody else calls; what is read is the guild as it is, unless it changed in this tick.
Requested ==
    /\ limited = 0 /\ DOMAIN read = Reads /\ stable \in Nat
    /\ \A s \in Slots : OnTime(call[s], Fails[mix]) /\ (call[s].pc = "idle") = (s \notin Asking)
    /\ \A s \in Reads : read[s] # None => Carries(call[s]) /\ (stable > 0 => read[s] = guild)
SpentBy(s) == Spent(call[s], Fails[mix])
Onward == \A s \in Slots : SpentBy(s)' >= SpentBy(s)

LEMMA SlotSpent == ASSUME RestInv, Requested, NEW s \in Slots
                   PROVE  Longest(Fails[mix]) \in Nat /\ SpentBy(s) \in 0..Longest(Fails[mix])
BY SpentBounds DEF Requested, RestInv, RestTypeOK, SpentBy

LEMMA QuietCalls ==
    ASSUME RestInv, Requested, UNCHANGED <<restVars, read, mix>>, Asking' = Asking,
           stable' = 0 \/ (stable' = stable /\ guild' = guild)
    PROVE  Requested' /\ Onward
<1>1. call' = call /\ limited' = limited /\ read' = read /\ mix' = mix
  BY DEF restVars
<1>2. Requested'
  BY <1>1 DEF Requested
<1>3. \A s \in Slots : SpentBy(s)' = SpentBy(s) /\ SpentBy(s) \in Nat
  <2>1. \A s \in Slots : SpentBy(s)' = SpentBy(s)
    BY <1>1 DEF SpentBy
  <2>2. \A s \in Slots : SpentBy(s) \in Nat
    BY SlotSpent
  <2> QED
    BY <2>1, <2>2
<1> QED
  BY <1>2, <1>3 DEF Onward

LEMMA CallGoesOn ==
    ASSUME RestInv, Requested, NEW s \in Slots, NEW n, call' = [call EXCEPT ![s] = n], limited' = 0,
           GoesOn(call[s], n, Fails[mix]), mix' = mix, Asking' = Asking, stable' = stable, guild' = guild,
           \/ read' = read /\ (Carries(call[s]) => Carries(n))
           \/ s \in Reads /\ read' = [read EXCEPT ![s] = guild] /\ Carries(n)
    PROVE  Requested' /\ Onward
<1>1. call'[s] = n /\ \A r \in Slots \ {s} : call'[r] = call[r]
  BY DEF RestInv, RestTypeOK
<1>2. \A r \in Slots : OnTime(call'[r], Fails[mix]) /\ (call'[r].pc = "idle") = (r \notin Asking)
  BY <1>1 DEF Requested, GoesOn
<1>3. Reads \subseteq Slots
  BY AccessAssumption
<1>4. \A r \in Reads : read'[r] # None => Carries(call'[r]) /\ (stable > 0 => read'[r] = guild)
  BY <1>1, <1>3 DEF Requested
<1>5. Requested'
  BY <1>2, <1>4 DEF Requested
<1>6. \A r \in Slots : SpentBy(r)' = Spent(call'[r], Fails[mix])
  BY DEF SpentBy
<1>7. SpentBy(s)' >= SpentBy(s)
  BY <1>1, <1>6 DEF SpentBy, GoesOn
<1>8. ASSUME NEW r \in Slots \ {s} PROVE SpentBy(r)' >= SpentBy(r)
  <2>1. SpentBy(r) \in Nat
    BY SlotSpent
  <2> QED
    BY <1>1, <1>6, <2>1 DEF SpentBy
<1> QED
  BY <1>5, <1>7, <1>8 DEF Onward

LEMMA CallBegins ==
    ASSUME RestInv, Requested, NEW some \in SUBSET Slots, Begins(some, "get"), Asking' = Asking \cup some,
           mix' = mix, stable' = stable, guild' = guild, DOMAIN read' = Reads,
           \A s \in Reads : read'[s] = None \/ (s \notin some /\ read'[s] = read[s])
    PROVE  /\ Requested'
           /\ \A s \in Slots : SpentBy(s)' = IF s \in some THEN 0 ELSE SpentBy(s)
<1>1. /\ limited' = 0
      /\ \A s \in Slots : call'[s] = IF s \in some THEN Requesting("get", FALSE) ELSE call[s]
  BY DEF Begins, Requested
<1>2. \A s \in some : OnTime(call'[s], Fails[mix]) /\ call'[s].pc = "sent" /\ Spent(call'[s], Fails[mix]) = 0
  <2> SUFFICES ASSUME NEW s \in some
               PROVE OnTime(call'[s], Fails[mix]) /\ call'[s].pc = "sent" /\ Spent(call'[s], Fails[mix]) = 0
    OBVIOUS
  <2>1. call'[s] = Requesting("get", FALSE) /\ limited = 0
    BY <1>1 DEF Requested
  <2> QED
    BY <2>1, AskedOnTime
<1>3. \A s \in Slots : OnTime(call'[s], Fails[mix]) /\ (call'[s].pc = "idle") = (s \notin Asking \cup some)
  BY <1>1, <1>2 DEF Requested
<1>4. Reads \subseteq Slots
  BY AccessAssumption
<1>5. \A s \in Reads : read'[s] # None => Carries(call'[s]) /\ (stable > 0 => read'[s] = guild)
  BY <1>1, <1>4 DEF Requested
<1>6. Requested'
  BY <1>1, <1>3, <1>5 DEF Requested
<1>7. \A s \in Slots : SpentBy(s)' = Spent(call'[s], Fails[mix])
  BY DEF SpentBy
<1> QED
  BY <1>1, <1>2, <1>6, <1>7 DEF SpentBy

LEMMA CallTaken ==
    ASSUME RestInv, Requested, NEW s \in Slots, Taken(s), Asking' = Asking \ {s},
           mix' = mix, stable' = stable, guild' = guild, read' = [read EXCEPT ![s] = None]
    PROVE  /\ Requested'
           /\ \A r \in Slots \ {s} : SpentBy(r)' = SpentBy(r)
<1>1. limited' = 0 /\ call'[s] = Idle /\ \A r \in Slots \ {s} : call'[r] = call[r]
  BY DEF Taken, Requested, RestInv, RestTypeOK
<1>2. OnTime(Idle, Fails[mix]) /\ Idle.pc = "idle"
  BY DEF OnTime, Idle
<1>3. \A r \in Slots : OnTime(call'[r], Fails[mix]) /\ (call'[r].pc = "idle") = (r \notin Asking \ {s})
  BY <1>1, <1>2 DEF Requested
<1>4. Reads \subseteq Slots
  BY AccessAssumption
<1>5. \A r \in Reads : read'[r] # None => Carries(call'[r]) /\ (stable > 0 => read'[r] = guild)
  BY <1>1, <1>4 DEF Requested
<1>6. Requested'
  BY <1>1, <1>3, <1>5 DEF Requested
<1>7. \A r \in Slots : SpentBy(r)' = Spent(call'[r], Fails[mix])
  BY DEF SpentBy
<1> QED
  BY <1>1, <1>6, <1>7 DEF SpentBy

\* Who is not yet answered sleeps, and what was read is taken.
LEMMA CallsTick ==
    ASSUME RestInv, Requested, mix \in {"manage", "bot"}, Tick
    PROVE  /\ Requested' /\ mix' = mix /\ guild' = guild /\ stable' <= stable + 1 /\ stable' \in Nat
           /\ \A s \in Asking \cap Slots : SpentBy(s)' = SpentBy(s) + 1
<1>0. /\ RestTick /\ mix' = mix /\ guild' = guild /\ read' = read /\ Asking' = Asking
      /\ stable' = IF stable = StableCap THEN stable ELSE stable + 1
  BY DEF Tick, callVars, Asking
<1>1. stable' \in Nat /\ stable' <= stable + 1
  BY <1>0 DEF Requested
<1>2. \A s \in Slots : /\ OnTime(call'[s], Fails[mix]) /\ call'[s].pc = call[s].pc /\ limited' = 0
                       /\ call[s].pc \in {"asleep", "idle", "returned", "failed"}
                       /\ call[s].pc = "asleep" => Spent(call'[s], Fails[mix]) = Spent(call[s], Fails[mix]) + 1
  BY <1>0, TickedOnTime DEF Requested
<1>3. limited' = 0
  BY <1>0 DEF RestTick, Less, Requested
<1>4. \A s \in Asking \cap Slots : call[s].pc = "asleep"
  <2>1. \A s \in Asking : ~Settled(s)
    BY DEF Tick, Asking, RestPcs
  <2> QED
    BY <1>2, <2>1 DEF Requested, Settled
<1>5. \A s \in Reads : read[s] = None
  <2> SUFFICES ASSUME NEW s \in Reads, read[s] # None PROVE FALSE
    OBVIOUS
  <2>1. s \in Slots /\ Carries(call[s])
    BY AccessAssumption DEF Requested
  <2>2. call[s].pc = "returned"
    BY <1>2, <2>1 DEF Carries
  <2> QED
    BY <1>4, <2>1, <2>2 DEF Requested
<1>6. Requested'
  BY <1>0, <1>1, <1>2, <1>3, <1>5 DEF Requested
<1>7. \A s \in Slots : SpentBy(s)' = Spent(call'[s], Fails[mix])
  BY <1>0 DEF SpentBy
<1> QED
  BY <1>0, <1>1, <1>2, <1>4, <1>6, <1>7 DEF SpentBy

BotOnly == mix # "bot" => botCheck.open = {}

\* Steps that change the guild, and steps that only bring calls on.
Changed == stable' = 0 /\ UNCHANGED <<check, verdicts, botCheck, botCache>>
Still == UNCHANGED <<stable, guild, check, verdicts, botCheck, botCache>> /\ Onward
Looking == \/ OnMessage \/ MemberRead \/ GuildRead \/ RolesRead
           \/ BotAsks \/ \E s \in {"member", "guild", "channel"} : BotRead(s)
           \/ Tick

LEMMA StepsSorted ==
    ASSUME RestInv, Looked, Requested, [Next]_vars
    PROVE  \/ Requested' /\ mix' = mix /\ (Changed \/ Still)
           \/ Looking
<1>1. CASE RoleChanges \/ RoleGoes \/ MemberChanges \/ OwnerChanges \/ OverwriteChanges \/ VoiceMoves
  <2>1. \E g : ChangesTo(g)
    BY <1>1 DEF RoleChanges, RoleGoes, MemberChanges, OwnerChanges, OverwriteChanges, VoiceMoves
  <2>2. UNCHANGED <<restVars, read, mix, check, verdicts, botCheck, botCache>> /\ stable' = 0
    BY <2>1 DEF ChangesTo, cacheVars, callVars
  <2> QED
    BY <2>2, QuietCalls DEF Changed, Asking
<1>2. ASSUME UNCHANGED <<restVars, read, mix, stable, guild, check, verdicts, botCheck, botCache>>
      PROVE  Requested' /\ mix' = mix /\ Still
  BY <1>2, QuietCalls DEF Still, Asking
<1>3. CASE GuildOutage \/ NewSession \/ Writes
  BY <1>2, <1>3 DEF GuildOutage, NewSession, Writes, cacheVars, callVars
<1>4. CASE OnGuild \/ OnGuildDelete \/ OnRole \/ OnVoiceState
  BY <1>2, <1>4 DEF OnGuild, OnGuildDelete, OnRole, OnVoiceState, Delivered
<1>5. CASE Looks \/ LookRead \/ Posting
  BY <1>5 DEF Looks, LookRead, Posting, Looked
<1>6. CASE LookTimesOut
  BY <1>2, <1>6 DEF LookTimesOut, guildVars, cacheVars
<1>7. CASE Served
  <2> PICK s \in Slots, out \in Outcomes, wait \in Told \cup {0} :
         /\ out \in {"done"} \cup Fails[mix] /\ Serve(s, out, wait)
         /\ read' = IF s \in Reads /\ out = "done" THEN [read EXCEPT ![s] = guild] ELSE read
         /\ UNCHANGED <<guildVars, cacheVars, callVars, mix>>
    BY <1>7 DEF Served
  <2>1. OnTime(call[s], Fails[mix]) /\ Unhindered(Fails[mix]) /\ limited = 0
    BY DEF Requested, Looked
  <2>2. PICK n : call' = [call EXCEPT ![s] = n] /\ GoesOn(call[s], n, Fails[mix]) /\ n.pc = "answered" /\ n.out = out
    BY <2>1, ServedOnTime
  <2>3. limited' = 0 /\ call[s].pc = "sent"
    BY <2>1, ServedOnTime
  <2>4. UNCHANGED <<stable, guild, check, verdicts, botCheck, botCache, mix>> /\ Asking' = Asking
    BY DEF guildVars, cacheVars, callVars, Asking
  <2>5. ~Carries(call[s]) /\ (out = "done" => Carries(n))
    BY <2>2, <2>3 DEF Carries
  <2>6. Requested' /\ Onward
    BY <2>2, <2>3, <2>4, <2>5, CallGoesOn
  <2> QED
    BY <2>4, <2>6 DEF Still
<1>8. ASSUME NEW s \in Slots, Receive(s) \/ WaitEnds(s) \/ Wakes(s), UNCHANGED accessVars
      PROVE  Requested' /\ mix' = mix /\ Still
  <2>1. OnTime(call[s], Fails[mix]) /\ Unhindered(Fails[mix]) /\ limited = 0
    BY DEF Requested, Looked
  <2>2. ~WaitEnds(s)
    BY <2>1 DEF WaitEnds, OnTime
  <2>3. /\ limited' = 0
        /\ \E n : call' = [call EXCEPT ![s] = n] /\ GoesOn(call[s], n, Fails[mix]) /\ (Carries(call[s]) => Carries(n))
    <3>1. CASE Receive(s)
      BY <2>1, <3>1, ReceivedOnTime
    <3>2. CASE Wakes(s)
      BY <2>1, <3>2, WokenOnTime
    <3> QED
      BY <1>8, <2>2, <3>1, <3>2
  <2>4. UNCHANGED <<stable, guild, check, verdicts, botCheck, botCache, mix, read>> /\ Asking' = Asking
    BY <1>8 DEF accessVars, guildVars, cacheVars, callVars, Asking
  <2>5. Requested' /\ Onward
    BY <2>3, <2>4, CallGoesOn
  <2> QED
    BY <2>4, <2>5 DEF Still
<1>9. CASE Answered \/ Continues
  BY <1>8, <1>9 DEF Answered, Continues
<1>10. CASE UNCHANGED vars
  BY <1>2, <1>10 DEF vars, accessVars, guildVars, cacheVars, callVars
<1> QED
  BY <1>1, <1>3, <1>4, <1>5, <1>6, <1>7, <1>9, <1>10 DEF Next, Looking

\* An event that tells the guild as it is, or nothing.
Current(e) ==
    \/ e.kind \in {"ready", "delete"}
    \/ e.kind = "create" /\ e.owner = guild.owner /\ e.roles = guild.roles
    \/ e.kind = "message" /\ e.has = guild.member /\ e.bits = Bits(guild.roles, guild.member)
\* Once a tick has passed since the last change, the cache knows the guild, or
\* nothing of it, and every event under way tells it as it is.
Steady == mix = "manage" /\ stable > 0 =>
    /\ guildState \in {None, NoGuild, Knows(guild)}
    /\ \A i \in 1..Len(events) : Current(events[i])

LEMMA SteadyStep ==
    ASSUME EventsInv, stable \in Nat, Steady, [Next]_vars PROVE Steady'
<1>1. GuildTypeOK /\ EventsFit /\ mix \in Mixes
  BY EventsParts DEF EventsInv
<1>2. mix' = mix
  BY <1>1, EventsStep
<1> SUFFICES ASSUME mix = "manage", stable' > 0 PROVE Steady'
  BY <1>2 DEF Steady
<1>3. ASSUME UNCHANGED <<guild, stable, guildState, events>> PROVE Steady'
  BY <1>2, <1>3 DEF Steady, Current, Knows
<1>4. CASE RoleChanges \/ RoleGoes \/ MemberChanges \/ OwnerChanges \/ OverwriteChanges \/ VoiceMoves
  <2>1. \E g : ChangesTo(g)
    BY <1>4 DEF RoleChanges, RoleGoes, MemberChanges, OwnerChanges, OverwriteChanges, VoiceMoves
  <2> QED
    BY <2>1 DEF ChangesTo
\* what is told anew is as it is
<1>5. ASSUME UNCHANGED <<guild, stable, guildState>>, Len(events') \in Nat,
             \A i \in 1..Len(events') : Current(events'[i]) \/ \E j \in 1..Len(events) : events'[i] = events[j]
      PROVE  Steady'
  <2>1. stable > 0 /\ \A e : Current(e)' = Current(e)
    BY <1>5 DEF Current
  <2>2. \A i \in 1..Len(events') : Current(events'[i])
    BY <1>5, <2>1 DEF Steady
  <2>3. \A i \in 1..Len(events') : Current(events[i])'
    BY <1>5, <2>2 DEF Current
  <2> QED
    BY <1>5, <2>1, <2>3 DEF Steady, Knows
<1>6. Current(Whole) /\ Current([kind |-> "delete"]) /\ Current([kind |-> "ready"])
  BY DEF Current, Whole
<1>7. CASE GuildOutage
  <2> DEFINE e == [kind |-> "delete"]
             w == Whole
  <2>1. events' = events \o <<e, w>> /\ UNCHANGED <<guild, stable, guildState>>
    BY <1>7 DEF GuildOutage, Tells, cacheVars
  <2>2. events \in Seq(GuildEvents) /\ Len(events) \in Nat
    BY <1>1 DEF EventsFit
  <2> HIDE DEF e, w
  <2>3. Len(events') \in Nat /\ \A i \in 1..Len(events') :
           events'[i] = e \/ events'[i] = w \/ (i \in 1..Len(events) /\ events'[i] = events[i])
    BY <2>1, <2>2
  <2> QED
    BY <1>5, <1>6, <2>1, <2>3 DEF e, w
<1>8. CASE NewSession
  <2> DEFINE e == [kind |-> "ready"]
             w == Whole
  <2>1. events' = <<e, w>> /\ UNCHANGED <<guild, stable, guildState>>
    BY <1>8 DEF NewSession, cacheVars
  <2> HIDE DEF e, w
  <2>2. Len(events') \in Nat /\ \A i \in 1..Len(events') : events'[i] = e \/ events'[i] = w
    BY <2>1
  <2> QED
    BY <1>5, <1>6, <2>1, <2>2 DEF e, w
<1>9. CASE Writes
  <2> PICK carries : /\ UNCHANGED <<guild, stable, guildState>>
                     /\ events' = events \o <<[kind |-> "message", carries |-> carries, has |-> guild.member,
                          bits |-> Bits(guild.roles, guild.member), truth |-> MayManage(guild)]>>
    BY <1>9 DEF Writes, Tells, cacheVars
  <2> DEFINE e == [kind |-> "message", carries |-> carries, has |-> guild.member,
                   bits |-> Bits(guild.roles, guild.member), truth |-> MayManage(guild)]
  <2>1. Current(e) /\ events' = events \o <<e>>
    BY DEF Current
  <2>2. events \in Seq(GuildEvents) /\ Len(events) \in Nat
    BY <1>1 DEF EventsFit
  <2> HIDE DEF e
  <2>3. Len(events') \in Nat /\ \A i \in 1..Len(events') :
           events'[i] = e \/ (i \in 1..Len(events) /\ events'[i] = events[i])
    BY <2>1, <2>2
  <2> QED
    BY <1>5, <2>1, <2>3
<1>10. CASE OnGuild \/ OnGuildDelete \/ OnRole \/ OnVoiceState \/ OnMessage
  <2>1. /\ events # << >> /\ events' = Tail(events) /\ guild' = guild /\ stable' = stable
    BY <1>10 DEF OnGuild, OnGuildDelete, OnRole, OnVoiceState, OnMessage, Delivered
  <2>2. guildState' = After(guildState, Head(events))
    BY <1>1, <1>10, DeliveredHeard
  <2>3. events \in Seq(GuildEvents)
    BY <1>1 DEF EventsFit
  <2>4. /\ Len(events) \in Nat \ {0} /\ Len(events') = Len(events) - 1 /\ Head(events) = events[1]
        /\ \A i \in 1..Len(events') : i + 1 \in 1..Len(events) /\ events'[i] = events[i + 1]
    BY <2>1, <2>3
  <2>5. \A i \in 1..Len(events) : Current(events[i])
    BY <2>1 DEF Steady
  <2>6. guildState \in {None, NoGuild, Knows(guild)} /\ Current(Head(events))
    BY <2>1, <2>4, <2>5 DEF Steady
  <2>7. guildState' \in {None, NoGuild, Knows(guild)}
    BY <2>2, <2>6 DEF Current, After, NotNone, Knows
  <2>8. \A i \in 1..Len(events') : Current(events'[i])
    BY <2>4, <2>5
  <2>9. \A i \in 1..Len(events') : Current(events[i])'
    BY <2>1, <2>8 DEF Current
  <2> QED
    BY <2>1, <2>7, <2>9 DEF Steady, Knows
<1>11. CASE Tick
  <2>1. events = << >> /\ events' = events /\ guildState' = guildState /\ guild' = guild
    BY <1>11 DEF Tick
  <2>2. guildState = Knows(guild)
    BY <1>1, <2>1 DEF EventsFit, Leads, Replay
  <2> QED
    BY <2>1, <2>2 DEF Steady, Knows
<1>12. CASE MemberRead \/ GuildRead \/ RolesRead
  BY <1>3, <1>12 DEF MemberRead, GuildRead, RolesRead, guildVars
<1>13. CASE Looks \/ LookRead \/ LookTimesOut
  BY <1>3, <1>13 DEF Looks, LookRead, LookTimesOut, guildVars, cacheVars
<1>14. CASE BotAsks \/ \E s \in {"member", "guild", "channel"} : BotRead(s)
  BY <1>3, <1>14 DEF BotAsks, BotRead, guildVars, cacheVars
<1>15. CASE Posting \/ Served \/ Answered \/ Continues \/ UNCHANGED vars
  BY <1>3, <1>15 DEF Posting, Served, Answered, Continues, vars, accessVars, guildVars, cacheVars
<1> QED
  BY <1>4, <1>7, <1>8, <1>9, <1>10, <1>11, <1>12, <1>13, <1>14, <1>15 DEF Next

\* By the cache, roles that are the member's own give him what he has.
LEMMA SteadyVerdict ==
    ASSUME GuildTypeOK, guildState \in {None, NoGuild, Knows(guild)}, NEW ids \in {{}, guild.member},
           ComputeManage(ids) = "yes"
    PROVE  MayManage(guild)
<1>1. guildState # None /\ ids # {}
  BY AccessAssumption DEF ComputeManage
<1>2. guildState # NoGuild
  <2>1. DOMAIN NoGuild.roles = {} /\ NoGuild.owner = None
    BY DEF NoGuild
  <2> QED
    BY <1>1, <2>1, AccessAssumption DEF ComputeManage
<1>3. guildState = Knows(guild) /\ guild.owner \in BOOLEAN
  BY <1>1, <1>2 DEF GuildTypeOK
<1>4. CASE guild.owner
  BY <1>4 DEF MayManage
<1>5. CASE ~guild.owner
  <2>1. guildState.owner = "other" /\ guildState.roles = guild.roles
    BY <1>3, <1>5 DEF Knows, Who
  <2>2. Manages(Bits(guild.roles, ids))
    BY <1>1, <2>1, AccessAssumption DEF ComputeManage
  <2> QED
    BY <1>1, <2>2 DEF MayManage
<1> QED
  BY <1>3, <1>4, <1>5

(*-------------------------- may the user manage? --------------------------*)
\* The check c, whose request has taken e ticks, holds what was so when it was read:
\* older than e, and the member's roles, in the second request after his, by at most d more.
CheckAges(c, e, st, g, d) ==
    /\ DOMAIN c = DOMAIN Nobody
    /\ c.pc \in RestPcs => c.has = {}
    /\ c.pc = "guild" /\ st > e => c.member \in {{}, g.member}
    /\ c.pc = "roles" /\ st > d + e => c.member \in {{}, g.member}
    /\ c.pc = "roles" /\ st > e => c.roles \in {None, g.roles}
\* A remembered verdict was so when it was given, by what was read in at most 2 * d ticks.
VerdictAge(v, st, g, d) ==
    /\ DOMAIN v = {"value", "left"} /\ v.left \in 0..TTL
    /\ v.left > 0 /\ v.value = "yes" /\ st > (TTL - v.left) + 2 * d => MayManage(g)
Slowest == Longest(Fails[mix])
Manageable == /\ CheckAges(check, SpentBy("member"), stable, guild, Slowest)
              /\ VerdictAge(verdicts, stable, guild, Slowest)
\* What GrantsAreFounded says of a step.
Founded == check'.verdict = "yes" /\ stable > (TTL - 1) + 2 * Slowest => MayManage(guild)

LEMMA MemberSlot == "member" \in Reads /\ "member" \in Slots /\ Reads \subseteq Slots
BY AccessAssumption

\* A check that is decided leaves a verdict, which is true of a guild that did not
\* change while it was made.
LEMMA DecidedRight ==
    ASSUME Manageable, RestInv, Requested, NEW c, NEW via, NEW v, check' = Decided(c, via, v),
           verdicts' = verdicts \/ verdicts' = Remembered(v),
           v = "yes" /\ stable > 2 * Slowest => MayManage(guild),
           mix' = mix, guild' = guild, stable' = stable
    PROVE  Manageable' /\ Founded
<1>1. TTL \in Nat \ {0} /\ Slowest \in Nat /\ Slowest' = Slowest /\ stable \in Nat
  BY AccessAssumption, SlotSpent, MemberSlot DEF Slowest, Requested
<1>2. check'.pc = "decided" /\ check'.verdict = v /\ DOMAIN check' = DOMAIN Nobody
  BY DEF Decided, Nobody
<1>3. CheckAges(check, SpentBy("member"), stable, guild, Slowest)'
  BY <1>2 DEF CheckAges, RestPcs
<1>4. VerdictAge(verdicts', stable, guild, Slowest)
  <2>1. CASE verdicts' = verdicts
    BY <2>1 DEF Manageable
  <2>2. CASE verdicts' = Remembered(v)
    <3>1. DOMAIN verdicts' = {"value", "left"} /\ verdicts'.left = TTL /\ verdicts'.value = v
      BY <2>2 DEF Remembered
    <3>2. (TTL - TTL) + 2 * Slowest = 2 * Slowest
      BY <1>1
    <3> QED
      BY <1>1, <3>1, <3>2 DEF VerdictAge
  <2> QED
    BY <2>1, <2>2
<1>5. Founded
  <2>1. stable > (TTL - 1) + 2 * Slowest => stable > 2 * Slowest
    BY <1>1
  <2> QED
    BY <1>2, <2>1 DEF Founded
<1> QED
  BY <1>1, <1>3, <1>4, <1>5 DEF Manageable

\* A message decides at once, by what it carries, what is known or what is remembered.
LEMMA MessageRight ==
    ASSUME EventsInv, RestInv, Requested, Steady, Manageable, mix = "manage", OnMessage
    PROVE  Requested' /\ mix' = mix /\ Manageable' /\ (check'.pc = "decided" => Founded)
<1> DEFINE m == Head(events)
           c == Asked(m)
<1>1. GuildTypeOK /\ EventsFit
  BY EventsParts DEF EventsInv
<1>2. /\ events # << >> /\ m.kind = "message" /\ Resolves(m)
      /\ UNCHANGED <<guild, stable, botCheck, botCache, mix, read, guildState>>
  BY DEF OnMessage, Delivered
<1>3. /\ TrueTo(guildState, m)
      /\ m \in [kind : {"message"}, carries : {"bits", "roles", "nothing"}, has : SUBSET Roles,
                bits : SUBSET Rights, truth : BOOLEAN]
  BY <1>1, <1>2, HeadIsTrue
<1>4. guildState # None /\ m.has \subseteq DOMAIN guildState.roles
  BY <1>3 DEF TrueTo
<1>5. stable > 0 => Current(m) /\ guildState \in {NoGuild, Knows(guild)}
  <2>1. 1 \in 1..Len(events) /\ m = events[1]
    BY <1>1, <1>2 DEF EventsFit
  <2> QED
    BY <1>4, <2>1 DEF Steady
<1>6. /\ c.pc = "member" /\ c.verdict = None /\ DOMAIN c = DOMAIN Nobody
      /\ c.has = IF m.carries = "nothing" THEN {} ELSE m.has
  BY DEF Asked, Nobody
<1>7. check.pc \in {"idle", "decided"} /\ Free("member") /\ stable \in Nat
  BY <1>2 DEF Resolves, Requested
<1>8. Slowest \in Nat /\ Slowest' = Slowest
  BY <1>2, SlotSpent, MemberSlot DEF Slowest
<1>9. ASSUME NEW via, NEW v, check' = Decided(c, via, v), verdicts' = Remembered(v), UNCHANGED restVars,
             v = "yes" /\ stable > 0 => MayManage(guild)
      PROVE  Requested' /\ Manageable' /\ (check'.pc = "decided" => Founded)
  <2>1. check'.pc = "decided"
    BY <1>9 DEF Decided, Nobody
  <2>2. Asking' = Asking
    BY <1>2, <1>7, <2>1 DEF Asking, RestPcs
  <2>3. Requested'
    BY <1>2, <1>9, <2>2, QuietCalls
  <2>4. stable > 2 * Slowest => stable > 0
    BY <1>7, <1>8
  <2>5. Manageable' /\ Founded
    BY <1>2, <1>9, <2>4, DecidedRight
  <2> QED
    BY <2>3, <2>5
<1>10. CASE FromMessage(m) # None
  <2>1. check' = Decided(c, "message", FromMessage(m)) /\ verdicts' = Remembered(FromMessage(m)) /\ UNCHANGED restVars
    BY <1>2, <1>10 DEF Resolves
  <2>2. ASSUME FromMessage(m) = "yes", stable > 0 PROVE MayManage(guild)
    <3>1. CASE guildState.owner = "user"
      <4>1. guildState # NoGuild
        BY <3>1, AccessAssumption DEF NoGuild
      <4> QED
        BY <1>5, <2>2, <3>1, <4>1 DEF Knows, Who, MayManage
    <3>2. CASE guildState.owner # "user"
      <4>1. Manages(m.bits)
        BY <1>4, <1>10, <2>2, <3>2 DEF FromMessage, YesNo
      <4>2. m.bits = Bits(guild.roles, guild.member)
        BY <1>2, <1>5, <2>2 DEF Current
      <4> QED
        BY <4>1, <4>2 DEF MayManage
    <3> QED
      BY <3>1, <3>2
  <2> QED
    BY <1>2, <1>9, <2>1, <2>2
<1>11. CASE FromMessage(m) = None /\ ComputeManage(c.has) # None
  <2>1. check' = Decided(c, "gateway", ComputeManage(c.has)) /\ verdicts' = Remembered(ComputeManage(c.has)) /\ UNCHANGED restVars
    BY <1>2, <1>11 DEF Resolves
  <2>2. ASSUME ComputeManage(c.has) = "yes", stable > 0 PROVE MayManage(guild)
    <3>1. c.has \in {{}, guild.member}
      BY <1>2, <1>5, <1>6, <2>2 DEF Current
    <3> QED
      BY <1>1, <1>5, <2>2, <3>1, SteadyVerdict
  <2> QED
    BY <1>2, <1>9, <2>1, <2>2
<1>12. CASE FromMessage(m) = None /\ ComputeManage(c.has) = None /\ Holds(verdicts)
  <2>1. check' = Decided(c, "cache", verdicts.value) /\ verdicts' = verdicts /\ UNCHANGED restVars
    BY <1>2, <1>12 DEF Resolves, KeepsVerdict
  <2>2. check'.pc = "decided" /\ check'.verdict = verdicts.value /\ DOMAIN check' = DOMAIN Nobody
    BY <2>1 DEF Decided, Nobody
  <2>3. Asking' = Asking
    BY <1>2, <1>7, <2>2 DEF Asking, RestPcs
  <2>4. Requested'
    BY <1>2, <2>1, <2>3, QuietCalls
  <2>5. CheckAges(check, SpentBy("member"), stable, guild, Slowest)'
    BY <2>2 DEF CheckAges, RestPcs
  <2>6. Manageable'
    BY <1>2, <1>8, <2>1, <2>5 DEF Manageable
  <2>7. Founded
    <3>1. verdicts.left \in 0..TTL /\ verdicts.left > 0 /\ TTL \in Nat
      BY <1>12, AccessAssumption DEF Manageable, VerdictAge, Holds
    <3>2. stable > (TTL - 1) + 2 * Slowest => stable > (TTL - verdicts.left) + 2 * Slowest
      BY <1>7, <1>8, <3>1
    <3> QED
      BY <2>2, <3>1, <3>2 DEF Founded, Manageable, VerdictAge
  <2> QED
    BY <1>2, <2>4, <2>6, <2>7
<1>13. CASE FromMessage(m) = None /\ ComputeManage(c.has) = None /\ ~Holds(verdicts)
  <2>1. check' = c /\ verdicts' = verdicts /\ Begins({"member"}, "get")
    BY <1>2, <1>13 DEF Resolves
  <2>2. c.has = {}
    <3> SUFFICES ASSUME m.carries # "nothing", m.has # {} PROVE FALSE
      BY <1>6
    <3>1. ComputeManage(m.has) = None
      BY <1>6, <1>13
    <3>2. m.has \cap DOMAIN guildState.roles # {}
      BY <1>4
    <3> QED
      BY <1>4, <3>1, <3>2, AccessAssumption DEF ComputeManage
  <2>3. Asking' = Asking \cup {"member"} /\ "member" \notin Asking
    BY <1>2, <1>6, <1>7, <2>1 DEF Asking, RestPcs
  <2>4. read["member"] = None
    BY <2>3, MemberSlot DEF Requested, Carries
  <2>5. Requested'
    <3>1. DOMAIN read' = Reads /\ \A s \in Reads : read'[s] = None \/ (s \notin {"member"} /\ read'[s] = read[s])
      BY <1>2, <2>4 DEF Requested
    <3> QED
      BY <1>2, <2>1, <2>3, <3>1, MemberSlot, CallBegins
  <2>6. CheckAges(check, SpentBy("member"), stable, guild, Slowest)'
    BY <1>6, <2>1, <2>2 DEF CheckAges
  <2>7. check'.pc # "decided"
    BY <1>6, <2>1
  <2> QED
    BY <1>2, <1>8, <2>1, <2>5, <2>6, <2>7 DEF Manageable
<1> QED
  BY <1>10, <1>11, <1>12, <1>13

\* What a request for the check brought, if it brought anything, is the guild.
LEMMA GotRight ==
    ASSUME Requested, Settled("member"), NEW f
    PROVE  /\ Got("member") # None /\ stable > 0 => Got("member") = guild
           /\ Spent(call["member"], f) = Longest(f)
BY MemberSlot DEF Requested, Settled, Got, Spent

LEMMA AsksNext ==
    ASSUME RestInv, Requested, mix = "manage", check.pc \in RestPcs, check'.pc \in RestPcs,
           Begins({"member"}, "get"), ReadTaken("member"), UNCHANGED <<mix, guild, stable>>
    PROVE  Requested' /\ SpentBy("member")' = 0
<1>1. Asking' = Asking \cup {"member"}
  BY DEF Asking
<1>2. DOMAIN read' = Reads /\ \A s \in Reads : read'[s] = None \/ (s \notin {"member"} /\ read'[s] = read[s])
  BY DEF ReadTaken, Requested
<1>3. {"member"} \in SUBSET Slots
  BY MemberSlot
<1> QED
  BY <1>1, <1>2, <1>3, CallBegins

LEMMA AsksNoMore ==
    ASSUME RestInv, Requested, Manageable, mix = "manage", check.pc \in RestPcs, NEW v, DecidedByRest(check, v),
           ReadTaken("member"), UNCHANGED <<mix, guild, stable>>,
           v = "yes" /\ stable > 2 * Slowest => MayManage(guild)
    PROVE  Requested' /\ Manageable' /\ Founded
<1>1. /\ check' = Decided(check, "rest", v) /\ Taken("member")
      /\ verdicts' = verdicts \/ verdicts' = Remembered(v)
  BY DEF DecidedByRest
<1>2. check'.pc = "decided"
  BY <1>1 DEF Decided, Nobody
<1>3. Asking' = Asking \ {"member"}
  BY <1>2 DEF Asking, RestPcs
<1>4. Requested'
  BY <1>1, <1>3, MemberSlot, CallTaken DEF ReadTaken
<1> QED
  BY <1>1, <1>4, DecidedRight

LEMMA ReadsRight ==
    ASSUME EventsInv, RestInv, Requested, Steady, Manageable, MemberRead \/ GuildRead \/ RolesRead
    PROVE  Requested' /\ mix' = mix /\ mix = "manage" /\ Manageable' /\ (check'.pc = "decided" => Founded)
<1> DEFINE g == Got("member")
           d == Slowest
<1>1. /\ mix = "manage" /\ check.pc \in RestPcs /\ Settled("member") /\ ReadTaken("member")
      /\ UNCHANGED <<mix, guild, stable>>
  BY DEF MemberRead, GuildRead, RolesRead, guildVars, RestPcs
<1>2. g # None /\ stable > 0 => g = guild
  BY <1>1, GotRight
<1>3. SpentBy("member") = d /\ d \in Nat /\ stable \in Nat /\ d' = d
  BY <1>1, GotRight, SlotSpent, MemberSlot DEF SpentBy, Slowest, Requested
<1>4. CheckAges(check, d, stable, guild, d) /\ VerdictAge(verdicts, stable, guild, d)
  BY <1>3 DEF Manageable
<1>5. check.has = {} /\ DOMAIN check = DOMAIN Nobody
  BY <1>1, <1>4 DEF CheckAges
<1>6. stable > 2 * d => stable > 0 /\ stable > d + d /\ stable > d
  BY <1>3
<1>7. ASSUME check'.pc \in RestPcs, check'.has = {}, DOMAIN check' = DOMAIN Nobody, Begins({"member"}, "get"), verdicts' = verdicts,
             check'.pc = "guild" /\ stable > 0 => check'.member \in {{}, guild.member},
             check'.pc = "roles" /\ stable > d => check'.member \in {{}, guild.member},
             check'.pc = "roles" /\ stable > 0 => check'.roles \in {None, guild.roles}
      PROVE  Requested' /\ Manageable' /\ (check'.pc = "decided" => Founded)
  <2>1. Requested' /\ SpentBy("member")' = 0
    BY <1>1, <1>7, AsksNext
  <2>2. CheckAges(check', 0, stable, guild, d)
    BY <1>3, <1>7 DEF CheckAges
  <2>3. Manageable'
    BY <1>1, <1>3, <1>4, <1>7, <2>1, <2>2 DEF Manageable
  <2> QED
    BY <1>7, <2>1, <2>3 DEF RestPcs
<1> DEFINE ids == IF g = None THEN {} ELSE g.member
           some == IF g = None THEN None ELSE g.roles
<1>8. CASE MemberRead
  <2> PICK bits \in BOOLEAN :
        IF g # None /\ bits
          THEN DecidedByRest(check, YesNo(Manages(Bits(g.roles, g.member))))
          ELSE /\ check' = [check EXCEPT !.pc = "guild", !.member = ids]
               /\ Begins({"member"}, "get") /\ UNCHANGED verdicts
    BY <1>8 DEF MemberRead
  <2>1. CASE g # None /\ bits
    <3> DEFINE v == YesNo(Manages(Bits(g.roles, g.member)))
    <3>1. DecidedByRest(check, v)
      BY <2>1
    <3>2. v = "yes" /\ stable > 2 * d => MayManage(guild)
      BY <1>2, <1>6, <2>1 DEF YesNo, MayManage
    <3> HIDE DEF v
    <3> QED
      BY <1>1, <3>1, <3>2, AsksNoMore
  <2>2. CASE ~(g # None /\ bits)
    <3>1. check' = [check EXCEPT !.pc = "guild", !.member = ids] /\ Begins({"member"}, "get") /\ verdicts' = verdicts
      BY <2>2
    <3>2. stable > 0 => ids \in {{}, guild.member}
      BY <1>2
    <3> HIDE DEF ids
    <3>3. check'.pc = "guild" /\ check'.has = {} /\ DOMAIN check' = DOMAIN Nobody /\ check'.member = ids
      BY <1>5, <3>1 DEF Nobody
    <3> QED
      BY <1>1, <1>7, <3>1, <3>2, <3>3 DEF RestPcs
  <2> QED
    BY <1>1, <2>1, <2>2
<1>9. CASE GuildRead
  <2>0. check.pc = "guild"
    BY <1>9 DEF GuildRead
  <2>1. CASE g # None /\ g.owner
    <3>1. DecidedByRest(check, "yes")
      BY <1>9, <2>1 DEF GuildRead
    <3>2. stable > 2 * d => MayManage(guild)
      BY <1>2, <1>6, <2>1 DEF MayManage
    <3> QED
      BY <1>1, <3>1, <3>2, AsksNoMore
  <2>2. CASE ~(g # None /\ g.owner)
    <3>1. check' = [check EXCEPT !.pc = "roles", !.roles = some] /\ Begins({"member"}, "get") /\ verdicts' = verdicts
      BY <1>9, <2>2 DEF GuildRead
    <3>2. stable > 0 => some \in {None, guild.roles}
      BY <1>2
    <3> HIDE DEF some
    <3>3. /\ check'.pc = "roles" /\ check'.has = {} /\ DOMAIN check' = DOMAIN Nobody /\ check'.member = check.member
          /\ check'.roles = some
      BY <1>5, <3>1 DEF Nobody
    <3>4. stable > d => check.member \in {{}, guild.member}
      BY <1>4, <2>0 DEF CheckAges
    <3> QED
      BY <1>1, <1>7, <3>1, <3>2, <3>3, <3>4 DEF RestPcs
  <2> QED
    BY <1>1, <2>1, <2>2
<1>10. CASE RolesRead
  <2> DEFINE roles == IF g = None THEN check.roles ELSE g.roles
             first == Computed(check.member, roles)
             v == IF first # None THEN first ELSE Computed(check.has, roles)
             w == IF v = None THEN "unknown" ELSE v
  <2>0. check.pc = "roles"
    BY <1>10 DEF RolesRead
  <2>1. DecidedByRest(check, w)
    BY <1>10 DEF RolesRead
  <2>2. ASSUME w = "yes", stable > 2 * d PROVE MayManage(guild)
    <3>1. check.member \in {{}, guild.member} /\ check.roles \in {None, guild.roles}
      BY <1>4, <1>6, <2>0, <2>2 DEF CheckAges
    <3>2. roles \in {None, guild.roles}
      BY <1>2, <1>6, <2>2, <3>1
    <3>3. PICK ids0 \in {{}, guild.member} : Computed(ids0, roles) = "yes"
      BY <1>5, <2>2, <3>1
    <3> HIDE DEF roles
    <3>4. CASE ComputeManage(ids0) # None
      <4>1. GuildTypeOK /\ guildState \in {None, NoGuild, Knows(guild)}
        BY <1>1, <1>6, <2>2, EventsParts DEF EventsInv, Steady
      <4>2. ComputeManage(ids0) = "yes"
        BY <3>3, <3>4 DEF Computed
      <4> QED
        BY <4>1, <4>2, SteadyVerdict
    <3>5. CASE ComputeManage(ids0) = None
      <4>1. roles # None /\ ids0 \cap DOMAIN roles # {} /\ Manages(Bits(roles, ids0))
        BY <3>3, <3>5, AccessAssumption DEF Computed, YesNo
      <4> QED
        BY <3>2, <4>1 DEF MayManage
    <3> QED
      BY <3>4, <3>5
  <2> HIDE DEF w
  <2> QED
    BY <1>1, <2>1, <2>2, AsksNoMore
<1> QED
  BY <1>8, <1>9, <1>10

\* A tick makes everything a tick older.
LEMMA CheckTicks ==
    ASSUME RestInv, Requested, Manageable, mix = "manage", Tick
    PROVE  Manageable' /\ check' = check
<1> DEFINE e == SpentBy("member")
           d == Slowest
<1>1. /\ Requested' /\ mix' = mix /\ guild' = guild /\ stable' <= stable + 1 /\ stable' \in Nat
      /\ \A s \in Asking \cap Slots : SpentBy(s)' = SpentBy(s) + 1
  BY CallsTick
<1>2. check' = check /\ verdicts' = Aged(verdicts) /\ stable \in Nat
  BY DEF Tick, callVars, Requested
<1>3. d \in Nat /\ e \in Nat /\ d' = d
  BY <1>1, MemberSlot, SlotSpent DEF Slowest
<1>4. check.pc \in RestPcs => e' = e + 1
  BY <1>1, MemberSlot DEF Asking
<1>5. check.pc \in {"guild", "roles"} =>
         /\ stable' > e' => stable > e
         /\ stable' > d + e' => stable > d + e
  BY <1>1, <1>2, <1>3, <1>4 DEF RestPcs
<1>6. CheckAges(check', e', stable', guild', d')
  <2>1. CheckAges(check, e, stable, guild, d)
    BY DEF Manageable
  <2> QED
    BY <1>1, <1>2, <1>3, <1>5, <2>1 DEF CheckAges
<1>7. VerdictAge(verdicts', stable', guild', d')
  <2>1. VerdictAge(verdicts, stable, guild, d) /\ TTL \in Nat
    BY AccessAssumption DEF Manageable
  <2>2. DOMAIN verdicts' = {"value", "left"} /\ verdicts'.value = verdicts.value /\ verdicts'.left = Less(verdicts.left)
    BY <1>2, <2>1 DEF Aged, VerdictAge
  <2>3. verdicts.left \in 0..TTL /\ Less(verdicts.left) \in 0..TTL
    BY <2>1 DEF VerdictAge, Less
  <2>4. verdicts'.left > 0 => verdicts.left > 0 /\ verdicts'.left = verdicts.left - 1
    BY <2>1, <2>2, <2>3 DEF Less
  <2>5. verdicts'.left > 0 /\ stable' > (TTL - verdicts'.left) + 2 * d => stable > (TTL - verdicts.left) + 2 * d
    BY <1>1, <1>2, <1>3, <2>1, <2>3, <2>4
  <2> QED
    BY <1>1, <1>3, <2>1, <2>2, <2>3, <2>4, <2>5 DEF VerdictAge
<1> QED
  BY <1>2, <1>6, <1>7 DEF Manageable

\* Others neither decide nor make it older than it is.
LEMMA CheckKept ==
    ASSUME RestInv, RestInv', Requested, Requested', Manageable, mix' = mix, Changed \/ Still
    PROVE  Manageable' /\ check' = check
<1> DEFINE e == SpentBy("member")
           d == Slowest
<1>1. d \in Nat /\ e \in Nat /\ d' = d /\ e' \in Nat /\ stable \in Nat /\ TTL \in Nat
  <2>1. e' \in 0..Longest(Fails[mix])
    <3>1. call'["member"] \in RestCalls /\ OnTime(call'["member"], Fails[mix])
      BY MemberSlot DEF Requested, RestInv, RestTypeOK
    <3>2. Spent(call'["member"], Fails[mix]) \in 0..Longest(Fails[mix])
      BY <3>1, SpentBounds
    <3> QED
      BY <3>2 DEF SpentBy
  <2> QED
    BY <2>1, MemberSlot, SlotSpent, AccessAssumption DEF Slowest, Requested
<1>2. CheckAges(check, e, stable, guild, d) /\ VerdictAge(verdicts, stable, guild, d)
  BY DEF Manageable
<1>3. check' = check /\ verdicts' = verdicts
  BY DEF Changed, Still
<1>4. CASE Changed
  <2>1. stable' = 0
    BY <1>4 DEF Changed
  <2>2. CheckAges(check', e', stable', guild', d')
    BY <1>1, <1>2, <1>3, <2>1 DEF CheckAges
  <2>3. (TTL - verdicts.left) + 2 * d \in Nat
    BY <1>1, <1>2 DEF VerdictAge
  <2>4. VerdictAge(verdicts', stable', guild', d')
    BY <1>1, <1>2, <1>3, <2>1, <2>3 DEF VerdictAge
  <2> QED
    BY <1>3, <2>2, <2>4 DEF Manageable
<1>5. CASE Still
  <2>1. e' >= e /\ stable' = stable /\ guild' = guild
    BY <1>5, MemberSlot DEF Still, Onward
  <2>2. (stable > e' => stable > e) /\ (stable > d + e' => stable > d + e)
    BY <1>1, <2>1
  <2>3. CheckAges(check', e', stable', guild', d')
    BY <1>1, <1>2, <1>3, <2>1, <2>2 DEF CheckAges
  <2> QED
    BY <1>1, <1>2, <1>3, <2>1, <2>3 DEF Manageable
<1> QED
  BY <1>3, <1>4, <1>5

(*------------------------------- may the bot? -----------------------------*)
\* What the check of the bot puts together, and what it should be.
Sources == {"member", "guild", "channel"}
Held(b, s) == CASE s = "member" -> b.member [] s = "guild" -> b.roles [] s = "channel" -> b.over
Truth(g, s) == CASE s = "member" -> g.bot [] s = "guild" -> g.roles [] s = "channel" -> g.over
TrueVerdict(g) == BotVerdict(g.bot, g.roles, g.over)
\* What a check b holds is no older than a cached entry when it began, if that is
\* e ticks ago.
BotAge(b, e, st, g) == \A s \in Sources \ b.open : st > (TTL - 1) + e => Held(b, s) = Truth(g, s)
BotAsked ==
    /\ DOMAIN botCheck = DOMAIN NoBotCheck /\ botCheck.open \subseteq Sources
    /\ botCheck.pc = "asks" => botCheck.open # {} /\ botCheck.room \in Rooms
    /\ botCheck.pc = "asks" => \A o \in botCheck.open : BotAge(botCheck, SpentBy(o), stable, guild)
\* A cached read was so when it was cached, a cached verdict that and one lifetime more.
ReadAge(e, truth, st) == e.left > 0 /\ st > TTL - e.left => e.value = truth
RoomAge(e, truth, st, d) ==
    e.left > 0 /\ e.value \in {"yes", "no"} /\ st > (TTL - e.left) + (TTL - 1) + d => e.value = truth
Entry(e) == DOMAIN e = {"value", "left"} /\ e.left \in 0..TTL
BotKept(cache, st, g, d) ==
    /\ DOMAIN cache = {"member", "guild"} \cup Rooms
    /\ \A k \in {"member", "guild"} \cup Rooms : Entry(cache[k])
    /\ \A s \in {"member", "guild"} : ReadAge(cache[s], Truth(g, s), st)
    /\ \A room \in Rooms : RoomAge(cache[room], TrueVerdict(g), st, d)
BotRight == BotAsked /\ BotKept(botCache, stable, guild, Slowest)
\* What BotVerdictSettles says of a step.
BotFounded == botCheck'.verdict \in {"yes", "no"} /\ stable > 2 * (TTL - 1) + Slowest
                 => botCheck'.verdict = TrueVerdict(guild)

LEMMA SourceSlots == Sources \subseteq Slots /\ Sources \subseteq Reads /\ Reads \subseteq Slots
BY AccessAssumption DEF Sources

LEMMA CachedEntry == ASSUME NEW v PROVE Entry(Cached(v)) /\ Cached(v).left = TTL /\ Cached(v).value = v
BY AccessAssumption DEF Cached, Entry

LEMMA BotAsksRight ==
    ASSUME RestInv, Requested, BotRight, BotAsks
    PROVE  Requested' /\ mix' = mix /\ mix = "bot" /\ BotRight' /\ (botCheck'.pc = "decided" => BotFounded)
<1> PICK room \in Rooms :
       /\ mix = "bot" /\ botCheck.open = {}
       /\ IF Holds(botCache[room])
            THEN /\ botCheck' = [NoBotCheck EXCEPT !.pc = "decided", !.verdict = botCache[room].value]
                 /\ UNCHANGED restVars
            ELSE LET need == {s \in {"member", "guild"} : ~Holds(botCache[s])} \cup {"channel"} IN
                 /\ botCheck' = [NoBotCheck EXCEPT !.pc = "asks", !.room = room, !.open = need,
                       !.member = IF Holds(botCache.member) THEN botCache.member.value ELSE {},
                       !.roles = IF Holds(botCache.guild) THEN botCache.guild.value ELSE << >>]
                 /\ Begins(need, "get")
       /\ UNCHANGED <<guild, stable, botCache, mix, read>>
  BY DEF BotAsks, guildVars, cacheVars
<1> DEFINE need == {s \in {"member", "guild"} : ~Holds(botCache[s])} \cup {"channel"}
<1>1. BotKept(botCache, stable, guild, Slowest) /\ stable \in Nat /\ TTL \in Nat \ {0} /\ Slowest \in Nat /\ Slowest' = Slowest
  BY SlotSpent, MemberSlot, AccessAssumption DEF BotRight, Requested, Slowest
<1>2. BotKept(botCache, stable, guild, Slowest)'
  BY <1>1
<1>3. Asking = {}
  BY DEF Asking
<1>4. CASE Holds(botCache[room])
  <2>1. botCheck' = [NoBotCheck EXCEPT !.pc = "decided", !.verdict = botCache[room].value] /\ UNCHANGED restVars
    BY <1>4
  <2>2. /\ botCheck'.pc = "decided" /\ botCheck'.verdict = botCache[room].value /\ botCheck'.open = {}
        /\ DOMAIN botCheck' = DOMAIN NoBotCheck
    BY <2>1 DEF NoBotCheck
  <2>3. Requested'
    BY <1>3, <2>1, <2>2, QuietCalls DEF Asking
  <2>4. BotAsked'
    BY <2>2 DEF BotAsked
  <2>5. BotFounded
    <3>1. botCache[room].left \in 0..TTL /\ botCache[room].left > 0 /\ RoomAge(botCache[room], TrueVerdict(guild), stable, Slowest)
      BY <1>1, <1>4 DEF BotKept, Entry, Holds
    <3>2. stable > 2 * (TTL - 1) + Slowest => stable > (TTL - botCache[room].left) + (TTL - 1) + Slowest
      BY <1>1, <3>1
    <3> QED
      BY <2>2, <3>1, <3>2 DEF BotFounded, RoomAge
  <2> QED
    BY <1>2, <2>3, <2>4, <2>5 DEF BotRight
<1>5. CASE ~Holds(botCache[room])
  <2> DEFINE m == IF Holds(botCache["member"]) THEN botCache["member"].value ELSE {}
             r == IF Holds(botCache["guild"]) THEN botCache["guild"].value ELSE << >>
  <2>1. /\ botCheck' = [NoBotCheck EXCEPT !.pc = "asks", !.room = room, !.open = need, !.member = m, !.roles = r]
        /\ Begins(need, "get")
    BY <1>5
  <2>2. need \subseteq Sources /\ "channel" \in need /\ need \in SUBSET Slots
    BY SourceSlots DEF Sources
  <2>3. \A s \in Sources \ need : s \in {"member", "guild"} /\ Holds(botCache[s])
    BY DEF Sources
  <2>4. /\ "member" \notin need => m = botCache["member"].value
        /\ "guild" \notin need => r = botCache["guild"].value
    OBVIOUS
  <2> HIDE DEF need, m, r
  <2>5. /\ botCheck'.pc = "asks" /\ botCheck'.room = room /\ botCheck'.open = need /\ botCheck'.member = m
        /\ botCheck'.roles = r /\ DOMAIN botCheck' = DOMAIN NoBotCheck
    BY <2>1 DEF NoBotCheck
  <2>6. Asking' = Asking \cup need
    BY <1>3, <2>5 DEF Asking
  <2>7. \A s \in Reads : read'[s] = None \/ (s \notin need /\ read'[s] = read[s])
    BY <1>3, SourceSlots DEF Requested, Carries
  <2>8. Requested' /\ \A s \in need : SpentBy(s)' = 0
    <3>1. DOMAIN read' = Reads
      BY DEF Requested
    <3> QED
      BY <2>1, <2>2, <2>6, <2>7, <3>1, CallBegins
  <2>9. \A s \in Sources \ need : stable > (TTL - 1) + 0 => Held(botCheck', s) = Truth(guild, s)
    <3> SUFFICES ASSUME NEW s \in Sources \ need, stable > (TTL - 1) + 0 PROVE Held(botCheck', s) = Truth(guild, s)
      OBVIOUS
    <3>1. s \in {"member", "guild"} /\ botCache[s].left > 0 /\ botCache[s].left \in 0..TTL
      BY <1>1, <2>3 DEF BotKept, Entry, Holds
    <3>2. stable > TTL - botCache[s].left
      BY <1>1, <3>1
    <3>3. botCache[s].value = Truth(guild, s)
      BY <1>1, <3>1, <3>2 DEF BotKept, ReadAge
    <3> QED
      BY <2>4, <2>5, <3>1, <3>3 DEF Held
  <2>10. BotAsked'
    <3>1. \A o \in need : BotAge(botCheck', SpentBy(o)', stable, guild)
      BY <2>5, <2>8, <2>9 DEF BotAge
    <3>2. \A o \in botCheck'.open : BotAge(botCheck', SpentBy(o)', stable', guild')
      BY <2>5, <3>1
    <3> QED
      BY <2>2, <2>5, <3>2 DEF BotAsked
  <2> QED
    BY <1>2, <2>5, <2>8, <2>10 DEF BotRight
<1> QED
  BY <1>4, <1>5

\* One more source is known; what was known stays.
LEMMA TookOne ==
    ASSUME BotAsked, NEW s \in botCheck.open, NEW b, b = Took(botCheck, s)
    PROVE  /\ DOMAIN b = DOMAIN NoBotCheck /\ b.pc = botCheck.pc /\ b.room = botCheck.room
           /\ b.open = botCheck.open \ {s} /\ b.verdict = botCheck.verdict
           /\ \A r \in Sources \ {s} : Held(b, r) = Held(botCheck, r)
           /\ Got(s) # None => Held(b, s) = Truth(Got(s), s)
<1> DEFINE g == Got(s)
           c == [botCheck EXCEPT !.open = botCheck.open \ {s}]
<1>1. DOMAIN botCheck = {"pc", "room", "verdict", "open", "member", "roles", "over"} /\ s \in Sources
  BY DEF BotAsked, NoBotCheck
<1>2. b = CASE g = None -> c
            [] g # None /\ s = "member" -> [c EXCEPT !.member = g.bot]
            [] g # None /\ s = "guild" -> [c EXCEPT !.roles = g.roles]
            [] OTHER -> [c EXCEPT !.over = g.over]
  BY DEF Took
<1>3. /\ DOMAIN c = DOMAIN botCheck /\ c.pc = botCheck.pc /\ c.room = botCheck.room
      /\ c.open = botCheck.open \ {s} /\ c.verdict = botCheck.verdict
      /\ c.member = botCheck.member /\ c.roles = botCheck.roles /\ c.over = botCheck.over
  BY <1>1
<1>4. DOMAIN NoBotCheck = DOMAIN botCheck
  BY DEF BotAsked
<1> HIDE DEF c
<1>5. CASE g = None
  BY <1>2, <1>3, <1>4, <1>5 DEF Held, Sources
<1>6. CASE g # None /\ s = "member"
  <2>1. b = [c EXCEPT !.member = g.bot]
    BY <1>2, <1>6
  <2> QED
    BY <1>1, <1>3, <1>4, <1>6, <2>1 DEF Held, Truth, Sources
<1>7. CASE g # None /\ s = "guild"
  <2>1. b = [c EXCEPT !.roles = g.roles]
    BY <1>2, <1>7
  <2> QED
    BY <1>1, <1>3, <1>4, <1>7, <2>1 DEF Held, Truth, Sources
<1>8. CASE g # None /\ s = "channel"
  <2>1. b = [c EXCEPT !.over = g.over]
    BY <1>2, <1>8
  <2> QED
    BY <1>1, <1>3, <1>4, <1>8, <2>1 DEF Held, Truth, Sources
<1> QED
  BY <1>1, <1>5, <1>6, <1>7, <1>8 DEF Sources

LEMMA BotReadRight ==
    ASSUME RestInv, Requested, BotRight, mix = "bot", NEW s \in Sources, BotRead(s)
    PROVE  Requested' /\ mix' = mix /\ BotRight'
           /\ (botCheck.pc # "decided" /\ botCheck'.pc = "decided" => BotFounded)
<1> DEFINE g == Got(s)
           b == Took(botCheck, s)
           v == IF g = None THEN "unknown" ELSE BotVerdict(b.member, b.roles, b.over)
           decides == botCheck.pc = "asks" /\ (g = None \/ b.open = {})
           filled == IF g = None \/ s = "channel" THEN botCache
                     ELSE [botCache EXCEPT ![s] = Cached(IF s = "member" THEN b.member ELSE b.roles)]
<1>1. /\ s \in botCheck.open /\ Settled(s) /\ Taken(s) /\ ReadTaken(s)
      /\ botCheck' = IF decides THEN [NoBotCheck EXCEPT !.pc = "decided", !.verdict = v, !.open = b.open] ELSE b
      /\ botCache' = IF decides THEN [filled EXCEPT ![botCheck.room] = Cached(v)] ELSE filled
      /\ UNCHANGED <<guild, stable, mix>>
  BY DEF BotRead, guildVars
<1>2. BotAsked /\ BotKept(botCache, stable, guild, Slowest)
  BY DEF BotRight
<1>3. /\ DOMAIN b = DOMAIN NoBotCheck /\ b.pc = botCheck.pc /\ b.room = botCheck.room
      /\ b.open = botCheck.open \ {s} /\ b.verdict = botCheck.verdict
      /\ \A r \in Sources \ {s} : Held(b, r) = Held(botCheck, r)
      /\ g # None => Held(b, s) = Truth(g, s)
  BY <1>1, <1>2, TookOne
<1>4. g # None /\ stable > 0 => g = guild
  BY <1>1, SourceSlots DEF Requested, Got, Settled
<1>5. /\ SpentBy(s) = Slowest /\ Slowest \in Nat /\ stable \in Nat /\ TTL \in Nat \ {0} /\ Slowest' = Slowest
      /\ \A o \in Slots : SpentBy(o) \in Nat
  <2>1. SpentBy(s) = Slowest
    BY <1>1 DEF SpentBy, Spent, Settled, Slowest
  <2> QED
    BY <1>1, <2>1, SlotSpent, SourceSlots, AccessAssumption DEF Requested, Slowest
<1> HIDE DEF b, g
<1>6. g # None /\ stable > 0 => Held(b, s) = Truth(guild, s)
  BY <1>3, <1>4
<1>7. filled = botCache \/ (g # None /\ s \in {"member", "guild"} /\ filled = [botCache EXCEPT ![s] = Cached(Held(b, s))])
  BY DEF Held, Sources
<1>8. BotKept(filled, stable, guild, Slowest)
  <2>1. CASE filled = botCache
    BY <1>2, <2>1
  <2>2. CASE g # None /\ s \in {"member", "guild"} /\ filled = [botCache EXCEPT ![s] = Cached(Held(b, s))]
    <3> HIDE DEF filled
    <3> DEFINE e == Cached(Held(b, s))
    <3>1. Entry(e) /\ e.left = TTL /\ e.value = Held(b, s)
      BY CachedEntry
    <3>2. DOMAIN filled = DOMAIN botCache /\ filled[s] = e /\ \A k \in DOMAIN botCache \ {s} : filled[k] = botCache[k]
      BY <1>2, <2>2 DEF BotKept
    <3>3. s \notin Rooms
      BY <2>2, AccessAssumption
    <3>4. ReadAge(e, Truth(guild, s), stable)
      BY <1>5, <1>6, <2>2, <3>1 DEF ReadAge
    <3> HIDE DEF e
    <3> QED
      BY <1>2, <3>1, <3>2, <3>3, <3>4 DEF BotKept
  <2> QED
    BY <1>7, <2>1, <2>2
<1>9. Asking' = Asking \ {s} /\ Asking = botCheck.open /\ botCheck'.open = b.open
  <2>1. CASE decides
    <3>1. botCheck' = [NoBotCheck EXCEPT !.pc = "decided", !.verdict = v, !.open = b.open]
      BY <1>1, <2>1
    <3>2. botCheck'.open = b.open
      BY <3>1 DEF NoBotCheck
    <3> QED
      BY <1>1, <1>3, <3>2 DEF Asking
  <2>2. CASE ~decides
    BY <1>1, <1>3, <2>2 DEF Asking
  <2> QED
    BY <2>1, <2>2
<1>10. Requested' /\ \A r \in Slots \ {s} : SpentBy(r)' = SpentBy(r)
  BY <1>1, <1>9, SourceSlots, CallTaken DEF ReadTaken
\* with the last source the verdict falls
<1>11. CASE decides
  <2> HIDE DEF v, filled
  <2>1. /\ botCheck' = [NoBotCheck EXCEPT !.pc = "decided", !.verdict = v, !.open = b.open]
        /\ botCache' = [filled EXCEPT ![botCheck.room] = Cached(v)]
    BY <1>1, <1>11
  <2>2. botCheck'.pc = "decided" /\ botCheck'.verdict = v /\ DOMAIN botCheck' = DOMAIN NoBotCheck /\ botCheck'.open = b.open
    BY <2>1 DEF NoBotCheck
  <2>3. BotAsked'
    BY <1>2, <1>3, <2>2 DEF BotAsked
  <2>4. ASSUME v \in {"yes", "no"}, stable > (TTL - 1) + Slowest PROVE v = TrueVerdict(guild)
    <3>1. g # None /\ v = BotVerdict(b.member, b.roles, b.over)
      BY <2>4 DEF v
    <3>2. b.open = {}
      BY <1>11, <3>1
    <3>3. \A r \in Sources \ {s} : Held(botCheck, r) = Truth(guild, r)
      <4>1. BotAge(botCheck, SpentBy(s), stable, guild)
        BY <1>1, <1>2, <1>11 DEF BotAsked
      <4>2. \A r \in Sources \ {s} : r \in Sources \ botCheck.open
        BY <1>3, <3>2
      <4> QED
        BY <1>5, <2>4, <4>1, <4>2 DEF BotAge
    <3>4. stable > 0
      BY <1>5, <2>4
    <3>5. \A r \in Sources : Held(b, r) = Truth(guild, r)
      BY <1>3, <1>6, <3>1, <3>3, <3>4
    <3>6. b.member = guild.bot /\ b.roles = guild.roles /\ b.over = guild.over
      BY <3>5 DEF Sources, Held, Truth
    <3> QED
      BY <3>1, <3>6 DEF TrueVerdict
  <2>5. BotKept(botCache', stable, guild, Slowest)
    <3> DEFINE room == botCheck.room
               e == Cached(v)
    <3>1. Entry(e) /\ e.left = TTL /\ e.value = v /\ room \in Rooms
      BY <1>2, <1>11, CachedEntry DEF BotAsked
    <3>2. /\ DOMAIN botCache' = {"member", "guild"} \cup Rooms /\ botCache'[room] = e
          /\ \A k \in ({"member", "guild"} \cup Rooms) \ {room} : botCache'[k] = filled[k]
      BY <1>8, <2>1, <3>1 DEF BotKept
    <3>3. room \notin {"member", "guild"}
      BY <3>1, AccessAssumption
    <3>4. RoomAge(e, TrueVerdict(guild), stable, Slowest)
      <4>1. (TTL - TTL) + (TTL - 1) + Slowest = (TTL - 1) + Slowest
        BY <1>5
      <4> QED
        BY <2>4, <3>1, <4>1 DEF RoomAge
    <3> HIDE DEF e, room
    <3> QED
      BY <1>8, <3>1, <3>2, <3>3, <3>4 DEF BotKept
  <2>6. BotFounded
    <3>1. stable > 2 * (TTL - 1) + Slowest => stable > (TTL - 1) + Slowest
      BY <1>5
    <3> QED
      BY <2>2, <2>4, <3>1 DEF BotFounded
  <2> QED
    BY <1>1, <1>5, <1>10, <2>3, <2>5, <2>6 DEF BotRight
<1>12. CASE ~decides
  <2>1. botCheck' = b /\ botCache' = filled
    BY <1>1, <1>12
  <2>2. botCheck.pc = "asks" => g # None /\ b.open # {}
    BY <1>12
  <2> HIDE DEF filled
  <2>3. ASSUME botCheck.pc = "asks", NEW o \in b.open PROVE BotAge(b, SpentBy(o), stable, guild)
    <3>1. o \in botCheck.open /\ o \in Slots /\ BotAge(botCheck, SpentBy(o), stable, guild)
      BY <1>2, <1>3, <2>3, SourceSlots DEF BotAsked
    <3>2. ASSUME NEW r \in Sources \ b.open, stable > (TTL - 1) + SpentBy(o) PROVE Held(b, r) = Truth(guild, r)
      <4>1. CASE r = s
        <5>1. stable > 0
          BY <1>5, <3>1, <3>2
        <5> QED
          BY <1>6, <2>2, <2>3, <4>1, <5>1
      <4>2. CASE r # s
        BY <1>3, <3>1, <3>2, <4>2 DEF BotAge
      <4> QED
        BY <4>1, <4>2
    <3> QED
      BY <3>2 DEF BotAge
  <2>4. \A o \in b.open : SpentBy(o)' = SpentBy(o)
    BY <1>2, <1>3, <1>10, SourceSlots DEF BotAsked
  <2>5. BotAsked'
    <3>1. b.open \subseteq Sources /\ (b.pc = "asks" => b.room \in Rooms)
      BY <1>2, <1>3 DEF BotAsked
    <3>2. b.pc = "asks" => b.open # {} /\ \A o \in b.open : BotAge(b, SpentBy(o)', stable, guild)
      BY <1>3, <2>2, <2>3, <2>4
    <3> QED
      BY <1>1, <1>3, <2>1, <3>1, <3>2 DEF BotAsked
  <2>6. BotKept(botCache, stable, guild, Slowest)'
    BY <1>1, <1>5, <1>8, <2>1
  <2>7. botCheck'.pc = botCheck.pc
    BY <1>3, <2>1
  <2> QED
    BY <1>1, <1>10, <2>5, <2>6, <2>7 DEF BotRight
<1> QED
  BY <1>11, <1>12

LEMMA BotTicks ==
    ASSUME RestInv, Requested, BotRight, mix = "bot", Tick
    PROVE  BotRight' /\ botCheck' = botCheck
<1>1. /\ Requested' /\ mix' = mix /\ guild' = guild /\ stable' <= stable + 1 /\ stable' \in Nat /\ stable \in Nat
      /\ \A s \in Asking \cap Slots : SpentBy(s)' = SpentBy(s) + 1
  BY CallsTick DEF Requested
<1>2. botCheck' = botCheck /\ botCache' = [s \in DOMAIN botCache |-> Aged(botCache[s])]
  BY DEF Tick, callVars
<1>3. /\ TTL \in Nat \ {0} /\ Slowest \in Nat /\ Slowest' = Slowest /\ \A s \in Slots : SpentBy(s) \in Nat
  BY <1>1, SlotSpent, MemberSlot, AccessAssumption DEF Slowest
<1>4. BotAsked /\ BotKept(botCache, stable, guild, Slowest)
  BY DEF BotRight
<1>5. BotAsked'
  <2>1. ASSUME botCheck.pc = "asks", NEW o \in botCheck.open PROVE BotAge(botCheck, SpentBy(o)', stable', guild)
    <3>1. o \in Asking /\ o \in Slots
      BY <1>4, <2>1, SourceSlots DEF BotAsked, Asking
    <3>2. SpentBy(o)' = SpentBy(o) + 1 /\ SpentBy(o) \in Nat
      BY <1>1, <1>3, <3>1
    <3>3. stable' > (TTL - 1) + SpentBy(o)' => stable > (TTL - 1) + SpentBy(o)
      BY <1>1, <1>3, <3>2
    <3> QED
      BY <1>4, <2>1, <3>3 DEF BotAsked, BotAge
  <2> QED
    BY <1>1, <1>2, <1>4, <2>1 DEF BotAsked
<1>6. BotKept(botCache', stable', guild, Slowest)
  <2>1. DOMAIN botCache' = {"member", "guild"} \cup Rooms
    BY <1>2, <1>4 DEF BotKept
  <2>2. ASSUME NEW k \in {"member", "guild"} \cup Rooms
        PROVE  /\ Entry(botCache'[k]) /\ botCache'[k].value = botCache[k].value
               /\ botCache'[k].left > 0 => botCache[k].left > 0 /\ botCache'[k].left = botCache[k].left - 1
               /\ botCache[k].left \in 0..TTL
    <3>1. Entry(botCache[k]) /\ botCache'[k] = [botCache[k] EXCEPT !.left = Less(botCache[k].left)]
      BY <1>2, <1>4 DEF BotKept, Aged
    <3>2. botCache[k].left \in 0..TTL /\ Less(botCache[k].left) \in 0..TTL
          /\ (Less(botCache[k].left) > 0 => botCache[k].left > 0 /\ Less(botCache[k].left) = botCache[k].left - 1)
      BY <1>3, <3>1 DEF Entry, Less
    <3> QED
      BY <3>1, <3>2 DEF Entry
  <2>3. ASSUME NEW s \in {"member", "guild"} PROVE ReadAge(botCache'[s], Truth(guild, s), stable')
    <3>1. ReadAge(botCache[s], Truth(guild, s), stable)
      BY <1>4 DEF BotKept
    <3>2. botCache'[s].left > 0 /\ stable' > TTL - botCache'[s].left => stable > TTL - botCache[s].left
      BY <1>1, <1>3, <2>2
    <3> QED
      BY <2>2, <3>1, <3>2 DEF ReadAge
  <2>4. ASSUME NEW room \in Rooms PROVE RoomAge(botCache'[room], TrueVerdict(guild), stable', Slowest)
    <3>1. RoomAge(botCache[room], TrueVerdict(guild), stable, Slowest)
      BY <1>4 DEF BotKept
    <3>2. botCache'[room].left > 0 /\ stable' > (TTL - botCache'[room].left) + (TTL - 1) + Slowest
             => stable > (TTL - botCache[room].left) + (TTL - 1) + Slowest
      <4>1. /\ botCache[room].left \in 0..TTL
            /\ botCache'[room].left > 0 => botCache'[room].left = botCache[room].left - 1
        BY <2>2
      <4> QED
        BY <1>1, <1>3, <4>1
    <3> QED
      BY <2>2, <3>1, <3>2 DEF RoomAge
  <2> QED
    BY <2>1, <2>2, <2>3, <2>4 DEF BotKept
<1> QED
  BY <1>1, <1>2, <1>3, <1>5, <1>6 DEF BotRight

LEMMA BotKeeps ==
    ASSUME RestInv, RestInv', Requested, Requested', BotRight, mix' = mix, Changed \/ Still
    PROVE  BotRight' /\ botCheck' = botCheck
<1>1. botCheck' = botCheck /\ botCache' = botCache
  BY DEF Changed, Still
<1>2. BotAsked /\ BotKept(botCache, stable, guild, Slowest)
  BY DEF BotRight
<1>3. /\ TTL \in Nat \ {0} /\ Slowest \in Nat /\ Slowest' = Slowest /\ stable \in Nat
      /\ \A s \in Slots : SpentBy(s) \in Nat
  BY SlotSpent, MemberSlot, AccessAssumption DEF Slowest, Requested
<1>4. \A s \in Slots : SpentBy(s)' \in Nat
  <2> SUFFICES ASSUME NEW s \in Slots PROVE SpentBy(s)' \in Nat
    OBVIOUS
  <2>1. call'[s] \in RestCalls /\ OnTime(call'[s], Fails[mix])
    BY DEF Requested, RestInv, RestTypeOK
  <2>2. Spent(call'[s], Fails[mix]) \in 0..Longest(Fails[mix])
    BY <2>1, SpentBounds
  <2> QED
    BY <2>2 DEF SpentBy
<1>5. CASE Changed
  <2>1. stable' = 0
    BY <1>5 DEF Changed
  <2>2. \A o \in botCheck.open : SpentBy(o)' \in Nat
    BY <1>2, <1>4, SourceSlots DEF BotAsked
  <2>3. \A o \in botCheck.open : BotAge(botCheck, SpentBy(o)', 0, guild')
    <3>1. \A n \in Nat : ~(0 > (TTL - 1) + n)
      BY <1>3
    <3> QED
      BY <2>2, <3>1 DEF BotAge
  <2>4. BotAsked'
    BY <1>1, <1>2, <2>1, <2>3 DEF BotAsked
  <2>5. BotKept(botCache, 0, guild', Slowest)
    <3>1. \A k \in {"member", "guild"} \cup Rooms :
             ~(0 > TTL - botCache[k].left) /\ ~(0 > (TTL - botCache[k].left) + (TTL - 1) + Slowest)
      BY <1>2, <1>3 DEF BotKept, Entry
    <3> QED
      BY <1>2, <3>1 DEF BotKept, ReadAge, RoomAge
  <2> QED
    BY <1>1, <1>3, <2>1, <2>4, <2>5 DEF BotRight
<1>6. CASE Still
  <2>1. stable' = stable /\ guild' = guild /\ \A s \in Slots : SpentBy(s)' >= SpentBy(s)
    BY <1>6 DEF Still, Onward
  <2>2. ASSUME botCheck.pc = "asks", NEW o \in botCheck.open PROVE BotAge(botCheck, SpentBy(o)', stable, guild)
    <3>1. o \in Slots
      BY <1>2, SourceSlots DEF BotAsked
    <3>2. stable > (TTL - 1) + SpentBy(o)' => stable > (TTL - 1) + SpentBy(o)
      BY <1>3, <1>4, <2>1, <3>1
    <3> QED
      BY <1>2, <2>2, <3>2 DEF BotAsked, BotAge
  <2>3. BotAsked'
    BY <1>1, <1>2, <2>1, <2>2 DEF BotAsked
  <2> QED
    BY <1>1, <1>2, <1>3, <2>1, <2>3 DEF BotRight
<1> QED
  BY <1>1, <1>5, <1>6

(*-------------------------------- together --------------------------------*)
AccessInv ==
    /\ EventsInv /\ RestInv /\ BotOnly
    /\ Looked => Requested /\ Steady
    /\ Looked /\ mix = "manage" => Manageable
    /\ Looked /\ mix = "bot" => BotRight

LEMMA AccessInit == Init => AccessInv
<1> SUFFICES ASSUME Init PROVE AccessInv
  OBVIOUS
<1>1. EventsInv /\ RestInv
  BY EventsInit, RestInitInv DEF Init
<1>2. BotOnly
  BY DEF Init, BotOnly, NoBotCheck
<1>3. Requested
  <2>1. Asking = {}
    BY DEF Init, Asking, Nobody, NoBotCheck, RestPcs
  <2>2. limited = 0 /\ \A s \in Slots : call[s] = Idle
    BY DEF Init, RestInit
  <2>3. OnTime(Idle, Fails[mix]) /\ Idle.pc = "idle"
    BY DEF OnTime, Idle
  <2> QED
    BY <2>1, <2>2, <2>3 DEF Init, Requested
<1>4. Steady
  BY DEF Init, Steady
<1>5. Manageable
  <2>1. CheckAges(check, SpentBy("member"), stable, guild, Slowest)
    BY DEF Init, CheckAges, Nobody, RestPcs
  <2>2. VerdictAge(verdicts, stable, guild, Slowest)
    BY AccessAssumption DEF Init, VerdictAge, Nothing
  <2> QED
    BY <2>1, <2>2 DEF Manageable
<1>6. BotRight
  <2>1. BotAsked
    BY DEF Init, BotAsked, NoBotCheck
  <2>2. Entry(Nothing) /\ Nothing.left = 0
    BY AccessAssumption DEF Entry, Nothing
  <2>3. botCache = [s \in {"member", "guild"} \cup Rooms |-> Nothing]
    BY DEF Init
  <2> HIDE DEF Nothing
  <2>4. BotKept(botCache, stable, guild, Slowest)
    BY <2>2, <2>3 DEF BotKept, ReadAge, RoomAge
  <2> QED
    BY <2>1, <2>4 DEF BotRight
<1> QED
  BY <1>1, <1>2, <1>3, <1>4, <1>5, <1>6 DEF AccessInv

LEMMA BotNotAlone == ASSUME BotOnly, mix # "bot", [Next]_vars PROVE botCheck' = botCheck /\ ~BotAsks
<1>0. botCheck.open = {} /\ ~BotAsks
  BY DEF BotOnly, BotAsks
<1>1. CASE \/ RoleChanges \/ RoleGoes \/ MemberChanges \/ OwnerChanges \/ OverwriteChanges
           \/ VoiceMoves \/ GuildOutage \/ NewSession \/ Writes
  BY <1>0, <1>1 DEF RoleChanges, RoleGoes, MemberChanges, OwnerChanges, OverwriteChanges,
     VoiceMoves, GuildOutage, NewSession, Writes, ChangesTo, callVars
<1>2. CASE OnGuild \/ OnGuildDelete \/ OnRole \/ OnVoiceState \/ OnMessage
  BY <1>0, <1>2 DEF OnGuild, OnGuildDelete, OnRole, OnVoiceState, OnMessage, Delivered
<1>3. CASE MemberRead \/ GuildRead \/ RolesRead \/ Looks \/ LookRead \/ LookTimesOut
  BY <1>0, <1>3 DEF MemberRead, GuildRead, RolesRead, Looks, LookRead, LookTimesOut
<1>4. CASE BotAsks \/ \E s \in {"member", "guild", "channel"} : BotRead(s)
  BY <1>0, <1>4 DEF BotAsks, BotRead
<1>5. CASE Posting \/ Served \/ Answered \/ Continues \/ Tick \/ UNCHANGED vars
  BY <1>0, <1>5 DEF Posting, Served, Answered, Continues, Tick, vars, accessVars, callVars
<1> QED
  BY <1>0, <1>1, <1>2, <1>3, <1>4, <1>5 DEF Next
LEMMA BotOnlyStep == ASSUME BotOnly, mix' = mix, [Next]_vars PROVE BotOnly'
BY BotNotAlone DEF BotOnly

\* Messages are for those who look at the right to manage.
LEMMA MessageMeansManage == ASSUME EventsInv, OnMessage PROVE mix = "manage"
<1> SUFFICES ASSUME mix # "manage" PROVE FALSE
  OBVIOUS
<1>1. events # << >> /\ Head(events).kind = "message" /\ events \in Seq(GuildEvents) /\ Unwritten
  BY DEF OnMessage, Delivered, EventsInv, GuildTypeOK
<1>2. 1 \in 1..Len(events) /\ Head(events) = events[1]
  BY <1>1
<1> QED
  BY <1>1, <1>2 DEF Unwritten

\* A step of a lookup, of whichever kind, keeps what is promised and decides rightly.
LEMMA LookedStep ==
    ASSUME AccessInv, RestInv', Looked, [Next]_vars
    PROVE  /\ Requested'
           /\ mix = "manage" => Manageable' /\ (check'.pc = "decided" /\ (check.pc # "decided" \/ OnMessage) => Founded)
           /\ mix = "bot" => BotRight' /\ (botCheck'.pc = "decided" /\ (botCheck.pc # "decided" \/ BotAsks) => BotFounded)
<1>0. EventsInv /\ RestInv /\ RestInv' /\ BotOnly /\ Requested /\ Steady /\ mix \in {"manage", "bot"}
  BY DEF AccessInv, Looked
<1>1. CASE mix = "manage"
  <2>0. Manageable /\ botCheck.open = {}
    BY <1>0, <1>1 DEF AccessInv, BotOnly
  <2>1. ~BotAsks /\ ~(\E s \in {"member", "guild", "channel"} : BotRead(s))
    BY <1>1, <2>0 DEF BotAsks, BotRead
  <2>2. CASE OnMessage
    BY <1>0, <1>1, <2>0, <2>2, MessageRight
  <2>3. CASE MemberRead \/ GuildRead \/ RolesRead
    <3>1. ~OnMessage \/ check.pc # "decided"
      BY <2>3 DEF MemberRead, GuildRead, RolesRead
    <3> QED
      BY <1>0, <1>1, <2>0, <2>3, <3>1, ReadsRight
  <2>4. CASE Tick /\ ~OnMessage
    BY <1>0, <1>1, <2>0, <2>4, CheckTicks, CallsTick
  <2>5. CASE Requested' /\ mix' = mix /\ (Changed \/ Still) /\ ~OnMessage
    BY <1>0, <1>1, <2>0, <2>5, CheckKept
  <2> QED
    BY <1>0, <1>1, <2>1, <2>2, <2>3, <2>4, <2>5, StepsSorted DEF Looking
<1>2. CASE mix = "bot"
  <2>0. BotRight
    BY <1>0, <1>2 DEF AccessInv
  <2>1. CASE BotAsks
    BY <1>0, <1>2, <2>0, <2>1, BotAsksRight
  <2>2. CASE (\E s \in Sources : BotRead(s)) /\ ~BotAsks
    BY <1>0, <1>2, <2>0, <2>2, BotReadRight
  <2>3. ~OnMessage /\ ~(MemberRead \/ GuildRead \/ RolesRead)
    BY <1>0, <1>2, MessageMeansManage DEF MemberRead, GuildRead, RolesRead
  <2>4. CASE Tick /\ ~BotAsks
    BY <1>0, <1>2, <2>0, <2>4, BotTicks, CallsTick
  <2>5. CASE Requested' /\ mix' = mix /\ (Changed \/ Still) /\ ~BotAsks
    BY <1>0, <1>2, <2>0, <2>5, BotKeeps
  <2> QED
    BY <1>0, <1>2, <2>1, <2>2, <2>3, <2>4, <2>5, StepsSorted DEF Looking, Sources
<1> QED
  BY <1>0, <1>1, <1>2

LEMMA AccessNext == ASSUME AccessInv, [Next]_vars PROVE AccessInv' /\ mix' = mix
<1>1. EventsInv /\ RestInv /\ BotOnly
  BY DEF AccessInv
<1>2. EventsInv' /\ RestInv'
  BY <1>1, EventsNext, RestNextInv
<1>3. mix' = mix
  <2>1. GuildTypeOK /\ EventsFit /\ mix \in Mixes
    BY <1>1, EventsParts DEF EventsInv
  <2> QED
    BY <2>1, EventsStep
<1>4. BotOnly'
  BY <1>1, <1>3, BotOnlyStep
<1>5. Looked' = Looked
  BY <1>3 DEF Looked
<1>6. CASE Looked
  <2>1. Requested' /\ (mix = "manage" => Manageable') /\ (mix = "bot" => BotRight')
    BY <1>2, <1>6, LookedStep
  <2>2. Steady'
    BY <1>1, <1>6, SteadyStep DEF AccessInv, Requested
  <2> QED
    BY <1>2, <1>3, <1>4, <2>1, <2>2 DEF AccessInv
<1>7. CASE ~Looked
  BY <1>2, <1>3, <1>4, <1>5, <1>7 DEF AccessInv
<1> QED
  BY <1>3, <1>6, <1>7

LEMMA AccessAlways == Spec => []AccessInv
<1>1. Init => AccessInv
  BY AccessInit
<1>2. AccessInv /\ [Next]_vars => AccessInv'
  BY AccessNext
<1> QED
  BY <1>1, <1>2, PTL DEF Spec

\* The check of the user is the work of its own behaviours.
LEMMA CheckOnly == ASSUME EventsInv, mix # "manage", [Next]_vars PROVE check' = check /\ ~OnMessage
<1>1. ~OnMessage
  BY MessageMeansManage
<1>2. CASE \/ RoleChanges \/ RoleGoes \/ MemberChanges \/ OwnerChanges \/ OverwriteChanges
           \/ VoiceMoves \/ GuildOutage \/ NewSession \/ Writes
  BY <1>1, <1>2 DEF RoleChanges, RoleGoes, MemberChanges, OwnerChanges, OverwriteChanges,
     VoiceMoves, GuildOutage, NewSession, Writes, ChangesTo, callVars
<1>3. CASE OnGuild \/ OnGuildDelete \/ OnRole \/ OnVoiceState
  BY <1>1, <1>3 DEF OnGuild, OnGuildDelete, OnRole, OnVoiceState
<1>4. CASE MemberRead \/ GuildRead \/ RolesRead
  BY <1>4 DEF MemberRead, GuildRead, RolesRead
<1>5. CASE Looks \/ LookRead \/ LookTimesOut \/ BotAsks \/ \E s \in {"member", "guild", "channel"} : BotRead(s)
  BY <1>1, <1>5 DEF Looks, LookRead, LookTimesOut, BotAsks, BotRead
<1>6. CASE Posting \/ Served \/ Answered \/ Continues \/ Tick \/ UNCHANGED vars
  BY <1>1, <1>6 DEF Posting, Served, Answered, Continues, Tick, vars, accessVars, callVars
<1> QED
  BY <1>1, <1>2, <1>3, <1>4, <1>5, <1>6 DEF Next

\* Who may not manage the guild for as long as a verdict is remembered, and its
\* lookup may take, is refused: whatever messages, events and failures there are,
\* for any lifetime, number of attempts and delay, while requests meet no limit.
THEOREM GrantsFounded ==
    ASSUME Fails["manage"] \cap {"route", "global"} = {} PROVE Spec => GrantsAreFounded
<1>1. AccessInv /\ [Next]_vars =>
        [Decides /\ check'.verdict = "yes" /\ stable > (TTL - 1) + 2 * Delay => MayManage(guild)]_vars
  <2> SUFFICES ASSUME AccessInv, [Next]_vars, Decides, check'.verdict = "yes", stable > (TTL - 1) + 2 * Delay
               PROVE  MayManage(guild)
    OBVIOUS
  <2>1. Delay = Slowest
    BY DEF Delay, Slowest, Longest
  <2>2. mix = "manage"
    BY CheckOnly DEF AccessInv, Decides
  <2>3. Looked
    BY <2>2 DEF Looked, Unhindered
  <2>4. Founded
    BY <2>2, <2>3, RestNextInv, LookedStep DEF AccessInv, Decides
  <2> QED
    BY <2>1, <2>4 DEF Founded
<1> QED
  BY <1>1, AccessAlways, PTL DEF Spec, GrantsAreFounded

\* What is said of the bot is put together of reads of different age and kept: two
\* lifetimes and one read after the last change it is the truth, for any rooms, roles
\* and overwrites, whichever read fails, while requests meet no limit.
THEOREM BotVerdictSettled ==
    ASSUME Fails["bot"] \cap {"route", "global"} = {} PROVE Spec => BotVerdictSettles
<1>1. AccessInv /\ [Next]_vars =>
        [BotDecides /\ botCheck'.verdict \in {"yes", "no"} /\ stable > 2 * (TTL - 1) + Delay
            => botCheck'.verdict = BotVerdict(guild.bot, guild.roles, guild.over)]_vars
  <2> SUFFICES ASSUME AccessInv, [Next]_vars, BotDecides, botCheck'.verdict \in {"yes", "no"},
                      stable > 2 * (TTL - 1) + Delay
               PROVE  botCheck'.verdict = BotVerdict(guild.bot, guild.roles, guild.over)
    OBVIOUS
  <2>1. Delay = Slowest
    BY DEF Delay, Slowest, Longest
  <2>2. mix = "bot"
    BY BotNotAlone DEF AccessInv, BotDecides
  <2>3. Looked
    BY <2>2 DEF Looked, Unhindered
  <2>4. BotFounded
    BY <2>2, <2>3, RestNextInv, LookedStep DEF AccessInv, BotDecides
  <2> QED
    BY <2>1, <2>4 DEF BotFounded, TrueVerdict
<1> QED
  BY <1>1, AccessAlways, PTL DEF Spec, BotVerdictSettles
=============================================================================
