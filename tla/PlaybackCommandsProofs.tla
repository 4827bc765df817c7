----------------------- MODULE PlaybackCommandsProofs -----------------------
(***************************************************************************)
(* What the router and the commands promise, for any users, limits, windows *)
(* and commands in progress.                                               *)
(***************************************************************************)
EXTENDS PlaybackCommands, FiniteSetTheorems, SequenceTheorems, TLAPS

(*------------------------------ the limiter -------------------------------*)
Buckets == Users \cup {Guild}
UsersOf(k) == IF k = Guild THEN Users ELSE {k}

\* What still counts at a time t, of the admissions and of a bucket.
Recent(l, t, users) == {i \in DOMAIN l : l[i].user \in users /\ l[i].at + Window > t}
AdmittedIn(l, t, users) == {i \in DOMAIN l : l[i].user \in users /\ l[i].at \in (t - Window + 1)..t}
Live(b, t) == {i \in DOMAIN b : b[i] + Window > t}

Ordered(b) == \A i, j \in DOMAIN b : i < j => b[i] <= b[j]

GateTypeOK ==
    /\ clock \in Nat
    /\ log \in Seq([user : Users, at : Nat]) /\ \A i \in DOMAIN log : log[i].at <= clock
    /\ buckets \in [Buckets -> Seq(Nat)]
    /\ \A k \in Buckets : Ordered(buckets[k]) /\ \A i \in DOMAIN buckets[k] : buckets[k][i] <= clock

\* From now on a bucket never holds less than was admitted.
Covered == \A k \in Buckets, t \in Nat :
    t >= clock => Cardinality(Recent(log, t, UsersOf(k))) <= Cardinality(Live(buckets[k], t))

GateInv == GateTypeOK /\ Covered /\ RateHeld

(*------------------------- calls, locks, selections -----------------------*)
CallsTypeOK ==
    /\ DOMAIN calls = Calls
    /\ \A c \in Calls : /\ DOMAIN calls[c] = DOMAIN Idle
                        /\ calls[c].at # "idle" => calls[c].user \in Users
    /\ begun \in Nat

LockInv ==
    /\ locks \in [LockKeys -> Nat \cup {None}] /\ clock \in Nat
    /\ \A k \in LockKeys : locks[k] # None => \E c \in Calls : Runs(c, k)
    /\ \A k \in LockKeys \ overran : \A c \in Calls : Runs(c, k) =>
          /\ locks[k] # None
          /\ \A d \in Calls : Runs(d, k) => d = c

\* A search that has not kept its results yet.
Searching(c) == calls[c].op = "search" /\ calls[c].at \in {"arrived", "connect", "resolve"}
\* A pick that has looked up its result, and not queued it.
Picking(c) == calls[c].op = "pick" /\ calls[c].at \in {"connect", "resolve"}
IsUsed(n) == \E i \in DOMAIN used : used[i] = n

SelectionInv ==
    /\ used \in Seq(Nat) /\ \A i \in DOMAIN used : used[i] \in 1..begun
    /\ DOMAIN selections = Users
    /\ \A u \in Users : selections[u] # None => selections[u].search \in 1..begun
    /\ \A u, v \in Users : selections[u] # None /\ selections[v] # None /\ u # v
                              => selections[u].search # selections[v].search
    /\ \A c \in Calls : Searching(c) =>
          /\ calls[c].search \in 1..begun /\ ~IsUsed(calls[c].search)
          /\ \A u \in Users : selections[u] # None => selections[u].search # calls[c].search
          /\ \A d \in Calls : Searching(d) /\ calls[d].search = calls[c].search => d = c
    /\ \A c, d \in Calls : Searching(c) /\ Picking(d) => calls[c].search # calls[d].search
    /\ \A c \in Calls : Picking(c) => calls[c].search \in 1..begun

\* While the lock of pick is kept.
PickInv ==
    "pick" \notin overran =>
    /\ IsInjective(used)
    /\ \A u \in Users : selections[u] # None => ~IsUsed(selections[u].search)
    /\ \A c \in Calls : Picking(c) =>
          /\ ~IsUsed(calls[c].search)
          /\ \A u \in Users : selections[u] # None /\ selections[u].search = calls[c].search
                                 => u = calls[c].user

\* Whoever has voted for the track that votes are for has voted on it last.
VoteInv == DOMAIN cast = Users /\ \A u \in votes.voters : u \in Users /\ cast[u] = votes.track

-----------------------------------------------------------------------------
(* The rate limiter *)

LEMMA UpTo == ASSUME NEW n \in Nat  PROVE IsFiniteSet(1..n) /\ Cardinality(1..n) = n
BY FS_Interval

\* What the filter of a bucket drops is a prefix: its times are in order.
LEMMA ExpiredIsPrefix ==
    ASSUME GateTypeOK, NEW k \in Buckets
    PROVE  LET n == Cardinality(Expired(k))
           IN  n \in 0..Len(buckets[k]) /\ \A i \in DOMAIN buckets[k] : i \in Expired(k) <=> i <= n
<1> DEFINE b == buckets[k]
           n == Cardinality(Expired(k))
<1>1. b \in Seq(Nat) /\ DOMAIN b = 1..Len(b) /\ Len(b) \in Nat /\ Window \in Nat /\ clock \in Nat
  BY RouterAssumption DEF GateTypeOK
<1>2. \A i, j \in 1..Len(b) : i < j => b[i] <= b[j]
  BY <1>1 DEF GateTypeOK, Ordered
<1>3. \A i \in 1..Len(b) : b[i] \in Nat
  BY <1>1
<1>4. \A i \in 1..Len(b) : i \in Expired(k) <=> b[i] + Window <= clock
  BY <1>1 DEF Expired
<1>5. Expired(k) \subseteq 1..Len(b)
  BY <1>1 DEF Expired
<1> HIDE DEF b
<1>6. IsFiniteSet(Expired(k)) /\ n \in 0..Len(b)
  <2>1. IsFiniteSet(1..Len(b)) /\ Cardinality(1..Len(b)) = Len(b)
    BY SMTT(30), <1>1, FS_Interval
  <2>2. IsFiniteSet(Expired(k)) /\ Cardinality(Expired(k)) <= Len(b)
    BY <1>5, <2>1, FS_Subset
  <2>3. Cardinality(Expired(k)) \in Nat
    BY <2>2, FS_CardinalityType
  <2> QED
    BY <1>1, <2>2, <2>3
<1>7. ASSUME NEW i \in 1..Len(b), i \in Expired(k)  PROVE  i <= n
  <2>1. 1..i \subseteq Expired(k)
    BY <1>1, <1>2, <1>3, <1>4, <1>7
  <2>2. Cardinality(1..i) = i
    BY FS_Interval
  <2> QED
    BY <1>6, <2>1, <2>2, FS_Subset
<1>8. ASSUME NEW i \in 1..Len(b), i \notin Expired(k)  PROVE  ~(i <= n)
  <2>1. Expired(k) \subseteq 1..(i - 1)
    BY <1>1, <1>2, <1>3, <1>4, <1>5, <1>8
  <2>2. IsFiniteSet(1..(i - 1)) /\ Cardinality(1..(i - 1)) = i - 1
    BY FS_Interval
  <2>3. n <= i - 1
    BY <2>1, <2>2, FS_Subset
  <2> QED
    BY <1>6, <2>3
<1> QED
  BY <1>1, <1>6, <1>7, <1>8 DEF b

\* A filtered bucket is in order, and holds what counts from now on.
LEMMA FreshKeepsLive ==
    ASSUME GateTypeOK, NEW k \in Buckets
    PROVE  /\ Fresh(k) \in Seq(Nat) /\ Ordered(Fresh(k))
           /\ \A i \in DOMAIN Fresh(k) : Fresh(k)[i] <= clock
           /\ \A t \in Nat : t >= clock => Cardinality(Live(buckets[k], t)) <= Cardinality(Live(Fresh(k), t))
<1> DEFINE b == buckets[k]
           n == Cardinality(Expired(k))
           f == Fresh(k)
<1>1. /\ b \in Seq(Nat) /\ DOMAIN b = 1..Len(b) /\ Len(b) \in Nat /\ Window \in Nat /\ clock \in Nat
      /\ \A i \in 1..Len(b) : b[i] \in Nat /\ b[i] <= clock
      /\ \A i, j \in 1..Len(b) : i < j => b[i] <= b[j]
  BY RouterAssumption DEF GateTypeOK, Ordered
<1>2. n \in 0..Len(b) /\ \A i \in 1..Len(b) : b[i] + Window <= clock <=> i <= n
  BY <1>1, ExpiredIsPrefix DEF Expired
<1>3. f = SubSeq(b, n + 1, Len(b))
  BY DEF Fresh
<1> HIDE DEF b, n, f
<1>4. f \in Seq(Nat) /\ Len(f) = Len(b) - n /\ \A i \in 1..Len(b) - n : f[i] = b[n + i]
  <2>1. n + 1 \in Int /\ Len(b) \in Int /\ \A i \in (n + 1)..Len(b) : b[i] \in Nat
    BY <1>1, <1>2
  <2>2. /\ SubSeq(b, n + 1, Len(b)) \in Seq(Nat)
        /\ Len(SubSeq(b, n + 1, Len(b))) = IF n + 1 <= Len(b) THEN Len(b) - (n + 1) + 1 ELSE 0
        /\ \A i \in 1..Len(b) - (n + 1) + 1 : SubSeq(b, n + 1, Len(b))[i] = b[(n + 1) + i - 1]
    BY <2>1, SubSeqProperties
  <2>3. \A i \in 1..Len(b) - n : b[(n + 1) + i - 1] = b[n + i]
    BY <1>1, <1>2
  <2>4. Len(b) - (n + 1) + 1 = Len(b) - n
    BY <1>1, <1>2
  <2>5. Len(f) = Len(b) - n
    <3>1. Len(f) = IF n + 1 <= Len(b) THEN Len(b) - (n + 1) + 1 ELSE 0
      BY <1>3, <2>2
    <3>2. CASE n + 1 <= Len(b)
      BY <2>4, <3>1, <3>2
    <3>3. CASE ~(n + 1 <= Len(b))
      <4>1. Len(b) - n = 0
        <5>1. Len(b) \in Nat /\ n \in Nat /\ n <= Len(b)
          BY <1>1, <1>2
        <5> QED
          BY <3>3, <5>1
      <4> QED
        BY <3>1, <3>3, <4>1
    <3> QED
      BY <3>2, <3>3
  <2> QED
    BY <1>3, <2>2, <2>3, <2>4, <2>5
<1>5. DOMAIN f = 1..Len(b) - n
  BY <1>4
<1>6. Ordered(f) /\ \A i \in DOMAIN f : f[i] <= clock
  <2>1. ASSUME NEW i \in DOMAIN f, NEW j \in DOMAIN f, i < j  PROVE  f[i] <= f[j]
    <3>1. i \in 1..Len(b) - n /\ j \in 1..Len(b) - n
      BY <1>5
    <3>2. n + i \in 1..Len(b) /\ n + j \in 1..Len(b) /\ n + i < n + j
      BY SMTT(30), <1>1, <1>2, <2>1, <3>1
    <3> QED
      BY <1>1, <1>4, <3>1, <3>2
  <2>2. ASSUME NEW i \in DOMAIN f  PROVE  f[i] <= clock
    <3>1. i \in 1..Len(b) - n /\ n + i \in 1..Len(b)
      BY <1>1, <1>2, <1>5
    <3> QED
      BY <1>1, <1>4, <3>1
  <2> QED
    BY <2>1, <2>2 DEF Ordered
<1>7. ASSUME NEW t \in Nat, t >= clock
      PROVE  Cardinality(Live(b, t)) <= Cardinality(Live(f, t))
  <2> DEFINE shift == [i \in Live(b, t) |-> i - n]
  <2>1. \A i \in Live(b, t) : i \in 1..Len(b) /\ i > n /\ i - n \in 1..Len(b) - n /\ f[i - n] = b[i]
    <3>1. ASSUME NEW i \in Live(b, t)  PROVE  i \in 1..Len(b) /\ i > n
      BY <1>1, <1>2, <1>7 DEF Live
    <3>2. ASSUME NEW i \in Live(b, t)  PROVE  i - n \in 1..Len(b) - n /\ f[i - n] = b[n + (i - n)]
      BY SMTT(30), <1>1, <1>2, <1>4, <3>1
    <3> QED
      BY <1>2, <3>1, <3>2
  <2>2. \A i \in Live(b, t) : i - n \in Live(f, t)
    BY <1>5, <2>1 DEF Live
  <2>3. shift \in [Live(b, t) -> Live(f, t)]
    BY <2>2
  <2>4. IsInjective(shift)
    BY <1>2, <2>1 DEF IsInjective
  <2>5. shift \in Injection(Live(b, t), Live(f, t))
    BY <2>3, <2>4 DEF Injection
  <2>6. IsFiniteSet(Live(f, t))
    <3>1. Live(f, t) \subseteq 1..Len(b) - n
      BY <1>5 DEF Live
    <3>2. IsFiniteSet(1..Len(b) - n)
      BY <1>1, <1>2, FS_Interval
    <3> QED
      BY <3>1, <3>2, FS_Subset
  <2> QED
    BY <2>5, <2>6, FS_Injection
<1> QED
  BY <1>4, <1>6, <1>7 DEF b, f


LEMMA PushCounts ==
    ASSUME GateTypeOK, NEW k \in Buckets
    PROVE  /\ Push(k) \in Seq(Nat) /\ Ordered(Push(k)) /\ Len(Push(k)) = Len(Fresh(k)) + 1
           /\ \A i \in DOMAIN Push(k) : Push(k)[i] <= clock
           /\ \A t \in Nat : /\ IsFiniteSet(Live(Push(k), t)) /\ Cardinality(Live(Push(k), t)) <= Len(Push(k))
                             /\ IF clock + Window > t
                                THEN Cardinality(Live(Push(k), t)) = Cardinality(Live(Fresh(k), t)) + 1
                                ELSE Live(Push(k), t) = Live(Fresh(k), t)
<1> DEFINE f == Fresh(k)
           p == Push(k)
<1>1. /\ f \in Seq(Nat) /\ DOMAIN f = 1..Len(f) /\ Len(f) \in Nat /\ clock \in Nat /\ Window \in Nat
      /\ \A i \in 1..Len(f) : f[i] \in Nat /\ f[i] <= clock
      /\ \A i, j \in 1..Len(f) : i < j => f[i] <= f[j]
  <2>1. f \in Seq(Nat) /\ Ordered(f) /\ \A i \in DOMAIN f : f[i] <= clock
    BY FreshKeepsLive
  <2> HIDE DEF f
  <2> QED
    BY SMTT(30), <2>1, RouterAssumption DEF GateTypeOK, Ordered
<1>2. p = Append(f, clock)
  BY DEF Push
<1> HIDE DEF f, p
<1>3. /\ p \in Seq(Nat) /\ Len(p) = Len(f) + 1 /\ DOMAIN p = 1..Len(f) + 1
      /\ p[Len(f) + 1] = clock /\ \A i \in 1..Len(f) : p[i] = f[i]
  BY <1>1, <1>2
<1>4. Ordered(p) /\ \A i \in DOMAIN p : p[i] <= clock
  <2>1. ASSUME NEW i \in DOMAIN p, NEW j \in DOMAIN p, i < j  PROVE  p[i] <= p[j]
    <3>1. i \in 1..Len(f) /\ j \in 1..Len(f) + 1
      BY <1>1, <1>3, <2>1
    <3>2. CASE j = Len(f) + 1
      BY <1>1, <1>3, <3>1, <3>2
    <3>3. CASE j \in 1..Len(f)
      BY <1>1, <1>3, <2>1, <3>1, <3>3
    <3> QED
      BY <1>1, <3>1, <3>2, <3>3
  <2>2. ASSUME NEW i \in DOMAIN p  PROVE  p[i] <= clock
    BY <1>1, <1>3
  <2> QED
    BY <2>1, <2>2 DEF Ordered
<1>5. ASSUME NEW t \in Nat
      PROVE  /\ IsFiniteSet(Live(p, t)) /\ Cardinality(Live(p, t)) <= Len(p)
             /\ IF clock + Window > t
                THEN Cardinality(Live(p, t)) = Cardinality(Live(f, t)) + 1 ELSE Live(p, t) = Live(f, t)
  <2>1. Live(f, t) \subseteq 1..Len(f) /\ Live(p, t) \subseteq 1..Len(p)
    BY <1>1, <1>3 DEF Live
  <2>2. IsFiniteSet(1..Len(f)) /\ IsFiniteSet(1..Len(p)) /\ Cardinality(1..Len(p)) = Len(p)
    BY <1>1, <1>3, FS_Interval
  <2>3. IsFiniteSet(Live(f, t)) /\ IsFiniteSet(Live(p, t)) /\ Cardinality(Live(p, t)) <= Len(p)
    BY <2>1, <2>2, FS_Subset
  <2>4. ASSUME clock + Window > t  PROVE  Cardinality(Live(p, t)) = Cardinality(Live(f, t)) + 1
    <3>1. Live(p, t) = Live(f, t) \cup {Len(f) + 1}
      BY <1>1, <1>3, <2>4 DEF Live
    <3>2. Len(f) + 1 \notin Live(f, t)
      BY <1>1, <2>1
    <3> QED
      BY <2>3, <3>1, <3>2, FS_AddElement
  <2>5. ASSUME ~(clock + Window > t)  PROVE  Live(p, t) = Live(f, t)
    BY <1>1, <1>3, <2>5 DEF Live
  <2> QED
    BY <2>3, <2>4, <2>5
<1> QED
  BY <1>3, <1>4, <1>5 DEF f, p

\* An admission counts for its user and for all, while its window lasts.
LEMMA LogCounts ==
    ASSUME GateTypeOK, NEW u \in Users, NEW users, NEW t \in Nat
    PROVE  LET l == Append(log, [user |-> u, at |-> clock])
           IN  /\ IsFiniteSet(Recent(l, t, users)) /\ IsFiniteSet(Recent(log, t, users))
               /\ IF u \in users /\ clock + Window > t
                  THEN Cardinality(Recent(l, t, users)) = Cardinality(Recent(log, t, users)) + 1
                  ELSE Recent(l, t, users) = Recent(log, t, users)
<1> DEFINE l == Append(log, [user |-> u, at |-> clock])
           n == Len(log)
<1>1. n \in Nat /\ DOMAIN log = 1..n /\ clock \in Nat /\ Window \in Nat
  BY RouterAssumption DEF GateTypeOK
<1>2. DOMAIN l = 1..n + 1 /\ l[n + 1] = [user |-> u, at |-> clock] /\ \A i \in 1..n : l[i] = log[i]
  BY <1>1 DEF GateTypeOK
<1> HIDE DEF l, n
<1>3. Recent(log, t, users) \subseteq 1..n /\ Recent(l, t, users) \subseteq 1..n + 1
  BY <1>1, <1>2 DEF Recent
<1>4. IsFiniteSet(1..n) /\ IsFiniteSet(1..n + 1)
  BY <1>1, FS_Interval
<1>5. IsFiniteSet(Recent(log, t, users)) /\ IsFiniteSet(Recent(l, t, users))
  BY <1>3, <1>4, FS_Subset
<1>6. l[n + 1].user = u /\ l[n + 1].at = clock
  BY <1>2
<1>7. ASSUME u \in users, clock + Window > t
      PROVE  Cardinality(Recent(l, t, users)) = Cardinality(Recent(log, t, users)) + 1
  <2>1. Recent(l, t, users) = Recent(log, t, users) \cup {n + 1}
    BY <1>1, <1>2, <1>6, <1>7 DEF Recent
  <2>2. n + 1 \notin Recent(log, t, users)
    BY <1>1, <1>3
  <2> QED
    BY <1>5, <2>1, <2>2, FS_AddElement
<1>8. ASSUME ~(u \in users /\ clock + Window > t)
      PROVE  Recent(l, t, users) = Recent(log, t, users)
  BY <1>1, <1>2, <1>6, <1>8 DEF Recent
<1> QED
  BY <1>5, <1>7, <1>8 DEF l


LEMMA LogEntries ==
    ASSUME GateTypeOK, NEW i \in DOMAIN log
    PROVE  log[i].user \in Users /\ log[i].at \in Nat /\ log[i].at <= clock
<1> DEFINE R == [user : Users, at : Nat]
<1>1. log \in Seq(R) /\ log[i].at <= clock
  BY DEF GateTypeOK
<1> HIDE DEF R
<1>2. log[i] \in R
  BY <1>1
<1> QED
  BY <1>1, <1>2 DEF R

\* Time passes, and nobody is admitted.
LEMMA TimeGate ==
    ASSUME GateInv, UNCHANGED gate, clock' \in Nat, clock' >= clock
    PROVE  GateInv'
<1>1. buckets' = buckets /\ log' = log
  BY DEF gate
<1>2. GateTypeOK'
  <2>1. ASSUME NEW k \in Buckets  PROVE  \A i \in DOMAIN buckets[k] : buckets[k][i] <= clock'
    <3>1. buckets[k] \in Seq(Nat) /\ clock \in Nat
      BY DEF GateInv, GateTypeOK
    <3>2. ASSUME NEW i \in DOMAIN buckets[k]  PROVE  buckets[k][i] <= clock'
      <4>1. buckets[k][i] \in Nat /\ buckets[k][i] <= clock
        BY <3>1 DEF GateInv, GateTypeOK
      <4> QED
        BY <3>1, <4>1
    <3> QED
      BY <3>2
  <2>2. ASSUME NEW i \in DOMAIN log  PROVE  log[i].at <= clock'
    <3>1. log \in Seq([user : Users, at : Nat]) /\ log[i].at <= clock /\ clock \in Nat
      BY DEF GateInv, GateTypeOK
    <3>2. log[i].at \in Nat
      BY <3>1, LogEntries DEF GateInv
    <3> QED
      BY <3>1, <3>2
  <2> QED
    BY <1>1, <2>1, <2>2 DEF GateInv, GateTypeOK, Ordered
<1>3. Covered'
  <2>1. \A t \in Nat : t >= clock' => t >= clock
    BY DEF GateInv, GateTypeOK
  <2> QED
    BY <1>1, <2>1 DEF GateInv, Covered
<1>4. RateHeld'
  BY <1>1 DEF GateInv, RateHeld, Admitted
<1> QED
  BY <1>2, <1>3, <1>4 DEF GateInv

\* What is pushed on a bucket and on the log at once, and a bucket filtered or
\* pushed on alone, keep the log covered.
LEMMA CoveredStays ==
    ASSUME GateInv, clock' = clock, NEW pushed \in SUBSET Buckets,
           buckets' = [k \in DOMAIN buckets |-> IF k \in pushed THEN Push(k) ELSE Fresh(k)],
           \/ log' = log
           \/ \E u \in Users : log' = Append(log, [user |-> u, at |-> clock]) /\ {Guild, u} \subseteq pushed
    PROVE  GateTypeOK' /\ Covered'
<1>1. GateTypeOK /\ Covered /\ clock \in Nat /\ DOMAIN buckets = Buckets
  BY DEF GateInv, GateTypeOK
<1>2. \A k \in Buckets : buckets'[k] = IF k \in pushed THEN Push(k) ELSE Fresh(k)
  BY <1>1
<1>3. GateTypeOK'
  <2>1. \A k \in Buckets : /\ buckets'[k] \in Seq(Nat) /\ Ordered(buckets'[k])
                           /\ \A i \in DOMAIN buckets'[k] : buckets'[k][i] <= clock
    <3>1. ASSUME NEW k \in Buckets
          PROVE  /\ buckets'[k] \in Seq(Nat) /\ Ordered(buckets'[k])
                 /\ \A i \in DOMAIN buckets'[k] : buckets'[k][i] <= clock
      <4>1. CASE k \in pushed
        BY <1>1, <1>2, <4>1, PushCounts
      <4>2. CASE k \notin pushed
        BY <1>1, <1>2, <4>2, FreshKeepsLive
      <4> QED
        BY <4>1, <4>2
    <3> QED
      BY <3>1
  <2>2. buckets' \in [Buckets -> Seq(Nat)]
    <3>1. buckets' = [k \in Buckets |-> IF k \in pushed THEN Push(k) ELSE Fresh(k)]
      BY <1>1
    <3> QED
      BY <1>2, <2>1, <3>1
  <2>3. log' \in Seq([user : Users, at : Nat]) /\ \A i \in DOMAIN log' : log'[i].at <= clock
    <3>1. CASE log' = log
      BY <1>1, <3>1 DEF GateTypeOK
    <3>2. ASSUME NEW u \in Users, log' = Append(log, [user |-> u, at |-> clock])
          PROVE  log' \in Seq([user : Users, at : Nat]) /\ \A i \in DOMAIN log' : log'[i].at <= clock
      <4> DEFINE r == [user |-> u, at |-> clock]
      <4>1. r \in [user : Users, at : Nat] /\ r.at = clock
        BY <1>1
      <4> HIDE DEF r
      <4>2. log \in Seq([user : Users, at : Nat]) /\ \A i \in DOMAIN log : log[i].at <= clock
        BY <1>1 DEF GateTypeOK
      <4>3. log' = Append(log, r)
        BY <3>2 DEF r
      <4>4. log' \in Seq([user : Users, at : Nat]) /\ DOMAIN log' = 1..Len(log) + 1
        BY <4>1, <4>2, <4>3
      <4>5. ASSUME NEW i \in 1..Len(log) + 1  PROVE  log'[i].at <= clock
        <5>1. CASE i = Len(log) + 1
          <6>1. log'[i] = r
            BY <4>2, <4>3, <5>1
          <6> QED
            BY <1>1, <4>1, <6>1
        <5>2. CASE i \in 1..Len(log)
          BY <4>2, <4>3, <5>2
        <5> QED
          BY <4>2, <5>1, <5>2
      <4> QED
        BY <4>4, <4>5
    <3> QED
      BY <3>1, <3>2
  <2> QED
    BY <1>1, <2>1, <2>2, <2>3 DEF GateTypeOK
<1>4. ASSUME NEW k \in Buckets, NEW t \in Nat, t >= clock
      PROVE  Cardinality(Recent(log', t, UsersOf(k))) <= Cardinality(Live(buckets'[k], t))
  <2>1. Cardinality(Recent(log, t, UsersOf(k))) <= Cardinality(Live(buckets[k], t))
    BY <1>1, <1>4 DEF Covered
  <2>2. Cardinality(Live(buckets[k], t)) <= Cardinality(Live(Fresh(k), t))
    BY <1>1, <1>4, FreshKeepsLive
  <2>3. /\ IsFiniteSet(Live(Push(k), t))
        /\ IF clock + Window > t
           THEN Cardinality(Live(Push(k), t)) = Cardinality(Live(Fresh(k), t)) + 1
           ELSE Live(Push(k), t) = Live(Fresh(k), t)
    BY <1>1, PushCounts
  <2>4. /\ Cardinality(Recent(log, t, UsersOf(k))) \in Nat /\ Cardinality(Live(buckets[k], t)) \in Nat
        /\ Cardinality(Live(Fresh(k), t)) \in Nat
    <3>1. IsFiniteSet(Live(buckets[k], t)) /\ IsFiniteSet(Live(Fresh(k), t)) /\ IsFiniteSet(Recent(log, t, UsersOf(k)))
      <4>1. buckets[k] \in Seq(Nat) /\ Fresh(k) \in Seq(Nat) /\ DOMAIN log = 1..Len(log) /\ Len(log) \in Nat
        BY <1>1, FreshKeepsLive DEF GateTypeOK
      <4>2. /\ Live(buckets[k], t) \subseteq 1..Len(buckets[k]) /\ Live(Fresh(k), t) \subseteq 1..Len(Fresh(k))
            /\ Len(buckets[k]) \in Nat /\ Len(Fresh(k)) \in Nat /\ Recent(log, t, UsersOf(k)) \subseteq 1..Len(log)
        BY <4>1 DEF Live, Recent
      <4>3. IsFiniteSet(1..Len(buckets[k])) /\ IsFiniteSet(1..Len(Fresh(k))) /\ IsFiniteSet(1..Len(log))
        BY <4>1, <4>2, UpTo
      <4> QED
        BY <4>2, <4>3, FS_Subset
    <3> QED
      BY <3>1, FS_CardinalityType
  <2>5. CASE log' = log
    <3>1. CASE k \in pushed
      <4>1. Cardinality(Live(Fresh(k), t)) <= Cardinality(Live(Push(k), t))
        BY <2>3, <2>4
      <4>2. Cardinality(Live(Push(k), t)) \in Nat
        BY <2>3, FS_CardinalityType
      <4> QED
        BY <1>2, <2>1, <2>2, <2>4, <2>5, <3>1, <4>1, <4>2
    <3>2. CASE k \notin pushed
      BY <1>2, <2>1, <2>2, <2>4, <2>5, <3>2
    <3> QED
      BY <3>1, <3>2
  <2>6. ASSUME NEW u \in Users, log' = Append(log, [user |-> u, at |-> clock]), {Guild, u} \subseteq pushed
        PROVE  Cardinality(Recent(log', t, UsersOf(k))) <= Cardinality(Live(buckets'[k], t))
    <3>1. IF u \in UsersOf(k) /\ clock + Window > t
          THEN Cardinality(Recent(log', t, UsersOf(k))) = Cardinality(Recent(log, t, UsersOf(k))) + 1
          ELSE Recent(log', t, UsersOf(k)) = Recent(log, t, UsersOf(k))
      BY <1>1, <2>6, LogCounts
    <3>2. u \in UsersOf(k) => k \in pushed
      BY <2>6 DEF UsersOf
    <3>3. CASE k \in pushed
      <4>1. buckets'[k] = Push(k)
        BY <1>2, <3>3
      <4>2. CASE clock + Window > t
        BY <2>1, <2>2, <2>3, <2>4, <3>1, <4>1, <4>2
      <4>3. CASE ~(clock + Window > t)
        BY <2>1, <2>2, <2>3, <2>4, <3>1, <4>1, <4>3
      <4> QED
        BY <4>2, <4>3
    <3>4. CASE k \notin pushed
      BY <1>2, <2>1, <2>2, <2>4, <3>1, <3>2, <3>4
    <3> QED
      BY <3>3, <3>4
  <2> QED
    BY <2>5, <2>6
<1> QED
  BY <1>3, <1>4 DEF Covered


\* At the time of an admission there is room for it, for the guild and its user.
LEMMA AdmitGate ==
    ASSUME GateInv, clock' = clock, NEW u \in Users, Room(Guild), Room(u),
           buckets' = [k \in DOMAIN buckets |-> IF k \in {Guild, u} THEN Push(k) ELSE Fresh(k)],
           log' = Append(log, [user |-> u, at |-> clock])
    PROVE  GateInv'
<1> DEFINE n == Len(log)
<1>1. GateTypeOK /\ Covered /\ RateHeld /\ clock \in Nat /\ DOMAIN buckets = Buckets
  BY DEF GateInv, GateTypeOK
<1>2. {Guild, u} \in SUBSET Buckets /\ u # Guild
  BY RouterAssumption DEF Buckets
<1>3. GateTypeOK' /\ Covered'
  BY <1>2, CoveredStays
<1>4. buckets'[Guild] = Push(Guild) /\ buckets'[u] = Push(u)
  BY <1>1, <1>2
<1>5. {GuildMax, UserMax} \subseteq Nat /\ Window \in Nat
  BY RouterAssumption
<1>6. ASSUME NEW k \in {Guild, u}
      PROVE  Cardinality(Recent(log', clock, UsersOf(k))) <= Limit(k)
  <2>1. k \in Buckets /\ buckets'[k] = Push(k) /\ Len(Fresh(k)) < Limit(k)
    BY <1>2, <1>4 DEF Room
  <2>2. Cardinality(Recent(log', clock, UsersOf(k))) <= Cardinality(Live(Push(k), clock))
    <3>1. Covered' => \A t \in Nat : t >= clock' => Cardinality(Recent(log', t, UsersOf(k))) <= Cardinality(Live(buckets'[k], t))
      BY <2>1 DEF Covered
    <3> QED
      BY <1>1, <1>3, <2>1, <3>1
  <2>3. Cardinality(Live(Push(k), clock)) <= Len(Fresh(k)) + 1 /\ IsFiniteSet(Live(Push(k), clock))
    BY <1>1, <2>1, PushCounts
  <2>4. Len(Fresh(k)) \in Nat
    BY <1>1, <2>1, FreshKeepsLive
  <2>5. Cardinality(Live(Push(k), clock)) \in Nat
    BY <2>3, FS_CardinalityType
  <2>6. Cardinality(Recent(log', clock, UsersOf(k))) \in Nat
    <3>1. IsFiniteSet(Recent(log', clock, UsersOf(k)))
      BY <1>1, LogCounts
    <3> QED
      BY <3>1, FS_CardinalityType
  <2>7. Limit(k) \in Nat
    BY <1>5 DEF Limit
  <2> QED
    BY <2>1, <2>2, <2>3, <2>4, <2>5, <2>6, <2>7
<1>7. /\ n \in Nat /\ DOMAIN log = 1..n /\ DOMAIN log' = 1..n + 1
      /\ log'[n + 1] = [user |-> u, at |-> clock] /\ \A i \in 1..n : log'[i] = log[i]
      /\ \A i \in 1..n : log[i].at \in Nat /\ log[i].at <= clock
  <2>1. log \in Seq([user : Users, at : Nat]) /\ \A i \in DOMAIN log : log[i].at \in Nat /\ log[i].at <= clock
    BY <1>1, LogEntries DEF GateTypeOK
  <2> QED
    BY <2>1
<1> HIDE DEF n
<1>8. log'[n + 1].user = u /\ log'[n + 1].at = clock
  BY <1>7
<1>9. \A users : AdmittedIn(log', clock, users) = Recent(log', clock, users)
  <2>1. ASSUME NEW users  PROVE  AdmittedIn(log', clock, users) = Recent(log', clock, users)
    <3>1. \A i \in 1..n + 1 : log'[i].at \in Nat /\ log'[i].at <= clock
      BY <1>1, <1>7, <1>8
    <3>2. \A a \in Nat : a <= clock => (a + Window > clock <=> a \in (clock - Window + 1)..clock)
      BY <1>1, <1>5
    <3> QED
      BY <1>1, <1>7, <3>1, <3>2 DEF AdmittedIn, Recent
  <2> QED
    BY <2>1
<1>10. ASSUME NEW t \in Nat, NEW users, t < clock \/ u \notin users
       PROVE  AdmittedIn(log', t, users) = AdmittedIn(log, t, users)
  <2>1. ~(log'[n + 1].user \in users /\ log'[n + 1].at \in (t - Window + 1)..t)
    <3>1. CASE t < clock
      <4>1. clock \notin (t - Window + 1)..t
        BY <1>1, <3>1
      <4> QED
        BY <1>8, <4>1
    <3>2. CASE u \notin users
      BY <1>8, <3>2
    <3> QED
      BY <1>10, <3>1, <3>2
  <2> QED
    BY <1>7, <2>1 DEF AdmittedIn
<1>11. ASSUME NEW i \in 1..n + 1
       PROVE  /\ Cardinality(AdmittedIn(log', log'[i].at, Users)) <= GuildMax
              /\ Cardinality(AdmittedIn(log', log'[i].at, {log'[i].user})) <= UserMax
  <2> DEFINE t == log'[i].at
             v == log'[i].user
  <2>1. t \in Nat /\ t <= clock
    BY <1>1, <1>7, <1>8
  <2>2. i \in 1..n => /\ Cardinality(AdmittedIn(log, t, Users)) <= GuildMax
                      /\ Cardinality(AdmittedIn(log, t, {v})) <= UserMax
    BY <1>1, <1>7 DEF RateHeld, Admitted, AdmittedIn
  <2>3. i \notin 1..n => t = clock /\ v = u
    BY <1>7, <1>8
  <2> HIDE DEF t, v
  <2>4. Cardinality(AdmittedIn(log', t, Users)) <= GuildMax
    <3>1. CASE t = clock
      <4>1. Cardinality(Recent(log', clock, Users)) <= GuildMax
        BY <1>6 DEF UsersOf, Limit
      <4> QED
        BY <1>9, <3>1, <4>1
    <3>2. CASE t < clock
      BY <1>10, <2>1, <2>2, <2>3, <3>2
    <3> QED
      BY <1>1, <2>1, <3>1, <3>2
  <2>5. Cardinality(AdmittedIn(log', t, {v})) <= UserMax
    <3>1. CASE t = clock /\ v = u
      <4>1. Cardinality(Recent(log', clock, {u})) <= UserMax
        BY <1>2, <1>6 DEF UsersOf, Limit
      <4> QED
        BY <1>9, <3>1, <4>1
    <3>2. CASE t < clock \/ v # u
      <4>1. i \in 1..n
        BY <2>3, <3>2, <1>1, <2>1
      <4>2. AdmittedIn(log', t, {v}) = AdmittedIn(log, t, {v})
        BY <1>10, <2>1, <3>2
      <4> QED
        BY <2>2, <4>1, <4>2
    <3> QED
      BY <1>1, <2>1, <3>1, <3>2
  <2> QED
    BY <2>4, <2>5 DEF t, v
<1>12. RateHeld'
  BY <1>7, <1>11 DEF RateHeld, Admitted, AdmittedIn
<1> QED
  BY <1>3, <1>12 DEF GateInv


-----------------------------------------------------------------------------
(* What a step does to the calls, the locks and the selections *)

Others(c) == DOMAIN calls' = Calls /\ \A d \in Calls \ {c} : calls'[d] = calls[d]
Gone(c) == Others(c) /\ calls'[c] = Idle
\* The call goes on, with the operation and the user it came with.
Stays(c) == Others(c) /\ DOMAIN calls'[c] = DOMAIN Idle /\ calls'[c].op = calls[c].op /\ calls'[c].user = calls[c].user
Moves(c, stage) == Stays(c) /\ calls'[c].at = stage /\ calls'[c].search = calls[c].search

Counted(c) ==
    calls[c].at = "arrived" /\ (Admit(c) \/ \E pushed \in {{}, {Guild}} :
        log' = log /\ buckets' = [k \in DOMAIN buckets |-> IF k \in pushed THEN Push(k) ELSE Fresh(k)])

Rests == clock' \in {clock, clock + 1} /\ UNCHANGED <<gate, lockVars, selections, used, begun, calls>>
Enters(c) ==
    /\ calls[c].at = "idle" /\ begun' = begun + 1
    /\ Others(c) /\ DOMAIN calls'[c] = DOMAIN Idle /\ calls'[c].user \in Users
    /\ \/ calls'[c].at = "arrived" /\ calls'[c].search = begun + 1
       \/ calls'[c].at = "removing" /\ calls'[c].op \in {"reaction", "turn"}
    /\ UNCHANGED <<lockVars, selections, used>>
Exits(c) ==
    /\ calls[c].at \in {"arrived", "removing", "background"} /\ Gone(c)
    /\ UNCHANGED <<lockVars, selections, used, begun>>
Takes(c) ==
    /\ calls[c].at \in {"arrived", "removing"} /\ calls'[c].at \in {"connect", "guard"} /\ Stays(c)
    /\ KeyOf(calls[c].op) \in LockKeys /\ LockFree(KeyOf(calls[c].op)) /\ Take(KeyOf(calls[c].op))
    /\ IF calls[c].op = "pick"
       THEN /\ calls'[c].at = "connect" /\ selections[calls[c].user] # None
            /\ calls'[c].search = selections[calls[c].user].search
       ELSE /\ calls'[c].search = calls[c].search
            /\ calls[c].op = "search" => calls[c].at = "arrived"
    /\ UNCHANGED <<selections, used, begun>>
Advances(c) ==
    /\ \/ calls[c].at = "arrived" /\ calls[c].op = "join" /\ Moves(c, "connect")
       \/ calls[c].at = "connect" /\ Moves(c, "resolve")
       \/ calls[c].at = "resolve" /\ calls[c].op \in LongOps \ {"search", "pick"} /\ Moves(c, "reply")
    /\ UNCHANGED <<lockVars, selections, used, begun>>
Frees(c) ==
    /\ calls[c].at \in Holding /\ Release(c) /\ (Gone(c) \/ Moves(c, "background"))
    /\ UNCHANGED <<selections, used, begun>>
Saves(c) ==
    /\ At(c, "resolve", {"search"}) /\ Moves(c, "post") /\ \E tracks : SaveSelection(c, tracks)
    /\ UNCHANGED <<lockVars, used, begun>>
Uses(c) ==
    /\ At(c, "resolve", {"pick"}) /\ Moves(c, "reply")
    /\ used' = Append(used, calls[c].search) /\ selections' = ClearSelection(calls[c].user)
    /\ UNCHANGED <<lockVars, begun>>

CallStep(c) ==
    /\ clock' = clock /\ (UNCHANGED gate \/ Counted(c))
    /\ Enters(c) \/ Exits(c) \/ Takes(c) \/ Advances(c) \/ Frees(c) \/ Saves(c) \/ Uses(c)

Kinds ==
    \/ Rests
    \/ (CleanupEphemeral \/ PruneSelections) /\ used' = used
    \/ \E c \in Calls : CallStep(c)

LEMMA GotoMoves == ASSUME CallsTypeOK, NEW c \in Calls, NEW stage, Goto(c, stage)  PROVE Moves(c, stage)
<1>1. DOMAIN calls[c] = {"op", "at", "user", "search", "tracks", "session", "had"} /\ DOMAIN calls = Calls
  BY DEF CallsTypeOK, Idle
<1>2. calls' = [calls EXCEPT ![c] = [calls[c] EXCEPT !.at = stage]]
  BY <1>1 DEF Goto
<1> QED
  BY <1>1, <1>2 DEF Moves, Stays, Others, Idle

LEMMA EndsGone == ASSUME CallsTypeOK, NEW c \in Calls, Ends(c)  PROVE Gone(c)
BY DEF CallsTypeOK, Ends, Gone, Others

LEMMA Arrived ==
    ASSUME CallsTypeOK, NEW c \in Calls, calls[c].at = "arrived", Admit(c), Ends(c),
           UNCHANGED <<clock, lockVars, found, begun, used>>
    PROVE  CallStep(c)
BY EndsGone DEF CallStep, Exits, Counted, found

\* A command that is done in one step.
LEMMA ShortKinds == ASSUME CallsTypeOK, NEW c \in Calls, ShortStep(c)  PROVE CallStep(c)
<1>1. ASSUME NEW op, Short(c, op), used' = used  PROVE CallStep(c)
  BY <1>1, Arrived DEF Short, At
<1>2. ASSUME Control(c)  PROVE CallStep(c)
  BY <1>1, <1>2 DEF Control
<1>3. ASSUME Shows(c)  PROVE CallStep(c)
  BY <1>1, <1>3 DEF Shows, sessionVars
<1>4. ASSUME NEW op, ShowsPages(c, op)  PROVE CallStep(c)
  BY <1>4, Arrived DEF ShowsPages, At, sessionVars
<1>5. CASE Rejected(c)
  BY <1>5, Arrived DEF Rejected, sessionVars
<1>6. CASE Skip(c)
  BY <1>1, <1>6 DEF Skip
<1>7. CASE Pause(c) \/ Resume(c) \/ Loop(c) \/ Volume(c) \/ Eq(c)
  BY <1>2, <1>7 DEF Pause, Resume, Loop, Volume, Eq, Setting
<1>8. CASE Now(c) \/ VoteProgress(c) \/ Effects(c) \/ Ping(c) \/ Stats(c) \/ Eval(c) \/ Reputation(c) \/ Taste(c)
  BY <1>3, <1>8 DEF Now, VoteProgress, Effects, Ping, Stats, Eval, Reputation, Taste
<1>9. CASE QueueShown(c) \/ Lyrics(c) \/ Help(c)
  BY <1>4, <1>9 DEF QueueShown, Lyrics, Help
<1>10. CASE Seek(c) \/ Filter(c) \/ Tempo(c) \/ Pitch(c) \/ Mood(c)
  BY <1>2, <1>10 DEF Seek, Filter, Tempo, Pitch, Mood, Reapplied, Restart, Setting
<1>11. CASE Previous(c) \/ Replay(c)
  BY <1>2, <1>11 DEF Previous, Replay, Restart
<1>12. CASE RemoveTrack(c) \/ Clear(c) \/ Shuffle(c)
  BY <1>2, <1>12 DEF RemoveTrack, Clear, Shuffle, Edits
<1>13. CASE Handoff(c) \/ Party(c) \/ Diag(c)
  BY <1>1, <1>13 DEF Handoff, Party, Diag, sessionVars
<1>14. CASE Leave(c)
  BY <1>1, <1>14 DEF Leave, Destroyed
<1> QED
  BY <1>5, <1>6, <1>7, <1>8, <1>9, <1>10, <1>11, <1>12, <1>13, <1>14 DEF ShortStep

\* A command that waits.
LEMMA LongKinds == ASSUME CallsTypeOK, NEW c \in Calls, LongStep(c)  PROVE CallStep(c) \/ Rests
<1>1. /\ DOMAIN calls[c] = {"op", "at", "user", "search", "tracks", "session", "had"}
      /\ DOMAIN calls = Calls /\ DOMAIN Idle = {"op", "at", "user", "search", "tracks", "session", "had"}
  BY DEF CallsTypeOK, Idle
<1>2. /\ \A op \in LongOps \ {"pick", "playlist"} : KeyOf(op) = op /\ op \in LockKeys
      /\ KeyOf("playlist") = "play" /\ KeyOf("pick") = "pick" /\ {"play", "pick"} \subseteq LockKeys
  BY DEF KeyOf, LongOps, LockKeys
<1>3. ASSUME Finishes(c), calls[c].at \in Holding, clock' = clock, UNCHANGED gate,
             UNCHANGED <<selections, used, begun>>
      PROVE  CallStep(c)
  BY <1>3, EndsGone DEF CallStep, Frees, Finishes
<1>4. CASE Begins(c)
  <2>1. calls[c].op \in LongOps \ {"pick"} /\ calls[c].at = "arrived" /\ KeyOf(calls[c].op) \in LockKeys
    BY <1>2, <1>4 DEF Begins, At
  <2>2. Moves(c, "connect")
    BY <1>4, GotoMoves DEF Begins
  <2>3. Takes(c)
    BY <1>4, <2>1, <2>2 DEF Begins, Takes, Moves, found, sessionVars
  <2> QED
    BY <1>4, <2>1, <2>3 DEF Begins, CallStep, Counted
<1>5. CASE Join(c)
  <2>1. Moves(c, "connect") /\ calls[c].at = "arrived" /\ calls[c].op = "join"
    BY <1>5, GotoMoves DEF Join, At
  <2> QED
    BY <1>5, <2>1 DEF Join, CallStep, Counted, Advances, found, sessionVars
<1>6. CASE BeginsPick(c)
  <2> DEFINE u == calls[c].user
  <2>1. PICK i \in DOMAIN selections[u].tracks :
           calls' = [calls EXCEPT ![c].at = "connect", ![c].search = selections[u].search,
                                  ![c].tracks = <<selections[u].tracks[i]>>]
    BY <1>6 DEF BeginsPick
  <2> DEFINE k == selections[u].search
             ts == <<selections[u].tracks[i]>>
             r == calls[c]
  <2>2. calls' = [calls EXCEPT ![c] = [r EXCEPT !.at = "connect", !.search = k, !.tracks = ts]]
    BY <1>1, <2>1
  <2>3. calls'[c] = [r EXCEPT !.at = "connect", !.search = k, !.tracks = ts] /\ Others(c)
    BY <1>1, <2>2 DEF Others
  <2>4. DOMAIN r = {"op", "at", "user", "search", "tracks", "session", "had"}
    BY <1>1
  <2> HIDE DEF k, ts, r
  <2>5. /\ calls'[c].at = "connect" /\ calls'[c].search = k /\ calls'[c].op = r.op /\ calls'[c].user = r.user
        /\ DOMAIN calls'[c] = DOMAIN Idle
    BY <1>1, <2>3, <2>4
  <2>6. calls[c].at = "arrived" /\ calls[c].op = "pick" /\ selections[u] # None
    BY <1>6 DEF BeginsPick, At, Selectable
  <2>7. Takes(c)
    BY <1>2, <1>6, <2>3, <2>5, <2>6 DEF BeginsPick, Takes, Stays, found, sessionVars, k, r
  <2> QED
    BY <1>6, <2>6, <2>7 DEF BeginsPick, CallStep, Counted
<1>7. CASE Connects(c)
  <2> DEFINE r == calls[c]
             had == session # None
             ses == session'
  <2>1. calls' = [calls EXCEPT ![c].at = "resolve", ![c].session = ses, ![c].had = had]
    BY <1>7 DEF Connects
  <2> HIDE DEF had, ses
  <2>2. calls' = [calls EXCEPT ![c] = [r EXCEPT !.at = "resolve", !.session = ses, !.had = had]]
    BY <1>1, <2>1
  <2>3. calls'[c] = [r EXCEPT !.at = "resolve", !.session = ses, !.had = had] /\ Others(c)
    BY <1>1, <2>2 DEF Others
  <2>4. DOMAIN r = {"op", "at", "user", "search", "tracks", "session", "had"}
    BY <1>1
  <2> HIDE DEF r
  <2>5. /\ calls'[c].at = "resolve" /\ calls'[c].search = r.search /\ calls'[c].op = r.op /\ calls'[c].user = r.user
        /\ DOMAIN calls'[c] = DOMAIN Idle
    BY <1>1, <2>3, <2>4
  <2>6. Moves(c, "resolve")
    BY <2>3, <2>5 DEF Moves, Stays, r
  <2> QED
    BY <1>7, <2>6 DEF Connects, CallStep, Advances, router, found
<1>8. CASE ConnectFails(c)
  BY <1>3, <1>8 DEF ConnectFails, Holding, found, Destroyed, sessionVars
<1>9. CASE JoinEnds(c) \/ NothingQueued(c)
  BY <1>3, <1>9 DEF JoinEnds, NothingQueued, Holding, At, found, sessionVars
<1>10. ASSUME At(c, "resolve", LongOps \ {"search", "pick"}), Goto(c, "reply"), clock' = clock, UNCHANGED gate,
              UNCHANGED <<lockVars, found, begun, kept>>
       PROVE  CallStep(c)
  BY <1>10, GotoMoves DEF CallStep, Advances, At, found, kept
<1>11. CASE Plays(c)
  BY <1>10, <1>11 DEF Plays, At, LongOps
<1>12. CASE PlaysNext(c)
  BY <1>10, <1>12 DEF PlaysNext, At, LongOps
<1>13. CASE Radio(c)
  BY <1>10, <1>13 DEF Radio, At, LongOps
<1>14. CASE Searches(c)
  <2>1. PICK s \in Songs : SaveSelection(c, <<s>>) /\ calls' = [calls EXCEPT ![c].at = "post", ![c].tracks = <<s>>]
    BY <1>14 DEF Searches
  <2> DEFINE r == calls[c]
             ts == <<s>>
  <2> HIDE DEF ts
  <2>2. calls' = [calls EXCEPT ![c] = [r EXCEPT !.at = "post", !.tracks = ts]]
    BY <1>1, <2>1 DEF ts
  <2>3. calls'[c] = [r EXCEPT !.at = "post", !.tracks = ts] /\ Others(c)
    BY <1>1, <2>2 DEF Others
  <2>4. DOMAIN r = {"op", "at", "user", "search", "tracks", "session", "had"}
    BY <1>1
  <2> HIDE DEF r
  <2>5. /\ calls'[c].at = "post" /\ calls'[c].search = r.search /\ calls'[c].op = r.op /\ calls'[c].user = r.user
        /\ DOMAIN calls'[c] = DOMAIN Idle
    BY <1>1, <2>3, <2>4
  <2>6. Moves(c, "post")
    BY <2>3, <2>5 DEF Moves, Stays, r
  <2> QED
    BY <1>14, <2>1, <2>6 DEF Searches, CallStep, Saves, sessionVars
<1>15. CASE Posts(c)
  BY <1>3, <1>15 DEF Posts, Holding, At, sessionVars
<1>16. CASE Picks(c)
  <2>1. Moves(c, "reply")
    BY <1>16, GotoMoves DEF Picks
  <2> QED
    BY <1>16, <2>1 DEF Picks, CallStep, Uses
<1>17. CASE Replies(c)
  <2>1. Gone(c) \/ Moves(c, "background")
    BY <1>17, EndsGone, GotoMoves DEF Replies
  <2> QED
    BY <1>17, <2>1 DEF Replies, CallStep, Frees, Holding, found, sessionVars
<1>18. CASE Loads(c)
  BY <1>18 DEF Loads, Rests, router, found, kept
<1>19. CASE LoadsNoMore(c)
  BY <1>19, EndsGone DEF LoadsNoMore, CallStep, Exits, router, found, sessionVars
<1> QED
  BY <1>4, <1>5, <1>6, <1>7, <1>8, <1>9, <1>11, <1>12, <1>13, <1>14, <1>15, <1>16, <1>17, <1>18, <1>19 DEF LongStep

\* A reaction, or a page turned.
LEMMA ReactKinds == ASSUME CallsTypeOK, NEW c \in Calls, Reacts(c)  PROVE CallStep(c)
<1>1. ASSUME NEW r, calls[c].at = "idle", DOMAIN r = DOMAIN Idle, r.user \in Users,
             r.at = "removing", r.op \in {"reaction", "turn"},
             begun' = begun + 1, calls' = [calls EXCEPT ![c] = r], UNCHANGED <<clock, gate, lockVars, found, used>>
      PROVE  CallStep(c)
  <2>1. calls'[c] = r /\ Others(c)
    BY <1>1 DEF CallsTypeOK, Others
  <2> QED
    BY <1>1, <2>1 DEF CallStep, Enters, found
<1>2. used' = used
  BY DEF Reacts, sessionVars
<1>3. ASSUME NEW u \in Users, SearchReaction(c, u)  PROVE CallStep(c)
  <2>1. PICK m \in DOMAIN offers :
           /\ calls[c].at = "idle" /\ begun' = begun + 1 /\ UNCHANGED <<clock, gate, lockVars, found, pages>>
           /\ \E i \in DOMAIN offers[m].tracks :
                calls' = [calls EXCEPT ![c] = [Idle EXCEPT !.op = "reaction", !.at = "removing", !.user = u,
                                                         !.search = m, !.tracks = <<offers[m].tracks[i]>>]]
    BY <1>3 DEF SearchReaction
  <2>2. PICK ts : calls' = [calls EXCEPT ![c] = [Idle EXCEPT !.op = "reaction", !.at = "removing", !.user = u,
                                                           !.search = m, !.tracks = ts]]
    BY <2>1
  <2> DEFINE r == [Idle EXCEPT !.op = "reaction", !.at = "removing", !.user = u, !.search = m, !.tracks = ts]
  <2>3. DOMAIN r = DOMAIN Idle /\ r.user = u /\ r.at = "removing" /\ r.op = "reaction"
    BY DEF Idle
  <2>4. calls' = [calls EXCEPT ![c] = r]
    BY <2>2
  <2> HIDE DEF r
  <2> QED
    BY <1>1, <1>2, <2>1, <2>3, <2>4
<1>4. ASSUME NEW u \in Users, TurnPage(c, u)  PROVE CallStep(c)
  <2> DEFINE r == [Idle EXCEPT !.op = "turn", !.at = "removing", !.user = u]
  <2>1. DOMAIN r = DOMAIN Idle /\ r.user = u /\ r.at = "removing" /\ r.op = "turn"
    BY DEF Idle
  <2>2. calls' = [calls EXCEPT ![c] = r] /\ calls[c].at = "idle" /\ begun' = begun + 1
        /\ UNCHANGED <<clock, gate, lockVars, found>>
    BY <1>4 DEF TurnPage
  <2> HIDE DEF r
  <2> QED
    BY <1>1, <1>2, <2>1, <2>2
<1>5. CASE PageTurns(c)
  BY <1>2, <1>5, EndsGone DEF PageTurns, At, CallStep, Exits, found
<1>6. ASSUME NEW ses, ReactionApplies(c, ses)  PROVE CallStep(c)
  <2>1. CASE Ends(c) /\ UNCHANGED lockVars
    BY <1>2, <1>6, <2>1, EndsGone DEF ReactionApplies, At, CallStep, Exits
  <2>2. CASE LockFree("search-reaction-pick") /\ Take("search-reaction-pick") /\ Goto(c, "guard")
    <3>1. KeyOf(calls[c].op) = "search-reaction-pick" /\ calls[c].op = "reaction" /\ calls[c].at = "removing"
      BY <1>6 DEF ReactionApplies, At, KeyOf
    <3>2. Moves(c, "guard")
      BY <2>2, GotoMoves
    <3> QED
      BY <1>2, <1>6, <2>2, <3>1, <3>2 DEF ReactionApplies, CallStep, Takes, Moves, LockKeys
  <2> QED
    BY <1>6, <2>1, <2>2 DEF ReactionApplies
<1>7. CASE ReactionThrows(c)
  BY <1>2, <1>7, EndsGone DEF ReactionThrows, At, CallStep, Frees, Holding, found
<1> QED
  BY <1>3, <1>4, <1>5, <1>6, <1>7 DEF Reacts

LEMMA RouterKinds == ASSUME CallsTypeOK, RouterStep  PROVE Kinds
<1>1. used' = used
  BY DEF RouterStep, sessionVars
<1>2. CASE Tick
  BY <1>1, <1>2 DEF Tick, Kinds, Rests, found
<1>3. CASE CleanupEphemeral \/ PruneSelections
  BY <1>1, <1>3 DEF Kinds
<1>4. ASSUME NEW c \in Calls, NEW u \in Users, NEW op \in Ops, Arrives(c, u, op)  PROVE CallStep(c)
  <2> DEFINE r == [Idle EXCEPT !.op = op, !.at = "arrived", !.user = u, !.search = begun + 1]
  <2>1. DOMAIN r = DOMAIN Idle /\ r.user = u /\ r.at = "arrived" /\ r.search = begun + 1
    BY DEF Idle
  <2>2. calls' = [calls EXCEPT ![c] = r] /\ calls[c].at = "idle" /\ begun' = begun + 1
        /\ UNCHANGED <<clock, gate, lockVars, found>>
    BY <1>4 DEF Arrives
  <2> HIDE DEF r
  <2>3. calls'[c] = r /\ Others(c)
    BY <2>2 DEF CallsTypeOK, Others
  <2> QED
    BY <1>1, <2>1, <2>2, <2>3 DEF CallStep, Enters, found
<1>5. ASSUME NEW c \in Calls, Blocked(c)  PROVE CallStep(c)
  BY <1>1, <1>5, EndsGone DEF Blocked, CallStep, Exits, router, found
<1>6. ASSUME NEW c \in Calls, RateLimited(c)  PROVE CallStep(c)
  <2>1. Counted(c)
    <3>1. PICK pushed \in {{}, {Guild}} : \A k : k = Guild /\ Room(Guild) <=> k \in pushed
      <4>1. CASE Room(Guild)
        BY <4>1
      <4>2. CASE ~Room(Guild)
        BY <4>2
      <4> QED
        BY <4>1, <4>2
    <3>2. buckets' = [k \in DOMAIN buckets |-> IF k \in pushed THEN Push(k) ELSE Fresh(k)]
      BY <1>6, <3>1 DEF RateLimited
    <3> QED
      BY <1>6, <3>2 DEF RateLimited, Counted
  <2> QED
    BY <1>1, <1>6, <2>1, EndsGone DEF RateLimited, CallStep, Exits, found
<1>7. ASSUME NEW c \in Calls, AlreadyRunning(c)  PROVE CallStep(c)
  BY <1>1, <1>7, Arrived DEF AlreadyRunning, At
<1> QED
  BY <1>2, <1>3, <1>4, <1>5, <1>6, <1>7 DEF RouterStep, Kinds

\* Every step is of one of these kinds.
LEMMA StepKinds == ASSUME CallsTypeOK, [Next]_vars  PROVE Kinds
<1>1. CASE RouterStep
  BY <1>1, RouterKinds
<1>2. CASE TrackEnds
  BY <1>2 DEF TrackEnds, Kinds, Rests, router, found
<1>3. CASE \E c \in Calls : ShortStep(c) \/ LongStep(c) \/ Reacts(c)
  BY <1>3, ShortKinds, LongKinds, ReactKinds DEF Kinds
<1>4. CASE UNCHANGED vars
  BY <1>4 DEF vars, Kinds, Rests, router, found, sessionVars
<1> QED
  BY <1>1, <1>2, <1>3, <1>4 DEF Next


-----------------------------------------------------------------------------
(* The steps keep the invariants *)

LEMMA CallsStay == ASSUME CallsTypeOK, [Next]_vars  PROVE CallsTypeOK'
<1>1. CASE Rests \/ CleanupEphemeral \/ PruneSelections
  BY <1>1 DEF CallsTypeOK, Rests, CleanupEphemeral, PruneSelections
<1>2. ASSUME NEW c \in Calls, CallStep(c)  PROVE CallsTypeOK'
  <2>1. begun' \in Nat
    BY <1>2 DEF CallStep, Enters, Exits, Takes, Advances, Frees, Saves, Uses, CallsTypeOK
  <2>2. Others(c) /\ DOMAIN calls'[c] = DOMAIN Idle /\ (calls'[c].at # "idle" => calls'[c].user \in Users)
    <3>1. CASE Gone(c)
      BY <3>1 DEF Gone, Idle
    <3>2. CASE Stays(c) /\ calls[c].at # "idle"
      BY <3>2 DEF Stays, CallsTypeOK
    <3>3. CASE Enters(c)
      BY <3>3 DEF Enters
    <3> QED
      BY <1>2, <3>1, <3>2, <3>3 DEF CallStep, Exits, Takes, Advances, Frees, Saves, Uses, Moves, Holding, At
  <2> QED
    BY <2>1, <2>2 DEF CallsTypeOK, Others
<1> QED
  BY <1>1, <1>2, StepKinds DEF Kinds

LEMMA GateStays == ASSUME CallsTypeOK, GateInv, [Next]_vars  PROVE GateInv'
<1>1. CASE Rests \/ CleanupEphemeral \/ PruneSelections
  <2>1. clock' \in Nat /\ clock' >= clock /\ UNCHANGED gate
    BY <1>1 DEF Rests, CleanupEphemeral, PruneSelections, GateInv, GateTypeOK
  <2> QED
    BY <2>1, TimeGate
<1>2. ASSUME NEW c \in Calls, clock' = clock, UNCHANGED gate  PROVE GateInv'
  BY <1>2, TimeGate DEF GateInv, GateTypeOK
<1>3. ASSUME NEW c \in Calls, clock' = clock, Counted(c)  PROVE GateInv'
  <2> DEFINE u == calls[c].user
  <2>1. u \in Users
    BY <1>3 DEF Counted, CallsTypeOK
  <2>2. CASE Admit(c)
    <3>1. CASE UNCHANGED gate
      BY <1>2, <1>3, <3>1
    <3>2. CASE /\ Room(Guild) /\ Room(u)
               /\ buckets' = [k \in DOMAIN buckets |-> IF k \in {Guild, u} THEN Push(k) ELSE Fresh(k)]
               /\ log' = Append(log, [user |-> u, at |-> clock])
      <4> HIDE DEF u
      <4> QED
        BY <1>3, <2>1, <3>2, AdmitGate
    <3> QED
      BY <2>2, <3>1, <3>2 DEF Admit
  <2>3. ASSUME NEW pushed \in {{}, {Guild}}, log' = log,
               buckets' = [k \in DOMAIN buckets |-> IF k \in pushed THEN Push(k) ELSE Fresh(k)]
        PROVE  GateInv'
    <3>1. pushed \in SUBSET Buckets
      BY DEF Buckets
    <3>2. GateTypeOK' /\ Covered'
      BY <1>3, <2>3, <3>1, CoveredStays
    <3>3. RateHeld'
      BY <2>3 DEF GateInv, RateHeld, Admitted
    <3> QED
      BY <3>2, <3>3 DEF GateInv
  <2> QED
    BY <1>3, <2>2, <2>3 DEF Counted
<1> QED
  BY <1>1, <1>2, <1>3, StepKinds DEF Kinds, CallStep

\* Who runs under which lock, before and after a step of c.
LEMMA RunsOfCall ==
    ASSUME CallsTypeOK, NEW c \in Calls, CallStep(c), NEW k \in LockKeys
    PROVE  /\ \A d \in Calls \ {c} : Runs(d, k)' <=> Runs(d, k)
           /\ Enters(c) \/ Exits(c) => ~Runs(c, k) /\ ~Runs(c, k)'
           /\ Takes(c) => ~Runs(c, k) /\ (Runs(c, k)' <=> k = KeyOf(calls[c].op))
           /\ Advances(c) \/ Saves(c) \/ Uses(c) => (Runs(c, k)' <=> Runs(c, k))
           /\ Frees(c) => ~Runs(c, k)' /\ (Runs(c, k) <=> k = KeyOf(calls[c].op))
<1>1. Others(c)
  BY DEF CallStep, Enters, Exits, Takes, Advances, Frees, Saves, Uses, Moves, Stays, Gone
<1>2. \A d \in Calls \ {c} : Runs(d, k)' <=> Runs(d, k)
  BY <1>1 DEF Runs, Others
<1>3. Enters(c) \/ Exits(c) => ~Runs(c, k) /\ ~Runs(c, k)'
  BY DEF Enters, Exits, Gone, Idle, Runs, Holding
<1>4. Takes(c) => ~Runs(c, k) /\ (Runs(c, k)' <=> k = KeyOf(calls[c].op))
  BY DEF Takes, Stays, Runs, Holding
<1>5. Advances(c) \/ Saves(c) \/ Uses(c) => (Runs(c, k)' <=> Runs(c, k))
  <2>1. KeyOf("join") \notin LockKeys
    BY DEF KeyOf, LockKeys
  <2> QED
    BY <2>1 DEF Advances, Saves, Uses, Moves, Stays, Runs, Holding, At
<1>6. Frees(c) => ~Runs(c, k)' /\ (Runs(c, k) <=> k = KeyOf(calls[c].op))
  BY DEF Frees, Moves, Gone, Idle, Runs, Holding
<1> QED
  BY <1>2, <1>3, <1>4, <1>5, <1>6

LEMMA LocksStay == ASSUME CallsTypeOK, LockInv, [Next]_vars  PROVE LockInv'
<1>1. CASE Rests \/ PruneSelections
  BY <1>1 DEF LockInv, Rests, PruneSelections, lockVars, Runs
<1>2. CASE CleanupEphemeral
  <2>1. /\ clock' = clock /\ calls' = calls
        /\ locks' = [k \in LockKeys |-> IF k \in Stale THEN None ELSE locks[k]]
        /\ overran' = overran \cup {k \in Stale : clock - locks[k] > LockTtl}
    BY <1>2 DEF CleanupEphemeral
  <2>2. Stale \subseteq overran'
    BY <2>1 DEF Stale
  <2> QED
    BY <2>1, <2>2 DEF LockInv, Runs
<1>3. ASSUME NEW c \in Calls, CallStep(c)  PROVE LockInv'
  <2> DEFINE key == KeyOf(calls[c].op)
  <2>1. /\ locks \in [LockKeys -> Nat \cup {None}] /\ clock \in Nat /\ clock' = clock /\ clock # None
    BY <1>3, RouterAssumption DEF LockInv, CallStep
  <2>2. /\ \A k \in LockKeys : locks[k] # None => \E d \in Calls : Runs(d, k)
        /\ \A k \in LockKeys \ overran : \A e \in Calls : Runs(e, k) =>
              /\ locks[k] # None
              /\ \A d \in Calls : Runs(d, k) => d = e
    BY DEF LockInv
  <2>3. CASE Enters(c) \/ Exits(c) \/ Advances(c) \/ Saves(c) \/ Uses(c)
    <3>1. locks' = locks /\ overran' = overran
      BY <2>3 DEF Enters, Exits, Advances, Saves, Uses, lockVars
    <3>2. ASSUME NEW k \in LockKeys, NEW d \in Calls  PROVE Runs(d, k)' <=> Runs(d, k)
      BY <1>3, <2>3, RunsOfCall
    <3> QED
      BY <2>1, <2>2, <3>1, <3>2 DEF LockInv
  <2>4. CASE Takes(c)
    <3>1. /\ key \in LockKeys /\ locks[key] = None /\ overran' = overran
          /\ locks' = [locks EXCEPT ![key] = clock]
      BY <2>4 DEF Takes, Take, LockFree
    <3>2. ASSUME NEW k \in LockKeys
          PROVE  /\ \A d \in Calls \ {c} : Runs(d, k)' <=> Runs(d, k)
                 /\ ~Runs(c, k) /\ (Runs(c, k)' <=> k = key)
      BY <1>3, <2>4, RunsOfCall
    <3> HIDE DEF key
    <3>3. locks' \in [LockKeys -> Nat \cup {None}] /\ locks'[key] = clock /\ \A k \in LockKeys \ {key} : locks'[k] = locks[k]
      BY <2>1, <3>1
    <3>4. ASSUME NEW k \in LockKeys, locks'[k] # None  PROVE \E d \in Calls : Runs(d, k)'
      <4>1. CASE k = key
        BY <3>2, <4>1
      <4>2. CASE k # key
        <5>1. PICK d \in Calls : Runs(d, k)
          BY <2>2, <3>3, <3>4, <4>2
        <5> QED
          BY <3>2, <5>1
      <4> QED
        BY <4>1, <4>2
    <3>5. ASSUME NEW k \in LockKeys \ overran, NEW e \in Calls, Runs(e, k)'
          PROVE  locks'[k] # None /\ \A d \in Calls : Runs(d, k)' => d = e
      <4>1. CASE k = key
        <5>1. \A d \in Calls : ~Runs(d, k)
          BY <2>2, <3>1, <4>1
        <5> QED
          BY <2>1, <3>2, <3>3, <3>5, <4>1, <5>1
      <4>2. CASE k # key
        BY <2>2, <3>2, <3>3, <3>5, <4>2
      <4> QED
        BY <4>1, <4>2
    <3> QED
      BY <2>1, <3>1, <3>3, <3>4, <3>5 DEF LockInv
  <2>5. CASE Frees(c)
    <3>1. ASSUME NEW k \in LockKeys
          PROVE  /\ \A d \in Calls \ {c} : Runs(d, k)' <=> Runs(d, k)
                 /\ ~Runs(c, k)' /\ (Runs(c, k) <=> k = key)
      BY <1>3, <2>5, RunsOfCall
    <3>2. /\ overran' = overran
          /\ locks' = IF key \in LockKeys THEN [locks EXCEPT ![key] = None] ELSE locks
      BY <2>5 DEF Frees, Release, lockVars
    <3> HIDE DEF key
    <3>3. /\ locks' \in [LockKeys -> Nat \cup {None}] /\ (key \in LockKeys => locks'[key] = None)
          /\ \A k \in LockKeys \ {key} : locks'[k] = locks[k]
      BY <2>1, <3>2
    <3>4. ASSUME NEW k \in LockKeys, locks'[k] # None  PROVE \E d \in Calls : Runs(d, k)'
      <4>1. k # key
        BY <3>3, <3>4
      <4>2. PICK d \in Calls : Runs(d, k)
        BY <2>2, <3>3, <3>4, <4>1
      <4> QED
        BY <3>1, <4>1, <4>2
    <3>5. ASSUME NEW k \in LockKeys \ overran, NEW e \in Calls, Runs(e, k)'
          PROVE  locks'[k] # None /\ \A d \in Calls : Runs(d, k)' => d = e
      <4>1. Runs(e, k) /\ e # c
        BY <3>1, <3>5
      <4>2. k # key
        BY <2>2, <3>1, <4>1
      <4> QED
        BY <2>2, <3>1, <3>3, <3>5, <4>1, <4>2
    <3> QED
      BY <2>1, <3>2, <3>3, <3>4, <3>5 DEF LockInv
  <2> QED
    BY <1>3, <2>3, <2>4, <2>5 DEF CallStep
<1> QED
  BY <1>1, <1>2, <1>3, StepKinds DEF Kinds


\* Who searches and who picks, before and after a step of c.
LEMMA PickersOfCall ==
    ASSUME CallsTypeOK, NEW c \in Calls, CallStep(c)
    PROVE  /\ \A d \in Calls \ {c} : /\ Searching(d)' <=> Searching(d)
                                     /\ Picking(d)' <=> Picking(d)
                                     /\ calls'[d].search = calls[d].search /\ calls'[d].user = calls[d].user
           /\ Enters(c) => ~Picking(c)' /\ (Searching(c)' => calls'[c].search = begun + 1)
           /\ Exits(c) \/ Frees(c) => ~Searching(c)' /\ ~Picking(c)'
           /\ Advances(c) => /\ Searching(c)' => Searching(c)
                             /\ Picking(c)' => Picking(c)
                             /\ calls'[c].search = calls[c].search /\ calls'[c].user = calls[c].user
           /\ Saves(c) \/ Uses(c) => ~Searching(c)' /\ ~Picking(c)'
           /\ Saves(c) => Searching(c)
           /\ Uses(c) => Picking(c)
<1>1. Others(c)
  BY DEF CallStep, Enters, Exits, Takes, Advances, Frees, Saves, Uses, Moves, Stays, Gone
<1>2. \A d \in Calls \ {c} : /\ Searching(d)' <=> Searching(d)
                             /\ Picking(d)' <=> Picking(d)
                             /\ calls'[d].search = calls[d].search /\ calls'[d].user = calls[d].user
  BY <1>1 DEF Searching, Picking, Others
<1>3. Enters(c) => ~Picking(c)' /\ (Searching(c)' => calls'[c].search = begun + 1)
  BY DEF Enters, Searching, Picking
<1>4. Exits(c) \/ Frees(c) => ~Searching(c)' /\ ~Picking(c)'
  BY DEF Exits, Frees, Gone, Moves, Idle, Searching, Picking
<1>5. Advances(c) => /\ Searching(c)' => Searching(c)
                     /\ Picking(c)' => Picking(c)
                     /\ calls'[c].search = calls[c].search /\ calls'[c].user = calls[c].user
  BY DEF Advances, Moves, Stays, Searching, Picking
<1>6. Saves(c) \/ Uses(c) => ~Searching(c)' /\ ~Picking(c)'
  BY DEF Saves, Uses, Moves, Stays, Searching, Picking
<1>7. (Saves(c) => Searching(c)) /\ (Uses(c) => Picking(c))
  BY DEF Saves, Uses, At, Searching, Picking
<1> QED
  BY <1>2, <1>3, <1>4, <1>5, <1>6, <1>7

LEMMA TakesPickers ==
    ASSUME CallsTypeOK, NEW c \in Calls, Takes(c)
    PROVE  /\ calls[c].user \in Users /\ calls'[c].user = calls[c].user
           /\ Searching(c)' => Searching(c) /\ calls'[c].search = calls[c].search
           /\ Picking(c)' => selections[calls[c].user] # None /\ calls'[c].search = selections[calls[c].user].search
           /\ ~(Searching(c)' /\ Picking(c)')
BY DEF CallsTypeOK, Takes, Stays, Searching, Picking

\* The numbers of the searches under way, kept and used.
LEMMA SelectionsStay == ASSUME CallsTypeOK, SelectionInv, [Next]_vars  PROVE SelectionInv'
<1> USE DEF IsUsed
<1>1. CASE Rests \/ (CleanupEphemeral /\ used' = used)
  BY <1>1 DEF SelectionInv, Rests, CleanupEphemeral, Searching, Picking
<1>2. CASE PruneSelections /\ used' = used
  <2>1. calls' = calls /\ begun' = begun /\ \A u \in Users : selections'[u] # None => selections'[u] = selections[u]
    BY <1>2 DEF PruneSelections
  <2>2. DOMAIN selections' = Users
    BY <1>2 DEF PruneSelections
  <2> QED
    BY <1>2, <2>1, <2>2 DEF SelectionInv, Searching, Picking
<1>3. ASSUME NEW c \in Calls, CallStep(c)  PROVE SelectionInv'
  <2> DEFINE n == calls[c].search
             u == calls[c].user
  <2>1. begun \in Nat /\ DOMAIN selections = Users
    BY DEF CallsTypeOK, SelectionInv
  <2>2. \A d \in Calls \ {c} : /\ Searching(d)' <=> Searching(d)
                               /\ Picking(d)' <=> Picking(d)
                               /\ calls'[d].search = calls[d].search
    BY <1>3, PickersOfCall
  <2>3. CASE Enters(c)
    <3>1. used' = used /\ selections' = selections /\ begun' = begun + 1
      BY <2>3 DEF Enters
    <3>2. ~Picking(c)' /\ (Searching(c)' => calls'[c].search = begun + 1)
      BY <1>3, <2>3, PickersOfCall
    <3>3. used \in Seq(Nat) /\ \A i \in DOMAIN used : used[i] \in 1..begun
      BY DEF SelectionInv
    <3>4. used' \in Seq(Nat) /\ \A i \in DOMAIN used' : used'[i] \in 1..begun /\ used'[i] \in 1..begun'
      BY <2>1, <3>1, <3>3
    <3>5. \A m \in 1..begun : m # begun + 1 /\ m \in 1..begun'
      BY <2>1, <3>1
    <3>6. begun + 1 \in 1..begun'
      BY <2>1, <3>1
    <3>7. \A v \in Users : selections[v] # None => selections[v].search \in 1..begun
      BY DEF SelectionInv
    <3>8. \A d \in Calls : Searching(d) \/ Picking(d) => calls[d].search \in 1..begun
      BY DEF SelectionInv
    <3>9. ASSUME NEW d \in Calls, Searching(d)'
          PROVE  /\ calls'[d].search \in 1..begun' /\ \A i \in DOMAIN used' : used'[i] # calls'[d].search
                 /\ \A v \in Users : selections'[v] # None => selections'[v].search # calls'[d].search
                 /\ \A e \in Calls : Searching(e)' /\ calls'[e].search = calls'[d].search => e = d
                 /\ \A e \in Calls : Picking(e)' => calls'[d].search # calls'[e].search
      <4>1. CASE d = c
        BY <2>2, <3>1, <3>2, <3>4, <3>5, <3>6, <3>7, <3>8, <3>9, <4>1
      <4>2. CASE d # c
        <5>1. Searching(d) /\ calls'[d].search = calls[d].search /\ calls[d].search \in 1..begun
          BY <2>2, <3>8, <3>9, <4>2
        <5>2. /\ ~IsUsed(calls[d].search)
              /\ \A v \in Users : selections[v] # None => selections[v].search # calls[d].search
              /\ \A e \in Calls : Searching(e) /\ calls[e].search = calls[d].search => e = d
              /\ \A e \in Calls : Picking(e) => calls[d].search # calls[e].search
          BY <5>1 DEF SelectionInv
        <5> QED
          BY <2>2, <3>1, <3>2, <3>5, <4>2, <5>1, <5>2
      <4> QED
        BY <4>1, <4>2
    <3>10. \A d \in Calls : Picking(d)' => calls'[d].search \in 1..begun'
      BY <2>2, <3>2, <3>5, <3>8
    <3> QED
      BY <2>1, <3>1, <3>4, <3>5, <3>7, <3>9, <3>10 DEF SelectionInv
  <2>4. CASE Exits(c) \/ Frees(c)
    <3>1. used' = used /\ selections' = selections /\ begun' = begun
      BY <2>4 DEF Exits, Frees
    <3>2. ~Searching(c)' /\ ~Picking(c)'
      BY <1>3, <2>4, PickersOfCall
    <3> QED
      BY <2>2, <3>1, <3>2 DEF SelectionInv
  <2>5. CASE Advances(c)
    <3>1. used' = used /\ selections' = selections /\ begun' = begun
      BY <2>5 DEF Advances
    <3>2. (Searching(c)' => Searching(c)) /\ (Picking(c)' => Picking(c)) /\ calls'[c].search = n
      BY <1>3, <2>5, PickersOfCall
    <3> QED
      BY <2>2, <3>1, <3>2 DEF SelectionInv
  <2>6. CASE Takes(c)
    <3>1. used' = used /\ selections' = selections /\ begun' = begun
      BY <2>6 DEF Takes
    <3>2. /\ u \in Users /\ ~(Searching(c)' /\ Picking(c)')
          /\ Searching(c)' => Searching(c) /\ calls'[c].search = n
          /\ Picking(c)' => selections[u] # None /\ calls'[c].search = selections[u].search
      BY <2>6, TakesPickers
    <3> HIDE DEF n, u
    <3>3. \A d \in Calls : Searching(d)' => Searching(d) /\ calls'[d].search = calls[d].search
      BY <2>2, <3>2 DEF n
    <3>4. \A d \in Calls : Picking(d)' =>
              \/ (Picking(d) /\ calls'[d].search = calls[d].search)
              \/ (selections[u] # None /\ calls'[d].search = selections[u].search)
      BY <2>2, <3>2
    <3> QED
      BY <3>1, <3>2, <3>3, <3>4 DEF SelectionInv
  <2>7. CASE Saves(c)
    <3>1. PICK tracks : selections' = [selections EXCEPT ![u] = [search |-> n, tracks |-> tracks, expires |-> clock + PickTtl]]
      BY <2>7 DEF Saves, SaveSelection
    <3>2. used' = used /\ begun' = begun /\ Searching(c) /\ ~Searching(c)' /\ ~Picking(c)'
      BY <1>3, <2>7, PickersOfCall DEF Saves
    <3> HIDE DEF n, u
    <3>3. DOMAIN selections' = Users /\ \A v \in Users : selections'[v] = selections[v] \/ (v = u /\ selections'[v].search = n)
      BY <2>1, <3>1
    <3>4. /\ n \in 1..begun /\ \A v \in Users : selections[v] # None => selections[v].search # n
          /\ \A d \in Calls \ {c} : Searching(d) => calls[d].search # n
      BY <3>2 DEF SelectionInv, n
    <3>5. ASSUME NEW v \in Users, NEW w \in Users, selections'[v] # None, selections'[w] # None, v # w
          PROVE  selections'[v].search # selections'[w].search
      BY <3>3, <3>4, <3>5 DEF SelectionInv
    <3>6. \A v \in Users : selections'[v] # None => selections'[v].search \in 1..begun
      BY <3>3, <3>4 DEF SelectionInv
    <3>7. ASSUME NEW d \in Calls, Searching(d)'
          PROVE  /\ d # c /\ Searching(d) /\ calls'[d].search = calls[d].search
                 /\ \A v \in Users : selections'[v] # None => selections'[v].search # calls[d].search
      BY <2>2, <3>2, <3>3, <3>4, <3>7 DEF SelectionInv
    <3>8. \A d \in Calls : Picking(d)' => Picking(d) /\ calls'[d].search = calls[d].search
      BY <2>2, <3>2
    <3> QED
      BY <3>2, <3>3, <3>5, <3>6, <3>7, <3>8 DEF SelectionInv
  <2>8. CASE Uses(c)
    <3>1. used' = Append(used, n) /\ selections' = [selections EXCEPT ![u] = None] /\ begun' = begun
      BY <2>8 DEF Uses, ClearSelection
    <3>2. Picking(c) /\ ~Searching(c)' /\ ~Picking(c)'
      BY <1>3, <2>8, PickersOfCall
    <3> HIDE DEF n, u
    <3>3. n \in 1..begun /\ used \in Seq(Nat) /\ (\A i \in DOMAIN used : used[i] \in 1..begun) /\ \A d \in Calls : Searching(d) => calls[d].search # n
      BY <3>2 DEF SelectionInv, n
    <3>4. /\ used' \in Seq(Nat) /\ \A i \in DOMAIN used' : used'[i] \in 1..begun
          /\ \A i \in DOMAIN used' : used'[i] = n \/ \E j \in DOMAIN used : used[j] = used'[i]
      <4>1. n \in Nat /\ DOMAIN used = 1..Len(used) /\ Len(used) \in Nat
        BY <2>1, <3>3
      <4>2. /\ used' \in Seq(Nat) /\ DOMAIN used' = 1..Len(used) + 1
            /\ used'[Len(used) + 1] = n /\ \A i \in 1..Len(used) : used'[i] = used[i]
        BY <3>1, <3>3, <4>1
      <4>3. \A i \in DOMAIN used' : i = Len(used) + 1 \/ i \in DOMAIN used
        BY SMTT(30), <4>1, <4>2
      <4>4. \A i \in DOMAIN used' : used'[i] = n \/ (i \in DOMAIN used /\ used'[i] = used[i])
        BY <4>1, <4>2, <4>3
      <4> QED
        BY <3>3, <4>2, <4>4
    <3>5. DOMAIN selections' = Users /\ \A v \in Users : selections'[v] # None => selections'[v] = selections[v]
      BY <2>1, <3>1
    <3>6. \A d \in Calls : /\ Searching(d)' => Searching(d) /\ calls'[d].search = calls[d].search
                           /\ Picking(d)' => Picking(d) /\ calls'[d].search = calls[d].search
      BY <2>2, <3>2
    <3>7. ASSUME NEW d \in Calls, Searching(d)'  PROVE \A i \in DOMAIN used' : used'[i] # calls'[d].search
      <4>1. Searching(d) /\ calls'[d].search = calls[d].search /\ ~IsUsed(calls[d].search) /\ calls[d].search # n
        BY <3>3, <3>6, <3>7 DEF SelectionInv
      <4> QED
        BY <3>4, <4>1
    <3> QED
      BY SMTT(30), <3>1, <3>4, <3>5, <3>6, <3>7 DEF SelectionInv
  <2> QED
    BY <1>3, <2>3, <2>4, <2>5, <2>6, <2>7, <2>8 DEF CallStep
<1> QED
  BY <1>1, <1>2, <1>3, StepKinds DEF Kinds


\* While the lock of pick is kept, one call picks, and clears what it used.
LEMMA PicksStay ==
    ASSUME CallsTypeOK, LockInv, SelectionInv, PickInv, [Next]_vars
    PROVE  PickInv'
<1> USE DEF IsUsed
<1> SUFFICES ASSUME "pick" \notin overran'
             PROVE  /\ IsInjective(used')
                    /\ \A v \in Users : selections'[v] # None => \A i \in DOMAIN used' : used'[i] # selections'[v].search
                    /\ \A d \in Calls : Picking(d)' =>
                          /\ \A i \in DOMAIN used' : used'[i] # calls'[d].search
                          /\ \A v \in Users : selections'[v] # None /\ selections'[v].search = calls'[d].search
                                                 => v = calls'[d].user
  BY DEF PickInv
<1>1. "pick" \notin overran =>
        /\ IsInjective(used)
        /\ \A v \in Users : selections[v] # None => \A i \in DOMAIN used : used[i] # selections[v].search
        /\ \A d \in Calls : Picking(d) =>
              /\ \A i \in DOMAIN used : used[i] # calls[d].search
              /\ \A v \in Users : selections[v] # None /\ selections[v].search = calls[d].search => v = calls[d].user
  BY DEF PickInv
<1>2. CASE Rests \/ (CleanupEphemeral /\ used' = used)
  BY <1>1, <1>2 DEF Rests, CleanupEphemeral, Picking, lockVars
<1>3. CASE PruneSelections /\ used' = used
  <2>1. /\ calls' = calls /\ overran' = overran
        /\ \A v \in Users : selections'[v] # None => selections'[v] = selections[v]
    BY <1>3 DEF PruneSelections, lockVars
  <2> QED
    BY <1>1, <1>3, <2>1 DEF Picking
<1>4. ASSUME NEW c \in Calls, CallStep(c)
      PROVE  /\ IsInjective(used')
             /\ \A v \in Users : selections'[v] # None => \A i \in DOMAIN used' : used'[i] # selections'[v].search
             /\ \A d \in Calls : Picking(d)' =>
                   /\ \A i \in DOMAIN used' : used'[i] # calls'[d].search
                   /\ \A v \in Users : selections'[v] # None /\ selections'[v].search = calls'[d].search
                                          => v = calls'[d].user
  <2> DEFINE n == calls[c].search
             u == calls[c].user
  <2>1. "pick" \notin overran /\ DOMAIN selections = Users
    BY <1>4 DEF CallStep, Enters, Exits, Takes, Take, Advances, Frees, Release, Saves, Uses, lockVars, SelectionInv
  <2>2. \A d \in Calls \ {c} : /\ Picking(d)' <=> Picking(d)
                               /\ calls'[d].search = calls[d].search /\ calls'[d].user = calls[d].user
    BY <1>4, PickersOfCall
  <2>3. CASE Enters(c) \/ Exits(c) \/ Frees(c)
    <3>1. used' = used /\ selections' = selections
      BY <2>3 DEF Enters, Exits, Frees
    <3>2. ~Picking(c)'
      BY <1>4, <2>3, PickersOfCall
    <3> QED
      BY <1>1, <2>1, <2>2, <3>1, <3>2
  <2>4. CASE Advances(c)
    <3>1. used' = used /\ selections' = selections
      BY <2>4 DEF Advances
    <3>2. (Picking(c)' => Picking(c)) /\ calls'[c].search = n /\ calls'[c].user = u
      BY <1>4, <2>4, PickersOfCall
    <3> QED
      BY <1>1, <2>1, <2>2, <3>1, <3>2
  <2>5. CASE Takes(c)
    <3>1. used' = used /\ selections' = selections
      BY <2>5 DEF Takes
    <3>2. /\ u \in Users /\ calls'[c].user = u
          /\ Picking(c)' => selections[u] # None /\ calls'[c].search = selections[u].search
      BY <2>5, TakesPickers
    <3> HIDE DEF u, n
    <3>3. Picking(c)' => /\ \A i \in DOMAIN used : used[i] # calls'[c].search
                         /\ \A v \in Users : selections[v] # None /\ selections[v].search = calls'[c].search => v = u
      BY <1>1, <2>1, <3>2 DEF SelectionInv
    <3> QED
      BY <1>1, <2>1, <2>2, <3>1, <3>2, <3>3
  <2>6. CASE Saves(c)
    <3>1. PICK tracks : selections' = [selections EXCEPT ![u] = [search |-> n, tracks |-> tracks, expires |-> clock + PickTtl]]
      BY <2>6 DEF Saves, SaveSelection
    <3>2. used' = used /\ Searching(c) /\ ~Picking(c)'
      BY <1>4, <2>6, PickersOfCall DEF Saves
    <3> HIDE DEF n, u
    <3>3. \A v \in Users : selections'[v] = selections[v] \/ (v = u /\ selections'[v].search = n)
      BY <2>1, <3>1
    <3>4. (\A i \in DOMAIN used : used[i] # n) /\ \A d \in Calls : Picking(d) => calls[d].search # n
      BY <3>2 DEF SelectionInv, n
    <3> QED
      BY <1>1, <2>1, <2>2, <3>2, <3>3, <3>4
  <2>7. CASE Uses(c)
    <3>1. used' = Append(used, n) /\ selections' = [selections EXCEPT ![u] = None]
      BY <2>7 DEF Uses, ClearSelection
    <3>2. Picking(c) /\ ~Picking(c)'
      BY <1>4, <2>7, PickersOfCall
    <3>3. \A d \in Calls \ {c} : ~Picking(d)
      <4>1. \A d \in Calls : Picking(d) => Runs(d, "pick")
        BY DEF Picking, Runs, Holding, KeyOf
      <4>2. "pick" \in LockKeys \ overran
        BY <2>1 DEF LockKeys
      <4> QED
        BY <3>2, <4>1, <4>2 DEF LockInv
    <3>4. \A d \in Calls : ~Picking(d)'
      BY <2>2, <3>2, <3>3
    <3>5. /\ IsInjective(used) /\ \A i \in DOMAIN used : used[i] # n
          /\ \A v \in Users : selections[v] # None /\ selections[v].search = n => v = u
      BY <1>1, <2>1, <3>2
    <3> HIDE DEF n, u
    <3>6. \A v \in Users : selections'[v] # None => v # u /\ selections'[v] = selections[v]
      BY <2>1, <3>1
    <3>7. \A v \in Users : selections'[v] # None => selections'[v].search # n
      BY <3>5, <3>6
    <3>8. used \in Seq(Nat) /\ n \in Nat
      BY <3>2 DEF SelectionInv, CallsTypeOK, n
    <3>9. /\ DOMAIN used' = 1..Len(used) + 1 /\ DOMAIN used = 1..Len(used) /\ Len(used) \in Nat
          /\ used'[Len(used) + 1] = n /\ \A i \in 1..Len(used) : used'[i] = used[i]
      BY <3>1, <3>8
    <3>10. IsInjective(used')
      BY <3>5, <3>9 DEF IsInjective
    <3>11. \A i \in DOMAIN used' : used'[i] = n \/ \E j \in DOMAIN used : used[j] = used'[i]
      BY <3>9
    <3> QED
      BY <1>1, <2>1, <3>4, <3>6, <3>7, <3>10, <3>11
  <2> QED
    BY <1>4, <2>3, <2>4, <2>5, <2>6, <2>7 DEF CallStep
<1> QED
  BY <1>2, <1>3, <1>4, StepKinds DEF Kinds

-----------------------------------------------------------------------------
(* Votes *)

\* Votes are counted by skip, forgotten when the track changes, and otherwise kept.
LEMMA VoteKinds ==
    ASSUME [Next]_vars
    PROVE  \/ cast' = cast /\ (votes' = votes \/ votes'.voters = {})
           \/ \E c \in Calls : Skip(c)
<1> DEFINE Quiet == cast' = cast /\ (votes' = votes \/ votes'.voters = {})
<1>1. ASSUME NEW p, Becomes(p)  PROVE Quiet
  BY <1>1 DEF Becomes, Started
<1>2. ASSUME UNCHANGED voteVars  PROVE Quiet
  BY <1>2 DEF voteVars
<1>3. ASSUME Destroyed  PROVE Quiet
  BY <1>3 DEF Destroyed, NoVotes
<1>4. ASSUME UNCHANGED sessionVars  PROVE Quiet
  BY <1>2, <1>4 DEF sessionVars
<1>5. ASSUME NEW c \in Calls, NEW tracks, NEW front, NEW cut, Queues(c, tracks, front, cut)  PROVE Quiet
  BY <1>1, <1>2, <1>5 DEF Queues
<1> HIDE DEF Quiet
<1>6. ASSUME RouterStep \/ TrackEnds  PROVE Quiet
  BY <1>1, <1>4, <1>6 DEF RouterStep, TrackEnds
<1>7. ASSUME NEW c \in Calls, ShortStep(c)  PROVE Quiet \/ Skip(c)
  <2>1. CASE Rejected(c) \/ Now(c) \/ VoteProgress(c) \/ Effects(c) \/ Ping(c) \/ Stats(c) \/ Eval(c)
             \/ Reputation(c) \/ Taste(c) \/ QueueShown(c) \/ Lyrics(c) \/ Help(c)
    BY <1>4, <2>1 DEF Rejected, Now, VoteProgress, Effects, Ping, Stats, Eval, Reputation, Taste, QueueShown,
                      Lyrics, Help, Shows, ShowsPages
  <2>2. ASSUME Setting(c) \/ Edits(c)  PROVE Quiet
    BY <1>2, <2>2 DEF Setting, Edits
  <2>3. ASSUME Restart(c)  PROVE Quiet
    BY <1>1, <2>3 DEF Restart
  <2>4. ASSUME Previous(c)  PROVE Quiet
    BY <1>1, <2>4 DEF Previous
  <2>5. CASE Pause(c) \/ Resume(c) \/ Loop(c) \/ Volume(c) \/ Eq(c)
    BY <2>2, <2>5 DEF Pause, Resume, Loop, Volume, Eq
  <2>6. CASE Seek(c) \/ Filter(c) \/ Tempo(c) \/ Pitch(c) \/ Mood(c)
    BY <2>2, <2>3, <2>6 DEF Seek, Filter, Tempo, Pitch, Mood, Reapplied
  <2>7. CASE Replay(c)
    BY <1>1, <2>3, <2>4, <2>7 DEF Replay
  <2>8. CASE RemoveTrack(c) \/ Clear(c) \/ Shuffle(c)
    BY <2>2, <2>8 DEF RemoveTrack, Clear, Shuffle
  <2>9. CASE Handoff(c) \/ Party(c) \/ Diag(c)
    BY <1>4, <2>9 DEF Handoff, Party, Diag
  <2>10. CASE Leave(c)
    BY <1>3, <2>10 DEF Leave
  <2> QED
    BY <1>7, <2>1, <2>4, <2>5, <2>6, <2>7, <2>8, <2>9, <2>10 DEF ShortStep
<1>8. ASSUME NEW c \in Calls, LongStep(c)  PROVE Quiet
  <2>1. CASE Begins(c) \/ Join(c) \/ BeginsPick(c) \/ JoinEnds(c) \/ NothingQueued(c) \/ Searches(c) \/ Posts(c)
             \/ Replies(c) \/ LoadsNoMore(c)
    BY <1>4, <2>1 DEF Begins, Join, BeginsPick, JoinEnds, NothingQueued, Searches, Posts, Replies, LoadsNoMore
  <2>2. CASE Connects(c) \/ Loads(c)
    BY <1>2, <2>2 DEF Connects, Loads
  <2>3. CASE ConnectFails(c)
    BY <1>3, <1>4, <2>3 DEF ConnectFails
  <2>4. CASE Plays(c)
    BY <1>5, <2>4 DEF Plays
  <2>5. CASE PlaysNext(c)
    BY <1>5, <2>5 DEF PlaysNext
  <2>6. CASE Radio(c)
    BY <1>5, <2>6 DEF Radio
  <2>7. CASE Picks(c)
    BY <1>5, <2>7 DEF Picks
  <2> QED
    BY <1>8, <2>1, <2>2, <2>3, <2>4, <2>5, <2>6, <2>7 DEF LongStep
<1>9. ASSUME NEW c \in Calls, Reacts(c)  PROVE Quiet
  BY <1>4, <1>9 DEF Reacts
<1>10. ASSUME UNCHANGED vars  PROVE Quiet
  BY <1>4, <1>10 DEF vars
<1> QED
  BY <1>6, <1>7, <1>8, <1>9, <1>10 DEF Next, Quiet

\* A vote by skip: whoever is counted has voted on the current track last.
LEMMA SkipVotes ==
    ASSUME CallsTypeOK, VoteInv, NEW c \in Calls, Skip(c)
    PROVE  /\ VoteInv'
           /\ ~DjAccess(calls[c].user) =>
                 /\ cast' = [cast EXCEPT ![calls[c].user] = player.cur.id]
                 /\ \A u \in Votes(calls[c].user) : u \in Users /\ cast'[u] = player.cur.id
<1> DEFINE w == calls[c].user
           id == player.cur.id
<1>1. w \in Users /\ DOMAIN cast = Users /\ \A u \in votes.voters : u \in Users /\ cast[u] = votes.track
  BY DEF CallsTypeOK, VoteInv, Skip, Short, At
<1>2. CASE DjAccess(w)
  <2>1. UNCHANGED voteVars
    BY <1>2 DEF Skip
  <2> QED
    BY <1>2, <2>1 DEF VoteInv, voteVars
<1>3. CASE ~DjAccess(w)
  <2>1. /\ cast' = [cast EXCEPT ![w] = id]
        /\ votes'.track = id /\ (votes'.voters = {} \/ votes'.voters = Votes(w))
    BY <1>3 DEF Skip
  <2> HIDE DEF w, id
  <2>2. ASSUME NEW u \in Votes(w)  PROVE u \in Users /\ cast'[u] = id
    <3>1. u = w \/ (votes.track = id /\ u \in votes.voters)
      BY DEF Votes, id
    <3> QED
      BY <1>1, <2>1, <3>1
  <2>3. DOMAIN cast' = Users
    BY <1>1, <2>1
  <2> QED
    BY <2>1, <2>2, <2>3 DEF VoteInv, w, id
<1> QED
  BY <1>2, <1>3

LEMMA VotesStay == ASSUME CallsTypeOK, VoteInv, [Next]_vars  PROVE VoteInv'
BY VoteKinds, SkipVotes DEF VoteInv

LEMMA RequiredIsMajority ==
    /\ Required \in Nat /\ 2 * Required >= Cardinality(Users)
    /\ Cardinality(Users) >= 2 => Required >= 2
<1> DEFINE n == Cardinality(Users)
<1>1. n \in Nat
  BY RouterAssumption, FS_CardinalityType
<1> HIDE DEF n
<1>2. (n + 1) \div 2 \in Nat /\ 2 * ((n + 1) \div 2) >= n
  BY <1>1
<1>3. Required = IF n <= 1 THEN 1 ELSE IF (n + 1) \div 2 > 2 THEN (n + 1) \div 2 ELSE 2
  BY DEF Required, n
<1>4. Required \in Nat /\ 2 * Required >= n /\ (n >= 2 => Required >= 2)
  BY <1>1, <1>2, <1>3
<1> QED
  BY <1>4 DEF n

-----------------------------------------------------------------------------
(* What holds in every behaviour *)

Inv == CallsTypeOK /\ GateInv /\ LockInv /\ SelectionInv /\ PickInv /\ VoteInv

LEMMA InitInv == ASSUME Init  PROVE Inv
<1> USE DEF Init, RouterInit
<1>1. CallsTypeOK
  BY DEF CallsTypeOK, Idle
<1>2. GateInv
  <2>1. GateTypeOK /\ RateHeld
    BY DEF GateTypeOK, Ordered, RateHeld, Buckets
  <2>2. \A k \in Buckets, t \in Nat : Recent(log, t, UsersOf(k)) = {} /\ Live(buckets[k], t) = {}
    BY DEF Recent, Live, Buckets
  <2>3. Cardinality({}) <= Cardinality({})
    BY FS_EmptySet
  <2>4. Covered
    BY <2>2, <2>3 DEF Covered
  <2> QED
    BY <2>1, <2>4 DEF GateInv
<1>3. LockInv
  BY DEF LockInv, Runs, Holding, Idle
<1>4. SelectionInv /\ PickInv
  BY DEF SelectionInv, PickInv, Searching, Picking, IsUsed, IsInjective, Idle
<1>5. VoteInv
  BY DEF VoteInv, NoVotes
<1> QED
  BY <1>1, <1>2, <1>3, <1>4, <1>5 DEF Inv

\* The buckets cover the admissions, the locks their holders, the votes their track.
THEOREM Invariance == Spec => []Inv
<1>1. Init => Inv
  BY InitInv
<1>2. Inv /\ [Next]_vars => Inv'
  BY CallsStay, GateStays, LocksStay, SelectionsStay, PicksStay, VotesStay DEF Inv
<1> QED
  BY <1>1, <1>2, PTL DEF Spec

\* CommandRateLimiter: in no window are more commands admitted than the limits of
\* the guild and of the user, however many users, commands and sweeps there are.
THEOREM LimitsHold == Spec => []RateHeld
<1>1. Inv => RateHeld
  BY DEF Inv, GateInv
<1> QED
  BY <1>1, Invariance, PTL

\* _withGuildOpLock: until the sweep takes the lock of a slow command, a lock is
\* held exactly while one command of its name runs.
THEOREM LocksHaveHolders == Spec => []LocksFollowOps
<1>1. ASSUME LockInv  PROVE LocksFollowOps
  <2>1. ASSUME NEW k \in LockKeys \ overran
        PROVE  Cardinality({c \in Calls : Runs(c, k)}) <= 1
    <3>1. CASE {c \in Calls : Runs(c, k)} = {}
      <4>1. Cardinality({}) <= 1
        BY FS_EmptySet
      <4> QED
        BY <3>1, <4>1
    <3>2. ASSUME NEW e \in Calls, Runs(e, k)  PROVE Cardinality({c \in Calls : Runs(c, k)}) <= 1
      <4>1. {c \in Calls : Runs(c, k)} = {e}
        BY <1>1, <3>2 DEF LockInv
      <4>2. Cardinality({e}) <= 1
        BY FS_Singleton
      <4> QED
        BY <4>1, <4>2
    <3> QED
      BY <3>1, <3>2
  <2> QED
    BY <1>1, <2>1 DEF LockInv, LocksFollowOps
<1>2. Inv => LocksFollowOps
  BY <1>1 DEF Inv
<1> QED
  BY <1>2, Invariance, PTL

\* pick: a search is queued from once, though the selection is looked up before
\* the lock is taken and cleared only after the awaits.
THEOREM SearchesPickedOnce == Spec => []SelectionUsedOnce
<1>1. Inv => SelectionUsedOnce
  BY DEF Inv, PickInv, SelectionUsedOnce
<1> QED
  BY <1>1, Invariance, PTL

\* registerVoteSkip: a skip by vote has its majority of votes on this very track.
THEOREM VotesDecide == Spec => VoteSkipsAreMajority
<1>1. ASSUME Inv, NEW c \in Calls, Skip(c), ~DjAccess(calls[c].user), player'.skipping, ~player.skipping
      PROVE  LET voters == {u \in Users : cast'[u] = player.cur.id}
             IN  /\ 2 * Cardinality(voters) >= Cardinality(Users)
                 /\ Cardinality(Users) >= 2 => Cardinality(voters) >= 2
  <2> DEFINE u == calls[c].user
             voters == {v \in Users : cast'[v] = player.cur.id}
  <2>1. Cardinality(Votes(u)) >= Required
    BY <1>1 DEF Skip
  <2>2. Votes(u) \in SUBSET voters /\ voters \in SUBSET Users
    BY <1>1, SkipVotes DEF Inv
  <2> HIDE DEF u, voters
  <2>3. /\ IsFiniteSet(voters) /\ IsFiniteSet(Votes(u)) /\ Cardinality(Votes(u)) <= Cardinality(voters)
        /\ IsFiniteSet(Users)
    <3>1. IsFiniteSet(Users) /\ IsFiniteSet(voters)
      BY <2>2, RouterAssumption, FS_Subset
    <3> QED
      BY <2>2, <3>1, FS_Subset
  <2>4. Cardinality(voters) \in Nat /\ Cardinality(Votes(u)) \in Nat /\ Cardinality(Users) \in Nat
    BY <2>3, FS_CardinalityType
  <2>5. 2 * Cardinality(voters) >= Cardinality(Users) /\ (Cardinality(Users) >= 2 => Cardinality(voters) >= 2)
    BY <2>1, <2>3, <2>4, RequiredIsMajority
  <2> QED
    BY <2>5 DEF voters
<1> DEFINE Decided ==
      \A c \in Calls : Skip(c) /\ ~DjAccess(calls[c].user) /\ player'.skipping /\ ~player.skipping =>
          LET voters == {u \in Users : cast'[u] = player.cur.id}
          IN  /\ 2 * Cardinality(voters) >= Cardinality(Users)
              /\ Cardinality(Users) >= 2 => Cardinality(voters) >= 2
<1>2. Inv /\ [Next]_vars => [Decided]_vars
  BY <1>1
<1>3. VoteSkipsAreMajority <=> [][Decided]_vars
  BY DEF VoteSkipsAreMajority
<1> HIDE DEF Decided
<1> QED
  BY <1>2, <1>3, Invariance, PTL DEF Spec
=============================================================================
