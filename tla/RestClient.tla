----------------------------- MODULE RestClient -----------------------------
(***************************************************************************)
(* src/rest.ts: the client of the HTTP API.  A call sends its request,     *)
(* waits out rate limits, repeats what may be repeated, and has, for two   *)
(* operations, a second request to fall back to.                           *)
(*                                                                         *)
(* Calls run side by side and share one thing, the end of the global rate  *)
(* limit.  The server (external) may carry a request out although its      *)
(* answer is lost.  Times are in ticks and counted down.                   *)
(***************************************************************************)
EXTENDS Naturals, FiniteSets

CONSTANTS
    Slots,        \* the calls in progress at once (bound)
    MaxRetries,   \* attempts of a request, the first included
    Backoff,      \* ticks of nextDelayMs: the delay when none is told
    Told,         \* the delays a 429 may tell
    None

ASSUME RestAssumption ==
    /\ MaxRetries \in Nat \ {0} /\ Backoff \in Nat \ {0}
    /\ Told \subseteq Nat \ {0}

\* What is called: a message or an edit must not be repeated blindly, the
\* typing notice may be, reactions (PUT, DELETE) and reads (GET) always may.
Kinds == {"message", "edit", "typing", "reaction", "get", "gateway"}
\* What comes of a request: it is done, nobody knows (network error, 5xx, a body
\* that breaks off), refused for good, refused in the way (400, 404) the fallback
\* is for, or limited.
Outcomes == {"done", "unclear", "refused", "fallback", "route", "global"}

VARIABLES
    limited,      \* globalRateLimitUntilMs: ticks from now
    call,         \* of each slot: the call it makes
    served        \* of each slot: how often the server did what is called (a read does nothing)
restVars == <<limited, call, served>>

Idle == [pc |-> "idle", kind |-> None, attempt |-> 0, left |-> 0, out |-> None,
         wait |-> 0, second |-> FALSE]
Settled(s) == call[s].pc \in {"returned", "failed"}
Free(s) == call[s].pc = "idle" \/ Settled(s)

\* isRetryFriendlyMethod and the callers' retryUnsafe
RetryFriendly(kind) == kind \in {"reaction", "get", "gateway"}
BugAllAreSafe(kind) == kind \in {"typing", "reaction", "edit", "message"}
RetryUnsafe(kind) == kind \in {"typing", "reaction"}
ShouldRetry(kind, out) ==
    \/ out \in {"route", "global"}
    \/ out = "unclear" /\ (RetryFriendly(kind) \/ RetryUnsafe(kind))

\* The head of the loop: wait until the limit known now is over, or send.
WaitForGlobalRateLimit(c) == IF limited > 0
                             THEN [c EXCEPT !.pc = "limited", !.left = limited]
                             ELSE [c EXCEPT !.pc = "sent"]
Requesting(kind, second) ==
    WaitForGlobalRateLimit([Idle EXCEPT !.kind = kind, !.attempt = 1, !.second = second])

\* The caller's part: calls begin in free slots.
Begins(some, kind) ==
    /\ \A s \in some : Free(s)
    /\ call' = [s \in Slots |-> IF s \in some THEN Requesting(kind, FALSE) ELSE call[s]]
    /\ served' = [s \in Slots |-> IF s \in some THEN 0 ELSE served[s]]
    /\ UNCHANGED limited

\* The caller has taken what came of its call.
Taken(s) == /\ call' = [call EXCEPT ![s] = Idle]
            /\ served' = [served EXCEPT ![s] = 0]
            /\ UNCHANGED limited

\* the wait is over: sent without another look at the limit
WaitEnds(s) == /\ call[s].pc = "limited" /\ call[s].left = 0
               /\ call' = [call EXCEPT ![s].pc = "sent"]
               /\ UNCHANGED <<limited, served>>

\* The server answers, or does not; a 429 or a refusal leaves nothing done.
Serve(s, out, wait) ==
    /\ call[s].pc = "sent"
    /\ wait # 0 => out \in {"route", "global"}
    /\ \E done \in {0, 1} :
        /\ out = "done" /\ call[s].kind \notin {"get", "gateway"} => done = 1
        /\ done = 1 => out \in {"done", "unclear"} /\ call[s].kind \notin {"get", "gateway"}
        /\ served' = [served EXCEPT ![s] = @ + done]
    /\ call' = [call EXCEPT ![s].pc = "answered", ![s].out = out, ![s].wait = wait]
    /\ UNCHANGED limited

\* How long the answer says, in whichever header or field, else nextDelayMs.
DelayOf(c) == IF c.wait = 0 THEN Backoff ELSE c.wait

\* The limit is only ever moved out: an answer may be older than the one that set it.
Larger(a, b) == IF a > b THEN a ELSE b
BugLastOneCounts(c) == IF c.out = "global" THEN DelayOf(c) ELSE limited
LimitAfter(c) == IF c.out = "global" THEN Larger(limited, DelayOf(c)) ELSE limited

\* The call after its answer: returned, asleep until the next attempt, in its
\* second request (with the limit as this answer left it), or failed.
Receive(s) ==
    LET c == call[s]
        again == ShouldRetry(c.kind, c.out) /\ c.attempt < MaxRetries
        falls == c.out = "fallback" /\ c.kind \in {"message", "gateway"} /\ ~c.second IN
    /\ c.pc = "answered"
    /\ limited' = LimitAfter(c)
    /\ call' = [call EXCEPT ![s] =
          CASE c.out = "done" -> [Idle EXCEPT !.pc = "returned", !.kind = c.kind]
            [] again -> [c EXCEPT !.pc = "asleep", !.left = DelayOf(c), !.out = None, !.wait = 0]
            [] falls -> Requesting(c.kind, TRUE)
            [] OTHER -> [Idle EXCEPT !.pc = "failed", !.kind = c.kind]]
    /\ UNCHANGED served

Wakes(s) == /\ call[s].pc = "asleep" /\ call[s].left = 0
            /\ call' = [call EXCEPT ![s] =
                  WaitForGlobalRateLimit([call[s] EXCEPT !.attempt = @ + 1])]
            /\ UNCHANGED <<limited, served>>

\* A tick is longer than the timeout of a request: none is under way, and who
\* has slept enough is awake.
Less(n) == IF n = 0 THEN 0 ELSE n - 1
RestTick == /\ \A s \in Slots : /\ call[s].pc \notin {"sent", "answered"}
                                /\ call[s].pc \in {"asleep", "limited"} => call[s].left > 0
            /\ limited' = Less(limited)
            /\ call' = [s \in Slots |-> [call[s] EXCEPT !.left = Less(@)]]
            /\ UNCHANGED served

RestInit == /\ limited = 0
            /\ call = [s \in Slots |-> Idle]
            /\ served = [s \in Slots |-> 0]

\* Nobody reads a message twice: whatever is lost, limited or refused, a message
\* is posted and an edit made at most once, and once if the call returned
\* (_shouldRetry and the fallback of sendMessage).
PostedOnce == \A s \in Slots : call[s].kind \in {"message", "edit"} =>
                 /\ served[s] <= 1
                 /\ call[s].pc = "returned" => served[s] = 1

\* While a global limit is known, only a request that was already waiting when
\* the limit was moved goes out: no first attempt, no repetition, no fallback
\* (_waitForGlobalRateLimit at the head of the loop).
NoRushIntoLimit ==
    [][\A s \in Slots : call'[s].pc = "sent" /\ call[s].pc # "sent"
                           => limited = 0 \/ call[s].pc = "limited"]_restVars

\* Answers of concurrent requests arrive in any order: none brings the end of
\* the limit nearer than time does (request, the Math.max).
LimitNeverShortened == [][limited' >= Less(limited)]_restVars

\* The global limit is kept whatever order answers arrive in: nobody runs into
\* it and no late answer shortens it.
LimitRespected == NoRushIntoLimit /\ LimitNeverShortened
=============================================================================
