---------------------------- MODULE CommandRouter ----------------------------
(***************************************************************************)
(* src/bot/commandRouter.ts and commandRouterOperations.ts, with           *)
(* src/bot/services/commandRateLimiter.ts and                              *)
(* src/bot/commands/helpers/searchSelections.ts: what stands between a     *)
(* message of one guild and the code of its command.                       *)
(*                                                                         *)
(* A message is in `arrived' while the router awaits the configuration of  *)
(* the guild and the permission to answer.  Then it passes the rate        *)
(* limiter and runs; a command that awaits more holds a lock of the guild  *)
(* under its name.  The commands are in module PlaybackCommands.           *)
(***************************************************************************)
EXTENDS Naturals, Sequences, FiniteSets, SequencesExt

CONSTANTS
    Users,
    Songs,
    Calls,         \* messages and reactions in progress at once (bound)
    None,
    Window,        \* commandUserWindowMs, commandGuildWindowMs
    UserMax,       \* commandUserMax
    GuildMax,      \* commandGuildMax
    PickTtl,       \* searchPickTimeoutMs
    LockTtl,       \* the age at which a lock is swept: five minutes
    PageTtl,       \* the age at which pages no longer turn: half an hour
    MaxClock,      \* bound of the clock
    MaxBegun,      \* how many messages and reactions there are (bound)
    Mixes          \* the sets of commands that come together (bound)

\* What a message asks for.  The commands that are done in one step are one of
\* "vote" (skip), "control" (of the session), "party", and "show".
LongOps == {"play", "playlist", "playnext", "radio", "search", "pick"}
ShortOps == {"vote", "control", "show", "party"}
Ops == LongOps \cup ShortOps \cup {"help", "join"}
Guild == "guild"
ASSUME RouterAssumption ==
    /\ {Window, UserMax, GuildMax, PickTtl, LockTtl, PageTtl} \subseteq Nat \ {0}
    /\ Mixes \subseteq SUBSET Ops
    /\ MaxClock \in Nat /\ MaxBegun \in Nat
    /\ IsFiniteSet(Users) /\ None \notin Users \cup Nat /\ Guild \notin Users
LockKeys == {"play", "playnext", "search", "pick", "radio", "search-reaction-pick"}
Bypass == {"help"}  \* commandRateLimitBypass

VARIABLES
    clock,
    buckets,       \* buckets[k]: when the commands of a user, or of all, were admitted
    log,           \* history: who was admitted when
    locks,         \* guildOpLocks: when each was taken, or None
    overran,       \* history: the locks that were swept while their holder ran
    selections,    \* pendingSearchSelections of each user
    offers,        \* searchReactionSelections
    pages,         \* helpPaginations, of the one paginated message
    calls, begun,
    mix            \* which of Mixes comes in this behaviour

gate == <<buckets, log>>
lockVars == <<locks, overran>>
found == <<selections, offers>>
router == <<clock, gate, lockVars, found, pages, begun>>

Idle == [op |-> "none", at |-> "idle", user |-> None, search |-> 0, tracks |-> <<>>, session |-> None, had |-> FALSE]
At(c, stage, ops) == calls[c].at = stage /\ calls[c].op \in ops
Goto(c, stage) == calls' = [calls EXCEPT ![c].at = stage]
Ends(c) == calls' = [calls EXCEPT ![c] = Idle]

-----------------------------------------------------------------------------
(* Rate limiter *)

BugForgetsHalfWindow(k) == SelectSeq(buckets[k], LAMBDA t : 2 * t > 2 * clock - Window)

\* What is left of a bucket: the admissions of the last window.  Their times are
\* in order, so what the filter drops comes first.
Expired(k) == {i \in DOMAIN buckets[k] : buckets[k][i] + Window <= clock}
Fresh(k) == SubSeq(buckets[k], Cardinality(Expired(k)) + 1, Len(buckets[k]))

Limit(k) == IF k = Guild THEN GuildMax ELSE UserMax
Room(k) == Len(Fresh(k)) < Limit(k)
Push(k) == Append(Fresh(k), clock)

\* consume(): the guild first, then the user in it.  _cleanup forgets, of every
\* bucket, what no longer counts.
Admit(c) ==
    LET u == calls[c].user
    IN  IF calls[c].op \in Bypass
        THEN UNCHANGED gate
        ELSE /\ Room(Guild) /\ Room(u)
             /\ buckets' = [k \in DOMAIN buckets |-> IF k \in {Guild, u} THEN Push(k) ELSE Fresh(k)]
             /\ log' = Append(log, [user |-> u, at |-> clock])

-----------------------------------------------------------------------------
(* Messages *)

Arrives(c, u, op) ==
    /\ calls[c].at = "idle" /\ begun < MaxBegun /\ op \in mix
    /\ begun' = begun + 1
    /\ calls' = [calls EXCEPT ![c] = [Idle EXCEPT !.op = op, !.at = "arrived", !.user = u, !.search = begun + 1]]
    /\ UNCHANGED <<clock, gate, lockVars, found, pages>>

\* The bot may not send in the channel: the command is dropped.
Blocked(c) ==
    /\ calls[c].at = "arrived" /\ calls[c].op \notin Bypass
    /\ Ends(c)
    /\ UNCHANGED router

\* Over a limit.  A user who is over his own has been counted for the guild.
RateLimited(c) ==
    LET u == calls[c].user
    IN  /\ calls[c].at = "arrived" /\ calls[c].op \notin Bypass
        /\ ~Room(Guild) \/ ~Room(u)
        /\ buckets' = [k \in DOMAIN buckets |-> IF k = Guild /\ Room(Guild) THEN Push(k) ELSE Fresh(k)]
        /\ Ends(c)
        /\ UNCHANGED <<clock, log, lockVars, found, pages, begun>>

-----------------------------------------------------------------------------
(* Locks of the guild *)

\* _withGuildOpLock: a second holder is refused with an error.
LockFree(key) == locks[key] = None
Take(key) == locks' = [locks EXCEPT ![key] = clock] /\ UNCHANGED overran

Holding == {"connect", "resolve", "post", "reply", "guard"}
KeyOf(op) == CASE op = "reaction" -> "search-reaction-pick" [] op = "playlist" -> "play" [] OTHER -> op
Runs(c, key) == calls[c].at \in Holding /\ KeyOf(calls[c].op) = key

BugReleaseForgotten(c) ==
    IF KeyOf(calls[c].op) \in LockKeys /\ calls[c].at # "connect"
    THEN locks' = [locks EXCEPT ![KeyOf(calls[c].op)] = None] /\ UNCHANGED overran
    ELSE UNCHANGED lockVars

\* finally: the lock of that name goes, whoever has taken it since.
Release(c) ==
    IF KeyOf(calls[c].op) \in LockKeys
    THEN locks' = [locks EXCEPT ![KeyOf(calls[c].op)] = None] /\ UNCHANGED overran
    ELSE UNCHANGED lockVars

\* The lock is held: the user is told to retry.
AlreadyRunning(c) ==
    /\ At(c, "arrived", LongOps)
    /\ ~LockFree(KeyOf(calls[c].op))
    /\ Admit(c)
    /\ Ends(c)
    /\ UNCHANGED <<clock, lockVars, found, pages, begun>>

Stale == {k \in LockKeys : locks[k] # None /\ clock - locks[k] > LockTtl}

\* The sweep of every five minutes.
CleanupEphemeral ==
    LET expired == {m \in DOMAIN offers : offers[m] # None /\ clock > offers[m].expires}
    IN  /\ Stale # {} \/ expired # {} \/ (pages # None /\ clock > pages.touched + PageTtl)
        /\ locks' = [k \in LockKeys |-> IF k \in Stale THEN None ELSE locks[k]]
        /\ overran' = overran \cup {k \in Stale : clock - locks[k] > LockTtl}
        /\ offers' = [m \in DOMAIN offers |-> IF m \in expired THEN None ELSE offers[m]]
        /\ pages' = IF pages # None /\ clock > pages.touched + PageTtl THEN None ELSE pages
        /\ UNCHANGED <<clock, gate, selections, calls, begun>>

-----------------------------------------------------------------------------
(* Search selections *)

\* saveSearchSelection: the latest search of the user.
SaveSelection(c, tracks) ==
    selections' = [selections EXCEPT ![calls[c].user] =
                      [search |-> calls[c].search, tracks |-> tracks, expires |-> clock + PickTtl]]

\* consumeSearchSelection only looks; what it finds stays until it is cleared.
Selectable(u) == selections[u] # None /\ selections[u].expires > clock

BugSelectionKept(u) == selections
ClearSelection(u) == [selections EXCEPT ![u] = None]

\* pruneExpiredSearchSelections, every minute.
PruneSelections ==
    LET stale == {u \in Users : selections[u] # None /\ selections[u].expires <= clock}
    IN  /\ stale # {}
        /\ selections' = [u \in Users |-> IF u \in stale THEN None ELSE selections[u]]
        /\ UNCHANGED <<clock, gate, lockVars, offers, pages, calls, begun>>

\* registerSearchReactionSelection, of the message the call has sent.
Offer(c) ==
    offers' = [offers EXCEPT ![calls[c].search] =
                  [user |-> calls[c].user, tracks |-> calls[c].tracks, expires |-> clock + PickTtl]]

-----------------------------------------------------------------------------
(* Reactions *)

\* handleReactionAdd: only the user of the search, one of its tracks, in time.
SearchReaction(c, u) ==
    \E m \in DOMAIN offers :
        /\ calls[c].at = "idle" /\ begun < MaxBegun
        /\ offers[m] # None /\ offers[m].expires >= clock /\ offers[m].user = u
        /\ begun' = begun + 1
        /\ \E i \in DOMAIN offers[m].tracks :
              calls' = [calls EXCEPT ![c] = [Idle EXCEPT !.op = "reaction", !.at = "removing", !.user = u,
                                                         !.search = m, !.tracks = <<offers[m].tracks[i]>>]]
        /\ UNCHANGED <<clock, gate, lockVars, found, pages>>

\* The reaction is removed, then the offer is deleted.  The guild feature
\* document is awaited under the lock of reactions.
ReactionApplies(c, session) ==
    /\ At(c, "removing", {"reaction"})
    /\ offers' = [offers EXCEPT ![calls[c].search] = None]
    /\ IF ~session \/ ~LockFree("search-reaction-pick")
       THEN Ends(c) /\ UNCHANGED lockVars
       ELSE Take("search-reaction-pick") /\ Goto(c, "guard")
    /\ UNCHANGED <<clock, gate, selections, pages, begun>>

\* createTrackFromData is taken off the player and called without it: the call
\* throws before anything is queued, and the router logs the failure.
ReactionThrows(c) ==
    /\ At(c, "guard", {"reaction"})
    /\ Release(c)
    /\ Ends(c)
    /\ UNCHANGED <<clock, gate, found, pages, begun>>

\* sendPaginated and registerHelpPagination.
Paginates(n) == pages' = [index |-> 1, count |-> n, touched |-> clock]

TurnPage(c, u) ==
    /\ calls[c].at = "idle" /\ begun < MaxBegun /\ pages # None
    /\ begun' = begun + 1
    /\ calls' = [calls EXCEPT ![c] = [Idle EXCEPT !.op = "turn", !.at = "removing", !.user = u]]
    /\ UNCHANGED <<clock, gate, lockVars, found, pages>>

\* The index is read after the await; the state may have been swept meanwhile,
\* which changes nothing for the handler that still holds it.
PageTurns(c) ==
    /\ At(c, "removing", {"turn"})
    /\ \/ pages' = pages
       \/ /\ pages # None
          /\ \E next \in {pages.index - 1, pages.index + 1} \cap 1..pages.count :
             pages' = [pages EXCEPT !.index = next, !.touched = clock]
    /\ Ends(c)
    /\ UNCHANGED <<clock, gate, lockVars, found, begun>>

Tick ==
    /\ clock < MaxClock
    /\ clock' = clock + 1
    /\ UNCHANGED <<gate, lockVars, found, pages, calls, begun>>

RouterInit ==
    /\ clock = 0 /\ begun = 0 /\ mix \in Mixes
    /\ buckets = [k \in Users \cup {Guild} |-> <<>>] /\ log = <<>>
    /\ locks = [k \in LockKeys |-> None] /\ overran = {}
    /\ selections = [u \in Users |-> None] /\ offers = [m \in 1..MaxBegun |-> None]
    /\ pages = None
    /\ calls = [c \in Calls |-> Idle]
=============================================================================
