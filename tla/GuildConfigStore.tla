-------------------------- MODULE GuildConfigStore --------------------------
(***************************************************************************)
(* src/bot/services/guildConfigStore.ts: get() and update() over a Mongo   *)
(* collection, with the TTL cache and the table of loads in flight.        *)
(*                                                                         *)
(* A call is cut where it awaits: findOne and updateOne take effect in the *)
(* database at one moment and answer at a later one, and even a cached     *)
(* get() resumes its update() only in a later microtask.  A patch sets one *)
(* field; the stored document always has all of them.                      *)
(***************************************************************************)
EXTENDS Naturals, Sequences, FiniteSets, SequencesExt

CONSTANTS
    Guilds, Settings, SettingValues,
    Default,      \* the configuration of a guild without a document
    Callers,      \* who may call (bound: calls in progress at once)
    Nil,          \* no configuration, no call, no patch
    MaxCache      \* maxCacheSize

Config == [Settings -> SettingValues]

ASSUME StoreAssumption ==
    /\ Default \in Config /\ Nil \notin Config /\ Nil \notin Callers
    /\ MaxCache \in Nat

VARIABLES
    db,         \* the collection
    cache,      \* cache[g], Nil when there is no entry
    order,      \* the keys of the cache, oldest first (Map insertion order)
    inFlight,   \* inFlightGets[g]: the call whose load is pending, or Nil
    call,       \* call[c]: the state of a get() or update()
    seen,       \* what the last call of c was answered, Nil while it runs
    calm        \* ghost: no two calls have overlapped and no reply was lost

vars == <<db, cache, order, inFlight, call, seen, calm>>

\* "finding", "found": its findOne is under way, has read the database;
\* "joined": it awaits the load of another call;
\* "have": get() is answered, its continuation has yet to run;
\* "writing", "written": its updateOne is under way, was applied.
Phases == {"idle", "finding", "found", "joined", "have", "writing", "written"}
CallStates ==
    [phase : Phases, guild : Guilds \cup {Nil}, field : Settings \cup {Nil},
     value : SettingValues \cup {Nil}, doc : Config \cup {Nil}]
NoCall == [phase |-> "idle", guild |-> Nil, field |-> Nil, value |-> Nil, doc |-> Nil]

TypeOK ==
    /\ db \in [Guilds -> Config]
    /\ cache \in [Guilds -> Config \cup {Nil}]
    /\ order \in Seq(Guilds) /\ Len(order) <= MaxCache
    /\ ToSet(order) = {g \in Guilds : cache[g] # Nil}
    /\ inFlight \in [Guilds -> Callers \cup {Nil}]
    /\ call \in [Callers -> CallStates]
    /\ seen \in [Callers -> Config \cup {Nil}] /\ calm \in BOOLEAN

Init ==
    /\ db = [g \in Guilds |-> Default]
    /\ cache = [g \in Guilds |-> Nil] /\ order = <<>>
    /\ inFlight = [g \in Guilds |-> Nil]
    /\ call = [c \in Callers |-> NoCall] /\ seen = [c \in Callers |-> Nil]
    /\ calm = TRUE

-----------------------------------------------------------------------------
InProgress(c) == call[c].phase # "idle"

\* _setCached: the entry moves to the end, the oldest entry makes room.
SetCached(g, doc) ==
    LET moved == Append(RemoveFirst(order, g), g)
        kept == IF Len(moved) > MaxCache
                THEN SubSeq(moved, Len(moved) - MaxCache + 1, Len(moved)) ELSE moved
        stays == ToSet(kept)
    IN  /\ order' = kept
        /\ cache' = [h \in Guilds |-> IF h \notin stays THEN Nil
                                      ELSE IF h = g THEN doc ELSE cache[h]]

\* _getCached drops an expired entry.
Expire(g) ==
    /\ cache[g] # Nil
    /\ cache' = [cache EXCEPT ![g] = Nil]
    /\ order' = RemoveFirst(order, g)
    /\ UNCHANGED <<db, inFlight, call, seen, calm>>

\* get(g), or the get(g) of update(g) with a patch of one field: answered from
\* the cache, by the load another call has in flight, or by a load of its own.
Start(c, g, f, v) ==
    /\ call[c].phase = "idle" /\ calm' = (calm /\ \A d \in Callers : ~InProgress(d))
    /\ seen' = [seen EXCEPT ![c] = Nil]
    /\ LET at(phase, doc) == [call EXCEPT ![c] =
              [phase |-> phase, guild |-> g, field |-> f, value |-> v, doc |-> doc]]
       IN  \/ /\ cache[g] # Nil
              /\ call' = at("have", cache[g])
              /\ UNCHANGED inFlight
           \/ /\ cache[g] = Nil /\ inFlight[g] # Nil
              /\ call' = at("joined", Nil)
              /\ UNCHANGED inFlight
           \/ /\ cache[g] = Nil /\ inFlight[g] = Nil
              /\ call' = at("finding", Nil)
              /\ inFlight' = [inFlight EXCEPT ![g] = c]
    /\ UNCHANGED <<db, cache, order>>

\* findOne reads the collection.
FindOne(c) ==
    /\ call[c].phase = "finding"
    /\ call' = [call EXCEPT ![c].phase = "found", ![c].doc = db[call[c].guild]]
    /\ UNCHANGED <<db, cache, order, inFlight, seen, calm>>

Waiting(c) == {d \in Callers : d = c \/ (call[d].phase = "joined" /\ call[d].guild = call[c].guild)}

BugJoinersForgotten(c) ==
    /\ call[c].phase = "found"
    /\ SetCached(call[c].guild, call[c].doc)
    /\ inFlight' = [inFlight EXCEPT ![call[c].guild] = Nil]
    /\ call' = [call EXCEPT ![c].phase = "have"]
    /\ UNCHANGED <<db, seen, calm>>

\* The load is answered: the cache is filled, and the call and those that
\* joined it have their document.
LoadDone(c) ==
    /\ call[c].phase = "found"
    /\ SetCached(call[c].guild, call[c].doc)
    /\ inFlight' = [inFlight EXCEPT ![call[c].guild] = Nil]
    /\ call' = [d \in Callers |-> IF d \in Waiting(c)
                                THEN [call[d] EXCEPT !.phase = "have", !.doc = call[c].doc]
                                ELSE call[d]]
    /\ UNCHANGED <<db, seen, calm>>

BugLoadStays(c) ==
    /\ call[c].phase \in {"finding", "found"}
    /\ call' = [d \in Callers |-> IF d \in Waiting(c) THEN NoCall ELSE call[d]]
    /\ UNCHANGED <<db, cache, order, inFlight, seen, calm>>

\* findOne rejects: so do the call and those that joined it.
LoadFails(c) ==
    /\ call[c].phase \in {"finding", "found"}
    /\ inFlight' = [inFlight EXCEPT ![call[c].guild] = Nil]
    /\ call' = [d \in Callers |-> IF d \in Waiting(c) THEN NoCall ELSE call[d]]
    /\ UNCHANGED <<db, cache, order, seen, calm>>

Patched(c) == [call[c].doc EXCEPT ![call[c].field] = call[c].value]

\* A get() returns; an update() returns at once when its patch changes nothing,
\* else it writes the whole patched document.
Continue(c) ==
    /\ call[c].phase = "have"
    /\ \/ /\ IF call[c].field = Nil THEN TRUE ELSE Patched(c) = call[c].doc
          /\ call' = [call EXCEPT ![c] = NoCall]
          /\ seen' = [seen EXCEPT ![c] = call[c].doc]
       \/ /\ IF call[c].field = Nil THEN FALSE ELSE Patched(c) # call[c].doc
          /\ call' = [call EXCEPT ![c].phase = "writing", ![c].doc = Patched(c)]
          /\ UNCHANGED seen
    /\ UNCHANGED <<db, cache, order, inFlight, calm>>

\* updateOne is applied.
UpdateOne(c) ==
    /\ call[c].phase = "writing"
    /\ db' = [db EXCEPT ![call[c].guild] = call[c].doc]
    /\ call' = [call EXCEPT ![c].phase = "written"]
    /\ UNCHANGED <<cache, order, inFlight, seen, calm>>

BugSavedNotCached(c) ==
    /\ call[c].phase = "written"
    /\ seen' = [seen EXCEPT ![c] = call[c].doc]
    /\ call' = [call EXCEPT ![c] = NoCall]
    /\ UNCHANGED <<db, cache, order, inFlight, calm>>

\* updateOne is answered: the saved document is cached and returned.
Saved(c) ==
    /\ call[c].phase = "written"
    /\ SetCached(call[c].guild, call[c].doc)
    /\ seen' = [seen EXCEPT ![c] = call[c].doc]
    /\ call' = [call EXCEPT ![c] = NoCall]
    /\ UNCHANGED <<db, inFlight, calm>>

\* updateOne rejects, applied or not.
WriteFails(c) ==
    /\ call[c].phase \in {"writing", "written"}
    /\ call' = [call EXCEPT ![c] = NoCall]
    /\ calm' = (calm /\ call[c].phase = "writing")
    /\ UNCHANGED <<db, cache, order, inFlight, seen>>

Step(c) ==
    \/ FindOne(c) \/ LoadDone(c) \/ LoadFails(c)
    \/ Continue(c) \/ UpdateOne(c) \/ Saved(c) \/ WriteFails(c)

Next ==
    \/ \E c \in Callers : Step(c)
    \/ \E c \in Callers, g \in Guilds : Start(c, g, Nil, Nil)
    \/ \E c \in Callers, g \in Guilds, f \in Settings, v \in SettingValues : Start(c, g, f, v)
    \/ \E g \in Guilds : Expire(g)

Spec == Init /\ [][Next]_vars

\* Mongo answers and Node runs what is ready.
FairSpec == Spec /\ \A c \in Callers : WF_vars(Step(c))

-----------------------------------------------------------------------------
(* Properties.                                                             *)

\* Between updates the cache never disagrees with the collection, so the next
\* update patches what is really stored.
CacheCoherent ==
    \A g \in Guilds :
        calm /\ cache[g] # Nil /\ (\A c \in Callers : call[c].guild = g => call[c].phase # "written")
        => cache[g] = db[g]

\* As long as no calls have raced and no reply was lost, callers see one
\* register per guild: the store, cache and all, implements GuildConfig
\* (get, update, _setCached, _getCached).
Register == INSTANCE GuildConfig WITH config <- db
IsRegister == Register!Spec

\* Loads of a guild are shared: one findOne at a time, and whoever joined it is
\* waiting for a load that is still under way.
OneLoadPerGuild ==
    /\ \A c \in Callers : call[c].phase \in {"finding", "found"} => inFlight[call[c].guild] = c
    /\ \A c \in Callers : call[c].phase = "joined" =>
          LET owner == inFlight[call[c].guild]
          IN  owner # Nil /\ call[owner].phase \in {"finding", "found"}

\* What the store keeps beside the collection can be relied on: the cache between
\* updates and, whatever races, the table of loads (cache, inFlightGets).
StoreSound == TypeOK /\ CacheCoherent /\ OneLoadPerGuild

\* Every call is answered or rejected, whatever overlaps and fails in between:
\* a load that failed neither strands those that joined it nor blocks later
\* ones (the table inFlightGets of get).
CallsReturn == \A c \in Callers : InProgress(c) ~> ~InProgress(c)
=============================================================================
