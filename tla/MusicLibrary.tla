---------------------------- MODULE MusicLibrary ----------------------------
(***************************************************************************)
(* src/bot/services/musicLibraryStore.ts: playlists, favourites, history   *)
(* and the feature document of one guild (and one user) in Mongo.          *)
(*                                                                         *)
(* A call of the store is cut where it awaits Mongo: every findOne,        *)
(* countDocuments, insertOne, updateOne or deleteOne is one step, and what *)
(* a call has read is in `seen' until it writes.  A stored track is its    *)
(* url, names are normalised (trimmed, lower case) before they get here.   *)
(* The commands that call the store are in module DataCommands.            *)
(***************************************************************************)
EXTENDS Naturals, Sequences, FiniteSets, SequencesExt

CONSTANTS
    Names,         \* names of playlists
    Songs,         \* urls of tracks
    Keys,          \* names of templates, stations, channels, roles, fields
    Values,        \* what a station, a profile or a setting may hold
    Calls,         \* calls in progress at once (bound)
    None,
    MaxPlaylists, MaxTracks, MaxSaved, MaxFavorites, MaxHistory, PageSize,
    MaxBegun       \* how many calls begin in a behaviour (bound)

ASSUME LibraryAssumption ==
    /\ {MaxPlaylists, MaxTracks, MaxSaved, MaxFavorites, MaxHistory, PageSize} \subseteq Nat \ {0}
    /\ MaxBegun \in Nat /\ None \notin Values \cup Seq(Songs) /\ Keys # {} /\ IsFiniteSet(Calls)

\* The arrays of the feature document that are read, changed and written back
\* as a whole, and the fields that are only ever set.  The dj roles and the
\* settings are in the configuration of the guild, which update() patches.
Lists == {"queueTemplates", "stations", "voiceProfiles", "queueGuard", "djRoleIds"}
Fields == {"recapChannelId", "webhookUrl", "dedupeEnabled", "minimalMode", "volumePercent",
           "prefix", "musicLogChannelId", "voteSkip"}
Entry(l) == IF l = "queueTemplates" THEN Seq(Songs) ELSE Values

VARIABLES
    playlists,     \* playlists[n]: the tracks, or None when there is no such document
    favorites,     \* the favourites of the user
    history,       \* guildHistory.tracks, oldest first
    features,      \* features[l][k]: an entry of a list, or a field
    calls,         \* the calls in progress
    begun          \* how many calls have begun

Stages == {"idle", "access", "read", "permission", "preview", "again", "count", "insert",
           "push", "write", "delete", "signal", "append", "page", "state", "plays", "post", "mark", "applied"}
Idle == [op |-> "none", at |-> "idle", on |-> None, key |-> None, given |-> <<>>,
         seen |-> None, before |-> None, alone |-> FALSE, answer |-> [is |-> "none", of |-> None]]

Existing == {n \in Names : playlists[n] # None}
Active(c) == calls[c].at # "idle"
At(c, stage, ops) == calls[c].at = stage /\ calls[c].op \in ops

\* Go on to the next await with what was read, or answer.
Goto(c, stage, seen) == calls' = [calls EXCEPT ![c].at = stage, ![c].seen = seen]
Answer(c, is, of) ==
    calls' = [calls EXCEPT ![c] = [Idle EXCEPT !.answer = [is |-> is, of |-> of]]]
Says(c, is) == Answer(c, is, None)

-----------------------------------------------------------------------------
(* Pages *)

\* Array.prototype.slice(from, from + n)
Slice(s, from, n) == SubSeq(s, from + 1, IF from + n > Len(s) THEN Len(s) ELSE from + n)

BugPageUnclamped(s, page) ==
    LET start == (page - 1) * PageSize
    IN  [items |-> Slice(s, start, PageSize),
         page |-> page, totalPages |-> IF s = <<>> THEN 1 ELSE (Len(s) + PageSize - 1) \div PageSize]

\* paginateList: the page is brought between 1 and the last one.
Paginate(s, page) ==
    LET total == IF s = <<>> THEN 1 ELSE (Len(s) + PageSize - 1) \div PageSize
        safe == IF page > total THEN total ELSE page
        start == (safe - 1) * PageSize
    IN  [items |-> Slice(s, start, PageSize),
         page |-> safe, totalPages |-> total]

Plays(h, s) == Cardinality({i \in DOMAIN h : h[i] = s})
\* getGuildTopTracks: the tracks of the history by number of plays.
TopTracks(h) ==
    CHOOSE t \in SetToSeqs(ToSet(h)) : \A i, j \in DOMAIN t : i < j => Plays(h, t[i]) >= Plays(h, t[j])

-----------------------------------------------------------------------------
(* Playlists *)

\* createGuildPlaylist looks for the name, then counts, then inserts.
CreateFinds(c) ==
    /\ At(c, "read", {"create"})
    /\ IF playlists[calls[c].on] # None THEN Says(c, "exists") ELSE Goto(c, "count", None)
    /\ UNCHANGED <<playlists, favorites, history, features, begun>>

BugLimitOffByOne(c) ==
    /\ At(c, "count", {"create"})
    /\ IF Cardinality(Existing) > MaxPlaylists THEN Says(c, "limit") ELSE Goto(c, "insert", None)
    /\ UNCHANGED <<playlists, favorites, history, features, begun>>

CreateCounts(c) ==
    /\ At(c, "count", {"create"})
    /\ IF Cardinality(Existing) >= MaxPlaylists THEN Says(c, "limit") ELSE Goto(c, "insert", None)
    /\ UNCHANGED <<playlists, favorites, history, features, begun>>

\* The unique index of guild and name refuses a second document.
CreateInserts(c) ==
    /\ At(c, "insert", {"create"})
    /\ IF playlists[calls[c].on] # None
       THEN Says(c, "error") /\ UNCHANGED playlists
       ELSE Says(c, "ok") /\ playlists' = [playlists EXCEPT ![calls[c].on] = <<>>]
    /\ UNCHANGED <<favorites, history, features, begun>>

DeletePlaylist(c) ==
    /\ At(c, "delete", {"delete"})
    /\ playlists' = [playlists EXCEPT ![calls[c].on] = None]
    /\ Says(c, IF playlists[calls[c].on] = None THEN "missing" ELSE "ok")
    /\ UNCHANGED <<favorites, history, features, begun>>

\* addTracksToGuildPlaylist: only what fits beside the tracks it has read.
AddFinds(c) ==
    LET k == calls[c]
        current == playlists[k.on]
    IN  /\ At(c, "read", {"add"})
        /\ IF current = None THEN Says(c, "missing")
           ELSE IF Len(current) >= MaxTracks THEN Says(c, "limit")
           ELSE Goto(c, "push", Slice(k.given, 0, MaxTracks - Len(current)))
        /\ UNCHANGED <<playlists, favorites, history, features, begun>>

BugAddWritesAll(c) ==
    LET k == calls[c]
    IN  /\ At(c, "push", {"add"})
        /\ playlists' = [playlists EXCEPT ![k.on] = IF @ = None THEN None ELSE k.seen]
        /\ Answer(c, "ok", Len(k.seen))
        /\ UNCHANGED <<favorites, history, features, begun>>

\* $push without upsert: a playlist deleted meanwhile stays deleted.
AddPushes(c) ==
    LET k == calls[c]
    IN  /\ At(c, "push", {"add"})
        /\ playlists' = [playlists EXCEPT ![k.on] = IF @ = None THEN None ELSE @ \o k.seen]
        /\ Answer(c, "ok", Len(k.seen))
        /\ UNCHANGED <<favorites, history, features, begun>>

\* removeTrackFromGuildPlaylist writes back all the tracks it has read, less one.
RemoveFinds(c) ==
    LET k == calls[c]
        current == playlists[k.on]
    IN  /\ At(c, "read", {"remove"})
        /\ IF current = None THEN Says(c, "missing")
           ELSE IF k.key > Len(current) THEN Says(c, "range")
           ELSE Goto(c, "write", RemoveAt(current, k.key))
        /\ UNCHANGED <<playlists, favorites, history, features, begun>>

RemoveWrites(c) ==
    LET k == calls[c]
    IN  /\ At(c, "write", {"remove"})
        /\ playlists' = [playlists EXCEPT ![k.on] = IF @ = None THEN None ELSE k.seen]
        /\ Says(c, "ok")
        /\ UNCHANGED <<favorites, history, features, begun>>

\* getGuildPlaylist, for show, and for play, which queues what it has read.
ShowPlaylist(c) ==
    LET current == playlists[calls[c].on]
    IN  /\ At(c, "read", {"show"})
        /\ IF current = None THEN Says(c, "missing") ELSE Answer(c, "page", Paginate(current, calls[c].key))
        /\ UNCHANGED <<playlists, favorites, history, features, begun>>

\* listGuildPlaylists counts first and fetches the page afterwards.
ListCounts(c) ==
    /\ At(c, "count", {"list"})
    /\ LET total == Cardinality(Existing)
           pages == IF total = 0 THEN 1 ELSE (total + PageSize - 1) \div PageSize
       IN  Goto(c, "page", IF calls[c].key > pages THEN pages ELSE calls[c].key)
    /\ UNCHANGED <<playlists, favorites, history, features, begun>>

ListFetches(c) ==
    /\ At(c, "page", {"list"})
    /\ LET left == Cardinality(Existing) - (calls[c].seen - 1) * PageSize
       IN  Answer(c, "count", IF left < 0 THEN 0 ELSE IF left > PageSize THEN PageSize ELSE left)
    /\ UNCHANGED <<playlists, favorites, history, features, begun>>

-----------------------------------------------------------------------------
(* Favourites, user profile *)

FavoriteFinds(c) ==
    LET song == Head(calls[c].given)
    IN  /\ At(c, "read", {"fav"})
        /\ IF song \in ToSet(favorites) THEN Says(c, "duplicate")
           ELSE IF Len(favorites) >= MaxFavorites THEN Says(c, "limit")
           ELSE Goto(c, "push", None)
        /\ UNCHANGED <<playlists, favorites, history, features, begun>>

FavoritePushes(c) ==
    /\ At(c, "push", {"fav"})
    /\ favorites' = Append(favorites, Head(calls[c].given))
    /\ Goto(c, "signal", None)
    /\ UNCHANGED <<playlists, history, features, begun>>

\* recordUserSignal names createdAt in $set and in $setOnInsert; Mongo refuses
\* an update with two operators on one path, the caller swallows the rejection.
RecordUserSignal(c) ==
    /\ At(c, "signal", {"fav", "append"})
    /\ Says(c, "ok")
    /\ UNCHANGED <<playlists, favorites, history, features, begun>>

UnfavoriteFinds(c) ==
    LET k == calls[c]
    IN  /\ At(c, "read", {"ufav"})
        /\ IF k.key > Len(favorites) THEN Says(c, "range")
           ELSE Goto(c, "write", RemoveAt(favorites, k.key))
        /\ UNCHANGED <<playlists, favorites, history, features, begun>>

UnfavoriteWrites(c) ==
    /\ At(c, "write", {"ufav"})
    /\ favorites' = calls[c].seen
    /\ Says(c, "ok")
    /\ UNCHANGED <<playlists, history, features, begun>>

\* listUserFavorites
ListFavorites(c) ==
    /\ At(c, "read", {"favs"})
    /\ Answer(c, "page", Paginate(favorites, calls[c].key))
    /\ UNCHANGED <<playlists, favorites, history, features, begun>>

\* getUserFavorite, for favplay
GetFavorite(c) ==
    /\ At(c, "read", {"favplay"})
    /\ IF calls[c].key > Len(favorites) THEN Says(c, "range")
       ELSE Answer(c, "track", favorites[calls[c].key])
    /\ UNCHANGED <<playlists, favorites, history, features, begun>>

-----------------------------------------------------------------------------
(* History *)

\* appendGuildHistory: $push with $slice, one update.
AppendHistory(c) ==
    /\ At(c, "append", {"append"})
    /\ LET longer == Append(history, Head(calls[c].given))
       IN  history' = IF Len(longer) > MaxHistory THEN Tail(longer) ELSE longer
    /\ Goto(c, "signal", None)
    /\ UNCHANGED <<playlists, favorites, features, begun>>

\* listGuildHistory shows the newest first.
ListHistory(c) ==
    /\ At(c, "read", {"history"})
    /\ Answer(c, "page", Paginate(Reverse(history), calls[c].key))
    /\ UNCHANGED <<playlists, favorites, history, features, begun>>

\* charts
ShowCharts(c) ==
    /\ At(c, "read", {"charts"})
    /\ Answer(c, "top", TopTracks(history))
    /\ UNCHANGED <<playlists, favorites, history, features, begun>>

\* buildGuildRecap reads the history twice, for the top tracks and the number of plays.
RecapTop(c) ==
    /\ At(c, "read", {"recap", "sweep"})
    /\ Goto(c, "plays", TopTracks(history))
    /\ UNCHANGED <<playlists, favorites, history, features, begun>>

RecapPlays(c) ==
    /\ At(c, "plays", {"recap"})
    /\ Answer(c, "recap", [top |-> calls[c].seen, plays |-> Len(history)])
    /\ UNCHANGED <<playlists, favorites, history, features, begun>>

-----------------------------------------------------------------------------
(* Feature document *)

\* queueguard and djrole read before they await the permission of the caller.
AskedAfterwards == {"queueGuard", "djRoleIds"}

\* getGuildFeatureConfig reads the whole document.
FeaturesRead(c) ==
    /\ At(c, "read", {"edit", "drop", "apply"})
    /\ IF calls[c].op = "drop" /\ features[calls[c].on][calls[c].key] = None
       THEN Says(c, "missing")
       ELSE Goto(c, IF calls[c].on \in AskedAfterwards THEN "permission" ELSE "write", features)
    /\ UNCHANGED <<playlists, favorites, history, features, begun>>

\* patchGuildFeatureConfig sets one list; the other lists of the document are
\* not named in the update.
PatchList(c, list) ==
    /\ features' = [features EXCEPT ![calls[c].on] = list]
    /\ UNCHANGED <<playlists, favorites, history, begun>>

\* The list that was read, with an entry of it set or left out.
WithEntry(c, entry) == [calls[c].seen[calls[c].on] EXCEPT ![calls[c].key] = entry]
On(c, lists, ops) == At(c, "write", ops) /\ calls[c].on \in lists

SetQueueTemplate(c) ==
    /\ On(c, {"queueTemplates"}, {"edit", "apply"})
    /\ PatchList(c, WithEntry(c, Slice(calls[c].given, 0, MaxSaved)))
    /\ IF calls[c].op = "apply" THEN Goto(c, "applied", None) ELSE Says(c, "ok")

SetGuildStation(c) ==
    /\ On(c, {"stations"}, {"edit"})
    /\ PatchList(c, WithEntry(c, calls[c].given))
    /\ Says(c, "ok")

DeleteGuildStation(c) ==
    /\ On(c, {"stations"}, {"drop"})
    /\ PatchList(c, WithEntry(c, None))
    /\ Says(c, "ok")

DeleteQueueTemplate(c) ==
    /\ On(c, {"queueTemplates"}, {"drop"})
    /\ PatchList(c, WithEntry(c, None))
    /\ Says(c, "ok")

\* The part of the profile that the command is about.
SetVoiceProfile(c) ==
    /\ On(c, {"voiceProfiles"}, {"edit"})
    /\ PatchList(c, WithEntry(c, calls[c].given))
    /\ Says(c, "ok")

\* queueguard and djrole store what they changed in the copy they had read.
SetWhatWasRead(c) ==
    /\ On(c, AskedAfterwards, {"edit"})
    /\ PatchList(c, WithEntry(c, calls[c].given))
    /\ Says(c, "ok")

\* A field that no one reads before it is set.
FieldPatched(c) ==
    LET k == calls[c]
    IN  /\ At(c, "write", {"set"})
        /\ features' = [features EXCEPT ![k.on][k.key] = k.given]
        /\ Says(c, "ok")
        /\ UNCHANGED <<playlists, favorites, history, begun>>

\* getQueueTemplate, getGuildStation, getVoiceProfile: one entry of the document.
FeatureShown(c) ==
    /\ At(c, "read", {"entry"})
    /\ IF features[calls[c].on][calls[c].key] = None THEN Says(c, "missing")
       ELSE Answer(c, "entry", features[calls[c].on][calls[c].key])
    /\ UNCHANGED <<playlists, favorites, history, features, begun>>

StoreStep(c) ==
    \/ CreateFinds(c) \/ CreateCounts(c) \/ CreateInserts(c) \/ DeletePlaylist(c)
    \/ AddFinds(c) \/ AddPushes(c) \/ RemoveFinds(c) \/ RemoveWrites(c)
    \/ ShowPlaylist(c) \/ ListCounts(c) \/ ListFetches(c)
    \/ FavoriteFinds(c) \/ FavoritePushes(c) \/ RecordUserSignal(c)
    \/ UnfavoriteFinds(c) \/ UnfavoriteWrites(c) \/ ListFavorites(c) \/ GetFavorite(c)
    \/ AppendHistory(c) \/ ListHistory(c) \/ ShowCharts(c) \/ RecapTop(c) \/ RecapPlays(c)
    \/ FeaturesRead(c) \/ SetQueueTemplate(c) \/ SetGuildStation(c) \/ SetVoiceProfile(c)
    \/ DeleteGuildStation(c) \/ DeleteQueueTemplate(c) \/ SetWhatWasRead(c) \/ FieldPatched(c) \/ FeatureShown(c)
=============================================================================
