---------------------------- MODULE DataCommands ----------------------------
(***************************************************************************)
(* The commands over the music library (src/bot/commands/libraryCommands,  *)
(* advancedCommands and configCommands) and the weekly recap of            *)
(* src/bot/commandRouterOperations.ts.                                     *)
(*                                                                         *)
(* A command awaits the permission of its caller, then perhaps a preview   *)
(* of the tracks its query stands for, then calls the store.  What play()  *)
(* does with tracks that were read is the player's.                        *)
(***************************************************************************)
EXTENDS MusicLibrary

VARIABLES
    pending,       \* the import that was previewed: its template and tracks, or None
    recapSent      \* was lastWeeklyRecapAt set in the last six and a half days ?

libraryVars == <<playlists, favorites, history, features, calls, begun, pending, recapSent>>
documents == <<playlists, favorites, history, features>>

LibraryTypeOK ==
    /\ playlists \in [Names -> Seq(Songs) \cup {None}]
    /\ favorites \in Seq(Songs)
    /\ history \in Seq(Songs) /\ Len(history) <= MaxHistory
    /\ DOMAIN features = Lists \cup Fields
    /\ \A l \in DOMAIN features : features[l] \in [Keys -> Entry(l) \cup {None}]
    /\ \A k \in Keys : LET t == features["queueTemplates"][k]
                       IN  t # None => Len(t) \in 1..MaxSaved
    /\ DOMAIN calls = Calls /\ \A c \in Calls : calls[c].at \in Stages
    /\ begun \in 0..MaxBegun /\ recapSent \in BOOLEAN
    /\ pending # None => pending.key \in Keys /\ pending.tracks \in Seq(Songs)

LibraryInit ==
    /\ playlists = [n \in Names |-> None]
    /\ favorites = <<>> /\ history = <<>>
    /\ features = [l \in Lists \cup Fields |-> [k \in Keys |-> None]]
    /\ calls = [c \in Calls |-> Idle] /\ begun = 0
    /\ pending = None /\ recapSent = FALSE

-----------------------------------------------------------------------------
(* A command begins *)

Begin(c, op, stage, on, key, given) ==
    LET alone == \A d \in Calls : ~Active(d)
    IN  /\ ~Active(c) /\ begun < MaxBegun
        /\ begun' = begun + 1
        /\ calls' = [d \in Calls |->
              IF d = c
              THEN [Idle EXCEPT !.op = op, !.at = stage, !.on = on, !.key = key, !.given = given,
                                !.alone = alone, !.before = IF alone THEN documents ELSE None]
              ELSE IF Active(d) THEN [calls[d] EXCEPT !.alone = FALSE] ELSE Idle]
        /\ UNCHANGED <<playlists, favorites, history, features, pending, recapSent>>

\* What a query may stand for: nothing, a track, a playlist.
Results == {<<>>} \cup {<<s>> : s \in Songs} \cup {<<s, t>> : s, t \in Songs}
Pages == 1..2

(* src/bot/commands/libraryCommands.ts *)

PlaylistList(c) == \E i \in Pages : Begin(c, "list", "access", None, i, <<>>)
PlaylistCreate(c) == \E n \in Names : Begin(c, "create", "access", n, None, <<>>)
PlaylistDelete(c) == \E n \in Names : Begin(c, "delete", "access", n, None, <<>>)
PlaylistShow(c) == \E n \in Names, i \in Pages : Begin(c, "show", "access", n, i, <<>>)
PlaylistAdd(c) == \E n \in Names : Begin(c, "add", "access", n, None, <<>>)
PlaylistRemove(c) == \E n \in Names, i \in Pages : Begin(c, "remove", "access", n, i, <<>>)
PlaylistPlay(c) == \E n \in Names : Begin(c, "show", "access", n, 1, <<>>)

\* stations, and station list and show, look at one read of the document.
StationsShown(c) == \E k \in Keys : Begin(c, "entry", "read", "stations", k, None)
StationSave(c) == \E k \in Keys, v \in Values : Begin(c, "edit", "access", "stations", k, v)
StationDelete(c) == \E k \in Keys : Begin(c, "drop", "access", "stations", k, None)

\* fav, for a query or for the current track
Favorite(c) == Begin(c, "fav", "preview", None, None, <<>>)
FavoritesShown(c) == \E i \in Pages : Begin(c, "favs", "read", None, i, <<>>)
Unfavorite(c) == \E i \in Pages : Begin(c, "ufav", "read", None, i, <<>>)
FavoritePlay(c) == \E i \in Pages : Begin(c, "favplay", "read", None, i, <<>>)

(* src/bot/commands/advancedCommands.ts *)

FieldKey == CHOOSE k \in Keys : TRUE
SetField(c, f) == \E v \in Values \cup {None} : Begin(c, "set", "access", f, FieldKey, v)

MusicWebhook(c) == SetField(c, "webhookUrl")

\* What is changed is a copy of the guard that was read before the permission.
QueueGuard(c) == \E k \in Keys, v \in Values : Begin(c, "edit", "read", "queueGuard", k, v)

\* The tracks of the player, current and pending.
TemplateSave(c) ==
    \E k \in Keys, tracks \in Results \ {<<>>} :
        Begin(c, "edit", "access", "queueTemplates", k, tracks)
TemplateDelete(c) == \E k \in Keys : Begin(c, "drop", "access", "queueTemplates", k, None)
\* list, show and play
TemplateShown(c) == \E k \in Keys : Begin(c, "entry", "read", "queueTemplates", k, None)

Charts(c) == Begin(c, "charts", "read", None, None, <<>>)
RecapNow(c) == Begin(c, "recap", "read", None, None, <<>>)
RecapChannel(c) == SetField(c, "recapChannelId")

\* A profile has the mood and the 24/7 mode of a channel; either command merges
\* its part into the entry it has read.
VoiceProfile(c) == \E k \in Keys, v \in Values : Begin(c, "edit", "access", "voiceProfiles", k, v)
VoiceProfileShown(c) == \E k \in Keys : Begin(c, "entry", "read", "voiceProfiles", k, None)

ImportPreview(c) == \E k \in Keys : Begin(c, "import", "preview", "queueTemplates", k, <<>>)

\* append, which reads the template first, and replace
ImportApply(c) ==
    /\ pending # None
    /\ \E stage \in {"again", "read"} :
          Begin(c, "apply", stage, "queueTemplates", pending.key, pending.tracks)

\* import cancel, and pruneEphemeralState after fifteen minutes
ImportForgotten ==
    /\ pending # None
    /\ pending' = None
    /\ UNCHANGED <<playlists, favorites, history, features, calls, begun, recapSent>>

(* src/bot/commands/configCommands.ts *)

Dedupe(c) == SetField(c, "dedupeEnabled")
MinimalMode(c) == SetField(c, "minimalMode")
VolumeDefault(c) == SetField(c, "volumePercent")
StayInVoice(c) == VoiceProfile(c)
Prefix(c) == SetField(c, "prefix")
MusicLog(c) == SetField(c, "musicLogChannelId")
VoteSkipConfig(c) == SetField(c, "voteSkip")

\* The set of roles that was read before the permission, with one more or less.
DjRole(c) ==
    \E k \in Keys, v \in Values \cup {None} : Begin(c, "edit", "read", "djRoleIds", k, v)

(* corePlaybackCommands.ts: history *)

HistoryShown(c) == \E i \in Pages : Begin(c, "history", "read", None, i, <<>>)

\* The event trackEnd of a session, which is not a command.
TrackEnds(c) == \E s \in Songs : Begin(c, "append", "append", None, None, <<s>>)

-----------------------------------------------------------------------------
(* Steps of a command before and after those of the store *)

FirstStage(c) ==
    CASE calls[c].op = "list" -> "count"
      [] calls[c].op = "delete" -> "delete"
      [] calls[c].op = "set" -> "write"
      [] calls[c].op = "add" \/ (calls[c].on = "stations" /\ calls[c].op = "edit") -> "preview"
      [] OTHER -> "read"

\* The dj roles or the right to manage the guild; anyone may look.
Access(c) ==
    /\ calls[c].at = "access"
    /\ \/ calls[c].op \notin {"show", "list"} /\ Says(c, "denied")
       \/ Goto(c, FirstStage(c), None)
    /\ UNCHANGED <<playlists, favorites, history, features, begun, pending, recapSent>>

Permission(c) ==
    /\ calls[c].at = "permission"
    /\ \/ Says(c, "denied")
       \/ Goto(c, "write", calls[c].seen)
    /\ UNCHANGED <<playlists, favorites, history, features, begun, pending, recapSent>>

\* previewTracks; the current track of the player for a fav without query.
Preview(c) ==
    /\ calls[c].at = "preview"
    /\ \E tracks \in Results :
          IF tracks = <<>> THEN Says(c, "nothing")
          ELSE IF calls[c].op = "edit" THEN Goto(c, "read", None)
          ELSE calls' = [calls EXCEPT ![c].at = "read", ![c].given =
                            IF calls[c].op = "fav" THEN <<Head(tracks)>> ELSE tracks]
    /\ UNCHANGED <<playlists, favorites, history, features, begun, pending, recapSent>>

\* import preview reads the template for the conflicts it reports.
ImportReady(c) ==
    /\ At(c, "read", {"import"})
    /\ pending' = [key |-> calls[c].key, tracks |-> calls[c].given]
    /\ Says(c, "ok")
    /\ UNCHANGED <<playlists, favorites, history, features, begun, recapSent>>

\* import apply append puts the tracks of the template it finds first.
ApplyReads(c) ==
    LET t == features["queueTemplates"][calls[c].key]
    IN  /\ At(c, "again", {"apply"})
        /\ calls' = [calls EXCEPT ![c].at = "read", ![c].given =
                        (IF t = None THEN <<>> ELSE t) \o @]
        /\ UNCHANGED <<playlists, favorites, history, features, begun, pending, recapSent>>

Applied(c) ==
    /\ At(c, "applied", {"apply"})
    /\ pending' = None
    /\ Says(c, "ok")
    /\ UNCHANGED <<playlists, favorites, history, features, begun, recapSent>>

-----------------------------------------------------------------------------
(* Weekly recap *)

\* Every hour, and a sweep is over before the next.
SweepStarts(c) ==
    /\ \A d \in Calls : Active(d) => calls[d].op # "sweep"
    /\ Begin(c, "sweep", "state", None, None, <<>>)

SweepReadsFeatures(c) ==
    /\ At(c, "state", {"sweep"})
    /\ IF features["recapChannelId"][FieldKey] = None
       THEN Says(c, "skipped") ELSE Goto(c, "again", None)
    /\ UNCHANGED <<playlists, favorites, history, features, begun, pending, recapSent>>

\* getRecapState: nothing to do when the last recap is recent.  A read that
\* fails counts as never sent.
SweepReadsState(c) ==
    /\ At(c, "again", {"sweep"})
    /\ \/ recapSent /\ Says(c, "skipped")
       \/ Goto(c, "read", None)
    /\ UNCHANGED <<playlists, favorites, history, features, begun, pending, recapSent>>

SweepCounts(c) ==
    /\ At(c, "plays", {"sweep"})
    /\ IF history = <<>> THEN Says(c, "skipped") ELSE Goto(c, "post", None)
    /\ UNCHANGED <<playlists, favorites, history, features, begun, pending, recapSent>>

\* safeReply swallows its failure, so the recap counts as sent in any case.
SweepPosts(c) ==
    /\ At(c, "post", {"sweep"})
    /\ Goto(c, "mark", None)
    /\ UNCHANGED <<playlists, favorites, history, features, begun, pending, recapSent>>

\* markRecapSent, whose failure is swallowed too.
SweepMarks(c) ==
    /\ At(c, "mark", {"sweep"})
    /\ recapSent' \in {TRUE, recapSent}
    /\ Says(c, "posted")
    /\ UNCHANGED <<playlists, favorites, history, features, begun, pending>>

WeekPasses ==
    /\ recapSent /\ recapSent' = FALSE
    /\ UNCHANGED <<playlists, favorites, history, features, calls, begun, pending>>

-----------------------------------------------------------------------------
Command(c) ==
    \/ PlaylistList(c) \/ PlaylistCreate(c) \/ PlaylistDelete(c) \/ PlaylistShow(c)
    \/ PlaylistAdd(c) \/ PlaylistRemove(c) \/ PlaylistPlay(c)
    \/ StationsShown(c) \/ StationSave(c) \/ StationDelete(c)
    \/ Favorite(c) \/ FavoritesShown(c) \/ Unfavorite(c) \/ FavoritePlay(c)
    \/ MusicWebhook(c) \/ QueueGuard(c) \/ TemplateSave(c) \/ TemplateDelete(c) \/ TemplateShown(c)
    \/ Charts(c) \/ RecapNow(c) \/ RecapChannel(c) \/ VoiceProfile(c) \/ VoiceProfileShown(c)
    \/ ImportPreview(c) \/ ImportApply(c)
    \/ Dedupe(c) \/ MinimalMode(c) \/ VolumeDefault(c) \/ StayInVoice(c) \/ Prefix(c)
    \/ MusicLog(c) \/ VoteSkipConfig(c) \/ DjRole(c)
    \/ HistoryShown(c) \/ TrackEnds(c) \/ SweepStarts(c)

CommandStep(c) ==
    \/ Access(c) \/ Permission(c) \/ Preview(c) \/ ImportReady(c) \/ ApplyReads(c) \/ Applied(c)
    \/ SweepReadsFeatures(c) \/ SweepReadsState(c)
    \/ SweepCounts(c) \/ SweepPosts(c) \/ SweepMarks(c)
    \/ StoreStep(c) /\ UNCHANGED <<pending, recapSent>>

LibraryNext ==
    \/ \E c \in Calls : Command(c) \/ CommandStep(c)
    \/ ImportForgotten \/ WeekPasses

LibrarySpec == LibraryInit /\ [][LibraryNext]_libraryVars

-----------------------------------------------------------------------------
(* Correctness *)

Answers(c) == Active(c) /\ ~Active(c)'
Bears(c, is) == calls'[c].answer.is = is

\* What a command that ran alone promises: the store changes as by one atomic
\* operation on what was there when it began, and the answer says so.
Promised(c) ==
    LET k == calls[c]
        a == calls'[c].answer
        was == [pl |-> k.before[1], fav |-> k.before[2], hist |-> k.before[3], ft |-> k.before[4]]
        full(s, max) == Len(s) >= max
        page(s) == /\ a.of.page \in 1..a.of.totalPages /\ a.of.page <= k.key
                   /\ (s # <<>>) => a.of.items # <<>>
                   /\ Len(a.of.items) <= PageSize
    IN  CASE k.op = "create" ->
               IF was.pl[k.on] = None /\ Cardinality({n \in Names : was.pl[n] # None}) < MaxPlaylists
               THEN Bears(c, "denied") \/ playlists' = [was.pl EXCEPT ![k.on] = <<>>]
               ELSE documents' = k.before /\ ~Bears(c, "ok")
          [] k.op = "add" ->
               Bears(c, "ok") =>
                  LET now == playlists'[k.on]
                  IN  /\ ~full(was.pl[k.on], MaxTracks) /\ Len(now) <= MaxTracks
                      /\ IsPrefix(was.pl[k.on], now) /\ a.of = Len(now) - Len(was.pl[k.on]) /\ a.of > 0
                      /\ full(now, MaxTracks) \/ Len(now) = Len(was.pl[k.on]) + Len(k.given)
          [] k.op = "remove" ->
               Bears(c, "ok") => playlists'[k.on] = RemoveAt(was.pl[k.on], k.key)
          [] k.op = "fav" ->
               IF Bears(c, "ok")
               THEN /\ favorites' = Append(was.fav, Head(k.given))
                    /\ ~full(was.fav, MaxFavorites) /\ Head(k.given) \notin ToSet(was.fav)
               ELSE favorites' = was.fav
          [] k.op = "ufav" -> Bears(c, "ok") => favorites' = RemoveAt(was.fav, k.key)
          [] k.op \in {"edit", "drop"} ->
               \A l \in DOMAIN features, i \in Keys :
                  features'[l][i] = IF <<l, i>> = <<k.on, k.key>> /\ Bears(c, "ok")
                                    THEN (IF k.op = "drop" THEN None
                                          ELSE IF l = "queueTemplates" THEN Slice(k.given, 0, MaxSaved)
                                          ELSE k.given)
                                    ELSE was.ft[l][i]
          [] k.op = "show" /\ Bears(c, "page") -> page(was.pl[k.on])
          [] k.op = "favs" -> page(was.fav)
          [] k.op = "history" -> page(was.hist)
          [] k.op = "list" -> (\E n \in Names : was.pl[n] # None) => a.of > 0
          [] k.op = "charts" ->
               \A i, j \in DOMAIN a.of : i < j => Plays(was.hist, a.of[i]) >= Plays(was.hist, a.of[j])
          [] k.op = "sweep" ->
               Bears(c, "posted") => /\ was.hist # <<>>
                                     /\ \E i \in Keys : was.ft["recapChannelId"][i] # None
          [] OTHER -> TRUE

\* A command during which no other began or ran keeps the promise: limits,
\* order and uniqueness hold and the pages shown are pages of what was there.
AloneIsExact == [][\A c \in Calls : Answers(c) /\ calls[c].alone => Promised(c)]_libraryVars

\* Two commands that count before either inserts exceed the limit, but only
\* by as many as can be between count and insert (musicLibraryStore.ts:769);
\* templates and the history keep theirs.
ExcessBounded == LibraryTypeOK /\ Cardinality(Existing) <= MaxPlaylists + Cardinality(Calls) - 1

\* A playlist that is gone comes back only by a create: what was adding to it
\* or removing from it when it was deleted does not revive it.
NoRevival ==
    [][\A n \in Names : playlists[n] = None /\ playlists'[n] # None =>
          \E c \in Calls : At(c, "insert", {"create"}) /\ calls[c].on = n /\ Answers(c)]_libraryVars

\* Adding never loses what another command has added meanwhile: tracks leave a
\* playlist or the favourites only by a removal or with the playlist.
AddsAreKept ==
    [][/\ \A n \in Names :
            playlists[n] # None /\ ~(playlists'[n] # None /\ IsPrefix(playlists[n], playlists'[n])) =>
               \E c \in Calls : calls[c].op \in {"remove", "delete"} /\ calls[c].on = n /\ Answers(c)
       /\ ~IsPrefix(favorites, favorites') => \E c \in Calls : calls[c].op = "ufav" /\ Answers(c)]_libraryVars

\* Commands that edit different lists of the feature document do not undo each
\* other, however their reads and writes interleave.
ListsIndependent ==
    [][\A l \in DOMAIN features : features[l] # features'[l] =>
          \E c \in Calls : calls[c].on = l /\ At(c, "write", {"edit", "drop", "set", "apply"})
                            /\ calls'[c].at # "write"]_libraryVars

\* What commands have stored stays as it is when others store beside it: a
\* deletion, songs in a list, and the lists of the feature document.
OthersAreKept == NoRevival /\ AddsAreKept /\ ListsIndependent
=============================================================================
