--------------------------- MODULE TrackResolver ---------------------------
(***************************************************************************)
(* From a query to tracks (src/player/musicPlayer/*Methods.ts).  A lookup  *)
(* is at a stage, waiting for one source; the answer leads to the next     *)
(* stage, to a loop over the entries of a collection, or ends the lookup:  *)
(* "done" with tracks, "nothing" with an empty list, "throw".  The routes  *)
(* of the providers are tables, whose rows are [at, got, to].              *)
(*                                                                         *)
(* An answer that ends in tracks is named for the source that will play    *)
(* them.  "video" and "search" are YouTube's: named by its url, or found.  *)
(* Entries and tracks are numbers: their places in the collection.         *)
(***************************************************************************)
EXTENDS Naturals, Sequences, FiniteSets

CONSTANTS
    Lookups,      \* lookups of one player, begun by any commands
    MaxTracks,    \* maxPlaylistTracks
    MaxItems,     \* entries a collection may have (bound)
    Workers,      \* TIDAL_ and MIRROR_COLLECTION_CONCURRENCY
    Streams,      \* numbers of the urls of radio playlists (bound)
    Configs,      \* the flags that may be set together, of Flags (bound)
    Shared,       \* kinds of the lookups that run at the same time (bound)
    Life,         \* ticks a token lives, Spotify's or a Deezer session's
    Timeout,      \* ticks a request for a token takes at most
    MaxNow        \* where the clock stops (bound)

Flags == {"arl", "deezer", "spotify", "tidal", "ytSearch", "ytPlayback"}
YouTube == {"ytSearch", "ytPlayback"}

ASSUME ResolverAssumption ==
    /\ {MaxTracks, MaxItems, Workers, Life, Timeout} \subseteq Nat \ {0}
    /\ MaxNow \in Nat /\ Timeout < Life /\ 1 \in Streams /\ Streams \subseteq Nat \ {0} /\ Configs \subseteq SUBSET Flags

VARIABLES
    flags,        \* what the configuration enables
    mix,          \* one lookup of any kind, or lookups that share tokens
    lookup,       \* lookup -> its record, see NoLookup
    links,        \* external: radio url -> the url its playlist names;
                  \* itself for a stream, Dead for anything else
    tokens,       \* "spotify", "deezer" -> [until, good]
    now
resolverVars == <<flags, mix, lookup, links, tokens, now>>

(* ---- the routes ----------------------------------------------------- *)

\* The rows of a stage: answer by answer, where it leads.
From(at, leads) == {[at |-> at, got |-> got, to |-> leads[got]] : got \in DOMAIN leads}

\* Words: Deezer first.
Text == From("text", [deezer |-> "done", none |-> "text_ytdlp"])
\* Then YouTube, through yt-dlp and play-dl.
YouTubeSearch ==
    From("text_ytdlp", [search |-> "done", none |-> "text_playdl"]) \cup
    From("text_playdl", [search |-> "done", none |-> "nothing"])

\* A video's metadata; without any the bare url is the track.
Video ==
    From("video", [video |-> "done", error |-> "video_playdl"]) \cup
    From("video_playdl", [video |-> "done"])

\* The two playlist resolvers, in the configured order, then the video the
\* url names ("list_last" asks nobody), then the search.
Playlist ==
    From("list", [items |-> "list_entries", error |-> "list_second"]) \cup
    From("list_second", [items |-> "second_entries", error |-> "list_last"]) \cup
    From("list_last", [watch |-> "video", none |-> "search"])

\* The words of an url that could not be resolved, searched by play-dl.
FallbackSearch == From("search", [search |-> "done", none |-> "throw"])

\* Any other url: an audio file, a radio stream ("radio" is a step of its
\* own), what play-dl makes of it, and the url itself as the track.
Url == From("url_info", [web |-> "done"])
AudioFile == From("url", [web |-> "done", none |-> "radio"])

\* SoundCloud's API, else play-dl.
SoundCloudDirect ==
    From("sc_track", [soundcloud |-> "done", error |-> "sc_track_playdl"]) \cup
    From("sc_set", [items |-> "sc_entries", error |-> "sc_set_playdl"])
SoundCloud ==
    From("sc_track_playdl", [soundcloud |-> "done", auth |-> "search", other |-> "search", error |-> "throw"]) \cup
    From("sc_set_playdl", [items |-> "sc_playdl_entries", auth |-> "search", other |-> "search", error |-> "throw"])

\* Metadata of the market; a mirror plays it.
Spotify ==
    From("sp_track", [item |-> "mirror", notFound |-> "sp_track_again", error |-> "throw"]) \cup
    From("sp_list", [items |-> "sp_entries", notFound |-> "sp_list_again", error |-> "throw"]) \cup
    From("sp_artist", [items |-> "sp_entries", error |-> "throw"])
\* And without the market.
NoMarket ==
    From("sp_track_again", [item |-> "mirror", error |-> "throw"]) \cup
    From("sp_list_again", [items |-> "sp_entries", error |-> "throw"])

\* With an ARL the Deezer API, else play-dl and YouTube.
DeezerDirect ==
    From("dz_track", [item |-> "dz_url", error |-> "dz_track_playdl"]) \cup
    From("dz_list", [items |-> "dz_entries", error |-> "dz_list_playdl"])
DeezerPlaydl ==
    From("dz_track_playdl", [item |-> "cross", other |-> "nothing", error |-> "throw"]) \cup
    From("dz_list_playdl", [items |-> "cross_entries", other |-> "nothing", error |-> "throw"])

\* The url of the whole track: its token, then the media server; twice, the
\* second time with a fresh session.
DeezerUrl ==
    From("dz_url", [item |-> "dz_media", none |-> "dz_url_again"]) \cup
    From("dz_media", [deezer |-> "done", error |-> "dz_url_again"]) \cup
    From("dz_url_again", [item |-> "dz_media_again", none |-> "no_url"]) \cup
    From("dz_media_again", [deezer |-> "done", error |-> "dz_legacy"])
\* At last the legacy address.
DeezerLegacy == From("dz_legacy", [deezer |-> "done", none |-> "no_url"])

Audius ==
    From("audius", [audius |-> "done", items |-> "audius_entries", bare |-> "audius_list", none |-> "search"]) \cup
    From("audius_list", [items |-> "audius_entries", none |-> "search"])

TidalTrack == From("td_track", [item |-> "mirror", error |-> "throw"])
TidalList == From("td_list", [items |-> "td_entries", error |-> "throw"])

Bandcamp == From("bandcamp", [item |-> "mirror", items |-> "import_entries", none |-> "search", error |-> "throw"])
Audiomack == From("audiomack", [item |-> "mirror", none |-> "search"])
Mixcloud == From("mixcloud", [item |-> "mirror", items |-> "import_entries", none |-> "search"])
JioSaavn ==
    From("jiosaavn", [item |-> "mirror", again |-> "jiosaavn_again", items |-> "import_entries", none |-> "search"]) \cup
    From("jiosaavn_again", [item |-> "mirror", none |-> "search"])

\* Amazon's lookup, an album's namesake at Deezer, and the page.
AmazonTrack == From("amz_track", [item |-> "mirror", none |-> "amz_page"])
AmazonList ==
    From("amz_list", [album |-> "amz_deezer", none |-> "amz_list_page"]) \cup
    From("amz_list_page", [items |-> "amz_entries"])
AmazonAlbum == From("amz_deezer", [items |-> "amz_deezer_entries", none |-> "amz_mirror"])
AmazonPage == From("amz_page", [item |-> "mirror", none |-> "page_search"])

Apple ==
    From("apple_track", [item |-> "mirror", none |-> "page_search"]) \cup
    From("apple_list", [items |-> "apple_entries", refused |-> "throw"])

\* The title of the page, searched (Apple's and Amazon's last resort).
PageSearch == From("page_search", [search |-> "done", none |-> "throw"])

\* A track to play in place of metadata: see MirrorAnswers.
Mirror ==
    From("mirror", [deezer |-> "done", search |-> "done", fails |-> "throw"]) \cup
    From("cross", [search |-> "done", fails |-> "throw"]) \cup
    From("amz_mirror", [deezer |-> "done", search |-> "done", fails |-> "amz_list_page"])

\* By the host of the url and what play-dl takes it for.
Route == Text \cup YouTubeSearch \cup Video \cup Playlist \cup FallbackSearch \cup Url \cup AudioFile
    \cup SoundCloudDirect \cup SoundCloud \cup Spotify \cup NoMarket \cup DeezerDirect \cup DeezerPlaydl
    \cup DeezerUrl \cup DeezerLegacy \cup Audius \cup TidalTrack \cup TidalList \cup Bandcamp \cup Audiomack
    \cup Mixcloud \cup JioSaavn \cup AmazonTrack \cup AmazonList \cup AmazonAlbum \cup AmazonPage
    \cup Apple \cup PageSearch \cup Mirror
Stages == {e.at : e \in Route}

(* ---- what a stage needs, and what may answer it --------------------- *)

\* Dropping the question whether there is an ARL to play Deezer with.
BugNeeds(at) ==
    CASE at = "text" -> {"deezer"}
      [] at \in {"text_ytdlp", "search", "page_search"} -> YouTube
      [] at \in {"video", "list"} -> {"ytPlayback"}
      [] at \in {"sp_track", "sp_list", "sp_artist"} -> {"spotify"}
      [] at \in {"dz_track", "dz_list"} -> {"arl"}
      [] at = "amz_deezer" -> {"deezer"}
      [] at \in {"td_track", "td_list"} -> {"tidal"}
      [] OTHER -> {}
\* The flags a stage tests; an album of Amazon asks Deezer without an ARL.
Needs(at) ==
    CASE at = "text" -> {"arl", "deezer"}
      [] at \in {"text_ytdlp", "search", "page_search"} -> YouTube
      [] at \in {"video", "list"} -> {"ytPlayback"}
      [] at \in {"sp_track", "sp_list", "sp_artist"} -> {"spotify"}
      [] at \in {"dz_track", "dz_list"} -> {"arl"}
      [] at = "amz_deezer" -> {"deezer"}
      [] at \in {"td_track", "td_list"} -> {"tidal"}
      [] OTHER -> {}

\* Where a stage leads whose flags are not set.
Without(at) ==
    CASE at = "text" -> "text_ytdlp"
      [] at = "dz_track" -> "dz_track_playdl"
      [] at = "dz_list" -> "dz_list_playdl"
      [] at = "amz_deezer" -> "amz_mirror"
      [] OTHER -> "throw"

\* YouTube finds one by ISRC, by artist and title, or by play-dl; or none.
CrossAnswers == IF YouTube \subseteq flags THEN {"search", "fails"} ELSE {"fails"}
\* Deezer's best match first; its errors count as no match.
MirrorAnswers == CrossAnswers \cup IF {"arl", "deezer"} \subseteq flags THEN {"deezer"} ELSE {}

\* take: "first" the first `limit' entries, "until" as many are found;
\* what each entry may answer, and where a loop leads that finds none.
Loop(l) ==
    LET is(take, workers, least, each, empty) ==
        [take |-> take, workers |-> workers, least |-> least, each |-> each, empty |-> empty]
    IN CASE l = "list_entries" -> is("until", 1, 0, {"video", "fails"}, "list_second")
         [] l = "second_entries" -> is("first", 1, 0, {"video"}, "list_last")
         [] l = "sc_entries" -> is("until", 1, 0, {"soundcloud", "fails"}, "sc_set_playdl")
         [] l = "sc_playdl_entries" -> is("first", 1, 0, {"soundcloud", "fails"}, "nothing")
         [] l = "sp_entries" -> is("first", 1, 0, MirrorAnswers, "nothing")
         [] l = "dz_entries" -> is("until", 1, 0, {"deezer", "fails"}, "dz_list_playdl")
         [] l = "cross_entries" -> is("first", 1, 0, CrossAnswers, "throw")
         [] l = "audius_entries" -> is("until", 1, 0, {"audius", "fails"}, "search")
         [] l = "td_entries" -> is("first", Workers, 0, MirrorAnswers, "throw")
         [] l = "import_entries" -> is("first", Workers, 1, MirrorAnswers, "nothing")
         [] l = "amz_deezer_entries" -> is("until", 1, 0, {"deezer", "fails"}, "amz_mirror")
         [] l = "amz_entries" -> is("first", 1, 0, MirrorAnswers, "page_search")
         [] l = "apple_entries" -> is("until", 1, 0, MirrorAnswers, "throw")
Loops == {"list_entries", "second_entries", "sc_entries", "sc_playdl_entries", "sp_entries",
          "dz_entries", "cross_entries", "audius_entries", "td_entries", "import_entries",
          "amz_deezer_entries", "amz_entries", "apple_entries"}

(* ---- a lookup -------------------------------------------------------- *)

\* Urls play-dl can classify; where it fails they are resolved "by_guess",
\* which forgets the limit.
Classified == {"soundcloud", "soundcloudSet", "spotify", "spotifyList", "deezer", "deezerList"}
\* The first stage of each kind of query; "stream" is a Deezer track's turn.
Entry ==
    [text |-> "text", video |-> "video", playlist |-> "list", stations |-> "radio", url |-> "url",
     soundcloud |-> "sc_track", soundcloudSet |-> "sc_set",
     spotify |-> "sp_track", spotifyList |-> "sp_list", spotifyArtist |-> "sp_artist",
     deezer |-> "dz_track", deezerList |-> "dz_list", audius |-> "audius",
     tidal |-> "td_track", tidalList |-> "td_list", bandcamp |-> "bandcamp",
     audiomack |-> "audiomack", mixcloud |-> "mixcloud", jiosaavn |-> "jiosaavn",
     amazon |-> "amz_track", amazonList |-> "amz_list",
     apple |-> "apple_track", appleList |-> "apple_list", appleOther |-> "page_search",
     stream |-> "dz_url"]
Kinds == DOMAIN Entry
ASSUME SharedAssumption == Shared \subseteq Kinds

\* guess: a throw is caught and leads to the search; watch: the playlist's
\* url names a video; sent: the stage's request is out; asked: since when a
\* token is asked for (0: not); entries: of a loop, in work, next, and their
\* results (Hole, Null or the track); visited: radio urls.  youtube: ghost,
\* YouTube was searched; by: ghost, the sources of the tracks.
NoLookup ==
    [kind |-> "text", at |-> "unused", guess |-> FALSE, watch |-> FALSE, limit |-> 0, sent |-> FALSE,
     asked |-> 0, busy |-> {}, next |-> 0, results |-> <<>>, url |-> 0, visited |-> {},
     youtube |-> FALSE, by |-> {}]
Dead == 0
Hole == MaxItems + 1
Null == 0
Ends == {"done", "nothing", "throw"}
Ended(c) == lookup[c].at \in Ends \cup {"unused"}

\* normalizeResolveLimit: 0 stands for no limit given.
LimitOf(asked) == IF asked = 0 \/ asked > MaxTracks THEN MaxTracks ELSE asked

\* Which provider's session a stage's request needs.
Uses(at) ==
    CASE at \in {"sp_track", "sp_track_again", "sp_list", "sp_list_again", "sp_artist"} -> "spotify"
      [] at \in {"dz_url", "dz_url_again"} -> "deezer"
      [] OTHER -> "none"
\* 5 s before its end a Spotify token is renewed; a session at its end.
Margin(p) == IF p = "spotify" THEN 1 ELSE 0
\* A failing session is thrown away (shared: whoever's it is by now).
Drops(at, got) == at \in {"dz_url", "dz_media"} /\ got \in {"none", "error"}

Asks(at) == at \in {"text_playdl", "search", "page_search", "mirror", "cross", "amz_mirror"}

\* Where the lookup r really gets: without the url of a Deezer track to
\* play-dl, and where a throw is caught to the search.
Landing(r, to) ==
    CASE to = "no_url" -> IF r.kind = "stream" THEN "throw" ELSE "dz_track_playdl"
      [] to = "throw" /\ r.guess -> "search"
      [] OTHER -> to
\* The lookup r moves on to a stage, or ends.
Arrive(r, to) ==
    [r EXCEPT !.at = Landing(r, to), !.guess = @ /\ to # "throw", !.sent = FALSE, !.asked = 0,
              !.busy = {}, !.next = 0, !.results = <<>>]

\* The lookup r takes up the loop l over n entries.
TakeUp(r, l, n) ==
    LET m == IF Loop(l).take = "first" /\ n > r.limit THEN r.limit ELSE n
        w == IF m < Loop(l).workers THEN m ELSE Loop(l).workers
    IN IF m = 0 THEN Arrive(r, Loop(l).empty)
       ELSE [Arrive(r, l) EXCEPT !.busy = 1..w, !.next = w + 1, !.results = [i \in 1..m |-> Hole]]

\* r goes where `to' leads: a stage, an end, or a loop of any length.
Goes(c, r, to) ==
    IF to \in Loops THEN \E n \in Loop(to).least..MaxItems : lookup' = [lookup EXCEPT ![c] = TakeUp(r, to, n)]
    ELSE lookup' = [lookup EXCEPT ![c] = Arrive(r, to)]

\* Its query classified or not, on a video or not, the lookup begins so.
Begins(c, known, watch, asked) ==
    LET k == lookup[c].kind
        guessed == k = "spotifyArtist" \/ (k \in Classified /\ ~known)
        lim == IF guessed \/ k = "audius" THEN MaxTracks ELSE LimitOf(asked)
        r == [lookup[c] EXCEPT !.limit = lim, !.watch = watch, !.url = IF k \in {"stations", "url"} THEN 1 ELSE 0,
                !.guess = guessed /\ k \in {"soundcloud", "soundcloudSet", "deezer", "deezerList"}]
        off == k \in {"deezer", "deezerList"} /\ "deezer" \notin flags
    IN /\ (k \notin Classified => known) /\ (k # "playlist" => ~watch)
       /\ IF off THEN lookup' = [lookup EXCEPT ![c] = Arrive(r, "throw")]
          ELSE IF k = "playlist" /\ "ytPlayback" \in flags /\ lim = 1 /\ watch
          THEN \* a mix's first track at once, or the video of the url
               \/ lookup' = [lookup EXCEPT ![c] = Arrive([r EXCEPT !.by = {"video"}], "done")]
               \/ lookup' = [lookup EXCEPT ![c] = Arrive(r, "video")]
          ELSE lookup' = [lookup EXCEPT ![c] = Arrive(r, Entry[k])]
\* The lookup begins: normalised, classified (or not), limited.
Begin(c) ==
    /\ lookup[c].at = "begins"
    /\ \E known, watch \in BOOLEAN, asked \in 0..MaxTracks + 1 : Begins(c, known, watch, asked)
    /\ UNCHANGED <<flags, mix, links, tokens, now>>

\* A stage whose flags are not set is skipped, or ends the lookup.
Refuse(c) ==
    /\ lookup[c].at \in Stages /\ ~(Needs(lookup[c].at) \subseteq flags)
    /\ Goes(c, lookup[c], Without(lookup[c].at))
    /\ UNCHANGED <<flags, mix, links, tokens, now>>

Ready(c) == lookup[c].at \in Stages /\ Needs(lookup[c].at) \subseteq flags

\* The stage's request goes out with the session at hand, if it still holds
\* and no fresh one is forced; else a session is asked for.
GetToken(c) ==
    LET p == Uses(lookup[c].at)
        holds == lookup[c].at # "dz_url_again" /\ tokens[p].until > now + Margin(p)
    IN /\ Ready(c) /\ p # "none" /\ ~lookup[c].sent /\ lookup[c].asked = 0
       /\ lookup' = IF holds THEN [lookup EXCEPT ![c].sent = TRUE] ELSE [lookup EXCEPT ![c].asked = now]
       /\ UNCHANGED <<flags, mix, links, tokens, now>>

\* Counting the life of a token from its arrival.
BugUntil(asked) == now + Life
\* The life counts from before the request.
Until(asked) == asked + Life

\* The answer: a session that lives from some time since it was asked for;
\* or none, which fails the stage.
TokenAnswer(c) ==
    LET p == Uses(lookup[c].at) IN
    /\ lookup[c].asked # 0
    /\ \/ \E given \in lookup[c].asked..now :
            /\ tokens' = [tokens EXCEPT ![p] = [until |-> Until(lookup[c].asked), good |-> given + Life]]
            /\ lookup' = [lookup EXCEPT ![c].sent = TRUE, ![c].asked = 0]
       \/ /\ Goes(c, lookup[c], IF p = "deezer" THEN "no_url" ELSE "throw")
          /\ UNCHANGED tokens
    /\ UNCHANGED <<flags, mix, links, now>>

\* Whether the stage of c may be answered so, of the answers it has.
MayAnswer(c, got) ==
    LET at == lookup[c].at IN
    /\ at \in {"mirror", "amz_mirror"} => got \in MirrorAnswers
    /\ at = "cross" => got \in CrossAnswers
    /\ at = "list_last" => got = (IF lookup[c].watch THEN "watch" ELSE "none")
    /\ at = "dz_legacy" /\ tokens["deezer"].until = 0 => got = "none"

\* The stage of c is answered by the row e.
Answered(c, e) ==
    LET asks == Asks(e.at) /\ (e.at \in {"text_playdl", "search", "page_search"} \/ YouTube \subseteq flags)
        r == [lookup[c] EXCEPT !.by = IF e.to = "done" THEN {e.got} ELSE @,
                               !.youtube = @ \/ (asks /\ e.got # "deezer")]
    IN /\ e.at = lookup[c].at /\ MayAnswer(c, e.got)
       /\ Goes(c, r, e.to)
       /\ tokens' = IF Drops(e.at, e.got) THEN [tokens EXCEPT !["deezer"] = [until |-> 0, good |-> 0]] ELSE tokens
\* The source a stage waits for answers.
Answer(c) ==
    /\ Ready(c) /\ (Uses(lookup[c].at) # "none" => lookup[c].sent)
    /\ \E e \in Route : Answered(c, e)
    /\ UNCHANGED <<flags, mix, links, now>>

Found(results) == {i \in DOMAIN results : results[i] \notin {Hole, Null}}
\* Results pushed in the order of their arrival.
BugPlace(results, i, track) ==
    [results EXCEPT ![CHOOSE j \in DOMAIN results : results[j] = Hole /\ \A k \in 1..j - 1 : results[k] # Hole] = track]
\* results[index]: each at the place of its entry.
Place(results, i, track) == [results EXCEPT ![i] = track]
\* filter(Boolean): what was found, in the order of its places.
Kept(results) ==
    LET place(k) == CHOOSE i \in Found(results) : Cardinality({j \in Found(results) : j <= i}) = k
    IN [k \in 1..Cardinality(Found(results)) |-> results[place(k)]]

\* The entry i of the loop of c yields a track, or fails.
Yields(c, i, got) ==
    LET l == lookup[c].at
        results == Place(lookup[c].results, i, IF got = "fails" THEN Null ELSE i)
        full == Loop(l).take = "until" /\ Cardinality(Found(results)) >= lookup[c].limit
        more == lookup[c].next <= Len(results) /\ ~full
        busy == (lookup[c].busy \ {i}) \cup IF more THEN {lookup[c].next} ELSE {}
        r == [lookup[c] EXCEPT !.by = IF got = "fails" THEN @ ELSE @ \cup {got}, !.busy = busy,
                               !.next = IF more THEN @ + 1 ELSE @, !.results = results,
                               !.youtube = @ \/ ("search" \in Loop(l).each /\ got # "deezer")]
    IN lookup' = [lookup EXCEPT ![c] =
           IF busy # {} THEN r
           ELSE IF Found(results) = {} THEN Arrive(r, Loop(l).empty)
           ELSE [Arrive(r, "done") EXCEPT !.results = Kept(results)]]
\* An entry of a loop is answered; its worker takes the next one.
Item(c, i) ==
    /\ lookup[c].at \in Loops /\ i \in lookup[c].busy
    /\ \E got \in Loop(lookup[c].at).each : Yields(c, i, got)
    /\ UNCHANGED <<flags, mix, links, tokens, now>>

\* Following a playlist that was followed before.
BugSeen(r, u) == FALSE
\* A radio url that was asked already is no stream.
Seen(r, u) == u \in r.visited

\* A radio url is asked: a stream, something else, or a playlist that names
\* another url.  Without a stream a playlist's url is played itself, another
\* url is left to play-dl.
Radio(c) ==
    /\ lookup[c].at = "radio"
    /\ LET r == lookup[c]
           u == r.url
           failed == IF r.kind = "stations" THEN [Arrive(r, "done") EXCEPT !.by = {"web"}] ELSE Arrive(r, "url_info")
       IN lookup' = [lookup EXCEPT ![c] =
            IF Seen(r, u) \/ links[u] = Dead THEN failed
            ELSE IF links[u] = u THEN [Arrive(r, "done") EXCEPT !.by = {"web"}]
            ELSE [r EXCEPT !.url = links[u], !.visited = @ \cup {u}]]
    /\ UNCHANGED <<flags, mix, links, tokens, now>>

\* Time passes; a request for a token ends within its timeout.
Tick ==
    /\ mix = "shared" /\ now < MaxNow
    /\ \A c \in Lookups : lookup[c].asked # 0 => now < lookup[c].asked + Timeout
    /\ now' = now + 1
    /\ UNCHANGED <<flags, mix, lookup, links, tokens>>

Proceed(c) == Begin(c) \/ Refuse(c) \/ GetToken(c) \/ TokenAnswer(c) \/ Answer(c) \/ Radio(c)
    \/ \E i \in 1..MaxItems : Item(c, i)

ResolverInit ==
    /\ now = 1 /\ tokens = [p \in {"spotify", "deezer"} |-> [until |-> 0, good |-> 0]]
    /\ \/ /\ mix = "one"
          /\ \E c \in Lookups, k \in Kinds :
              /\ lookup = [d \in Lookups |-> IF d = c THEN [NoLookup EXCEPT !.kind = k, !.at = "begins"] ELSE NoLookup]
              /\ c = CHOOSE d \in Lookups : TRUE
              /\ flags \in (IF k \in {"stream", "stations", "url"} THEN {Flags} ELSE Configs)
              /\ links \in IF k \in {"stations", "url"} THEN [Streams -> Streams \cup {Dead}]
                           ELSE {[u \in Streams |-> Dead]}
       \/ /\ mix = "shared" /\ flags = Flags /\ links = [u \in Streams |-> Dead]
          /\ \E k \in [Lookups -> Shared] :
                lookup = [c \in Lookups |-> [NoLookup EXCEPT !.kind = k[c], !.at = "begins"]]

ResolverNext == Tick \/ \E c \in Lookups : Proceed(c)

(* ---- properties ------------------------------------------------------ *)

\* The tracks of a collection come in its order, each entry once, and no more
\* than were asked for, whichever worker was done first
\* (mapWithConcurrency, the loops of the collections).
CollectionInOrder ==
    \A c \in Lookups : lookup[c].at = "done" =>
        /\ Len(lookup[c].results) <= lookup[c].limit
        /\ \A i, j \in DOMAIN lookup[c].results : i < j => lookup[c].results[i] < lookup[c].results[j]

\* Along every fallback, tracks come only from what the configuration enables
\* and can play; but an album of Amazon yields Deezer's without an ARL
\* (_resolveTracks, _resolveCrossSourceToYouTube, _searchDeezerAlbumMirrorTracks).
OnlyEnabledSources ==
    \A c \in Lookups : lookup[c].at = "done" =>
        /\ "search" \in lookup[c].by => YouTube \subseteq flags
        /\ "video" \in lookup[c].by => "ytPlayback" \in flags
        /\ "deezer" \in lookup[c].by => "deezer" \in flags /\ ("arl" \in flags \/ lookup[c].kind = "amazonList")
        /\ lookup[c].kind \in {"spotify", "spotifyList", "spotifyArtist"} => "spotify" \in flags
        /\ lookup[c].kind \in {"tidal", "tidalList"} => "tidal" \in flags

\* These queries end without a track only after YouTube was searched, if that
\* is allowed: no failure of their own service ends them
\* (_resolveFromUrlFallbackSearch and the fallback searches).
FailsOnlyAfterYouTube ==
    \A c \in Lookups :
        /\ lookup[c].kind \in {"text", "playlist", "audius", "audiomack", "mixcloud", "jiosaavn",
                               "amazon", "amazonList", "apple", "appleOther"}
        /\ lookup[c].at \in {"nothing", "throw"} /\ YouTube \subseteq flags
        => lookup[c].youtube

\* Thirty chains of fallbacks, one promise: they end with what may be played, or
\* with nothing only after YouTube was asked (_resolveTracks).
RoutesEndRightly == OnlyEnabledSources /\ FailsOnlyAfterYouTube

\* No request leaves with a token that has expired at the server, though
\* lookups renew it side by side (_getSpotifyAccessToken,
\* _getDeezerSessionTokens).
TokenStillGood ==
    [][\A c \in Lookups : ~lookup[c].sent /\ lookup'[c].sent => now < tokens'[Uses(lookup[c].at)].good]_resolverVars

\* Every query is answered: no fallback leads back, and a ring of radio
\* playlists is followed once (_resolveRadioStreamTrack's visited set).
EveryQueryEnds == \A c \in Lookups : <>Ended(c)
=============================================================================
