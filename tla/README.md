# Formal model of vinto-the-fluxer-bot

TLA+ models of the Fluxer music bot under `src/`, the TLC runs that check them
and the theorems about them that TLAPS proves. `PROJECT.json` is the index:
components, runs, the mutants that show each property can fail, the source
lines every definition stands for, hazards and theorems.

## The system

The bot is one Node process. Nothing runs in parallel, but almost every
operation is an `async` function: between two `await`s other handlers, timers
and events run. The interesting failures are therefore interleavings of pieces
of handlers, late events of objects that were replaced, and timers.

| component | state it keeps | operations | hard part | correct means |
|---|---|---|---|---|
| Music player (`player/MusicPlayer.ts`, `musicPlayer/queueLifecycleMethods.ts`, `pipelineMethods.ts`, `Queue.ts`) | queue, current track, history, playing/paused/skip flags, startup and playback tokens, ffmpeg process, prefetched url | play, enqueue, skip, seek, replay, previous, pause, resume, stop, remove, shuffle, loop mode; the `close` event of a process | `play()` awaits its pipeline and a first chunk while commands kill the process it waits for; late `close` events | never stuck "playing", no orphan process, every track is played once, remembered or requeued, `queueEmpty` announces real idleness |
| Gateway (`gateway.ts`) | socket, session id and sequence, heartbeat state, five timers | connect, disconnect, packets, closes, timers | events of a replaced socket, overlapping timers | always one supervised connection or a pending reconnect; resume when possible; silence after disconnect |
| Guild configuration store (`bot/services/guildConfigStore.ts`) | TTL/LRU cache, loads in flight | get, update | read-modify-write across awaits | a register per guild, coherent cache |
| Session manager (`bot/sessionManager.ts`, `sessionManager/`) | sessions per guild and voice channel, idle timers, snapshot flags | ensure, connect, adopt, destroy, shutdown, restore, vote skip, player events | two `ensure` at once, destroy during a save | one session per channel, a destroyed session leaves nothing behind |
| Voice connection (`voice/VoiceConnection.ts`) | room, pending server update, pump token, pause waiters | connect, sendAudio, pause, disconnect | timeout against late server update, disconnect during connect | at most one pump, no waiter left behind |
| REST client (`rest.ts`) | global rate limit | request with retries, sendMessage | retry of a request that was applied | unsafe requests are not repeated after they may have been applied |
| Voice state store (`bot/voiceStateStore.ts`) | user to channel maps, waiters | voice state events, snapshots, waits | wait against late event | both indexes agree |
| Command router (`bot/commandRouter.ts`, ...) | operation locks, now-playing messages, message dedupe | message create, session events, reactions | handlers that overlap per guild | a locked operation runs once at a time |
| Rate limiter | sliding windows per user and guild | consume | the edge of a window | at most `max` per window |
| Guild state cache, permission service, access helpers | what events told, TTL caches of reads and verdicts | events, checks | a verdict made of reads of different age | nobody is allowed what he has not had for longer than the lifetimes promise |
| Music library store | playlists, favourites, history, a feature document, snapshots and bindings in Mongo | read-modify-write operations | overlapping writes, limits, a crash between two writes | limits hold, no lost entries, what played is restored |
| Bootstrap | shutdown flags, intervals | start, shutdown | signals during shutdown | the order of the shutdown steps, once |
| Resolvers and providers (`player/musicPlayer/*Methods.ts`) | tokens, lookups in progress, a stream being decrypted | resolve a query, import a collection, stream a Deezer track | thirty chains of fallbacks, workers that end in any order, downloads that break | a lookup ends with what may be played, in order; a stream is whole |
| Formatting, configuration, logging | none or constants | conversions | | out of a state model's reach |

Interaction: the gateway delivers dispatch events to the command router and the
voice state store; the router runs commands, which obtain a session from the
session manager (a `MusicPlayer` and a `VoiceConnection` each) and call the
player; player events come back to the session manager (idle timer, snapshots)
and to the router (messages). The stores sit behind commands. Bootstrap wires
all of it and reacts to `open`/`close` of the gateway.

## Modules

| module | models | state and actions |
|---|---|---|
| `MusicPlayer` | playback lifecycle | `play[p]` is the asynchronous call `play()` cut at its awaits (`resolving`, `grace`, `chunk`, `diag`, `started`); tokens name the playback that holds them; `proc[p]` its ffmpeg process; commands are actions of their own; `emitted` the events of the last step |
| `MusicPlayerProofs` | theorems about it | |
| `Gateway` | the gateway connection | sockets are named; `ws` is the current one; a timer is armed through its handle or an orphan whose handle was overwritten; a handler is one action |
| `GatewayProofs` | theorems about it | |
| `GuildConfig` | what the configuration store promises: a register per guild | |
| `GuildConfigStore` | the store itself | a call is cut where it awaits: `finding`, `found`, `joined`, `have`, `writing`, `written`; the ghost `calm` is true until calls of a guild race or a reply is lost |
| `SessionTable` | the sessions of one guild, with the commands that open them | `table` is `this.sessions` by voice channel; an operation is cut at its awaits (`loading` the profile, `connecting`, `reading`, `config`); a session replaced in the table lives on as an object with its timer, listeners and connection |
| `SessionSnapshots` | what of the sessions outlives the process | `session` in memory, `snap` and `bound` in Mongo, writes between them in flight; a shutdown, a crash and the restore of the next start are cut at their awaits |
| `SessionProofs` | theorems about `SessionTable` and `SessionSnapshots` | |
| `VoiceConnect` | the voice connections of one guild | a call of `connect()` or `disconnect()` is cut at its awaits; rooms and audio tracks are named; `VOICE_SERVER_UPDATE` goes to everyone who waits |
| `VoiceConnectProofs` | theorems about it | |
| `AudioPump` | one connection's pump of PCM into the LiveKit source | `current` is the pump token, `pump[p].phase` the await the pump stands at; time passes as frames leaving the source's queue |
| `MusicLibrary` | the library store | every Mongo operation is one step, what a call has read is in `seen` until it writes |
| `DataCommands` | the commands over it, and the weekly recap | a command awaits its caller's permission, perhaps a preview of tracks, then calls the store; extends `MusicLibrary` |
| `StoreProofs` | theorems about the configuration store, its refinement among them, and about the library | |
| `CommandRouter` | what stands between a message and its command | rate limiter, locks and their sweep, pending searches, reactions; a message is `arrived`, then runs |
| `PlaybackCommands` | the commands on a session and its queue | extends `CommandRouter`: a short command is one step, a long one is cut at its awaits; of the player it sees the queue |
| `PlaybackCommandsProofs` | theorems about the last two | |
| `RestClient` | the HTTP client | a call is `sent`, `limited` or delayed; the server may carry out a request whose answer is lost |
| `MemberAccess` | what the bot knows of a guild and decides by it | extends `RestClient`: guild state cache, voice state store, permission checks, each read a call of the client |
| `MemberAccessProofs` | theorems about the last two | |
| `TrackResolver` | from a query to tracks | the routes of the providers are tables of stages; a lookup stands at a stage, or loops over the entries of a collection |
| `DeezerStream` | the encrypted stream | reader, stripe transform and ffmpeg in a row; bytes are their places in the file |
| `StreamProofs` | theorems about `AudioPump`, `DeezerStream` and the lookups | |
| `TrackSources` | lookups and the stream one of them found | composes both |
| `MC*` | instances for TLC | |

Definitions named `Bug...` are faulty variants of the definition after them,
used only to show that a property can fail.

## Runs

Each run asks one question of one component, or of two that share state.

### Player

- `player_owned`: three overlapping playbacks (one starting, one abandoned
  whose process has not closed, one queued behind it: a fourth would repeat the
  role of the second), two songs (one YouTube song, which has the retry and
  recovery paths, and one that has not), queue and history of one. The session
  owns the player: nothing uses it after `stop()`. That assumption is about the
  callers (`play`, `playnext` and others hold a session across awaits, and
  `destroy()` does not wait for them); the theorems about the player do without
  it. Deadlock is not checked, since after `stop()` the player really rests.
- `player_settles`: two overlapping playbacks, one song and a queue of two (so
  that it can be shuffled); every startup ends, under weak fairness of the steps of
  `play()` itself, whose waits all have a timeout, and of the `close` event of a
  killed process. Nothing is assumed about commands.

### Gateway

- `gateway_prompt`: a closing socket reports `close` before the reconnect delay
  has passed (`LateClose = FALSE`). Two socket names suffice, for the connection
  and the next: a name is free again when its socket closed. Fairness:
  timers fire and a socket that is closing closes; neither packets nor the
  opening of a socket is assumed. Deadlock is not checked: after `disconnect()`
  nothing has to happen.

Without that promise (the ws library waits up to 30 s for a close frame) the bot
still always has a socket or a reconnect pending: theorem `StillConnected`. The
delay and its backoff counter are not modelled.

### Configuration store

- `config_register`: two calls over two guilds, two settings of two values and
  a cache of one entry, so that reads expire and evict each other. As long as
  no calls have raced and no reply was lost (`calm`), the store implements
  `GuildConfig` with `config <- db`; whatever races, loads are shared and every
  call returns (fairness: Mongo answers or fails, Node runs what is ready).

### Session table

Two session objects suffice: one in the table and one that was replaced, which
takes a new identity only when nothing refers to it any more.

- `session_alone`: one operation at a time on one channel; timers, playback,
  dropped connections, people who come and go and a leave interrupt it
  (`Overlap = TRUE` with a single operation). The table is what the documents
  promise, and an abandoned session is left in the end. A session that was left
  can still arm its timer, when a config refresh that began before arrives
  after: that is what `TimerSparesOthers` is about. Fairness: timers fire, the
  database and the voice server answer. Channels share only the limit
  (`WithinLimit`) and the question whether any session is left, asked by a timer;
  the theorems are for any number of channels.

`adoptVoiceChannel` moves no key for its callers, which connect a session to its
own channel, so the key of a session never changes here.

### Snapshots

- `snapshots`: one channel, two starts of the process, two changes of what is
  played, three joins, leaves or settings, two writes in flight, one that fails.
  The process is shut down, or dies, between any two steps. Of a shutdown whose
  writes succeed, everything connected comes back; a session that was destroyed
  does not; what plays is stored in the end (fairness: the flush interval fires,
  Mongo answers). Writes are assumed to take effect in the order they are sent.
  What is under way is over before the last stage of a shutdown, and in that
  stage nothing else happens (`QuietEnd = TRUE`), which is the point of the
  departure named below. Channels share the list of bindings, which is written
  whole, and the order of the writes: the theorems are for any number of them.
  Deadlock is not checked: a process that is down for good rests.

### Voice

- `pump_safe`: two pumps, so that one replaces the other at each of its awaits; a
  queue of one frame, frames of two units, streams of up to seven units (whole
  frames and a tail); captures and playout may fail. Replaced pumps end, and a
  stream that ends by itself is heard to its last unit (fairness: the source
  plays what it has and answers, a destroyed stream ends).
- `voice_serial`: two connections of a guild and three calls, each connection
  used by one call at a time; every call returns (fairness: the 15 s timer fires,
  LiveKit settles its promises).

### Library

- `library_shared`: three calls, two at a time, over three playlist names, two
  songs, limits of one (two for the tracks of a playlist and the history) and pages of one, so
  that every limit and every page end is met. Two calls show every pair of
  conflicting reads and writes; the third finds what they left. A command that
  meets no other does exactly what it promises (`AloneIsExact` compares its
  answer with a specification in one step); with overlap, limits are exceeded by
  at most the other calls in flight, and nothing deleted comes back. Deadlock is
  not checked: the bound on calls is reached.

### Commands

- `commands`: two users and three messages or reactions, two at a time, over two
  songs (one a radio stream) and a clock of two ticks, each limit and lifetime
  one or two ticks. Which commands meet in a behaviour is given by seven mixes
  that share a lock, a queue, a selection or a vote (whether there is a DJ role is
  varied where a command asks). Two users suffice for a
  majority and its lack; the sweep of the locks comes while a slow command still
  runs. Deadlock is not checked: the bounds are reached.

### Access

- `access`: one user, one role, one channel (an overwrite of it denies everyone
  or allows the bot), two changes of the guild, three events under way, three
  checks, lifetimes of two ticks, two attempts of a request. Four mixes are looked at in turn: messages and edits side by side,
  the right to manage a guild, the bot's own permissions, and the wait for a
  user to join; they share the client's global limit and nothing else. Deadlock
  is not checked: the bounds are reached.

### Sources

- `sources`: every kind of query under each of the 22 configurations that lack
  at most two of the six flags (a route tests at most two); collections of up to
  three entries where two are allowed, so that the limit cuts; two workers; two
  lookups together where they share a token, which lives three ticks; three
  radio playlists that may name each other; then a stream of nine bytes in
  stripes of two (one third of them encrypted, a tail shorter than a stripe)
  through two broken downloads. Fairness: whoever is asked answers or fails in
  the end. Deadlock is not checked: when all is settled nothing happens.

## Departures

What the code does against its documents or its own intent, met while modelling.
Each row of the table is shown by TLC with the definition and the constants
it names, checked in the place of the properties of the component's run; no cfg
is kept for them, so that every run that is kept must pass.

| definition | setting | what the code does |
|---|---|---|
| `SkippedIsNotRetried` (`MusicPlayer`) | as `player_owned` | a YouTube track skipped while it waits for its first chunk is queued again and restarted: the retry test does not ask whether it was skipped (`MusicPlayer.ts:881-892`, `985-987`; `corePlaybackCommands.ts:1210`, "Skip current track") |
| `StopIsSilent` (`MusicPlayer`) | as `player_owned` | `trackError` is emitted after `stop()` (`MusicPlayer.ts:907`; compare `test/musicPlayerStartupLifecycle.test.ts:45`) |
| `WatchdogArmed` (`Gateway`) | `LateClose = TRUE`, three sockets | the late `close` of a replaced socket clears the timers of its successor (`gateway.ts:488`) |
| `CacheCoherent` (`GuildConfigStore`) | its guard `calm` dropped | of two overlapping updates one is lost, since each writes the whole document it read before an await (`guildConfigStore.ts:216`); a write whose reply is lost leaves the old entry in the cache (`:255`) |
| `InputFlows` (`AudioPump`) | `Target = 2`, streams of 6 units | both queue limits are 1200 ms (`VoiceConnection.ts:19-20`), so a frame captured at the limit leaves the input paused, and the pump may wait for a chunk of an input it never resumes (`:725`, `:739`, `:750`; `test/voiceConnectionPumpBackpressure.test.ts:57`) |
| `OwnChannel` (`VoiceConnect`) | as `voice_serial` | two connections of a guild that connect at once take the first `VOICE_SERVER_UPDATE` and enter the same room (`VoiceConnection.ts:352`; `README.md:46`, "Independent multi-voice playback sessions per guild") |
| `DisconnectClears` (`VoiceConnect`) | `Overlap = TRUE` | `disconnect()` during `connect()` leaves a connected room behind (`VoiceConnection.ts:168`) |
| `TracksClosed` (`VoiceConnect`) | `Overlap = TRUE` | two calls create an audio track each, one is never closed (`VoiceConnection.ts:388`) |
| `OneSessionPerChannel` (`SessionTable`) | two operations | two commands that open a channel at once create two sessions, the first of which is never destroyed (`sessionManager.ts:262-275`, `453`; `docs/ARCHITECTURE.md:85`, "owns one playback session per voice channel") |
| `WithinLimit` (`SessionTable`) | two operations and channels | commands that overlap exceed the limit of sessions (`context.ts:160`; `CONFIGURATION.md:78`) |
| `StayAgrees` (`SessionTable`) | two operations | a session is created with a voice profile read before it changed (`sessionManager.ts:275`; `ARCHITECTURE.md:101`) |
| `FailureSparesOthers` (`SessionTable`) | two operations | a command whose connect fails destroys the session that took the place of its own (`context.ts:209`) |
| `RestartBringsBack` (`SessionSnapshots`) | `QuietEnd = FALSE`, two channels, one start | an event of another session in the last stage of a shutdown, or its `destroy` that is not over by then, rewrites the list of bindings without the sessions that have left (`sessionManager.ts:756`; `test/session247Persistence.test.ts:245`) |
| `DestroyedStaysGone` (`SessionSnapshots`) | `ended` left as it is in `RestoreAnswered`, two channels | a restore that failed clears its binding from a list it read before, and writes back that of a session that was destroyed meanwhile (`runtimeMethods.ts:549-572`; `test/session247Persistence.test.ts:161`) |

Read in the code while its models were written, and part of them (a model takes
the code as it is, so the properties that hold are worded around these):

- Library: `recordUserSignal` names `createdAt` in `$set` and in `$setOnInsert`
  of one update, which Mongo rejects (`musicLibraryStore.ts:602-623`); removing a
  track writes the whole list back and loses one added meanwhile (`:926`);
  editors of the same list of the feature document lose each other's entry;
  applying an import twice appends it twice; a recap whose post failed counts as
  sent, one whose mark failed is posted again; `queueguard` and `djrole` write
  back what they read before the permission was checked.
- Commands: `commandRouterOperations.ts:239-250` takes `createTrackFromData` and
  `enqueueResolvedTracks` off the player unbound, so a pick by reaction throws
  and nothing is queued (compare `corePlaybackCommands.ts:1136`, "React with
  1-N"); a user over his limit uses up the guild's; the sweep of old locks and the
  ownerless `finally` let two commands in (`commandRouter.ts:543`); a pick may
  clear a newer search; the diag monitor outlives its session; a `play` in
  progress during `leave` queues into the destroyed session; `previous` ignores
  the limit of the queue.
- Snapshots: the persist of `shutdown()` is skipped while a write is in flight
  (`runtimeMethods.ts:310`), and a skipped one clears nothing, so an idle 24/7
  session may keep a stale snapshot; a crash in the middle of a restore forgets
  the bindings that were not restored yet (`sessionManager.ts:848`); a restore
  that fails for a passing reason deletes snapshot and binding; a late delete
  removes the snapshot of a newer session of the channel; restoring drops tracks
  queued meanwhile.
- Access: an owner is refused when the cache has no owner and the guild cannot be
  read (`access.ts:327-364`); the seed of a guild's voice states wakes nobody who
  waits (`voiceStateStore.ts:147`), and an answer of REST may overwrite a newer
  one (`:102`); an administrator bot whose role lacks the single bits is refused
  (`permissionService.ts:268`); a waiting request goes out into a limit that was
  moved while it waited (`rest.ts:371-382`).
- Sources: without an ARL the tracks of an Amazon album are mirrored to Deezer
  and cannot be played (`amazonMethods.ts:486-510`); the guesses by title forget
  the limit of a collection; failures of Bandcamp's page, of Apple's album
  lookup, of the Spotify and Tidal APIs and of most play-dl calls end without the
  search on YouTube that others end with; a Spotify collection without a mirror
  is empty where Tidal's throws; a failing Deezer lookup clears the session other
  lookups use (`deezerMethods.ts:531`); the attempts of a stream start anew with
  each connection, so one that breaks for ever is resumed for ever (`:695`); an
  unclassified YouTube url ignores `enableYtPlayback` (`urlResolverMethods.ts:307`).

## Proofs

TLC checks the instances above; the theorems hold for every value of the
constants.

- `MusicPlayerProofs`: `TypeCorrect`, `PlayerNeverStuck`, `QueueEmptyIsIdle`.
  `NeverStuck` is not inductive: it needs that the two tokens name the playback
  that last began (`TokensAgree`). The invariant is
  `TypeOK /\ TokensAgree /\ NeverStuck`, proved per action group (startup steps,
  process closes, interrupting commands, queue commands), whether or not the
  player is used after `stop()`. `PlaybackOwned` and `EndsAnnounced` are about a
  player that is not (`~ReuseAfterStop`: after a reuse they are false, which the
  run `player_owned` excludes for the same reason); their invariant `Owned` says
  in which phase a playback holds the process, the clock and the current track.
  `EndsAnnounced` also assumes a history (`MaxHistory > 0`): without one a
  finished track leaves no trace.
- `GatewayProofs`: `TypeCorrect` and `StillConnected` for any `LateClose`;
  `WatchdogHolds`, `OnlyOneConnection`, `ConnectionIsSound` (the run's invariant,
  of the three before it) and `DisconnectEndsIt` under `~LateClose`
  from `PromptInv == TypeOK /\ Stage`, where `Stage` says which timers
  each stage of a connection has armed. `SessionIsKept` adds `Kept`: while the
  invalid-session timer is armed nothing else introduces the socket, and what it
  will send resumes the session if there is one.
- `StoreProofs`, about the configuration: `StoreIsSound` and the refinement
  `StoreIsRegister`.
  Loads are shared because the table of loads and the calls agree in both
  directions (`LoadsKnown`). While it is calm one call is under way
  (`OneAtATime`) and carries what is stored (`CarriesStored`); so the write of
  a call is a write of the register and every other step a stutter or a read.
  About the library: `LimitsAlmostHold`, `OthersKept` and `AloneExact`, for any number of
  commands in progress. Every step of a call ends it or takes it to a stage where
  what it has read fits what it will write (`CallShape`), so what is stored keeps
  its form and the cut arrays their limits (`DocumentsFit`). The bound on playlists
  is not inductive: a call that has counted may still insert, so the invariant
  counts the playlists and those calls together (`Counted`); the last of them to
  count found room, which is why one call less than there are can be too many.
  `AloneExact` says of a command during which no other ran that it did, as one
  operation on what was there when it began, what its answer says. Its invariant
  (`AloneInv`) is what such a command knows at each of its awaits (`Held`): until it
  writes the documents are as they were, and what it has read, counted or found
  missing is so still; a step then ends it with its promise kept or leaves it with
  what it knows (`TrueToWord`, command by command). It rests on two facts about the
  operators: the page shown is one there is and not empty (`PageShown`, by division
  with remainder), and a finite set can be listed by a measure (`Ranked`), without
  which the `CHOOSE` of the charts would say nothing: the longest listing of the
  largest that exists leaves nothing out.
- `SessionProofs`, about the table: `TypeCorrect`, `SerialSessions`,
  `TimersSpareOthers`.
  `destroy()` is given a key, so the invariant says that whoever may call it
  holds a session with a channel (`OpShape`, `TimerShape`) and that the session in
  the table is the one whose key it is (`TableAgrees`). `Serial` is the additional
  invariant without overlap: one operation runs, and what it will create has no
  predecessor. `TimersSpareOthers` needs no such assumption.
  About the snapshots: `DestroyedForGood` and `ShutdownPreserves`, for any number
  of channels, starts, failures and writes in flight. Writes take effect in the
  order they are sent, so both invariants speak of what stands behind what.
  `GoneInv`: behind whatever brings a session back that is being destroyed stands
  its deletion, or the synchronisation after it. `KeptInv`: what a shutdown
  promised is stored or on its way with nothing behind it that takes it away, and
  the list of bindings written last has every session that was connected.
  `ShutdownPreserves` assumes `QuietEnd`, as the runs do, and for the same reason.
- `VoiceConnectProofs`: `NothingStrays`, when calls on one connection do not
  overlap (`~Overlap`, as in the run; the departures are what happens otherwise).
  Rooms and connections know each other (`Linked`); that is inductive with what
  each phase of a call has done to its connection (`Stages`).
- `StreamProofs`, about `AudioPump`: `TypeCorrect`, `NoLostWakeUp`,
  `StreamIsOwned`, `PumpIsSound` (the run's invariant, of the two before it) and
  `OnlyCurrentHeard`, with or without failures. `Inv` adds to the type invariant
  that a frame is only cut from a full one (`FrameReady`) and that the queue has
  room while the current pump can still capture (`QueueRoom`), without which
  the bounds of the type invariant are not inductive. About `DeezerStream`:
  `StreamWhole`, whose invariant says that what ffmpeg has, the carry of the
  stripe transform and what waits between them are one run of bytes from the start
  of the file (`BytesInOrder`), and that the reader continues where it ends
  (`ReaderInPlace`).
  About the lookups: `LookupsRight`, `TracksInOrder`, `RoutesEnd` and
  `TokensStillGood`, for any number of lookups, kinds of queries, lengths of
  collections and limits. What a route may do is checked once, over the rows of its
  table (`RouteRows`): a row leads to a stage of the same route, or ends. A lookup by
  itself is then right (`Right`) in four parts: it keeps the stages of its route
  (`Keeps`), its loop fits the collection (`Fits`), what it holds is what it
  found, in the order of the collection (`Ordered`), and the tokens it uses were
  good when it asked (`Timely`). A collection keeps order because the k-th track
  taken is the k-th entry found, and every such entry has a number: that is the
  least number not yet passed (`LeastNumber`), which the well-foundedness of `<`
  gives where an induction theorem, which takes an operator, cannot be cited.
- `PlaybackCommandsProofs`: `LimitsHold`, `LocksHaveHolders`,
  `SearchesPickedOnce`, `VotesDecide`. Every step is first sorted by what it does
  to the calls (`StepKinds`); then each promise has an invariant of its own: a
  bucket never holds less than was admitted (`Covered`), a lock that was not
  swept has one holder (`LockInv`), a search is kept by one user or still runs
  (`SelectionInv`, `PickInv`), a voter has voted last for the track that votes
  are for (`VoteInv`). `VotesDecide` assumes finitely many users.
- `MemberAccessProofs`: `MessagesPostedOnce`, `GlobalLimitRespected`,
  `EventsHeeded`, `GrantsFounded`, `BotVerdictSettled`. What may have been done for
  a call follows from where it stands (`DoneBy`). For the events: what the bot knows
  of the guild, with the events under way applied in their order, is the guild as it
  is (`EventsInv`). For the verdicts (`AccessInv`) it is age that is carried: a read
  answers within `Longest`, so what a check holds is no older than its requests have
  taken (`Spent`, `OnTime`); once a tick has passed since the last change the cache
  of the gateway knows the guild or nothing, and every event under way tells it as
  it is (`Steady`); and what is cached was true when it was no older than its age
  (`VerdictAge` for the verdict on a member, `BotAsked` and `BotKept` for the reads
  and the verdict on the bot). Both theorems assume what their part of the run does:
  that these requests meet no limit (`Fails` of the mix has no "route" and no
  "global"). A limit may be as long as the server says, and a read that waits for it
  has no bound that the properties could name.

Assumptions on constants are stated in the modules (`...Assumption`) and
evaluated by every run. They say which constants are numbers and sets, that
limits are not zero, and that a process is started at least once; for the
library, that `None` stands for no document, that the feature document has keys,
and that finitely many calls run; for the resolvers, that the kinds of queries that
share providers are kinds; for access, that the requests which read are those that
do not post, and that names are distinct where the code has distinct things: `None`
is no channel and no verdict, and a room has not the key of another cache.

The type invariants are proved, or part of an invariant that is, and in no run.
Liveness and ENABLED are outside the prover's reach and rest on TLC alone:
`StartupSettles`, `KeepsAlive`, `CallsReturn`, `PumpsEndRightly`, `StayIsHeeded`,
`PlaybackIsStored`, `EverythingSettles`. Every safety property
that a run checks is stated by a theorem.

## Not modelled

- Player: the prefetch of the next stream url, the queue guard, volume and the
  sample arithmetic of the effects.
- Resolvers: `normalizeInputUrl` and the other conversions of urls and metadata,
  match scores, stream urls of SoundCloud and Audius, the meta data a Deezer
  url is pinned to; the lifetimes of Tidal's token, SoundCloud's client id and
  Amazon's configuration, which never expire in the code.
- REST: `retry-after: 0`, the eviction of caches by size, the cooldown of `play`.
- Router: the parser, the now-playing messages; sessions: diagnostics, adoption
  of another channel; bootstrap: the order in which the other services close.
- Lyrics, formatting, configuration, logging, the metrics endpoint, the scripts:
  conversions and I/O without behaviour in time.

## Plan

The models cover the bot's own logic, and the safety properties the runs check are
proved. What is left is outside the reach of the prover, liveness, and outside the
models, the list above; of that the queue guard and the prefetch of the player are
what a later model would add first.
