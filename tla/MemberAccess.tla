---------------------------- MODULE MemberAccess ----------------------------
(***************************************************************************)
(* What the bot knows of a guild, and decides by it:                       *)
(*   src/bot/services/guildStateCache.ts     roles and owner, from events  *)
(*   src/bot/voiceStateStore.ts              voice states, and who waits   *)
(*   src/bot/commands/helpers/access.ts      may the user manage?          *)
(*   src/bot/services/permissionService.ts   may the bot send or speak?    *)
(* Their requests go through RestClient; the value of a read is taken when *)
(* the server answers.  The guild itself and the stream of its events are  *)
(* external: events come in the order of the changes, and a message after  *)
(* what happened before it.  One guild, one user, one channel of interest. *)
(*                                                                         *)
(* The bits of a permission are those one question asks for: "may" is      *)
(* MANAGE_GUILD of the user, or SEND_MESSAGES (CONNECT, SPEAK) of the bot. *)
(***************************************************************************)
EXTENDS RestClient, Sequences, TLC

CONSTANTS
    Roles, Channels,
    TTL,          \* ticks of PERMISSION_CACHE_TTL_MS and cacheTtlMs
    Mixes,        \* the parts that are looked at together (bound)
    Grants,       \* of each mix: the bits a role may carry
    Rooms,        \* channels the bot would use; their overwrites are alike
    Overs,        \* what an overwrite may be made: <<whose, what>>
    Fails,        \* of each mix: the outcomes of a request
    Reads, Posts, \* the slots of the reads, and of the calls of others
    MaxChanges,   \* changes of the guild (bound)
    MaxEvents,    \* events under way (bound)
    MaxChecks,    \* lookups and checks begun (bound)
    StableCap     \* where the ghost `stable' stops counting (bound)

\* The bits asked for, and the roles a guild may have with them.
Rights == {"admin", "may"}
RoleTables == UNION {[some -> SUBSET Rights] : some \in SUBSET Roles}

ASSUME AccessAssumption ==
    /\ \A m \in Mixes : Grants[m] \subseteq SUBSET Rights
    /\ None \notin [owner : {"user", "other"}, roles : RoleTables]
    /\ TTL \in Nat \ {0} /\ {MaxChanges, MaxEvents, MaxChecks, StableCap} \subseteq Nat
    /\ Posts \subseteq Slots /\ Reads = Slots \ Posts /\ {"member", "guild", "channel"} \subseteq Reads
    /\ Rooms \cap {"member", "guild"} = {}
    /\ None \notin Channels \cup {"gateway", "user", "other", "yes", "no"}
    /\ Mixes \subseteq {"posts", "manage", "bot", "voice"}

VARIABLES
    mix,          \* what this behaviour looks at
    guild,        \* external: [owner, roles, member, bot, over, voice]
    events,       \* external: what the gateway has yet to deliver
    changes,      \* changes made so far
    stable,       \* ghost: ticks since the last change
    guildState,   \* GuildStateCache.guilds of the guild, or None
    voiceState,   \* VoiceStateStore.guildVoiceStates: the user's channel
    verdicts,     \* manageGuildPermissionCache of the user
    check,        \* the check of the user's permission in progress
    read,         \* of each slot: what its request read
    botCache,     \* guildMemberCache, guildCache, and of each room channelPermCache
    botCheck,     \* the check of the bot's permission in progress
    look,         \* resolveMemberVoiceChannelWithFallback in progress
    begun         \* lookups and checks begun

guildVars == <<guild, events, changes, stable>>
cacheVars == <<guildState, voiceState, verdicts, botCache>>
callVars == <<check, botCheck, look, begun>>
accessVars == <<guildVars, cacheVars, callVars, mix, read>>
vars == <<restVars, accessVars>>

Nobody == [pc |-> "idle", via |-> None, verdict |-> None, sent |-> FALSE,
           has |-> {}, member |-> {}, roles |-> None]
NoLook == [pc |-> "idle", joined |-> FALSE]
NoBotCheck == [pc |-> "idle", room |-> None, verdict |-> None, open |-> {}, member |-> {}, roles |-> << >>, over |-> << >>]
Nothing == [value |-> None, left |-> 0]
Holds(e) == e.left > 0     \* an entry that has not expired

(*--------------------------- the guild (external) -------------------------*)
With(roles, r, bits) == [q \in DOMAIN roles \cup {r} |-> IF q = r THEN bits ELSE roles[q]]
Bits(roles, ids) == UNION {roles[r] : r \in ids \cap DOMAIN roles}
Manages(bits) == bits \cap Rights # {}
MayManage(g) == g.owner \/ Manages(Bits(g.roles, g.member))

\* What the gateway says of a change.
Tells(evts) == events' = events \o evts
RoomFor(n) == Len(events) + n <= MaxEvents
ChangesTo(g) == /\ changes < MaxChanges /\ changes' = changes + 1
                /\ g # guild /\ guild' = g /\ stable' = 0
                /\ UNCHANGED <<restVars, cacheVars, callVars, mix, read>>

RoleChanges == \E r \in Roles, b \in Grants[mix] :
    /\ RoomFor(1) /\ mix # "voice"
    /\ ChangesTo([guild EXCEPT !.roles = With(@, r, b)])
    /\ Tells(<<[kind |-> "role", role |-> r, bits |-> b]>>)
RoleGoes == \E r \in DOMAIN guild.roles :
    /\ RoomFor(1) /\ mix = "manage"
    /\ ChangesTo([guild EXCEPT !.roles = [q \in DOMAIN @ \ {r} |-> @[q]], !.member = @ \ {r}, !.bot = @ \ {r}])
    /\ Tells(<<[kind |-> "roleGone", role |-> r]>>)
\* no event of it is listened to: roles of members come with messages and reads
MemberChanges == \E ids \in SUBSET DOMAIN guild.roles :
    /\ CASE mix = "manage" -> ChangesTo([guild EXCEPT !.member = ids])
         [] mix = "bot" -> ChangesTo([guild EXCEPT !.bot = ids])
         [] OTHER -> FALSE
    /\ Tells(<< >>)
OwnerChanges == /\ mix = "manage" /\ RoomFor(1)
                /\ ChangesTo([guild EXCEPT !.owner = ~@])
                /\ Tells(<<[kind |-> "guild", owner |-> ~guild.owner]>>)
OverwriteChanges == \E o \in Overs :
    /\ mix = "bot"
    /\ ChangesTo([guild EXCEPT !.over[o[1]] = o[2]]) /\ Tells(<< >>)
VoiceMoves == \E c \in Channels \cup {None} :
    /\ mix = "voice" /\ RoomFor(1)
    /\ ChangesTo([guild EXCEPT !.voice = c])
    /\ Tells(<<[kind |-> "voice", channel |-> c]>>)
Whole == [kind |-> "create", owner |-> guild.owner, roles |-> guild.roles, voice |-> guild.voice]
\* An outage of the guild, and a session that is not resumed: the events under
\* way are lost, and a stub of the guild precedes it.
GuildOutage == /\ mix \in {"manage", "voice"} /\ RoomFor(2) /\ changes < MaxChanges
               /\ changes' = changes + 1 /\ Tells(<<[kind |-> "delete"], Whole>>)
               /\ UNCHANGED <<restVars, guild, stable, cacheVars, callVars, mix, read>>
NewSession == /\ mix \in {"manage", "voice"} /\ changes < MaxChanges
              /\ changes' = changes + 1 /\ events' = <<[kind |-> "ready"], Whole>>
              /\ UNCHANGED <<restVars, guild, stable, cacheVars, callVars, mix, read>>

\* A user writes: his message carries his bits, his roles, or neither.
Writes == \E carries \in {"bits", "roles", "nothing"} :
    /\ mix = "manage" /\ RoomFor(1) /\ begun < MaxChecks
    /\ \A i \in DOMAIN events : events[i].kind # "message"
    /\ begun' = begun + 1
    /\ Tells(<<[kind |-> "message", carries |-> carries, has |-> guild.member,
                bits |-> Bits(guild.roles, guild.member), truth |-> MayManage(guild)]>>)
    /\ UNCHANGED <<restVars, guild, changes, stable, cacheVars, check, botCheck, look, mix, read>>

(*------------------------------ GuildStateCache ---------------------------*)
NoGuild == [owner |-> None, roles |-> << >>]
Existing == IF guildState = None THEN NoGuild ELSE guildState
BugKeepsOldRoles(new) == Existing.roles @@ new
RolesOf(new) == new
\* _upsertGuild: what the payload does not carry stays as it was
UpsertGuild(e) ==
    CASE e.kind = "create" -> [owner |-> e.owner, roles |-> RolesOf(e.roles)]
      [] e.kind = "guild" -> [Existing EXCEPT !.owner = e.owner]
      [] e.kind = "ready" -> Existing
      [] OTHER -> guildState
UpsertRole(e) == [Existing EXCEPT !.roles = With(@, e.role, e.bits)]
DropRole(r) == IF guildState = None THEN None
               ELSE [guildState EXCEPT !.roles = [q \in DOMAIN @ \ {r} |-> @[q]]]
\* computeManageGuildPermission, TRUE, FALSE or None
ComputeManage(ids) ==
    IF guildState = None \/ ids = {} THEN None
    ELSE IF guildState.owner = "user" THEN "yes"
    ELSE IF ids \cap DOMAIN guildState.roles = {} THEN None
    ELSE IF Manages(Bits(guildState.roles, ids)) THEN "yes" ELSE "no"

(*------------------------------ VoiceStateStore ---------------------------*)
\* _upsert and _resolveWaiters; `seed' is _seedGuildStates, which tells nobody
Upsert(c) == /\ voiceState' = c
             /\ look' = IF c = None THEN [look EXCEPT !.joined = FALSE]
                        ELSE IF look.pc = "waiting" THEN [pc |-> "found", joined |-> FALSE]
                        ELSE [look EXCEPT !.joined = look.pc = "asks"]
Seed(c) == /\ voiceState' = c
           /\ look' = [look EXCEPT !.joined = look.pc = "asks" /\ c # None]

(*----------------------- resolveManageGuildPermission ---------------------*)
YesNo(b) == IF b THEN "yes" ELSE "no"
Remembered(v) == [value |-> v, left |-> TTL]
BugHitRenews(v) == verdicts' = Remembered(v)
KeepsVerdict(v) == UNCHANGED verdicts
Decided(c, via, v) == [Nobody EXCEPT !.pc = "decided", !.via = via, !.verdict = v, !.sent = c.sent]

\* getManageGuildFromMessagePayload: owner first, then what the message carries
FromMessage(m) == IF guildState # None /\ guildState.owner = "user" THEN "yes"
                  ELSE IF m.carries = "bits" THEN YesNo(Manages(m.bits)) ELSE None
Asked(m) == [Nobody EXCEPT !.pc = "member", !.sent = m.truth,
                           !.has = IF m.carries = "nothing" THEN {} ELSE m.has]
Resolves(m) ==
    LET c == Asked(m)
        payload == FromMessage(m)
        gateway == ComputeManage(c.has) IN
    /\ check.pc \in {"idle", "decided"} /\ Free("member")
    /\ IF payload # None
         THEN /\ check' = Decided(c, "message", payload)
              /\ verdicts' = Remembered(payload)
              /\ UNCHANGED restVars
         ELSE IF gateway # None
         THEN /\ check' = Decided(c, "gateway", gateway)
              /\ verdicts' = Remembered(gateway)
              /\ UNCHANGED restVars
         ELSE IF Holds(verdicts)
         THEN /\ check' = Decided(c, "cache", verdicts.value)
              /\ KeepsVerdict(verdicts.value)
              /\ UNCHANGED restVars
         ELSE /\ check' = c /\ UNCHANGED verdicts
              /\ Begins({"member"}, "get")

\* getManageGuildFromRest: the member, the guild, its roles, one after the other;
\* a failed read counts as not having read.
ReadTaken(s) == read' = [read EXCEPT ![s] = None]
Got(s) == IF call[s].pc = "returned" THEN read[s] ELSE None
DecidedByRest(c, v) == /\ check' = Decided(c, "rest", v)
                       /\ verdicts' = IF v = "unknown" THEN verdicts ELSE Remembered(v)
                       /\ Taken("member")
MemberRead == \E bits \in BOOLEAN :
    /\ mix = "manage" /\ check.pc = "member" /\ Settled("member")
    /\ LET g == Got("member") IN
       IF g # None /\ bits
         THEN DecidedByRest(check, YesNo(Manages(Bits(g.roles, g.member))))
         ELSE /\ check' = [check EXCEPT !.pc = "guild", !.member = IF g = None THEN {} ELSE g.member]
              /\ Begins({"member"}, "get") /\ UNCHANGED verdicts
    /\ ReadTaken("member")
    /\ UNCHANGED <<guildVars, guildState, voiceState, botCache, botCheck, look, begun, mix>>
GuildRead ==
    /\ mix = "manage" /\ check.pc = "guild" /\ Settled("member")
    /\ LET g == Got("member") IN
       IF g # None /\ g.owner
         THEN DecidedByRest(check, "yes")
         ELSE /\ check' = [check EXCEPT !.pc = "roles", !.roles = IF g = None THEN None ELSE g.roles]
              /\ Begins({"member"}, "get") /\ UNCHANGED verdicts
    /\ ReadTaken("member")
    /\ UNCHANGED <<guildVars, guildState, voiceState, botCache, botCheck, look, begun, mix>>
\* the verdict of one set of role ids: of the cache, else of the roles read
Computed(ids, roles) ==
    IF ComputeManage(ids) # None THEN ComputeManage(ids)
    ELSE IF roles = None \/ (roles # None /\ ids \cap DOMAIN roles = {}) THEN None
    ELSE YesNo(Manages(Bits(roles, ids)))
RolesRead ==
    /\ mix = "manage" /\ check.pc = "roles" /\ Settled("member")
    /\ LET g == Got("member")
           roles == IF g = None THEN check.roles ELSE g.roles
           first == Computed(check.member, roles)
           v == IF first # None THEN first ELSE Computed(check.has, roles) IN
       DecidedByRest(check, IF v = None THEN "unknown" ELSE v)
    /\ ReadTaken("member")
    /\ UNCHANGED <<guildVars, guildState, voiceState, botCache, botCheck, look, begun, mix>>

(*------------------------- the gateway delivers ---------------------------*)
Who(owner) == IF owner THEN "user" ELSE "other"
Delivered == /\ events # << >>
             /\ events' = Tail(events)
             /\ UNCHANGED <<guild, changes, stable, botCache, botCheck, begun, mix, read>>
OnGuild == /\ Delivered
           /\ LET e == Head(events) IN
              /\ e.kind \in {"create", "guild", "ready"}
              /\ guildState' = UpsertGuild(IF e.kind = "ready" THEN e ELSE [e EXCEPT !.owner = Who(@)])
              /\ CASE e.kind = "create" -> Seed(e.voice)
                   [] e.kind = "ready" -> Seed(None)
                   [] OTHER -> UNCHANGED <<voiceState, look>>
           /\ UNCHANGED <<restVars, verdicts, check>>
OnGuildDelete == /\ Delivered /\ Head(events).kind = "delete"
                 /\ guildState' = None
                 /\ Seed(None)
                 /\ UNCHANGED <<restVars, verdicts, check>>
OnRole == /\ Delivered
          /\ LET e == Head(events) IN
             \/ e.kind = "role" /\ guildState' = UpsertRole(e)
             \/ e.kind = "roleGone" /\ guildState' = DropRole(e.role)
          /\ UNCHANGED <<restVars, voiceState, look, verdicts, check>>
OnVoiceState == /\ Delivered /\ Head(events).kind = "voice"
                /\ Upsert(Head(events).channel)
                /\ UNCHANGED <<restVars, guildState, verdicts, check>>
OnMessage == /\ Delivered /\ Head(events).kind = "message"
             /\ Resolves(Head(events))
             /\ UNCHANGED <<guildState, voiceState, look>>

(*----------------- resolveMemberVoiceChannelWithFallback ------------------*)
\* A message without a voice state, of a user who may be in a channel.
Looks == /\ mix = "voice" /\ begun < MaxChecks /\ look.pc \in {"idle", "found", "none"}
         /\ begun' = begun + 1
         /\ IF voiceState # None
              THEN look' = [NoLook EXCEPT !.pc = "found"] /\ UNCHANGED restVars
              ELSE look' = [NoLook EXCEPT !.pc = "asks"] /\ Begins({"member"}, "get")
         /\ UNCHANGED <<guildVars, cacheVars, check, botCheck, mix, read>>
\* waitForMemberVoiceChannel: the store is asked again before waiting.
WaitFor(l) == IF voiceState # None THEN [l EXCEPT !.pc = "found", !.joined = FALSE]
              ELSE [l EXCEPT !.pc = "waiting"]
LookRead == \E tells \in BOOLEAN :     \* whether members are told with their channel
    /\ mix = "voice" /\ look.pc = "asks" /\ Settled("member")
    /\ LET g == Got("member") IN
       IF tells /\ g # None /\ g.voice # None
         THEN /\ voiceState' = g.voice /\ look' = [pc |-> "found", joined |-> FALSE]
         ELSE look' = WaitFor(look) /\ UNCHANGED voiceState
    /\ Taken("member") /\ ReadTaken("member")
    /\ UNCHANGED <<guildVars, guildState, verdicts, botCache, check, botCheck, begun, mix>>
LookTimesOut == /\ look.pc = "waiting" /\ look' = [look EXCEPT !.pc = "none"]
                /\ UNCHANGED <<restVars, guildVars, cacheVars, check, botCheck, begun, mix, read>>

(*--------------------------- PermissionService ----------------------------*)
\* _applyOverwrite, and _applyChannelOverwrites: everyone, all roles at once, the bot
Overwrites(bits, some) == (bits \ (IF "deny" \in some THEN {"may"} ELSE {}))
                          \cup (IF "allow" \in some THEN {"may"} ELSE {})
ChannelBits(bits, ids, over) ==
    IF "admin" \in bits THEN bits
    ELSE Overwrites(Overwrites(Overwrites(bits, {over["everyone"]}), {over[r] : r \in ids}),
                    {over["bot"]})
\* _fromBits asks for the bit itself, of an administrator too; without a role of
\* the member among those of the guild nothing is known
BotVerdict(ids, roles, over) ==
    IF ids \cap DOMAIN roles = {} THEN "unknown"
    ELSE YesNo("may" \in ChannelBits(Bits(roles, ids), ids, over))

BugExpiresLate(v) == [value |-> v, left |-> TTL + 1]
Cached(v) == [value |-> v, left |-> TTL]

\* canBotSendMessages, canBotJoinAndSpeak: the verdict cached, or what is not
\* cached of member and guild, and the channel, read at the same time.
BotAsks == \E room \in Rooms :
    /\ mix = "bot" /\ begun < MaxChecks /\ begun' = begun + 1
    /\ botCheck.pc # "asks" /\ botCheck.open = {}
    /\ IF Holds(botCache[room])
         THEN /\ botCheck' = [NoBotCheck EXCEPT !.pc = "decided", !.verdict = botCache[room].value]
              /\ UNCHANGED restVars
         ELSE LET need == {s \in {"member", "guild"} : ~Holds(botCache[s])} \cup {"channel"} IN
              /\ botCheck' = [NoBotCheck EXCEPT !.pc = "asks", !.room = room, !.open = need,
                    !.member = IF Holds(botCache.member) THEN botCache.member.value ELSE {},
                    !.roles = IF Holds(botCache.guild) THEN botCache.guild.value ELSE << >>]
              /\ Begins(need, "get")
    /\ UNCHANGED <<guildVars, cacheVars, check, look, mix, read>>

\* One of the reads is there.  Promise.all ends with the first that failed, and
\* the others still fill their caches; with the last of three the verdict falls.
Took(b, s) == LET g == Got(s)
                  c == [b EXCEPT !.open = @ \ {s}] IN
              CASE g = None -> c
                [] g # None /\ s = "member" -> [c EXCEPT !.member = g.bot]
                [] g # None /\ s = "guild" -> [c EXCEPT !.roles = g.roles]
                [] OTHER -> [c EXCEPT !.over = g.over]
BotRead(s) ==
    LET b == Took(botCheck, s)
        v == IF Got(s) = None THEN "unknown" ELSE BotVerdict(b.member, b.roles, b.over)
        decides == botCheck.pc = "asks" /\ (Got(s) = None \/ b.open = {})
        filled == IF Got(s) = None \/ s = "channel" THEN botCache
                  ELSE [botCache EXCEPT ![s] = Cached(IF s = "member" THEN b.member ELSE b.roles)] IN
    /\ s \in botCheck.open /\ Settled(s)
    /\ botCheck' = IF decides THEN [NoBotCheck EXCEPT !.pc = "decided", !.verdict = v, !.open = b.open] ELSE b
    /\ botCache' = IF decides THEN [filled EXCEPT ![botCheck.room] = Cached(v)] ELSE filled
    /\ Taken(s) /\ ReadTaken(s)
    /\ UNCHANGED <<guildVars, guildState, voiceState, verdicts, check, look, begun, mix>>

(*------------------------- requests, time, the whole ----------------------*)
\* What else is called meanwhile; a reaction fares as the typing notice does.
Posting == \E s \in Posts, kind \in Kinds \ {"get", "reaction"} :
    /\ mix = "posts" /\ Begins({s}, kind) /\ UNCHANGED accessVars
Served == \E s \in Slots, out \in Outcomes, wait \in Told \cup {0} :
    /\ out = "done" \/ out \in Fails[mix]
    /\ Serve(s, out, wait)
    /\ read' = IF s \in Reads /\ out = "done" THEN [read EXCEPT ![s] = guild] ELSE read
    /\ UNCHANGED <<guildVars, cacheVars, callVars, mix>>
Answered == \E s \in Slots : Receive(s) /\ UNCHANGED accessVars
Continues == \E s \in Slots : (WaitEnds(s) \/ Wakes(s)) /\ UNCHANGED accessVars

\* Events and answers arrive within a tick.
Aged(e) == [e EXCEPT !.left = Less(@)]
Tick ==
    /\ RestTick
    /\ events = << >>
    /\ check.pc \in {"member", "guild", "roles"} \/ look.pc = "asks" => ~Settled("member")
    /\ \A s \in botCheck.open : ~Settled(s)
    /\ stable' = IF stable = StableCap THEN stable ELSE stable + 1
    /\ verdicts' = Aged(verdicts)
    /\ botCache' = [s \in DOMAIN botCache |-> Aged(botCache[s])]
    /\ UNCHANGED <<guild, events, changes, guildState, voiceState, callVars, mix, read>>

Init ==
    /\ RestInit
    /\ mix \in Mixes
    /\ guild = [owner |-> FALSE, roles |-> [r \in Roles |-> {}], member |-> Roles, bot |-> Roles,
                over |-> [who \in Roles \cup {"everyone", "bot"} |-> "none"], voice |-> None]
    /\ events = IF mix \in {"manage", "voice"} THEN <<[kind |-> "ready"], Whole>> ELSE << >>
    /\ changes = 0 /\ stable = 0
    /\ guildState = None /\ voiceState = None
    /\ verdicts = Nothing /\ botCache = [s \in {"member", "guild"} \cup Rooms |-> Nothing]
    /\ check = Nobody /\ botCheck = NoBotCheck /\ look = NoLook /\ begun = 0
    /\ read = [s \in Reads |-> None]
Next ==
    \/ RoleChanges \/ RoleGoes \/ MemberChanges \/ OwnerChanges \/ OverwriteChanges
    \/ VoiceMoves \/ GuildOutage \/ NewSession \/ Writes
    \/ OnGuild \/ OnGuildDelete \/ OnRole \/ OnVoiceState \/ OnMessage
    \/ MemberRead \/ GuildRead \/ RolesRead
    \/ Looks \/ LookRead \/ LookTimesOut
    \/ BotAsks \/ \E s \in {"member", "guild", "channel"} : BotRead(s)
    \/ Posting \/ Served \/ Answered \/ Continues \/ Tick
Spec == Init /\ [][Next]_vars

(*-------------------------------- properties ------------------------------*)
\* A verdict by the roles of the gateway is what was true when the message was
\* written, whatever role, owner or session changed around it: events are
\* applied in order and to all the roles they speak of (_upsertGuild, _upsertRole).
GatewayVerdictIsFresh == check.via = "gateway" => check.verdict = YesNo(check.sent)

\* The longest a read may take, when no limit is met.
Delay == IF "unclear" \in Fails[mix] THEN (MaxRetries - 1) * Backoff ELSE 0

\* Who may not manage the guild for a minute, and as long as a check takes, is
\* refused, by whatever way his right is looked up; a remembered verdict does
\* not live on by being used (resolveManageGuildPermission).
Decides == check'.pc = "decided" /\ (check.pc # "decided" \/ OnMessage)
GrantsAreFounded ==
    [][Decides /\ check'.verdict = "yes" /\ stable > (TTL - 1) + 2 * Delay => MayManage(guild)]_vars

\* What is said of the bot is put together of reads of different age and then
\* kept: two lifetimes after the last change, and a read, it is the truth
\* (getBotChannelPermissions).
BotDecides == botCheck'.pc = "decided" /\ (botCheck.pc # "decided" \/ BotAsks)
BotVerdictSettles ==
    [][BotDecides /\ botCheck'.verdict \in {"yes", "no"} /\ stable > 2 * (TTL - 1) + Delay
          => botCheck'.verdict = BotVerdict(guild.bot, guild.roles, guild.over)]_vars

\* A user who joins a channel while his command looks for him, and stays, is
\* found: between the read and the wait no event is missed
\* (waitForMemberVoiceChannel, _resolveWaiters).
NoLostJoin == look.pc = "none" => ~look.joined

\* What the gateway tells between two steps of a command counts: the cached
\* verdict is that of the moment, and no join goes by unseen (_upsertGuild,
\* waitForMemberVoiceChannel).
EventsAreHeeded == GatewayVerdictIsFresh /\ NoLostJoin
=============================================================================
