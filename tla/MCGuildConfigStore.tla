------------------------- MODULE MCGuildConfigStore -------------------------
(* Two settings with two values show a lost update; two guilds in a cache of *)
(* one entry show eviction.                                                  *)
EXTENDS GuildConfigStore
CONSTANTS g1, g2, prefix, volume, c1, c2
TwoGuilds == {g1, g2}
TwoFields == {prefix, volume}
TwoCalls == {c1, c2}
Defaults == [f \in Settings |-> 0]
=============================================================================
