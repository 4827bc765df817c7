----------------------------- MODULE GuildConfig -----------------------------
(***************************************************************************)
(* What GuildConfigStore promises its callers: a register per guild, where *)
(* an update changes the fields of its patch and nothing else, and a       *)
(* finished call has seen the stored configuration.  It promises nothing   *)
(* any more once calls have raced.                                         *)
(***************************************************************************)
CONSTANTS Guilds, Settings, SettingValues, Callers, Nil

VARIABLES
    config,     \* config[g]: the stored configuration
    seen,       \* seen[c]: what call c was answered, Nil while it runs
    calm        \* no calls have raced so far

Config == [Settings -> SettingValues]

Init ==
    /\ config \in [Guilds -> Config]
    /\ seen = [c \in Callers |-> Nil]
    /\ calm = TRUE

\* A call is made, fails, or is answered from the register.
Begin(c)     == seen' = [seen EXCEPT ![c] = Nil] /\ UNCHANGED <<config, calm>>
Answer(c, g) == seen' = [seen EXCEPT ![c] = config[g]] /\ UNCHANGED <<config, calm>>

\* One patch is applied.
Apply(g, f, v) == config' = [config EXCEPT ![g][f] = v] /\ UNCHANGED <<seen, calm>>

\* Callers race, or have raced.
Race == ~calm'

Next ==
    \/ Race
    \/ \E c \in Callers : Begin(c) \/ \E g \in Guilds : Answer(c, g)
    \/ \E g \in Guilds, f \in Settings, v \in SettingValues : Apply(g, f, v)

Spec == Init /\ [][Next]_<<config, seen, calm>>
=============================================================================
