--------------------------- MODULE MCMemberAccess ---------------------------
(* MemberAccess for TLC: one role, and what each mix may meet. *)
EXTENDS MemberAccess
CONSTANTS p, q, x, y
MCSlots == {"member", "guild", "channel", p, q}
MCReads == {"member", "guild", "channel"}
MCPosts == {p, q}
MCRooms == {x, y}
MCSymmetry == Permutations(MCPosts) \cup Permutations(MCRooms)
MCTold == {3}
MCMixes == {"posts", "manage", "bot", "voice"}
MCGrants == [m \in MCMixes |-> IF m = "bot" THEN {{}, {"admin", "may"}} ELSE {{}, {"may"}}]
MCOvers == {<<"everyone", "deny">>, <<"bot", "allow">>}
MCFails == [m \in MCMixes |-> CASE m = "posts" -> Outcomes \ {"done"}
                                [] m = "manage" -> {"unclear"}
                                [] m = "bot" -> {"refused"}
                                [] OTHER -> {"refused", "global"}]
=============================================================================
