---------------------------- MODULE MCLegacyQuota ----------------------------
(* LegacyQuota for TLC. *)
EXTENDS LegacyQuota

CONSTANTS u1, g1, admin, view

TheRequesters == {[name |-> u1, groups |-> {g1}]}
Bind(role, kind, name) ==
    {[role |-> role, subjects |-> {[kind |-> kind, name |-> name]}]}

\* The privileged role goes to the user's group and away again; another role
\* goes to the user.
TheBindings == {Bind(admin, "Group", g1), Bind(view, "User", u1)}
=============================================================================
