------------------------------- MODULE Skipper -------------------------------
(***************************************************************************)
(* Who may pass the webhooks unchecked (skipper/).  A requester is a record *)
(* of its user name and its groups; a service account is the user name the *)
(* API server gives it.  Wildcards of the configuration are expanded.      *)
(***************************************************************************)
CONSTANTS PrivilegedUsers, PrivilegedGroups, PrivilegedClusterRoles

matchSubject(subject, who) ==
    \/ subject.kind \in {"User", "ServiceAccount"} /\ subject.name = who.name
    \/ subject.kind = "Group" /\ subject.name \in who.groups

\* The cluster roles that ClusterRoleBindings (a set of [role, subjects]) give
\* to who.  RoleBindings do not count.
ClusterRoleRefsForUser(bindings, who) ==
    {b.role : b \in {c \in bindings :
                        \E s \in c.subjects : matchSubject(s, who)}}

PrivilegedUserSkipper(who, bindings) ==
    \/ who.name \in PrivilegedUsers
    \/ who.groups \cap PrivilegedGroups # {}
    \/ ClusterRoleRefsForUser(bindings, who) \cap PrivilegedClusterRoles # {}

\* NewMultiSkipper(StaticSkipper{ShouldSkip: ~enabled}, psk)
multiSkipper(enabled, who, bindings) ==
    ~enabled \/ PrivilegedUserSkipper(who, bindings)
=============================================================================
