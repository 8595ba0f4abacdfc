-------------------------- MODULE NamespaceAdmission --------------------------
(***************************************************************************)
(* How a Namespace gets its organization and how the organization's        *)
(* namespace quota is enforced: NamespaceProjectOrganizationMutator and    *)
(* NamespaceQuotaValidator (webhooks/), behind the skippers (skipper/).    *)
(*                                                                         *)
(* A request passes the webhooks one after the other, and is stored only   *)
(* afterwards; several requests are under way at a time.                   *)
(*   Namespace create:  mutate -> quota -> store                           *)
(*   Namespace update:  mutate ----------> store                           *)
(*   ProjectRequest:    quota, then OpenShift creates the Project, whose   *)
(*                      annotation names the requester: mutate -> store    *)
(*   Project without that annotation (OpenShift components): mutate -> store *)
(*                                                                         *)
(* The webhooks read Namespaces from a watch cache that lags behind the    *)
(* API server.  members and defaultOrg are what the caches of Groups and   *)
(* Users hold: a write to them becomes visible here when the cache has it. *)
(* A requester is a user, or a Namespace standing for its service account. *)
(***************************************************************************)
EXTENDS ApiServer, FiniteSets

CONSTANTS
    Requests,           \* the requests that can be under way at a time
    Users, Namespaces, Orgs,
    Privileged,         \* requesters PrivilegedUserSkipper lets through
    NoOrg, NoUser, NoRequester,     \* "", and objects that do not exist
    Verbs,              \* what requesters do: a subset of AllVerbs
    MutatorEnabled,     \* -namespace-project-organization-mutator
    SkipValidateQuota, EnableLegacyNamespaceQuota, LegacyNamespaceQuota,
    SelectedProfile,    \* namespaceCount of the selected profile, or -1: none
    Override,           \* Override[o]: 0 .. from the ConfigMap, -1: none, -2: not a number
    MaxLag,             \* bound: versions the Namespace cache may trail behind
    MaxWrites,          \* bound: versions of the set of Namespaces
    MaxEdits            \* bound: changes of members and defaults

Requesters == Users \cup Namespaces
AllVerbs == {"create", "update", "delete", "project", "component"}

ASSUME RequestersAssumption ==
    /\ Users \cap Namespaces = {}
    /\ NoRequester \notin Requesters
    /\ Privileged \subseteq Requesters
    /\ NoOrg \notin Orgs /\ NoUser \notin Orgs \cup {NoOrg}
ASSUME ConfigAssumption ==
    /\ Verbs \subseteq AllVerbs
    /\ MutatorEnabled \in BOOLEAN
    /\ SkipValidateQuota \in BOOLEAN /\ EnableLegacyNamespaceQuota \in BOOLEAN
    /\ LegacyNamespaceQuota \in Nat /\ SelectedProfile \in Nat \cup {-1}
    /\ Override \in [Orgs -> Nat \cup {-1, -2}]
    /\ IsFiniteSet(Requests) /\ Requests # {} /\ IsFiniteSet(Namespaces)
    /\ MaxLag \in Nat /\ MaxWrites \in Nat /\ MaxEdits \in Nat

VARIABLES
    store,      \* versions of the set of Namespaces: name -> Entry
    seen,       \* position of the agent's cache of Namespaces
    members,    \* members[o]: users of the cached Group o
    defaultOrg, \* defaultOrg[u]: annotation of the cached User u
    req,        \* req[r]: the request under way, or Idle
    granted,    \* history: granted[o]: users that have been members of o
    edits       \* number of changes of members and defaults

vars == <<store, seen, members, defaultOrg, req, granted, edits>>
directory == <<members, defaultOrg, granted, edits>>

-----------------------------------------------------------------------------
(* Requests *)

Idle == [stage |-> "idle"]

\* A Namespace request, or a Project whose annotation is who.  quota is the
\* organization whose quota had room for it, NoOrg when none was looked at: a
\* note for the properties, which no webhook reads.
Request(kind, verb, who, n, label, quota) ==
    [stage |-> IF kind = "ProjectRequest" THEN "quota" ELSE "mutate",
     kind |-> kind, verb |-> verb, who |-> who, ns |-> n, label |-> label,
     quota |-> quota]

\* Labels of a ProjectRequest are ignored by the API server.
Inputs ==
    {Request("Namespace", v, who, n, label, NoOrg) :
        v \in Verbs \cap {"create", "update"}, who \in Requesters,
        n \in Namespaces, label \in Orgs \cup {NoOrg}}
    \cup {Request("ProjectRequest", v, who, n, NoOrg, NoOrg) :
            v \in Verbs \cap {"project"}, who \in Requesters, n \in Namespaces}
    \cup {Request("Project", v, NoRequester, n, label, NoOrg) :
            v \in Verbs \cap {"component"}, n \in Namespaces,
            label \in Orgs \cup {NoOrg}}

Cached == store[seen]
Count(s, o) == Cardinality({n \in DOMAIN s : s[n].org = o})

Init ==
    /\ store = << <<>> >>
    /\ seen = 1
    /\ members \in [Orgs -> SUBSET Users]
    /\ defaultOrg \in [Users -> Orgs \cup {NoOrg, NoUser}]
    /\ req = [r \in Requests |-> Idle]
    /\ granted = members
    /\ edits = 0

Arrive(r, q) ==
    /\ req[r] = Idle
    /\ req' = [req EXCEPT ![r] = q]
    /\ UNCHANGED <<store, seen, directory>>

Refuse(r) == req' = [req EXCEPT ![r] = Idle]

-----------------------------------------------------------------------------
(* Skippers *)

\* Users, groups and cluster roles of the configuration; an error while the
\* bindings are listed is RequestFails.
PrivilegedUserSkipper(who) == who \in Privileged

\* StaticSkipper, then PrivilegedUserSkipper.
multiSkipper(who) == ~MutatorEnabled \/ PrivilegedUserSkipper(who)

-----------------------------------------------------------------------------
(* NamespaceProjectOrganizationMutator *)

\* Projects are checked even when the skippers would let them through.
SkipMutation(q) == multiSkipper(q.who) /\ q.kind # "Project"

\* Mutant of handleUserRequested: neither the user nor its membership is looked
\* up.
handleUserRequestedUnchecked(q) ==
    {IF q.label = NoOrg THEN defaultOrg[q.who] ELSE q.label}

\* The organization a user's Namespace or Project gets, or none: refused.
handleUserRequested(q) ==
    LET org == IF q.label = NoOrg THEN defaultOrg[q.who] ELSE q.label
    IN  {o \in Orgs : /\ o = org
                      /\ defaultOrg[q.who] # NoUser
                      /\ q.who \in members[o]}

\* Mutant of handleServiceAccountNamespace: a label of the request is kept.
handleServiceAccountNamespaceLabelled(q) ==
    {o \in Orgs : /\ q.who \in DOMAIN Cached
                  /\ o = IF q.label = NoOrg THEN Cached[q.who].org ELSE q.label}

\* Service accounts stay in the organization of their own Namespace.
handleServiceAccountNamespace(q) ==
    {o \in Orgs : /\ q.who \in DOMAIN Cached
                  /\ o = Cached[q.who].org
                  /\ q.label \in {NoOrg, o}}

\* The labels the webhook lets through; a Project of a service account gets
\* none.
OrganizationFor(q) ==
    CASE SkipMutation(q)       -> {q.label}
      [] q.who = NoRequester   -> {q.label}
      [] q.who \in Users       -> handleUserRequested(q)
      [] q.kind = "Project"    -> {}
      [] OTHER                 -> handleServiceAccountNamespace(q)

Mutate(r) ==
    /\ req[r].stage = "mutate"
    /\ \/ \E o \in OrganizationFor(req[r]) :
            req' = [req EXCEPT ![r].label = o,
                        ![r].stage = IF /\ req[r].kind = "Namespace"
                                        /\ req[r].verb = "create"
                                     THEN "quota" ELSE "store"]
       \/ OrganizationFor(req[r]) = {} /\ Refuse(r)
    /\ UNCHANGED <<store, seen, directory>>

-----------------------------------------------------------------------------
(* NamespaceQuotaValidator *)

\* The limits that apply to organization o: none when the configuration, the
\* profile or the override is no good.
NsCountLimit(o) ==
    LET base == IF EnableLegacyNamespaceQuota THEN LegacyNamespaceQuota
                                              ELSE SelectedProfile
        limit == IF Override[o] = -1 THEN base ELSE Override[o]
    IN  IF base = -1 \/ limit = -2 THEN {} ELSE {limit}

\* The organization whose Namespaces are counted, or none: refused.
QuotaOrganization(q) ==
    IF q.label # NoOrg THEN {q.label}
    ELSE {o \in Orgs : q.who \in Users /\ defaultOrg[q.who] = o}

\* Mutant of QuotaAllows: one Namespace too many.
QuotaAllowsOneMore(q) ==
    \/ PrivilegedUserSkipper(q.who)
    \/ \E o \in QuotaOrganization(q) :
            \/ SkipValidateQuota
            \/ \E limit \in NsCountLimit(o) : Count(Cached, o) <= limit

QuotaAllows(q) ==
    \/ PrivilegedUserSkipper(q.who)
    \/ \E o \in QuotaOrganization(q) :
            \/ SkipValidateQuota
            \/ \E limit \in NsCountLimit(o) : Count(Cached, o) < limit

\* The organization whose quota an accepted request was held against.
HeldAgainst(q) ==
    IF PrivilegedUserSkipper(q.who) \/ SkipValidateQuota THEN {NoOrg}
                                                         ELSE QuotaOrganization(q)

\* An accepted ProjectRequest is followed by the Project that OpenShift
\* creates for it.
ValidateQuota(r) ==
    LET q == req[r]
    IN  /\ q.stage = "quota"
        /\ Len(store) - seen <= MaxLag
        /\ \/ ~QuotaAllows(q) /\ Refuse(r)
           \/ /\ QuotaAllows(q)
              /\ \E o \in HeldAgainst(q) :
                    req' = [req EXCEPT ![r] =
                        IF q.kind = "Namespace"
                        THEN [q EXCEPT !.stage = "store", !.quota = o]
                        ELSE Request("Project", "project", q.who, q.ns, NoOrg, o)]
        /\ UNCHANGED <<store, seen, directory>>

\* A webhook answers with an error or not at all (failurePolicy=Fail), or
\* something else in the API server refuses the request.
RequestFails(r) ==
    /\ req[r].stage # "idle"
    /\ Refuse(r)
    /\ UNCHANGED <<store, seen, directory>>

-----------------------------------------------------------------------------
(* The API server, the caches, and the syncs behind them *)

Exists(q) == q.ns \in DOMAIN Current(store)

\* The request is stored: a create needs the name to be free, an update needs
\* the object.  A Namespace that an update moves was not counted where it goes.
Persist(r) ==
    LET q == req[r]
        old == Current(store)[q.ns]
        entry == [org |-> q.label, by |-> q.who,
                  quota |-> IF q.verb # "update" THEN q.quota
                            ELSE IF old.org = q.label THEN old.quota ELSE NoOrg]
    IN  /\ q.stage = "store"
        /\ Len(store) < MaxWrites
        /\ Exists(q) <=> q.verb = "update"
        /\ store' = Append(store,
                [n \in DOMAIN Current(store) \cup {q.ns} |->
                    IF n = q.ns THEN entry ELSE Current(store)[n]])
        /\ req' = [req EXCEPT ![r] = Idle]
        /\ UNCHANGED <<seen, directory>>

DeleteNamespace(n) ==
    /\ "delete" \in Verbs
    /\ Len(store) < MaxWrites
    /\ n \in DOMAIN Current(store)
    /\ store' = Append(store,
            [m \in DOMAIN Current(store) \ {n} |-> Current(store)[m]])
    /\ UNCHANGED <<seen, directory, req>>

WatchNamespaces ==
    /\ Behind(store, seen)
    /\ seen' = seen + 1
    /\ UNCHANGED <<store, directory, req>>

\* GroupSync changes the Group of an organization.
SyncMembers(o, S) ==
    /\ edits < MaxEdits
    /\ edits' = edits + 1
    /\ members' = [members EXCEPT ![o] = S]
    /\ granted' = [granted EXCEPT ![o] = @ \cup S]
    /\ UNCHANGED <<store, seen, defaultOrg, req>>

\* UserAttributeSync changes a User, or a User comes or goes.
SyncDefault(u, o) ==
    /\ edits < MaxEdits
    /\ edits' = edits + 1
    /\ defaultOrg' = [defaultOrg EXCEPT ![u] = o]
    /\ UNCHANGED <<store, seen, members, granted, req>>

-----------------------------------------------------------------------------
Next ==
    \/ \E r \in Requests :
        \/ \E q \in Inputs : Arrive(r, q)
        \/ Mutate(r) \/ ValidateQuota(r) \/ RequestFails(r) \/ Persist(r)
    \/ \E n \in Namespaces : DeleteNamespace(n)
    \/ WatchNamespaces
    \/ \E o \in Orgs, S \in SUBSET Users : SyncMembers(o, S)
    \/ \E u \in Users, o \in Orgs \cup {NoOrg, NoUser} : SyncDefault(u, o)

Spec == Init /\ [][Next]_vars

-----------------------------------------------------------------------------
(* Properties *)

Labels == Orgs \cup {NoOrg}
Entry == [org: Labels, by: Requesters \cup {NoRequester}, quota: Labels]
PendingRequest ==
    [stage: {"mutate", "quota", "store"},
     kind: {"Namespace", "ProjectRequest", "Project"}, verb: AllVerbs,
     who: Requesters \cup {NoRequester}, ns: Namespaces, label: Labels,
     quota: Labels]

\* Types of the state: a label that a webhook puts on a Namespace or that is
\* stored names an organization or is not there.
TypeOK ==
    /\ Len(store) > 0 /\ seen \in 1 .. Len(store)
    /\ \A i \in DOMAIN store : /\ DOMAIN store[i] \subseteq Namespaces
                               /\ \A n \in DOMAIN store[i] : store[i][n] \in Entry
    /\ members \in [Orgs -> SUBSET Users] /\ granted \in [Orgs -> SUBSET Users]
    /\ defaultOrg \in [Users -> Labels \cup {NoUser}]
    /\ req \in [Requests -> PendingRequest \cup {Idle}]
    /\ edits \in 0 .. MaxEdits

\* What entitles who to put a Namespace into organization o in version i: the
\* mutator does not check who, who is a user that has been a member of o, or who
\* is the service account of a Namespace that an earlier version had in o.
Entitled(who, o, i) ==
    \/ who \in Privileged \cup {NoRequester}
    \/ /\ o \in Orgs
       /\ \/ who \in Users /\ who \in granted[o]
          \/ /\ who \in Namespaces
             /\ \E j \in 1 .. i - 1 : who \in DOMAIN store[j] /\ store[j][who].org = o

\* Nobody gets a Namespace into an organization from outside.  A user stores
\* Namespaces only of an organization that had it as a member; a service account
\* only of one that its own Namespace was in before, however stale the cached
\* Namespace was, and through however many service accounts an organization
\* was passed on before: version by version each of them is entitled in turn, so
\* the chain starts with a member or somebody the mutator does not check.
OrganizationsComeFromMembers ==
    MutatorEnabled =>
        \A i \in DOMAIN store : \A n \in DOMAIN store[i] :
            Entitled(store[i][n].by, store[i][n].org, i)

\* Namespaces of o that were counted against its quota when they were created,
\* and requests that were and are not stored yet.
Counted(o) == {n \in DOMAIN Current(store) :
                  Current(store)[n].org = o /\ Current(store)[n].quota = o}
Approved(o) == {r \in Requests : /\ req[r].stage \in {"mutate", "store"}
                                 /\ req[r].quota = o}

\* The count is checked against a stale cache and used after further requests,
\* so the quota can be exceeded, and it is not looked at when a Namespace is
\* relabelled, when the default organization changes between a ProjectRequest
\* and its Project, or for privileged requesters.  These are all the ways past
\* it: an organization has, apart from Namespaces that came to it without a
\* check, at most as many more than its limit as the cache is behind and as
\* further requests are under way.
QuotaExcessBounded ==
    \A o \in Orgs : \A limit \in NsCountLimit(o) :
        Cardinality(Counted(o)) + Cardinality(Approved(o))
            <= limit + MaxLag + Cardinality(Requests) - 1
=============================================================================
