------------------------------- MODULE OrgRbac -------------------------------
(***************************************************************************)
(* OrganizationRBACReconciler (controllers/org_rbac_controller.go) for one *)
(* Namespace and its default RoleBindings.                                 *)
(*                                                                         *)
(* Reconcile reads the Namespace from a watch cache and then puts every    *)
(* default RoleBinding in turn, in any order, going on when one fails.     *)
(* Users work on the Namespace and the RoleBindings at the same time.      *)
(***************************************************************************)
EXTENDS ApiServer, FiniteSets

CONSTANTS
    RoleBindings,   \* names of the default RoleBindings (DefaultClusterRoles)
    Orgs,           \* organizations
    NoOrg,          \* the Namespace has no organization label
    Custom,         \* subjects somebody else than the agent has written
    MaxEdits        \* bound: writes after which users rest

\* Without default RoleBindings Reconcile has nothing to do.
ASSUME RoleBindingsAssumption == RoleBindings # {}
ASSUME OrgsAssumption == NoOrg \notin Orgs /\ Custom \notin Orgs
ASSUME EditsAssumption == MaxEdits \in Nat

VARIABLES
    ns,         \* versions of the Namespace
    rb,         \* rb[b]: versions of RoleBinding b
    nseen,      \* position of the agent's cache of the Namespace
    rseen,      \* rseen[b]: position of its cache of RoleBinding b
    queued,     \* the workqueue holds a request for the Namespace
    org,        \* the organization Reconcile works for, or NoOrg: not running
    todo,       \* the RoleBindings it has not put yet
    failed,     \* an earlier putRoleBinding of this Reconcile failed
    edits       \* number of writes by users

vars == <<ns, rb, nseen, rseen, queued, org, todo, failed, edits>>
reconcile == <<queued, org, todo, failed>>

-----------------------------------------------------------------------------
NsVersion ==
    [phase: {"live", "deleting"}, org: Orgs \cup {NoOrg}, noRbac: BOOLEAN]

\* owner is the controller reference; uninitialized is the label.
RbVersion ==
    [exists: BOOLEAN, uninitialized: BOOLEAN, subjects: Orgs \cup {Custom},
     owner: {"none", "namespace", "other"}]

NoRb == [exists |-> FALSE, uninitialized |-> FALSE, subjects |-> Custom,
         owner |-> "none"]

Init ==
    /\ \E o \in Orgs \cup {NoOrg}, skip \in BOOLEAN :
            ns = <<[phase |-> "live", org |-> o, noRbac |-> skip]>>
    /\ rb = [b \in RoleBindings |-> <<NoRb>>]
    /\ nseen = 1
    /\ rseen = [b \in RoleBindings |-> 1]
    /\ queued = TRUE
    /\ org = NoOrg /\ todo = {} /\ failed = FALSE /\ edits = 0

-----------------------------------------------------------------------------
(* Users *)

Edit == edits < MaxEdits /\ edits' = edits + 1

EditNamespace(v) ==
    /\ Edit
    /\ Current(ns).phase = "live"
    /\ ns' = Store(ns, v)
    /\ UNCHANGED <<rb, nseen, rseen, reconcile>>

\* A user, a template or another controller writes or deletes RoleBinding b.
EditRoleBinding(b, v) ==
    /\ Edit
    /\ v = NoRb \/ Current(rb[b]).exists \/ Current(ns).phase = "live"
    /\ rb' = [rb EXCEPT ![b] = Store(@, v)]
    /\ UNCHANGED <<ns, nseen, rseen, reconcile>>

-----------------------------------------------------------------------------
(* Watches: For(Namespace) and Owns(RoleBinding).  An event of a RoleBinding *)
(* enqueues the Namespace that owns it, before or after the change.         *)

WatchNamespace ==
    /\ Behind(ns, nseen)
    /\ nseen' = nseen + 1
    /\ queued' = TRUE
    /\ UNCHANGED <<ns, rb, rseen, org, todo, failed, edits>>

WatchRoleBinding(b) ==
    /\ Behind(rb[b], rseen[b])
    /\ rseen' = [rseen EXCEPT ![b] = @ + 1]
    /\ queued' = \/ queued
                 \/ rb[b][rseen[b]].owner = "namespace"
                 \/ rb[b][rseen[b] + 1].owner = "namespace"
    /\ UNCHANGED <<ns, rb, nseen, org, todo, failed, edits>>

-----------------------------------------------------------------------------
(* Reconcile *)

\* Mutant of Begin: every Namespace is managed.
BeginAlways ==
    /\ org = NoOrg
    /\ queued
    /\ queued' = FALSE
    /\ org' = ns[nseen].org /\ todo' = RoleBindings
    /\ UNCHANGED <<ns, rb, nseen, rseen, failed, edits>>

\* The worker takes the request.  A Namespace that is gone, being deleted,
\* without organization or marked appuio.io/no-rbac-creation is left alone.
Begin ==
    LET n == ns[nseen]
    IN  /\ org = NoOrg
        /\ queued
        /\ queued' = FALSE
        /\ IF n.phase = "live" /\ n.org # NoOrg /\ ~n.noRbac
           THEN org' = n.org /\ todo' = RoleBindings
           ELSE UNCHANGED <<org, todo>>
        /\ UNCHANGED <<ns, rb, nseen, rseen, failed, edits>>

\* Mutant of GoOn: only the error of the last RoleBinding is returned.
GoOnLastError(b, err) ==
    /\ todo' = todo \ {b}
    /\ IF todo' # {}
       THEN UNCHANGED <<queued, org, failed>>
       ELSE org' = NoOrg /\ queued' = (queued \/ err) /\ UNCHANGED failed

\* Reconcile goes on after putting b; after the last one it returns the
\* combined errors, and an error queues the request again.
GoOn(b, err) ==
    /\ todo' = todo \ {b}
    /\ IF todo' # {}
       THEN failed' = (failed \/ err) /\ UNCHANGED <<queued, org>>
       ELSE /\ failed' = FALSE
            /\ org' = NoOrg
            /\ queued' = (queued \/ failed \/ err)

rolebindingIsUninitialized(v) == v.uninitialized

\* Mutant of Wanted: subjects are always the organization's.
WantedAlways(v) ==
    [exists |-> TRUE, uninitialized |-> FALSE, subjects |-> org,
     owner |-> "namespace"]

\* What the mutate function makes of a RoleBinding it found.
Wanted(v) ==
    [v EXCEPT !.owner = "namespace", !.uninitialized = FALSE,
              !.subjects = IF rolebindingIsUninitialized(v) THEN org ELSE @]

\* What it makes of the one it starts from when there is none.
Fresh == Wanted([NoRb EXCEPT !.exists = TRUE, !.uninitialized = TRUE])

\* controllerutil.CreateOrUpdate: found in the cache or not, then created (not
\* in a Namespace under deletion), updated under its resourceVersion, or left
\* alone.  SetControllerReference fails for a RoleBinding another controller
\* owns.
putRoleBinding(b) ==
    LET cached == rb[b][rseen[b]]
        wanted == IF cached.exists THEN Wanted(cached) ELSE Fresh
        accepted == IF cached.exists THEN UpToDate(rb[b], rseen[b])
                    ELSE ~Current(rb[b]).exists /\ Current(ns).phase = "live"
    IN  /\ b \in todo
        /\ \/ /\ cached.owner # "other"
              /\ wanted # cached /\ accepted
              /\ rb' = [rb EXCEPT ![b] = Append(@, wanted)]
              /\ GoOn(b, FALSE)
           \/ /\ cached.owner # "other"
              /\ wanted = cached
              /\ UNCHANGED rb
              /\ GoOn(b, FALSE)
           \/ /\ cached.owner = "other" \/ (wanted # cached /\ ~accepted)
              /\ UNCHANGED rb
              /\ GoOn(b, TRUE)
        /\ UNCHANGED <<ns, nseen, rseen, edits>>

\* The call for b fails.
CallFails(b) ==
    /\ b \in todo
    /\ GoOn(b, TRUE)
    /\ UNCHANGED <<ns, rb, nseen, rseen, edits>>

\* The agent restarts: the queue is lost and the Namespace is enqueued when it
\* is listed.  A list is no older than the cache was; what is newer in it comes
\* with the watch steps that follow.
Restart ==
    /\ queued' = TRUE
    /\ org' = NoOrg /\ todo' = {} /\ failed' = FALSE
    /\ UNCHANGED <<ns, rb, nseen, rseen, edits>>

-----------------------------------------------------------------------------
\* Bindings to an organization are only written by the agent.
UserRb == {NoRb} \cup [exists: {TRUE}, uninitialized: BOOLEAN,
                       subjects: {Custom}, owner: {"none", "namespace", "other"}]

Next ==
    \/ \E v \in NsVersion : EditNamespace(v)
    \/ WatchNamespace \/ Begin \/ Restart
    \/ \E b \in RoleBindings :
        \/ \E v \in UserRb : EditRoleBinding(b, v)
        \/ WatchRoleBinding(b) \/ putRoleBinding(b) \/ CallFails(b)

Spec == Init /\ [][Next]_vars

\* As in GroupSync: watches and the worker make progress, a call that is made
\* again and again succeeds in the end, and users owe nothing.
Fairness ==
    /\ WF_vars(WatchNamespace) /\ WF_vars(Begin)
    /\ \A b \in RoleBindings :
        WF_vars(WatchRoleBinding(b)) /\ SF_vars(putRoleBinding(b))

FairSpec == Spec /\ Fairness

-----------------------------------------------------------------------------
(* Properties *)

\* Types of the state.  Reconcile works for an organization exactly while
\* RoleBindings are left to put.
TypeOK ==
    /\ ns \in Seq(NsVersion) /\ nseen \in 1 .. Len(ns)
    /\ rb \in [RoleBindings -> Seq(RbVersion)]
    /\ rseen \in [RoleBindings -> Nat]
    /\ \A b \in RoleBindings : rseen[b] \in 1 .. Len(rb[b])
    /\ queued \in BOOLEAN /\ failed \in BOOLEAN
    /\ org \in Orgs \cup {NoOrg} /\ todo \subseteq RoleBindings
    /\ org = NoOrg <=> todo = {}
    /\ edits \in 0 .. MaxEdits

\* Once a RoleBinding is initialized its subjects belong to the users: whatever
\* the agent's cache still shows, putRoleBinding never changes the subjects of
\* one that is initialized on the API server, nor touches one that another
\* controller owns.
InitializedIsKept ==
    [][\A b \in todo \ todo' :
        LET before == Current(rb[b])
            after == Current(rb[b])'
        IN  /\ before.exists /\ ~before.uninitialized
                    => after.subjects = before.subjects
            /\ before.owner = "other" => after = before
      ]_vars

\* The agent binds a RoleBinding only to an organization the Namespace had
\* while it was live and RBAC creation was not turned off.
BindsOwnOrganization ==
    \A b \in RoleBindings : \A i \in DOMAIN rb[b] :
        rb[b][i].subjects \in Orgs =>
            \E j \in DOMAIN ns :
                ns[j] = [phase |-> "live", org |-> rb[b][i].subjects,
                         noRbac |-> FALSE]

Bound(b) ==
    LET v == Current(rb[b])
    IN  \/ v.owner = "other"
        \/ v.exists /\ ~v.uninitialized /\ v.owner = "namespace"

Managed == LET n == Current(ns)
           IN  n.phase = "live" /\ n.org # NoOrg /\ ~n.noRbac

\* When users rest, an organization's Namespace has every default RoleBinding,
\* initialized and under the agent's control, except those another controller
\* owns: Reconcile loses no error of any of them among the successes of the
\* others.
Converges == <>[](Managed => \A b \in RoleBindings : Bound(b))
=============================================================================
