----------------------------- MODULE LegacyQuota -----------------------------
(***************************************************************************)
(* Legacy resource quotas: LegacyResourceQuotaReconciler                   *)
(* (controllers/legacy_resource_quota_controller.go) for one Namespace,    *)
(* together with the two webhooks that keep users from raising a quota,    *)
(* ReservedResourceQuotaLimitRangeValidator for the objects themselves and *)
(* NamespaceMetadataValidator for the annotations that override them.      *)
(*                                                                         *)
(* An amount somebody writes is represented by the writer's name, so that  *)
(* it can be followed from the annotation to the quota.                    *)
(***************************************************************************)
EXTENDS ApiServer, Skipper

CONSTANTS
    Requesters,     \* who sends requests
    Quotas,         \* names of the ResourceQuotas (LegacyDefaultResourceQuotas)
    LimitRange,     \* LegacyLimitRangeName
    Resources,      \* the resources every quota limits
    OrgLabel,       \* OrganizationLabel
    AllowedKeys,    \* AllowedAnnotations and AllowedLabels
    None,           \* an annotation, a label or an owner that is not there
    Bad,            \* an amount that does not parse
    Default,        \* the amount of the configuration
    Bindings,       \* sets of ClusterRoleBindings the zone may have
    Metadata,       \* NamespaceMetadataValidator is enabled
    Reserved,       \* the Namespace's name matches ReservedNamespaces
    MaxEdits        \* bound: writes after which users rest

Objects == Quotas \cup {LimitRange}
Keys == {OrgLabel} \cup (Quotas \X Resources)
Names == {who.name : who \in Requesters}

ASSUME LegacyAssumption ==
    /\ LimitRange \notin Quotas
    /\ AllowedKeys \cap (Quotas \X Resources) = {}
    /\ {None, Bad, Default} \cap Names = {}
    /\ Metadata \in BOOLEAN /\ Reserved \in BOOLEAN /\ MaxEdits \in Nat

VARIABLES
    ns,         \* versions of the Namespace
    obj,        \* obj[x]: versions of ResourceQuota or LimitRange x
    crb,        \* versions of the set of ClusterRoleBindings
    nseen, oseen, cseen,    \* positions of the agent's caches of these
    queued,     \* the workqueue holds a request for the Namespace
    copy,       \* position of the Namespace copy Reconcile holds, 0: none
    todo,       \* the objects it has not put yet
    failed,     \* it has met an error
    edits       \* number of writes by users

vars == <<ns, obj, crb, nseen, oseen, cseen, queued, copy, todo, failed, edits>>
reconcile == <<queued, copy, todo, failed>>

-----------------------------------------------------------------------------
NoMeta == [k \in Keys |-> None]
NoObject == [exists |-> FALSE, hard |-> [r \in Resources |-> Default],
             owner |-> None]

Init ==
    /\ ns = <<[phase |-> "absent", meta |-> NoMeta]>>
    /\ obj = [x \in Objects |-> <<NoObject>>]
    /\ crb \in {<<b>> : b \in Bindings}
    /\ nseen = 1 /\ oseen = [x \in Objects |-> 1] /\ cseen = 1
    /\ queued = FALSE /\ copy = 0 /\ todo = {} /\ failed = FALSE
    /\ edits = 0

-----------------------------------------------------------------------------
(* The webhooks.  The API server checks an update against the version it     *)
(* replaces; the bindings come from the agent's cache.                       *)

\* Mutant of changedKeys: keys the old map does not have are forgotten.
changedKeysOfOld(old, new) == {k \in Keys : old[k] # None /\ new[k] # old[k]}

changedKeys(old, new) ==
    {k \in Keys : old[k] # None /\ new[k] # old[k]}
        \cup {k \in Keys : new[k] # None /\ new[k] # old[k]}

NamespaceMetadataValidator(who, old, new) ==
    \/ multiSkipper(Metadata, who, crb[cseen])
    \/ ~Reserved /\ changedKeys(old, new) \subseteq AllowedKeys

ReservedResourceQuotaLimitRangeValidator(who, x) ==
    \/ multiSkipper(TRUE, who, crb[cseen])
    \/ x \notin Objects

-----------------------------------------------------------------------------
(* Requests, and the rest of the cluster *)

Edit == edits < MaxEdits /\ edits' = edits + 1

\* who creates the Namespace, or changes one key of it.
WriteNamespace(who, k, v) ==
    LET old == Current(ns)
        base == IF old.phase = "absent"
                THEN [NoMeta EXCEPT ![OrgLabel] = who.name] ELSE old.meta
        new == [base EXCEPT ![k] = v]
    IN  /\ Edit
        /\ NamespaceMetadataValidator(who, old.meta, new)
        /\ ns' = Store(ns, [old EXCEPT !.meta = new,
                    !.phase = IF @ = "absent" THEN "live" ELSE @])
        /\ UNCHANGED <<obj, crb, nseen, oseen, cseen, reconcile>>

DeleteNamespace ==
    /\ Edit
    /\ Current(ns).phase = "live"
    /\ ns' = Append(ns, [Current(ns) EXCEPT !.phase = "deleting"])
    /\ UNCHANGED <<obj, crb, nseen, oseen, cseen, reconcile>>

\* The namespace controller empties the Namespace and removes it.
RemoveNamespace ==
    /\ Current(ns).phase = "deleting"
    /\ obj' = [x \in Objects |-> Store(obj[x], NoObject)]
    /\ ns' = Append(ns, [phase |-> "absent", meta |-> NoMeta])
    /\ UNCHANGED <<crb, nseen, oseen, cseen, reconcile, edits>>

WriteObject(who, x, v) ==
    /\ Edit
    /\ ReservedResourceQuotaLimitRangeValidator(who, x)
    /\ v.exists /\ ~Current(obj[x]).exists => Current(ns).phase = "live"
    /\ obj' = [obj EXCEPT ![x] = Store(@, v)]
    /\ UNCHANGED <<ns, crb, nseen, oseen, cseen, reconcile>>

EditBindings(b) ==
    /\ Edit
    /\ crb' = Store(crb, b)
    /\ UNCHANGED <<ns, obj, nseen, oseen, cseen, reconcile>>

-----------------------------------------------------------------------------
(* Watches: For(Namespace) with labelExistsPredicate, Owns(ResourceQuota),   *)
(* Owns(LimitRange)                                                          *)

WatchNamespace ==
    /\ Behind(ns, nseen)
    /\ nseen' = nseen + 1
    /\ queued' = (queued \/ ns[nseen'].meta[OrgLabel] # None)
    /\ UNCHANGED <<ns, obj, crb, oseen, cseen, copy, todo, failed, edits>>

WatchObject(x) ==
    /\ Behind(obj[x], oseen[x])
    /\ oseen' = [oseen EXCEPT ![x] = @ + 1]
    /\ queued' = \/ queued
                 \/ obj[x][oseen[x]].owner = "namespace"
                 \/ obj[x][oseen[x] + 1].owner = "namespace"
    /\ UNCHANGED <<ns, obj, crb, nseen, cseen, copy, todo, failed, edits>>

WatchBindings ==
    /\ Behind(crb, cseen)
    /\ cseen' = cseen + 1
    /\ UNCHANGED <<ns, obj, crb, nseen, oseen, reconcile, edits>>

-----------------------------------------------------------------------------
(* Reconcile *)

\* A Namespace that is gone, being deleted or without organization is left
\* alone.
Begin ==
    /\ copy = 0 /\ queued
    /\ queued' = FALSE
    /\ IF ns[nseen].phase = "live" /\ ns[nseen].meta[OrgLabel] # None
       THEN copy' = nseen /\ todo' = Objects
       ELSE UNCHANGED <<copy, todo>>
    /\ UNCHANGED <<ns, obj, crb, nseen, oseen, cseen, failed, edits>>

\* The amounts of x: of the annotation where there is one that parses.  (The
\* storage classes of a quota share one annotation, and parse or fail together.)
Hard(x, meta) ==
    [r \in Resources |->
        IF x = LimitRange \/ meta[<<x, r>>] \in {None, Bad}
        THEN Default ELSE meta[<<x, r>>]]

\* An override of x does not parse; that is an error, but x is put anyway.
Unparsable(x, meta) ==
    x # LimitRange /\ \E r \in Resources : meta[<<x, r>>] = Bad

\* Mutant of GoOn: an error ends Reconcile.
GoOnOrReturn(x, err) ==
    IF todo = {x} \/ err
    THEN copy' = 0 /\ todo' = {} /\ failed' = FALSE /\ queued' = (queued \/ err)
    ELSE todo' = todo \ {x} /\ UNCHANGED <<queued, copy, failed>>

\* Mutant of GoOn: the errors outlive the Reconcile.
GoOnKeepingErrors(x, err) ==
    /\ todo' = todo \ {x}
    /\ failed' = (failed \/ err)
    /\ IF todo' # {} THEN UNCHANGED <<queued, copy>>
       ELSE copy' = 0 /\ queued' = (queued \/ failed')

\* Reconcile goes on to the next object; after the last it returns the
\* combined errors, and an error queues the request again.
GoOn(x, err) ==
    /\ todo' = todo \ {x}
    /\ IF todo' # {}
       THEN failed' = (failed \/ err) /\ UNCHANGED <<queued, copy>>
       ELSE /\ copy' = 0 /\ failed' = FALSE
            /\ queued' = (queued \/ failed \/ err)

\* The ResourceQuotas come first, in any order, the LimitRange is last.
IsNext(x) == x \in todo /\ (x = LimitRange => todo = {LimitRange})

\* controllerutil.CreateOrUpdate of x, with SetControllerReference, which fails
\* when another controller owns x.
Put(x) ==
    LET cached == obj[x][oseen[x]]
        meta == ns[copy].meta
        wanted == [exists |-> TRUE, hard |-> Hard(x, meta),
                   owner |-> "namespace"]
        accepted == IF cached.exists THEN UpToDate(obj[x], oseen[x])
                    ELSE ~Current(obj[x]).exists /\ Current(ns).phase = "live"
        refused == cached.owner = "other" \/ (cached # wanted /\ ~accepted)
    IN  /\ IsNext(x)
        /\ obj' = IF refused \/ cached = wanted THEN obj
                  ELSE [obj EXCEPT ![x] = Append(@, wanted)]
        /\ GoOn(x, refused \/ Unparsable(x, meta))
        /\ UNCHANGED <<ns, crb, nseen, oseen, cseen, edits>>

CallFails(x) ==
    /\ IsNext(x)
    /\ GoOn(x, TRUE)
    /\ UNCHANGED <<ns, obj, crb, nseen, oseen, cseen, edits>>

\* The agent restarts; the Namespace is enqueued when it is listed.
Restart ==
    /\ queued' = (ns[nseen].meta[OrgLabel] # None)
    /\ copy' = 0 /\ todo' = {} /\ failed' = FALSE
    /\ UNCHANGED <<ns, obj, crb, nseen, oseen, cseen, edits>>

-----------------------------------------------------------------------------
\* What who may write into x: anything, in its own amounts.
Written(who) ==
    {NoObject} \cup
    {[exists |-> TRUE, hard |-> [r \in Resources |-> who.name], owner |-> o] :
        o \in {None, "namespace", "other"}}

Next ==
    \/ \E who \in Requesters :
        \/ \E k \in Keys, v \in {None, Bad, who.name} : WriteNamespace(who, k, v)
        \/ \E x \in Objects, v \in Written(who) : WriteObject(who, x, v)
    \/ DeleteNamespace \/ RemoveNamespace
    \/ \E b \in Bindings : EditBindings(b)
    \/ WatchNamespace \/ WatchBindings \/ Begin \/ Restart
    \/ \E x \in Objects : WatchObject(x) \/ Put(x) \/ CallFails(x)

Spec == Init /\ [][Next]_vars

\* Watches and the worker make progress, and neither a call nor the agent fails
\* for ever.
Fairness ==
    /\ WF_vars(WatchNamespace) /\ WF_vars(Begin)
    /\ \A x \in Objects : WF_vars(WatchObject(x)) /\ SF_vars(Put(x))

FairSpec == Spec /\ Fairness

-----------------------------------------------------------------------------
(* Properties *)

\* Types of the state.  Reconcile holds a copy exactly while objects are left
\* to put, and the LimitRange is always among these.
TypeOK ==
    /\ ns \in Seq([phase: {"absent", "live", "deleting"},
                   meta: [Keys -> {None, Bad} \cup Names]])
    /\ obj \in [Objects -> Seq([exists: BOOLEAN,
                    hard: [Resources -> {Default} \cup Names],
                    owner: {None, "namespace", "other"}])]
    /\ crb \in Seq(Bindings)
    /\ nseen \in 1 .. Len(ns) /\ cseen \in 1 .. Len(crb)
    /\ oseen \in [Objects -> Nat]
    /\ \A x \in Objects : oseen[x] \in 1 .. Len(obj[x])
    /\ queued \in BOOLEAN /\ failed \in BOOLEAN
    /\ copy \in 0 .. nseen /\ todo \subseteq Objects
    /\ copy # 0 <=> LimitRange \in todo
    /\ edits \in 0 .. MaxEdits
    /\ copy = 0 => todo = {} /\ ~failed

\* The bindings have at some time let the requester with this name pass.
WasPrivileged(name) ==
    \E who \in Requesters, i \in DOMAIN crb :
        who.name = name /\ PrivilegedUserSkipper(who, crb[i])

\* No amount that somebody unprivileged chose ever gets into a quota or the
\* LimitRange: not directly, not through an annotation that the agent then
\* carries over, not by deleting the Namespace and creating it with the
\* annotation, and not because the agent's view of the bindings is stale.
AmountsAreAuthorized ==
    Metadata =>
        \A x \in Objects : \A i \in DOMAIN obj[x] : \A r \in Resources :
            \/ obj[x][i].hard[r] = Default
            \/ WasPrivileged(obj[x][i].hard[r])

\* When users rest, every quota and the LimitRange of an organization's
\* Namespace are there, with the overrides that parse and the defaults
\* elsewhere: neither an annotation that does not parse nor an object that
\* another controller keeps from the agent holds up the rest.
Converges ==
    LET n == Current(ns)
        amount(x, r) == IF x # LimitRange /\ n.meta[<<x, r>>] \in Names
                        THEN n.meta[<<x, r>>] ELSE Default
    IN  <>[](n.phase = "live" /\ n.meta[OrgLabel] # None =>
            \A x \in Objects :
                \/ Current(obj[x]).owner = "other"
                \/ /\ Current(obj[x]).exists
                   /\ Current(obj[x]).owner = "namespace"
                   /\ \A r \in Resources :
                        Current(obj[x]).hard[r] = amount(x, r))
=============================================================================
