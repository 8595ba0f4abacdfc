---------------------------- MODULE UsageProfile ----------------------------
(***************************************************************************)
(* Usage profiles: ZoneUsageProfileSyncReconciler copies the UsageProfiles *)
(* of the control API to ZoneUsageProfiles of the zone, and                *)
(* ZoneUsageProfileApplyReconciler puts their resources into the           *)
(* Namespaces of organizations.                                            *)
(*                                                                         *)
(* The profiles here all hold one resource of the same kind and name,      *)
(* which is where they meet.  Profiles and Namespaces are read from watch  *)
(* caches; the resource is read live, and overwritten without a            *)
(* resourceVersion.  It is watched only from the first time on that one is *)
(* applied.                                                                *)
(***************************************************************************)
EXTENDS ApiServer, FiniteSets

CONSTANTS
    Profiles, Namespaces,
    Specs,              \* what a profile can say about the resource
    Absent,             \* an object that does not exist
    Overrides,          \* what Namespaces can override, see Transform
    SelectedProfile,    \* -usage-profile, or Absent: all of them
    EarlyEdits,         \* users edit the resource before its watch has listed it
    MaxEdits            \* bound: changes by the control API and by users

\* A Reconcile of apply: the profile, and what it said when it was read.
Runs == [profile: Profiles, spec: Specs]

ASSUME ProfileAssumption ==
    /\ SelectedProfile \in Profiles \cup {Absent}
    /\ Absent \notin Profiles \cup Specs \cup Runs
    /\ EarlyEdits \in BOOLEAN
    /\ Overrides \subseteq {"none", "valid", "unparsed", "refused"}
    /\ MaxEdits \in Nat

VARIABLES
    upstream,   \* upstream[p]: versions of UsageProfile p on the control API
    zone,       \* zone[p]: versions of ZoneUsageProfile p
    ns,         \* ns[n]: versions of Namespace n
    res,        \* res[n]: versions of the resource in n
    useen, zseen, nseen,    \* positions of the caches of these
    rseen,      \* rseen[n]: position of the resource's watch, 0: not listed yet
    watching,   \* watchTracker: the resource's kind is watched
    syncQueue, applyQueue,  \* profiles in the workqueues
    run,        \* the profile Reconcile of apply works on, or Absent: idle
    todo,       \* todo[n]: the Namespace version still to be served, or 0
    got,        \* got[n]: the resource version just read, or 0
    failed,     \* an earlier resource of this Reconcile failed
    edits       \* changes made by the control API and by users

vars == <<upstream, zone, ns, res, useen, zseen, nseen, rseen, watching,
          syncQueue, applyQueue, run, todo, got, failed, edits>>
apply == <<run, todo, got, failed>>
caches == <<useen, zseen, nseen, rseen>>

-----------------------------------------------------------------------------
(* A resource has the label that names its profile, the owner reference to *)
(* it and its content.                                                      *)

\* The transformers put the Namespace's overrides into the content.  What does
\* not parse is logged and left out; but the values are not looked at, and one
\* that is no quantity makes the API server refuse the resource.
Transform(spec, override) ==
    <<spec, IF override = "unparsed" THEN "none" ELSE override>>

NsVersion == [org: BOOLEAN, deleting: BOOLEAN, override: Overrides]
Content == Specs \X {"none", "valid"}
Resource == [label: Profiles \cup {Absent}, owner: Profiles \cup {Absent},
             content: Content \cup {Absent}]
None == [label |-> Absent, owner |-> Absent, content |-> Absent]

Init ==
    /\ upstream = [p \in Profiles |-> <<Absent>>]
    /\ zone = [p \in Profiles |-> <<Absent>>]
    /\ ns \in [Namespaces -> {<<v>> : v \in {w \in NsVersion : ~w.deleting}}]
    /\ res = [n \in Namespaces |-> <<None>>]
    /\ useen = [p \in Profiles |-> 1] /\ zseen = [p \in Profiles |-> 1]
    /\ nseen = [n \in Namespaces |-> 1] /\ rseen = [n \in Namespaces |-> 0]
    /\ watching = FALSE
    /\ syncQueue = {} /\ applyQueue = {}
    /\ run = Absent /\ failed = FALSE /\ edits = 0
    /\ todo = [n \in Namespaces |-> 0] /\ got = [n \in Namespaces |-> 0]

-----------------------------------------------------------------------------
(* The control API and the users of the zone *)

Edit == edits < MaxEdits /\ edits' = edits + 1

SetUpstream(p, v) ==
    /\ Edit
    /\ upstream' = [upstream EXCEPT ![p] = Store(@, v)]
    /\ UNCHANGED <<zone, ns, res, caches, watching, syncQueue, applyQueue, apply>>

EditNamespace(n, v) ==
    /\ Edit
    /\ ~Current(ns[n]).deleting
    /\ ns' = [ns EXCEPT ![n] = Store(@, v)]
    /\ UNCHANGED <<upstream, zone, res, caches, watching, syncQueue, applyQueue, apply>>

\* The resource is deleted, or some of it is changed.  An edit between the
\* first write of the resource and the list its watch starts with causes no
\* event; it is put right at the next one for the profile (at the latest the
\* periodic resync of the caches, which is not modelled).
EditResource(n, v) ==
    /\ Edit
    /\ watching /\ rseen[n] = 0 => EarlyEdits
    /\ Current(res[n]) # None
    /\ res' = [res EXCEPT ![n] = Store(@, v)]
    /\ UNCHANGED <<upstream, zone, ns, caches, watching, syncQueue, applyQueue, apply>>

\* What users make of a resource: nothing, one without label or owner, or one
\* with other content.
UserVersions(v) ==
    {None, [v EXCEPT !.label = Absent], [v EXCEPT !.owner = Absent]}
    \cup {[v EXCEPT !.content = c] : c \in Content}

-----------------------------------------------------------------------------
(* ZoneUsageProfileSyncReconciler *)

WatchUpstream(p) ==
    /\ Behind(upstream[p], useen[p])
    /\ useen' = [useen EXCEPT ![p] = @ + 1]
    /\ syncQueue' = syncQueue \cup {p}
    /\ UNCHANGED <<upstream, zone, ns, res, zseen, nseen, rseen, watching,
                   applyQueue, apply, edits>>

\* CreateOrUpdate from the cached upstream profile; one that is gone is left
\* where it is.  The Get that follows does not find a profile that was just
\* created until the cache has it, and fails the Reconcile.
Sync(p) ==
    LET spec == upstream[p][useen[p]]
        cached == zone[p][zseen[p]]
        accepted == IF cached = Absent THEN Current(zone[p]) = Absent
                                       ELSE UpToDate(zone[p], zseen[p])
    IN  /\ p \in syncQueue
        /\ \/ /\ spec \in {Absent, cached}
              /\ UNCHANGED zone
              /\ syncQueue' = syncQueue \ {p}
           \/ /\ spec \notin {Absent, cached} /\ accepted
              /\ zone' = [zone EXCEPT ![p] = Append(@, spec)]
              /\ syncQueue' = IF cached = Absent THEN syncQueue ELSE syncQueue \ {p}
           \/ /\ spec \notin {Absent, cached} /\ ~accepted
              /\ UNCHANGED <<zone, syncQueue>>
        /\ UNCHANGED <<upstream, ns, res, caches, watching, applyQueue, apply, edits>>

-----------------------------------------------------------------------------
(* ZoneUsageProfileApplyReconciler: watches *)

WatchZone(p) ==
    /\ Behind(zone[p], zseen[p])
    /\ zseen' = [zseen EXCEPT ![p] = @ + 1]
    /\ syncQueue' = syncQueue \cup {p}
    /\ applyQueue' = applyQueue \cup {p}
    /\ UNCHANGED <<upstream, zone, ns, res, useen, nseen, rseen, watching, apply, edits>>

mapToAllUsageProfiles == {p \in Profiles : zone[p][zseen[p]] # Absent}

\* Only a Namespace that has the organization label passes the predicate.
WatchNamespace(n) ==
    /\ Behind(ns[n], nseen[n])
    /\ nseen' = [nseen EXCEPT ![n] = @ + 1]
    /\ applyQueue' = applyQueue \cup
            IF ns[n][nseen'[n]].org THEN mapToAllUsageProfiles ELSE {}
    /\ UNCHANGED <<upstream, zone, ns, res, useen, zseen, rseen, watching,
                   syncQueue, apply, edits>>

\* The dynamic watch enqueues the profiles that own the resource before or
\* after the change; it starts with a list of what there is.
WatchResource(n) ==
    LET pos == IF rseen[n] = 0 THEN Len(res[n]) ELSE rseen[n] + 1
        old == IF rseen[n] = 0 THEN None ELSE res[n][rseen[n]]
    IN  /\ watching
        /\ Behind(res[n], rseen[n])
        /\ rseen' = [rseen EXCEPT ![n] = pos]
        /\ applyQueue' = applyQueue \cup ({old.owner, res[n][pos].owner} \ {Absent})
        /\ UNCHANGED <<upstream, zone, ns, res, useen, zseen, nseen, watching,
                       syncQueue, apply, edits>>

-----------------------------------------------------------------------------
(* ZoneUsageProfileApplyReconciler: Reconcile *)

\* The profile and the Namespaces of organizations are read from the caches.
\* (A Namespace whose deletion has begun is past its DeletionTimestamp.)
Begin(p) ==
    LET chosen == {n \in Namespaces : LET v == ns[n][nseen[n]]
                                      IN  v.org /\ ~v.deleting}
    IN  /\ run = Absent
        /\ p \in applyQueue
        /\ applyQueue' = applyQueue \ {p}
        /\ IF /\ SelectedProfile \in {Absent, p}
              /\ zone[p][zseen[p]] # Absent
              /\ chosen # {}
           THEN /\ run' = [profile |-> p, spec |-> zone[p][zseen[p]]]
                /\ todo' = [n \in Namespaces |-> IF n \in chosen THEN nseen[n] ELSE 0]
           ELSE UNCHANGED <<run, todo>>
        /\ UNCHANGED <<upstream, zone, ns, res, caches, watching, syncQueue, got,
                       failed, edits>>

\* CreateOrUpdate reads the resource, live.
GetResource(n) ==
    /\ todo[n] # 0
    /\ \A m \in Namespaces : got[m] = 0
    /\ got' = [got EXCEPT ![n] = Len(res[n])]
    /\ UNCHANGED <<upstream, zone, ns, res, caches, watching, syncQueue, applyQueue,
                   run, todo, failed, edits>>

\* Mutant of Conflicts: the label of the resource is not looked at.
ConflictsNever(v) == FALSE

\* The resource that was read belongs to another profile.
Conflicts(v) == v.label \notin {Absent, run.profile}

\* Mutant of Served: the resource that was read is not let go of.
ServedKeepingCopy(n, err) ==
    /\ todo' = [todo EXCEPT ![n] = 0]
    /\ IF \E m \in Namespaces : todo'[m] # 0
       THEN failed' = (failed \/ err) /\ UNCHANGED <<run, applyQueue>>
       ELSE /\ run' = Absent
            /\ failed' = FALSE
            /\ applyQueue' = applyQueue \cup
                    IF failed \/ err THEN {run.profile} ELSE {}
    /\ UNCHANGED got

\* Mutant of Served: Reconcile returns no error.
ServedSwallowing(n, err) ==
    /\ got' = [got EXCEPT ![n] = 0]
    /\ todo' = [todo EXCEPT ![n] = 0]
    /\ IF \E m \in Namespaces : todo'[m] # 0 THEN UNCHANGED run ELSE run' = Absent
    /\ UNCHANGED <<failed, applyQueue>>

\* Mutant of Served: Reconcile returns only the error of the last Namespace.
ServedLastError(n, err) ==
    /\ got' = [got EXCEPT ![n] = 0]
    /\ todo' = [todo EXCEPT ![n] = 0]
    /\ UNCHANGED failed
    /\ IF \E m \in Namespaces : todo'[m] # 0
       THEN UNCHANGED <<run, applyQueue>>
       ELSE /\ run' = Absent
            /\ applyQueue' = applyQueue \cup IF err THEN {run.profile} ELSE {}

\* Namespace n is served.  After the last one Reconcile returns the combined
\* errors, and an error queues the request again.
Served(n, err) ==
    /\ got' = [got EXCEPT ![n] = 0]
    /\ todo' = [todo EXCEPT ![n] = 0]
    /\ IF \E m \in Namespaces : todo'[m] # 0
       THEN failed' = (failed \/ err) /\ UNCHANGED <<run, applyQueue>>
       ELSE /\ run' = Absent
            /\ failed' = FALSE
            /\ applyQueue' = applyQueue \cup
                    IF failed \/ err THEN {run.profile} ELSE {}

\* applyResourceToNamespace after the read: the whole resource is replaced,
\* created when none was found, and updated, whatever it has become, when one
\* was.  ensureWatch comes last, also after an error; starting a watch with a
\* cache, a kind and a handler does not fail.
applyResourceToNamespace(n) ==
    LET found == res[n][got[n]]
        wanted == [label |-> run.profile, owner |-> run.profile,
                   content |-> Transform(run.spec, ns[n][todo[n]].override)]
        accepted == /\ wanted.content \in Content
                    /\ IF found = None
                       THEN Current(res[n]) = None /\ ~Current(ns[n]).deleting
                       ELSE Current(res[n]) # None
    IN  /\ got[n] # 0
        /\ \/ /\ ~Conflicts(found) /\ accepted
              /\ res' = [res EXCEPT ![n] = Store(@, wanted)]
              /\ Served(n, FALSE)
           \/ /\ Conflicts(found) \/ ~accepted
              /\ UNCHANGED res
              /\ Served(n, TRUE)
        /\ watching' = TRUE
        /\ UNCHANGED <<upstream, zone, ns, caches, syncQueue, edits>>

\* A call to the API server fails.
CallFails(n) ==
    /\ got[n] # 0
    /\ Served(n, TRUE)
    /\ watching' = TRUE
    /\ UNCHANGED <<upstream, zone, ns, res, caches, syncQueue, edits>>

\* The agent restarts: the profiles are enqueued when they are listed, and the
\* resource is not watched any more.
Restart ==
    /\ watching' = FALSE
    /\ rseen' = [n \in Namespaces |-> 0]
    /\ syncQueue' = {p \in Profiles :
            {upstream[p][useen[p]], zone[p][zseen[p]]} # {Absent}}
    /\ applyQueue' = mapToAllUsageProfiles
    /\ run' = Absent /\ failed' = FALSE
    /\ todo' = [n \in Namespaces |-> 0] /\ got' = [n \in Namespaces |-> 0]
    /\ UNCHANGED <<upstream, zone, ns, res, useen, zseen, nseen, edits>>

-----------------------------------------------------------------------------
Next ==
    \/ \E p \in Profiles :
        \/ \E v \in Specs \cup {Absent} : SetUpstream(p, v)
        \/ WatchUpstream(p) \/ Sync(p) \/ WatchZone(p) \/ Begin(p)
    \/ \E n \in Namespaces :
        \/ \E v \in NsVersion : EditNamespace(n, v)
        \/ \E v \in UserVersions(Current(res[n])) : EditResource(n, v)
        \/ WatchNamespace(n) \/ WatchResource(n)
        \/ GetResource(n) \/ applyResourceToNamespace(n) \/ CallFails(n)
    \/ Restart

Spec == Init /\ [][Next]_vars

Serves(p) == run # Absent /\ run.profile = p

\* Watches and workers make progress, and what is tried again and again for a
\* profile, across restarts too, gets done in the end.
Fairness ==
    /\ \A p \in Profiles :
        /\ WF_vars(WatchUpstream(p)) /\ WF_vars(WatchZone(p))
        /\ WF_vars(Sync(p)) /\ SF_vars(Begin(p))
    /\ \A n \in Namespaces :
        /\ WF_vars(WatchNamespace(n)) /\ WF_vars(WatchResource(n))
        /\ \A p \in Profiles :
            /\ SF_vars(Serves(p) /\ GetResource(n))
            /\ SF_vars(Serves(p) /\ applyResourceToNamespace(n))

FairSpec == Spec /\ Fairness

-----------------------------------------------------------------------------
(* Properties *)

\* Types of the state.  Reconcile of apply runs exactly while Namespaces are left
\* to serve, and holds a resource only of one of these.
TypeOK ==
    /\ upstream \in [Profiles -> Seq(Specs \cup {Absent})]
    /\ zone \in [Profiles -> Seq(Specs \cup {Absent})]
    /\ ns \in [Namespaces -> Seq(NsVersion)]
    /\ res \in [Namespaces -> Seq(Resource) \ {<<>>}]
    /\ useen \in [Profiles -> Nat] /\ zseen \in [Profiles -> Nat]
    /\ \A p \in Profiles : /\ useen[p] \in 1 .. Len(upstream[p])
                           /\ zseen[p] \in 1 .. Len(zone[p])
    /\ nseen \in [Namespaces -> Nat] /\ rseen \in [Namespaces -> Nat]
    /\ todo \in [Namespaces -> Nat] /\ got \in [Namespaces -> Nat]
    /\ \A n \in Namespaces :
        /\ nseen[n] \in 1 .. Len(ns[n]) /\ rseen[n] \in 0 .. Len(res[n])
        /\ todo[n] \in 0 .. nseen[n] /\ got[n] \in 0 .. Len(res[n])
        /\ got[n] # 0 => todo[n] # 0
    /\ syncQueue \subseteq Profiles /\ applyQueue \subseteq Profiles
    /\ run \in Runs \cup {Absent}
    /\ run = Absent <=> \A n \in Namespaces : todo[n] = 0
    /\ watching \in BOOLEAN /\ failed \in BOOLEAN /\ edits \in 0 .. MaxEdits

\* A resource never passes from one profile to another while it has the label
\* of the first, whatever happens between the read and the blind overwrite.
NoTakeover ==
    [][\A n \in Namespaces :
        LET old == Current(res[n]).label
            new == Current(res'[n]).label
        IN  new \in {old, Absent} \/ old = Absent]_vars

Active == {p \in Profiles : /\ SelectedProfile \in {Absent, p}
                            /\ Current(zone[p]) # Absent}

\* The resource of Namespace n is what one of the active profiles says now.
Settled(n) ==
    \E p \in Active :
        Current(res[n]) =
            [label |-> p, owner |-> p,
             content |-> Transform(Current(zone[p]), Current(ns[n]).override)]

\* Once the control API and the users rest, every profile that still exists
\* upstream is in the zone as it is there, and every live Namespace of an
\* organization has the resource of an active profile, if there is one: no
\* conflict, failed call, restart or stale cache leaves it behind, nor do the
\* overrides of another Namespace.
Converges ==
    <>[](/\ \A p \in Profiles : Current(upstream[p]) \in {Absent, Current(zone[p])}
         /\ \A n \in Namespaces :
                /\ Current(ns[n]).org /\ ~Current(ns[n]).deleting
                /\ Current(ns[n]).override # "refused"
                /\ Active # {}
                => Settled(n))
=============================================================================
