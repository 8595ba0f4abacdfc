-------------------------- MODULE UserAttributeSync --------------------------
(***************************************************************************)
(* UserAttributeSyncReconciler (controllers/userattributesync_controller.go) *)
(* for one user: the default organization of the control API's User is     *)
(* copied to an annotation of the OpenShift User of the same name.         *)
(*                                                                         *)
(* Both objects are read from watch caches, the annotation is compared     *)
(* with the cached one, and the patch that follows carries no              *)
(* resourceVersion.                                                        *)
(***************************************************************************)
EXTENDS ApiServer

CONSTANTS
    Orgs,       \* organizations
    Empty,      \* no default organization, an annotation that is not set
    NoAnnotations,  \* the User has no annotations at all
    Absent,     \* the object does not exist
    MaxRv,      \* bound: versions of the upstream User
    MaxLocalRv  \* bound: versions of the local User after which it is left alone

ASSUME UserBoundsAssumption == MaxRv \in Nat /\ MaxLocalRv \in Nat

VARIABLES
    upstream,   \* versions of the default organization on the control API
    local,      \* versions of the annotation on the zone's API server
    seen,       \* position of the agent's cache of upstream
    lseen,      \* position of its cache of local
    queued,     \* the workqueue holds a request for the user
    patch       \* the value Reconcile is about to write, or Absent: idle

vars == <<upstream, local, seen, lseen, queued, patch>>

Init ==
    /\ upstream = <<Absent>> /\ local = <<Absent>>
    /\ seen = 1 /\ lseen = 1
    /\ queued = FALSE
    /\ patch = Absent

-----------------------------------------------------------------------------
(* Users log in, change their preferences, come and go *)

SetUpstream(v) ==
    /\ Len(upstream) < MaxRv
    /\ upstream' = Store(upstream, v)
    /\ UNCHANGED <<local, seen, lseen, queued, patch>>

SetLocal(v) ==
    /\ Len(local) < MaxLocalRv
    /\ local' = Store(local, v)
    /\ UNCHANGED <<upstream, seen, lseen, queued, patch>>

WatchUpstream ==
    /\ Behind(upstream, seen)
    /\ seen' = seen + 1
    /\ queued' = TRUE
    /\ UNCHANGED <<upstream, local, lseen, patch>>

\* Mutant of WatchLocal: the local Users are cached but not watched for.
WatchLocalQuietly ==
    /\ Behind(local, lseen)
    /\ lseen' = lseen + 1
    /\ UNCHANGED <<upstream, local, seen, queued, patch>>

WatchLocal ==
    /\ Behind(local, lseen)
    /\ lseen' = lseen + 1
    /\ queued' = TRUE
    /\ UNCHANGED <<upstream, local, seen, patch>>

-----------------------------------------------------------------------------
(* Reconcile *)

\* Both objects must exist, and an annotation that is already right, in the
\* cache, is left alone.  A User without annotations is always patched.
NeedsPatch ==
    /\ Absent \notin {upstream[seen], local[lseen]}
    /\ local[lseen] # upstream[seen]

Begin ==
    /\ patch = Absent
    /\ queued
    /\ queued' = FALSE
    /\ patch' = IF NeedsPatch THEN upstream[seen] ELSE Absent
    /\ UNCHANGED <<upstream, local, seen, lseen>>

\* A patch of a User that is gone fails, and the error queues the request
\* again.
Patch ==
    /\ patch # Absent
    /\ patch' = Absent
    /\ IF Current(local) # Absent
       THEN local' = Store(local, patch) /\ UNCHANGED queued
       ELSE queued' = TRUE /\ UNCHANGED local
    /\ UNCHANGED <<upstream, seen, lseen>>

\* The patch fails for another reason.
CallFails ==
    /\ patch # Absent
    /\ patch' = Absent
    /\ queued' = TRUE
    /\ UNCHANGED <<upstream, local, seen, lseen>>

\* The agent restarts and enqueues the users it lists.
Restart ==
    /\ queued' = ({upstream[seen], local[lseen]} # {Absent})
    /\ patch' = Absent
    /\ UNCHANGED <<upstream, local, seen, lseen>>

-----------------------------------------------------------------------------
Next ==
    \/ \E v \in Orgs \cup {Empty, Absent} : SetUpstream(v)
    \/ \E v \in Orgs \cup {Empty, NoAnnotations, Absent} : SetLocal(v)
    \/ WatchUpstream \/ WatchLocal \/ Begin \/ Patch
    \/ CallFails \/ Restart

Spec == Init /\ [][Next]_vars

\* Watches and the worker make progress, and a patch that is tried again and
\* again succeeds in the end.
FairSpec ==
    /\ Spec
    /\ WF_vars(WatchUpstream) /\ WF_vars(WatchLocal) /\ WF_vars(Begin)
    /\ SF_vars(Patch)

-----------------------------------------------------------------------------
\* When nobody else writes any more, the annotation is the upstream default
\* organization for good, although the agent skips the patch when a stale copy
\* of the annotation happens to agree with a newer default.
Converges ==
    <>[](Absent \notin {Current(upstream), Current(local)}
            => Current(local) = Current(upstream))
=============================================================================
