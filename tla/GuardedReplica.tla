--------------------------- MODULE GuardedReplica ---------------------------
(***************************************************************************)
(* What the finalizers of GroupSyncReconciler promise, without caches,     *)
(* copies, retries and restarts: an object that comes and goes, and zones  *)
(* that hold a replica of it.  A zone may guard the object while it is     *)
(* live.  The object does not go before every guard is lifted, a zone      *)
(* lifts its guard only without a replica, and gets no new one from then   *)
(* on, as long as the object is the same.                                  *)
(***************************************************************************)
CONSTANT Zones

VARIABLES
    phase,      \* of the object: absent, live or deleting
    guards,     \* zones that guard it
    ever,       \* zones that guard it or have guarded it
    replicas    \* zones that have a replica

vars == <<phase, guards, ever, replicas>>

Lifted == ever \ guards

Init == phase = "absent" /\ guards = {} /\ ever = {} /\ replicas = {}

\* A new object under the same name, which nobody has guarded yet.
Create ==
    /\ phase = "absent"
    /\ phase' = "live"
    /\ ever' = {}
    /\ UNCHANGED <<guards, replicas>>

Delete ==
    /\ phase = "live"
    /\ phase' = IF guards = {} THEN "absent" ELSE "deleting"
    /\ UNCHANGED <<guards, ever, replicas>>

Guard(z) ==
    /\ phase = "live"
    /\ guards' = guards \cup {z}
    /\ ever' = ever \cup {z}
    /\ UNCHANGED <<phase, replicas>>

Lift(z) ==
    /\ phase = "deleting"
    /\ z \in guards \ replicas
    /\ guards' = guards \ {z}
    /\ phase' = IF guards' = {} THEN "absent" ELSE phase
    /\ UNCHANGED <<ever, replicas>>

Put(z) ==
    /\ z \notin Lifted
    /\ replicas' = replicas \cup {z}
    /\ UNCHANGED <<phase, guards, ever>>

Drop(z) ==
    /\ replicas' = replicas \ {z}
    /\ UNCHANGED <<phase, guards, ever>>

Next == Create \/ Delete \/ \E z \in Zones : Guard(z) \/ Lift(z) \/ Put(z) \/ Drop(z)

Spec == Init /\ [][Next]_vars
=============================================================================
