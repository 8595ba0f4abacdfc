------------------------------ MODULE GroupSync ------------------------------
(***************************************************************************)
(* GroupSyncReconciler (controllers/groupsync_controller.go), for one      *)
(* upstream Team or OrganizationMembers object of the control API and the  *)
(* OpenShift Group of the same name in every zone.                         *)
(*                                                                         *)
(* Every zone runs its own agent with its own finalizer on the shared      *)
(* upstream object.  An agent reads the upstream object and its Group from *)
(* watch caches, and writes both through their API servers.  The finalizer *)
(* of a zone is represented by the zone itself.  Users are kept as a set:  *)
(* the code sorts the list it writes, so its order carries nothing.        *)
(*                                                                         *)
(* A local pc stands between two calls that other actors can interleave    *)
(* with:                                                                   *)
(*   idle --Begin--> put    --PutGroup-->    guard --AddFinalizer--> idle  *)
(*   idle --Begin--> delete --DeleteGroup--> lift  --RemoveFinalizer--> idle *)
(***************************************************************************)
EXTENDS ApiServer, FiniteSets

CONSTANTS
    Zones,      \* the zones, one agent each (-upstream-zone-identifier)
    Users,      \* the users that can be members
    MaxRv,      \* bound: upstream versions after which the control API rests
    MaxGroupRv  \* bound: Group versions after which nobody edits it by hand

ASSUME BoundsAssumption == MaxRv \in Nat /\ MaxGroupRv \in Nat

VARIABLES
    upstream,   \* the upstream object's versions on the control API
    group,      \* group[z]: the Group's versions on zone z's API server
    seen,       \* seen[z]: position of agent z's cache of upstream
    gseen,      \* gseen[z]: position of agent z's cache of its Group
    queued,     \* queued[z]: the workqueue holds a request for the Group
    pc,         \* pc[z]: where agent z's Reconcile stands
    obj         \* obj[z]: position of the upstream copy Reconcile holds, or 0

vars == <<upstream, group, seen, gseen, queued, pc, obj>>

-----------------------------------------------------------------------------
(* Objects *)

\* uid tells an object from one re-created under the same name; an absent
\* version keeps the uid of the object that was removed.
UpstreamVersion ==
    [phase: {"absent", "live", "deleting"}, uid: Nat,
     members: SUBSET Users, finalizers: SUBSET Zones]

GroupVersion == [exists: BOOLEAN, users: SUBSET Users]

NoGroup == [exists |-> FALSE, users |-> {}]

Removed(u) ==
    [phase |-> "absent", uid |-> u, members |-> {}, finalizers |-> {}]

\* The API server removes an object that is being deleted once its last
\* finalizer is gone.
Collected(v) ==
    IF v.phase = "deleting" /\ v.finalizers = {} THEN Removed(v.uid) ELSE v

Upstream == Current(upstream)
GroupExists(z) == Current(group[z]).exists

Init ==
    /\ upstream = <<Removed(0)>>
    /\ group = [z \in Zones |-> <<NoGroup>>]
    /\ seen = [z \in Zones |-> 1]
    /\ gseen = [z \in Zones |-> 1]
    /\ queued = [z \in Zones |-> FALSE]
    /\ pc = [z \in Zones |-> "idle"]
    /\ obj = [z \in Zones |-> 0]

-----------------------------------------------------------------------------
(* The control API: teams come, change and go *)

CreateUpstream(S) ==
    /\ Len(upstream) < MaxRv
    /\ Upstream.phase = "absent"
    /\ upstream' = Append(upstream,
            [phase |-> "live", uid |-> Upstream.uid + 1,
             members |-> S, finalizers |-> {}])
    /\ UNCHANGED <<group, seen, gseen, queued, pc, obj>>

\* Status.ResolvedUserRefs is written through the status subresource, also
\* while the object waits for its finalizers.
SetMembers(S) ==
    /\ Len(upstream) < MaxRv
    /\ Upstream.phase # "absent"
    /\ upstream' = Store(upstream, [Upstream EXCEPT !.members = S])
    /\ UNCHANGED <<group, seen, gseen, queued, pc, obj>>

DeleteUpstream ==
    /\ Len(upstream) < MaxRv
    /\ Upstream.phase = "live"
    /\ upstream' = Append(upstream,
            Collected([Upstream EXCEPT !.phase = "deleting"]))
    /\ UNCHANGED <<group, seen, gseen, queued, pc, obj>>

\* A cluster administrator of zone z edits or deletes the synced Group.
EditGroup(z, g) ==
    /\ Len(group[z]) < MaxGroupRv
    /\ GroupExists(z)
    /\ group' = [group EXCEPT ![z] = Store(@, g)]
    /\ UNCHANGED <<upstream, seen, gseen, queued, pc, obj>>

-----------------------------------------------------------------------------
(* Watches: teamMapper, organizationMembersMapper and For(Group) all enqueue *)
(* the name of the Group for every event, deletions included                *)

WatchUpstream(z) ==
    /\ Behind(upstream, seen[z])
    /\ seen' = [seen EXCEPT ![z] = @ + 1]
    /\ queued' = [queued EXCEPT ![z] = TRUE]
    /\ UNCHANGED <<upstream, group, gseen, pc, obj>>

WatchGroup(z) ==
    /\ Behind(group[z], gseen[z])
    /\ gseen' = [gseen EXCEPT ![z] = @ + 1]
    /\ queued' = [queued EXCEPT ![z] = TRUE]
    /\ UNCHANGED <<upstream, group, seen, pc, obj>>

-----------------------------------------------------------------------------
(* Reconcile *)

\* Mutant of Return: the copy outlives the Reconcile that read it.
ReturnKeepingCopy(z) == pc' = [pc EXCEPT ![z] = "idle"] /\ UNCHANGED obj

\* Reconcile returns and forgets its copy.
Return(z) ==
    /\ pc' = [pc EXCEPT ![z] = "idle"]
    /\ obj' = [obj EXCEPT ![z] = 0]

\* Reconcile returns nil: the request is done.
Done(z) == Return(z) /\ UNCHANGED queued

\* Mutant of Retry: the error is swallowed.
RetrySwallowed(z) == Return(z) /\ UNCHANGED queued

\* Reconcile returns an error: the request is queued again.
Retry(z) == Return(z) /\ queued' = [queued EXCEPT ![z] = TRUE]

\* Mutant of UpdateFinalizers: the write carries no resourceVersion.
UpdateFinalizersBlindly(z, rv, fins) ==
    /\ upstream' = Append(upstream,
            Collected([upstream[rv] EXCEPT !.finalizers = fins]))
    /\ Done(z)

\* ForeignClient.Update of copy rv with the given finalizers.  Update leaves
\* the status alone, but a copy that is up to date has the current one.  The
\* answer to an accepted Update may be lost: Reconcile then fails all the same.
UpdateFinalizers(z, rv, fins) ==
    \/ /\ UpToDate(upstream, rv)
       /\ upstream' = Append(upstream,
                Collected([upstream[rv] EXCEPT !.finalizers = fins]))
       /\ Done(z) \/ Retry(z)
    \/ /\ ~UpToDate(upstream, rv)
       /\ UNCHANGED upstream
       /\ Retry(z)

\* A worker takes the request and gets the upstream object from the cache.
Begin(z) ==
    /\ pc[z] = "idle"
    /\ queued[z]
    /\ queued' = [queued EXCEPT ![z] = FALSE]
    /\ \/ upstream[seen[z]].phase = "absent" /\ UNCHANGED <<pc, obj>>
       \/ /\ upstream[seen[z]].phase # "absent"
          /\ obj' = [obj EXCEPT ![z] = seen[z]]
          /\ pc' = [pc EXCEPT ![z] =
                IF upstream[obj'[z]].phase = "deleting" THEN "delete" ELSE "put"]
    /\ UNCHANGED <<upstream, group, seen, gseen>>

\* controllerutil.CreateOrUpdate: the Group is looked up in the cache, then
\* created, or updated under its resourceVersion, or left alone.
PutGroup(z) ==
    LET cached == group[z][gseen[z]]
        wanted == [exists |-> TRUE, users |-> upstream[obj[z]].members]
        accepted == IF cached.exists THEN UpToDate(group[z], gseen[z])
                                     ELSE ~GroupExists(z)
        proceed  == pc' = [pc EXCEPT ![z] = "guard"] /\ UNCHANGED <<queued, obj>>
    IN  /\ pc[z] = "put"
        /\ \/ /\ cached = wanted
              /\ UNCHANGED group
              /\ proceed
           \/ /\ cached # wanted /\ accepted
              /\ group' = [group EXCEPT ![z] = Append(@, wanted)]
              /\ proceed
           \/ /\ cached # wanted /\ ~accepted
              /\ UNCHANGED group
              /\ Retry(z)
        /\ UNCHANGED <<upstream, seen, gseen>>

\* controllerutil.AddFinalizer on the copy, then an Update if it changed.
AddFinalizer(z) ==
    LET copy == upstream[obj[z]]
    IN  /\ pc[z] = "guard"
        /\ \/ z \in copy.finalizers /\ UNCHANGED upstream /\ Done(z)
           \/ /\ z \notin copy.finalizers
              /\ UpdateFinalizers(z, obj[z], copy.finalizers \cup {z})
        /\ UNCHANGED <<group, seen, gseen>>

\* Mutant of DeleteGroup: an error of Delete does not end the Reconcile.
DeleteGroupOrGoOn(z) ==
    /\ pc[z] = "delete"
    /\ \/ group' = [group EXCEPT ![z] = Store(@, NoGroup)]
       \/ UNCHANGED group
    /\ pc' = [pc EXCEPT ![z] = "lift"]
    /\ UNCHANGED <<upstream, seen, gseen, queued, obj>>

\* Delete carries no precondition, and NotFound counts as success.
DeleteGroup(z) ==
    /\ pc[z] = "delete"
    /\ group' = [group EXCEPT ![z] = Store(@, NoGroup)]
    /\ pc' = [pc EXCEPT ![z] = "lift"]
    /\ UNCHANGED <<upstream, seen, gseen, queued, obj>>

\* controllerutil.RemoveFinalizer on the copy, then an Update if it changed.
RemoveFinalizer(z) ==
    LET copy == upstream[obj[z]]
    IN  /\ pc[z] = "lift"
        /\ \/ z \notin copy.finalizers /\ UNCHANGED upstream /\ Done(z)
           \/ /\ z \in copy.finalizers
              /\ UpdateFinalizers(z, obj[z], copy.finalizers \ {z})
        /\ UNCHANGED <<group, seen, gseen>>

\* The call Reconcile is about to make fails.  (A PutGroup or DeleteGroup whose
\* answer is lost is that step followed by this one.)
CallFails(z) ==
    /\ pc[z] # "idle"
    /\ Retry(z)
    /\ UNCHANGED <<upstream, group, seen, gseen>>

\* The agent restarts: the copy and the queue are lost, and the caches are
\* filled from lists that are no older than what the agent had seen (assumed of
\* the API server).  Every listed object is enqueued.
Restart(z) ==
    \E s \in seen[z] .. Len(upstream), g \in gseen[z] .. Len(group[z]) :
        /\ seen' = [seen EXCEPT ![z] = s]
        /\ gseen' = [gseen EXCEPT ![z] = g]
        /\ queued' = [queued EXCEPT ![z] = \/ upstream[s].phase # "absent"
                                           \/ group[z][g].exists]
        /\ Return(z)
        /\ UNCHANGED <<upstream, group>>

-----------------------------------------------------------------------------
ControlApi ==
    \/ \E S \in SUBSET Users : CreateUpstream(S) \/ SetMembers(S)
    \/ DeleteUpstream

Administrator(z) ==
    \/ EditGroup(z, NoGroup)
    \/ \E S \in SUBSET Users : EditGroup(z, [exists |-> TRUE, users |-> S])

Agent(z) ==
    \/ WatchUpstream(z) \/ WatchGroup(z)
    \/ Begin(z)
    \/ PutGroup(z) \/ AddFinalizer(z)
    \/ DeleteGroup(z) \/ RemoveFinalizer(z)
    \/ CallFails(z) \/ Restart(z)

Next == ControlApi \/ \E z \in Zones : Administrator(z) \/ Agent(z)

Spec == Init /\ [][Next]_vars

\* Watches deliver and the worker takes what is queued.  A failing call is
\* retried for ever, and neither calls nor the agent fail for ever: a step
\* that is possible again and again is taken in the end.  The control API and
\* the administrators owe nothing.
Fairness ==
    \A z \in Zones :
        /\ WF_vars(WatchUpstream(z)) /\ WF_vars(WatchGroup(z))
        /\ WF_vars(Begin(z))
        /\ SF_vars(PutGroup(z)) /\ SF_vars(AddFinalizer(z))
        /\ SF_vars(DeleteGroup(z)) /\ SF_vars(RemoveFinalizer(z))

FairSpec == Spec /\ Fairness

-----------------------------------------------------------------------------
(* Properties *)

\* Types of the state.  A Reconcile holds a copy exactly while it runs, and
\* the copy is no newer than the agent's cache.
TypeOK ==
    /\ upstream \in Seq(UpstreamVersion) /\ upstream # <<>>
    /\ group \in [Zones -> Seq(GroupVersion)]
    /\ seen \in [Zones -> Nat] /\ gseen \in [Zones -> Nat]
    /\ obj \in [Zones -> Nat]
    /\ queued \in [Zones -> BOOLEAN]
    /\ pc \in [Zones -> {"idle", "put", "guard", "delete", "lift"}]
    /\ \A z \in Zones :
        /\ seen[z] \in 1 .. Len(upstream)
        /\ obj[z] <= seen[z]
        /\ pc[z] = "idle" <=> obj[z] = 0
        /\ gseen[z] \in 1 .. Len(group[z])

\* Zone z's finalizer has been on the object with this uid.
EverGuarded(z, u) ==
    \E i \in DOMAIN upstream :
        upstream[i].uid = u /\ z \in upstream[i].finalizers

\* What the finalizer is for: from the moment an agent's finalizer is on the
\* upstream object, the object cannot go away, nor the finalizer be lifted,
\* while the zone still has the Group; and no late reconcile of a stale copy
\* brings the Group back after the finalizer was lifted.
FinalizerProtectsGroup ==
    \A z \in Zones :
        GroupExists(z) /\ EverGuarded(z, Upstream.uid)
            => z \in Upstream.finalizers

\* Agents share one list of finalizers and write it as a whole from stale
\* copies.  Still a zone's finalizer appears and disappears only in that
\* zone's own AddFinalizer and RemoveFinalizer calls, whatever the others do.
OwnFinalizerOnly ==
    [][\A z \in Zones :
        /\ z \in Upstream'.finalizers \ Upstream.finalizers => pc[z] = "guard"
        /\ z \in Upstream.finalizers \ Upstream'.finalizers => pc[z] = "lift"
      ]_vars

\* GroupSync is a GuardedReplica: the finalizers are the guards, the Groups the
\* replicas.
Abstract == INSTANCE GuardedReplica WITH
    phase <- Upstream.phase,
    guards <- Upstream.finalizers,
    ever <- {z \in Zones : EverGuarded(z, Upstream.uid)},
    replicas <- {z \in Zones : GroupExists(z)}

\* Whatever the caches, copies, conflicts, lost answers and restarts of the
\* agents, what they do together to the upstream object and the Groups is a
\* behaviour of the abstract specification: guarded while live, lifted by the
\* zone itself once its Group is gone, and never brought back.
ImplementsGuardedReplica == Abstract!Spec

InSync(z) ==
    \/ /\ Upstream.phase = "live"
       /\ Current(group[z]) = [exists |-> TRUE, users |-> Upstream.members]
       /\ z \in Upstream.finalizers
    \/ /\ Upstream.phase = "absent"
       /\ GroupExists(z) => ~EverGuarded(z, Upstream.uid)

\* Once the control API and the administrators rest, Reconcile brings every
\* zone to what upstream says and keeps it there: a live object has its members
\* in every zone's Group and every zone's finalizer, a deletion is carried
\* through, and a Group whose zone had its finalizer on the deleted object is
\* gone.
Converges == <>[](\A z \in Zones : InSync(z))

\* "Reconcile syncs the Group with the upstream OrganizationMembers or Team
\* resource": with no upstream object there is no Group in the end.
NoOrphanedGroup ==
    <>[](Upstream.phase = "absent" => \A z \in Zones : ~GroupExists(z))
=============================================================================
