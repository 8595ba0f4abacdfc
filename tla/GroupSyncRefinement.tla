------------------------ MODULE GroupSyncRefinement ------------------------
(***************************************************************************)
(* GroupSync implements GuardedReplica, for any zones, users and bounds.   *)
(***************************************************************************)
EXTENDS GroupSyncProofs

Ever == {z \in Zones : EverGuarded(z, Upstream.uid)}
Replicas == {z \in Zones : GroupExists(z)}

-----------------------------------------------------------------------------
\* A new version of the same object was guarded by those that guard it now and
\* by those that have guarded it before.
LEMMA EverGrows ==
    ASSUME IInv, NEW w \in UpstreamVersion, upstream' = Append(upstream, w),
           w.uid = Upstream.uid
    PROVE  Upstream' = w /\ Ever' = Ever \cup w.finalizers
<1>1. /\ upstream \in Seq(UpstreamVersion) /\ upstream # <<>>
      /\ Upstream' = w
      /\ DOMAIN upstream' = 1 .. Len(upstream) + 1
      /\ DOMAIN upstream = 1 .. Len(upstream) /\ Len(upstream) \in Nat
      /\ upstream'[Len(upstream) + 1] = w
      /\ \A i \in 1 .. Len(upstream) : upstream'[i] = upstream[i]
  BY AppendFacts, CurrentFacts DEF IInv, TypeOK, Upstream
<1>2. w.finalizers \subseteq Zones
  BY DEF UpstreamVersion
<1>3. ASSUME NEW z \in Zones
      PROVE  EverGuarded(z, Upstream.uid)'
                <=> EverGuarded(z, Upstream.uid) \/ z \in w.finalizers
  BY <1>1 DEF EverGuarded
<1> QED  BY <1>1, <1>2, <1>3 DEF Ever

\* Nobody has guarded a new object.
LEMMA EverRestarts ==
    ASSUME IInv, NEW w \in UpstreamVersion, upstream' = Append(upstream, w),
           w.uid = Upstream.uid + 1, w.finalizers = {}
    PROVE  Upstream' = w /\ Ever' = {}
<1>1. /\ upstream \in Seq(UpstreamVersion) /\ upstream # <<>>
      /\ Upstream' = w /\ Upstream = upstream[Len(upstream)]
      /\ DOMAIN upstream' = 1 .. Len(upstream) + 1
      /\ DOMAIN upstream = 1 .. Len(upstream) /\ Len(upstream) \in Nat
      /\ Len(upstream) \in DOMAIN upstream
      /\ upstream'[Len(upstream) + 1] = w
      /\ \A i \in 1 .. Len(upstream) :
            upstream'[i] = upstream[i] /\ upstream[i] \in UpstreamVersion
  BY AppendFacts, CurrentFacts DEF IInv, TypeOK, Upstream, Current
<1>2. \A i \in 1 .. Len(upstream) : /\ upstream[i].uid <= Upstream.uid
                                    /\ upstream[i].uid \in Nat
  BY <1>1 DEF IInv, History, UpstreamVersion
<1>3. Upstream.uid \in Nat
  BY <1>1, <1>2
<1>4. ASSUME NEW z \in Zones PROVE ~EverGuarded(z, Upstream.uid)'
  BY <1>1, <1>2, <1>3 DEF EverGuarded
<1> QED  BY <1>1, <1>4 DEF Ever

\* A step that leaves the upstream object alone and changes the Group of at
\* most one zone, which has not lifted its finalizer if it gets one.
LEMMA GroupStep ==
    ASSUME IInv, UNCHANGED upstream, NEW z \in Zones,
           \A y \in Zones : y # z => group'[y] = group[y],
           ~Lifted(z) \/ (GroupExists(z)' => GroupExists(z))
    PROVE  [Abstract!Next]_(Abstract!vars)
<1>1. /\ Upstream' = Upstream /\ Ever' = Ever
      /\ \A y \in Zones : y # z => (GroupExists(y)' <=> GroupExists(y))
  BY DEF Upstream, Current, Ever, EverGuarded, GroupExists
<1>2. CASE GroupExists(z)' <=> GroupExists(z)
  <2>1. Replicas' = Replicas
    BY <1>1, <1>2 DEF Replicas
  <2> QED  BY <1>1, <2>1 DEF Abstract!vars, Ever, Replicas
<1>3. CASE GroupExists(z)' /\ ~GroupExists(z)
  <2>1. Replicas' = Replicas \cup {z}
    BY <1>1, <1>3 DEF Replicas
  <2>2. z \notin Ever \ Upstream.finalizers
    BY <1>3 DEF Lifted, Ever
  <2>3. Abstract!Put(z)
    BY <1>1, <2>1, <2>2 DEF Abstract!Put, Abstract!Lifted, Ever, Replicas
  <2> QED  BY <2>3 DEF Abstract!Next
<1>4. CASE ~GroupExists(z)' /\ GroupExists(z)
  <2>1. Replicas' = Replicas \ {z}
    BY <1>1, <1>4 DEF Replicas
  <2>2. Abstract!Drop(z)
    BY <1>1, <2>1 DEF Abstract!Drop, Ever, Replicas
  <2> QED  BY <2>2 DEF Abstract!Next
<1> QED  BY <1>2, <1>3, <1>4

\* A step that writes a version of the upstream object is Create, Delete, Guard
\* or Lift of the abstract specification, or SetMembers, which it does not see.
LEMMA ControlApiStep ==
    ASSUME IInv, ControlApi
    PROVE  [Abstract!Next]_(Abstract!vars)
<1>0. /\ Upstream \in UpstreamVersion
      /\ Upstream.phase = "absent" => Upstream.finalizers = {}
      /\ Upstream.finalizers \subseteq Ever
  <2>1. /\ Upstream \in UpstreamVersion
        /\ Len(upstream) \in DOMAIN upstream /\ Upstream = upstream[Len(upstream)]
    BY CurrentFacts DEF IInv, TypeOK, Upstream, Current
  <2> QED  BY <2>1 DEF IInv, History, UpstreamVersion, Ever, EverGuarded
<1>1. UNCHANGED group
  BY DEF ControlApi, CreateUpstream, SetMembers, DeleteUpstream
<1>2. Replicas' = Replicas
  BY <1>1 DEF Replicas, GroupExists
<1>3. ASSUME NEW S \in SUBSET Users, CreateUpstream(S)
      PROVE  Abstract!Create
  <2> DEFINE w == [phase |-> "live", uid |-> Upstream.uid + 1,
                   members |-> S, finalizers |-> {}]
  <2>1. w \in UpstreamVersion /\ Upstream.phase = "absent"
    BY <1>0, <1>3 DEF UpstreamVersion, CreateUpstream
  <2>2. Upstream' = w /\ Ever' = {}
    BY <1>3, <2>1, EverRestarts DEF CreateUpstream
  <2> QED  BY <1>0, <1>2, <2>1, <2>2 DEF Abstract!Create, Ever, Replicas
<1>4. ASSUME NEW S \in SUBSET Users, SetMembers(S)
      PROVE  UNCHANGED Abstract!vars
  <2> DEFINE w == [Upstream EXCEPT !.members = S]
  <2>1. /\ w \in UpstreamVersion /\ w.finalizers = Upstream.finalizers
        /\ w.phase = Upstream.phase /\ w.uid = Upstream.uid
    BY <1>0 DEF UpstreamVersion
  <2>2. upstream' = upstream \/ upstream' = Append(upstream, w)
    BY <1>4 DEF SetMembers, Store
  <2> HIDE DEF w
  <2>3. CASE upstream' = upstream
    <3>1. Upstream' = Upstream /\ Ever' = Ever
      BY <2>3 DEF Upstream, Current, Ever, EverGuarded
    <3> QED  BY <1>2, <3>1 DEF Abstract!vars, Ever, Replicas
  <2>4. CASE upstream' = Append(upstream, w)
    <3>1. Upstream' = w /\ Ever' = Ever
      BY <1>0, <2>1, <2>4, EverGrows
    <3> QED  BY <1>2, <2>1, <3>1 DEF Abstract!vars, Ever, Replicas
  <2> QED  BY <2>2, <2>3, <2>4
<1>5. ASSUME DeleteUpstream PROVE Abstract!Delete
  <2> DEFINE v == [Upstream EXCEPT !.phase = "deleting"]
             w == Collected(v)
  <2>1. /\ v \in UpstreamVersion /\ v.finalizers = Upstream.finalizers
        /\ v.phase = "deleting" /\ v.uid = Upstream.uid
    BY <1>0 DEF UpstreamVersion
  <2>2. /\ w \in UpstreamVersion /\ w.uid = Upstream.uid
        /\ w.phase = IF Upstream.finalizers = {} THEN "absent" ELSE "deleting"
        /\ w.finalizers = Upstream.finalizers
    <3> HIDE DEF v
    <3> QED  BY <2>1, CollectedFacts DEF Collected, Removed
  <2>3. upstream' = Append(upstream, w) /\ Upstream.phase = "live"
    BY <1>5 DEF DeleteUpstream
  <2> HIDE DEF w
  <2>4. Upstream' = w /\ Ever' = Ever
    BY <1>0, <2>2, <2>3, EverGrows
  <2> QED  BY <1>2, <2>2, <2>3, <2>4 DEF Abstract!Delete, Ever, Replicas
<1> QED  BY <1>3, <1>4, <1>5 DEF ControlApi, Abstract!Next

\* An agent that writes the upstream object puts its own guard on a live one or
\* lifts it from one under deletion, its Group being gone.
LEMMA FinalizerStep ==
    ASSUME IInv, NEW z \in Zones, AddFinalizer(z) \/ RemoveFinalizer(z)
    PROVE  [Abstract!Next]_(Abstract!vars)
<1> DEFINE copy == upstream[obj[z]]
           with == copy.finalizers \cup {z}
           without == copy.finalizers \ {z}
           v(fins) == [Upstream EXCEPT !.finalizers = fins]
           w(fins) == Collected(v(fins))
<1>0. /\ Upstream \in UpstreamVersion
      /\ Upstream.finalizers \subseteq Ever
      /\ obj[z] = Len(upstream) => copy = Upstream
  <2>1. /\ Upstream \in UpstreamVersion
        /\ Len(upstream) \in DOMAIN upstream /\ Upstream = upstream[Len(upstream)]
    BY CurrentFacts DEF IInv, TypeOK, Upstream, Current
  <2> QED  BY <2>1 DEF UpstreamVersion, Ever, EverGuarded
<1>1. UNCHANGED group
  BY Zenon DEF AddFinalizer, RemoveFinalizer
<1>2. Replicas' = Replicas
  BY <1>1 DEF Replicas, GroupExists
<1>3. \/ UNCHANGED upstream
      \/ /\ pc[z] = "guard" /\ z \notin copy.finalizers
         /\ UpdateFinalizers(z, obj[z], with)
      \/ /\ pc[z] = "lift" /\ z \in copy.finalizers
         /\ UpdateFinalizers(z, obj[z], without)
  BY Zenon DEF AddFinalizer, RemoveFinalizer
<1>4. CASE UNCHANGED upstream
  <2>1. Upstream' = Upstream /\ Ever' = Ever
    BY <1>4 DEF Upstream, Current, Ever, EverGuarded
  <2> QED  BY <1>2, <2>1 DEF Abstract!vars, Ever, Replicas
<1>5. ASSUME pc[z] \in {"guard", "lift"}
      PROVE  copy.finalizers \in SUBSET Zones /\ obj[z] \in DOMAIN upstream
  <2>1. copy \in UpstreamVersion /\ obj[z] \in DOMAIN upstream
    BY <1>5 DEF IInv, TypeOK
  <2> QED  BY <2>1 DEF UpstreamVersion
<1>6. ASSUME NEW fins \in SUBSET Zones, pc[z] \in {"guard", "lift"},
             UpdateFinalizers(z, obj[z], fins)
      PROVE  \/ UNCHANGED upstream
             \/ /\ copy = Upstream
                /\ w(fins) \in UpstreamVersion
                /\ Upstream' = w(fins)
                /\ w(fins).finalizers = fins
                /\ w(fins).phase = IF Upstream.phase = "deleting" /\ fins = {}
                                   THEN "absent" ELSE Upstream.phase
                /\ Ever' = Ever \cup fins
  <2>1. CASE UNCHANGED upstream
    BY <2>1
  <2>2. CASE /\ obj[z] = Len(upstream) /\ upstream' = Append(upstream, w(fins))
             /\ v(fins) \in UpstreamVersion /\ w(fins) \in UpstreamVersion
    <3>1. /\ v(fins).finalizers = fins /\ v(fins).uid = Upstream.uid
          /\ v(fins).phase = Upstream.phase
      BY <1>0 DEF UpstreamVersion
    <3>2. /\ w(fins).finalizers = fins /\ w(fins).uid = Upstream.uid
          /\ w(fins).phase = IF Upstream.phase = "deleting" /\ fins = {}
                             THEN "absent" ELSE Upstream.phase
      <4> HIDE DEF v
      <4> QED  BY <2>2, <3>1, CollectedFacts DEF Collected, Removed
    <3> HIDE DEF w, v
    <3> QED  BY <1>0, <2>2, <3>2, EverGrows
  <2>3. TypeOK
    BY DEF IInv
  <2> QED  BY <1>5, <1>6, <2>1, <2>2, <2>3, UpdateTypes
<1> HIDE DEF w, v
<1>7. CASE /\ pc[z] = "guard" /\ z \notin copy.finalizers
           /\ UpdateFinalizers(z, obj[z], with)
  <2>1. upstream[obj[z]].phase = "live"
    BY <1>7 DEF IInv, CopyFits
  <2>2. CASE /\ copy = Upstream
             /\ Upstream' = w(with)
             /\ w(with).finalizers = with
             /\ w(with).phase = IF Upstream.phase = "deleting" /\ with = {}
                                THEN "absent" ELSE Upstream.phase
             /\ Ever' = Ever \cup with
    <3>1. /\ Upstream.phase = "live" /\ Upstream'.phase = Upstream.phase
          /\ Upstream'.finalizers = Upstream.finalizers \cup {z}
          /\ Ever' = Ever \cup {z}
      BY <1>0, <2>1, <2>2
    <3>2. Abstract!Guard(z)
      BY <1>2, <3>1 DEF Abstract!Guard, Ever, Replicas
    <3> QED  BY <3>2 DEF Abstract!Next
  <2> QED  BY <1>4, <1>5, <1>6, <1>7, <2>2
<1>8. CASE /\ pc[z] = "lift" /\ z \in copy.finalizers
           /\ UpdateFinalizers(z, obj[z], without)
  <2>1. upstream[obj[z]].phase = "deleting" /\ ~GroupExists(z)
    BY <1>8 DEF IInv, CopyFits
  <2>2. CASE /\ copy = Upstream
             /\ Upstream' = w(without)
             /\ w(without).finalizers = without
             /\ w(without).phase = IF Upstream.phase = "deleting" /\ without = {}
                                   THEN "absent" ELSE Upstream.phase
             /\ Ever' = Ever \cup without
    <3>1. /\ Upstream.phase = "deleting" /\ z \in Upstream.finalizers \ Replicas
          /\ Upstream'.finalizers = Upstream.finalizers \ {z}
          /\ Upstream'.phase = IF Upstream'.finalizers = {} THEN "absent"
                                                           ELSE Upstream.phase
          /\ Ever' = Ever
      BY <1>0, <1>8, <2>1, <2>2 DEF Replicas
    <3>2. Abstract!Lift(z)
      BY <1>2, <3>1 DEF Abstract!Lift, Ever, Replicas
    <3> QED  BY <3>2 DEF Abstract!Next
  <2> QED  BY <1>4, <1>5, <1>6, <1>8, <2>2
<1> QED  BY <1>3, <1>4, <1>7, <1>8

\* All other steps leave the upstream object alone.  A Group comes into being
\* only from a live copy, which no agent holds once it has lifted its finalizer.
LEMMA OtherStep ==
    ASSUME IInv, NEW z \in Zones,
           \/ Administrator(z) \/ WatchUpstream(z) \/ WatchGroup(z) \/ Begin(z)
           \/ PutGroup(z) \/ DeleteGroup(z) \/ CallFails(z) \/ Restart(z)
    PROVE  [Abstract!Next]_(Abstract!vars)
<1>0. TypeOK /\ LiftedForGood(z)
  BY DEF IInv
<1>1. /\ UNCHANGED upstream
      /\ \A y \in Zones : y # z => group'[y] = group[y]
  BY <1>0 DEF Administrator, EditGroup, WatchUpstream, WatchGroup, Begin,
              PutGroup, DeleteGroup, CallFails, Restart, TypeOK
<1>2. CASE Administrator(z)
  <2>1. GroupExists(z)
    BY <1>2 DEF Administrator, EditGroup
  <2> QED  BY <1>1, <2>1, GroupStep
<1>3. CASE \/ WatchUpstream(z) \/ WatchGroup(z) \/ Begin(z)
           \/ CallFails(z) \/ Restart(z)
  <2>1. group' = group
    BY <1>3 DEF WatchUpstream, WatchGroup, Begin, CallFails, Restart
  <2>2. GroupExists(z)' => GroupExists(z)
    BY <2>1 DEF GroupExists
  <2> QED  BY <1>1, <2>2, GroupStep
<1>4. CASE PutGroup(z)
  <2>1. ~Lifted(z)
    BY <1>0, <1>4 DEF PutGroup, LiftedForGood
  <2> QED  BY <1>1, <2>1, GroupStep
<1>5. CASE DeleteGroup(z)
  <2>1. group'[z] = Store(group[z], NoGroup) /\ group[z] \in Seq(GroupVersion)
    BY <1>0, <1>5 DEF DeleteGroup, TypeOK
  <2>2. Current(group'[z]) = NoGroup
    BY <2>1 DEF Store, Current, NoGroup, GroupVersion
  <2>3. ~GroupExists(z)'
    BY <2>2 DEF GroupExists, NoGroup
  <2> QED  BY <1>1, <2>3, GroupStep
<1> QED  BY <1>2, <1>3, <1>4, <1>5

\* The agents of all zones and the control API together implement the abstract
\* specification, for any number of zones, any staleness of the caches, failing
\* calls, lost answers and restarts.
THEOREM Refinement == Spec => ImplementsGuardedReplica
<1>1. Init => Abstract!Init
  BY DEF Init, Abstract!Init, Upstream, Current, Removed, EverGuarded, GroupExists,
         NoGroup
<1>2. IInv /\ [Next]_vars => [Abstract!Next]_(Abstract!vars)
  <2> SUFFICES ASSUME IInv, [Next]_vars PROVE [Abstract!Next]_(Abstract!vars)
    OBVIOUS
  <2>1. CASE UNCHANGED vars
    BY <2>1 DEF vars, Abstract!vars, Upstream, Current, EverGuarded, GroupExists
  <2>2. CASE Next
    BY <2>2, ControlApiStep, FinalizerStep, OtherStep DEF Next, Agent
  <2> QED  BY <2>1, <2>2
<1> QED  BY <1>1, <1>2, InvInit, InvNext, PTL
         DEF Spec, ImplementsGuardedReplica, Abstract!Spec
=============================================================================
