--------------------------- MODULE GroupSyncProofs ---------------------------
(***************************************************************************)
(* Proofs about GroupSync, for any zones, users and bounds.                *)
(***************************************************************************)
EXTENDS GroupSync, TLAPS

\* Every operation on the upstream object appends at most one version, and
\* this is how it follows from the one before: the object keeps its uid and
\* does not come back to life, or it is a new one without finalizers.
Successor(v, w) ==
    /\ w.phase = "absent" => w.finalizers = {}
    /\ \/ /\ w.uid = v.uid
          /\ w.phase = "live" => v.phase = "live"
       \/ w.uid = v.uid + 1 /\ v.phase = "absent" /\ w.finalizers = {}

\* A history of versions: uids only grow, one uid never turns live again, and
\* what is gone has no finalizers.
History(log) ==
    /\ \A i, j \in DOMAIN log :
        i <= j => /\ log[i].uid <= log[j].uid
                  /\ log[i].uid = log[j].uid /\ log[j].phase = "live"
                        => log[i].phase = "live"
    /\ \A i \in DOMAIN log : log[i].phase = "absent" => log[i].finalizers = {}

\* Reconcile deletes when its copy is under deletion and creates when it is
\* live, and it is about to lift the finalizer only when the Group is gone.
CopyFits(z) ==
    /\ pc[z] \in {"put", "guard"} => upstream[obj[z]].phase = "live"
    /\ pc[z] \in {"delete", "lift"} => upstream[obj[z]].phase = "deleting"
    /\ pc[z] = "lift" => ~GroupExists(z)

\* Zone z has had its finalizer on the current object and has lifted it.
Lifted(z) == EverGuarded(z, Upstream.uid) /\ z \notin Upstream.finalizers

\* Why a lifted finalizer leaves no Group behind: the agent that lifted it had
\* seen the deletion, its cache cannot go back to a live version of the
\* object, and no Reconcile of an older copy is still running.
LiftedForGood(z) ==
    Lifted(z) =>
        /\ ~GroupExists(z)
        /\ upstream[seen[z]].uid = Upstream.uid
        /\ upstream[seen[z]].phase # "live"
        /\ pc[z] \notin {"put", "guard"}

IInv ==
    /\ TypeOK
    /\ History(upstream)
    /\ \A z \in Zones : CopyFits(z) /\ LiftedForGood(z)

\* A step that writes version w of the upstream object.  A finalizer that
\* goes is its own agent's, whose copy was the current version.
Writes(w) ==
    /\ upstream' = Append(upstream, w)
    /\ Successor(Upstream, w)
    /\ UNCHANGED <<group, seen, gseen>>
    /\ \A z \in Zones :
        /\ pc'[z] = "idle" \/ (pc'[z] = pc[z] /\ obj'[z] = obj[z])
        /\ z \in w.finalizers \ Upstream.finalizers => pc[z] = "guard"
        /\ z \in Upstream.finalizers \ w.finalizers =>
              pc[z] = "lift" /\ pc'[z] = "idle" /\ obj[z] = Len(upstream)

-----------------------------------------------------------------------------
(* Logs *)

\* What Append does to a log.
LEMMA AppendFacts ==
    ASSUME NEW S, NEW log \in Seq(S), NEW v \in S
    PROVE  /\ Append(log, v) \in Seq(S)
           /\ Len(Append(log, v)) = Len(log) + 1
           /\ DOMAIN Append(log, v) = 1 .. Len(log) + 1
           /\ DOMAIN log = 1 .. Len(log)
           /\ Append(log, v) # <<>>
           /\ Current(Append(log, v)) = v
           /\ Append(log, v)[Len(log) + 1] = v
           /\ \A i \in 1 .. Len(log) : Append(log, v)[i] = log[i]
  BY DEF Current

\* A log that is not empty has a current version.
LEMMA CurrentFacts ==
    ASSUME NEW S, NEW log \in Seq(S), log # <<>>
    PROVE  /\ Len(log) \in DOMAIN log /\ Len(log) \in Nat /\ Len(log) >= 1
           /\ DOMAIN log = 1 .. Len(log)
           /\ Current(log) \in S
           /\ \A i \in DOMAIN log : log[i] \in S
  BY DEF Current

\* Collected yields a version, and neither a new object nor a live one.
LEMMA CollectedFacts ==
    ASSUME NEW v \in UpstreamVersion
    PROVE  /\ Collected(v) \in UpstreamVersion
           /\ Collected(v).uid = v.uid
           /\ Collected(v).finalizers = v.finalizers
           /\ Collected(v).phase = "live" <=> v.phase = "live"
  BY DEF Collected, Removed, UpstreamVersion

\* A history stays one when a successor of its last version is appended.
LEMMA HistoryAppend ==
    ASSUME NEW log \in Seq(UpstreamVersion), log # <<>>, History(log),
           NEW w \in UpstreamVersion, Successor(Current(log), w)
    PROVE  History(Append(log, w))
<1> DEFINE n == Len(log)
           new == Append(log, w)
<1>1. /\ DOMAIN new = 1 .. n + 1 /\ new[n + 1] = w
      /\ \A i \in 1 .. n : new[i] = log[i]
      /\ n \in Nat /\ n >= 1 /\ DOMAIN log = 1 .. n
      /\ \A i \in 1 .. n : log[i] \in UpstreamVersion
      /\ Current(log) = log[n]
  BY AppendFacts, CurrentFacts DEF Current
<1>2. \A i \in 1 .. n : /\ log[i].uid \in Nat /\ log[i].uid <= log[n].uid
                        /\ log[i].uid = log[n].uid /\ log[n].phase = "live"
                              => log[i].phase = "live"
  BY <1>1 DEF History, UpstreamVersion
<1>3. \A i \in 1 .. n : /\ log[i].uid <= w.uid
                        /\ log[i].uid = w.uid /\ w.phase = "live"
                              => log[i].phase = "live"
  BY <1>1, <1>2 DEF Successor, UpstreamVersion
<1> HIDE DEF n, new
<1>4. ASSUME NEW i \in 1 .. n + 1, NEW j \in 1 .. n + 1, i <= j
      PROVE  /\ new[i].uid <= new[j].uid
             /\ new[i].uid = new[j].uid /\ new[j].phase = "live"
                  => new[i].phase = "live"
  <2>1. CASE j \in 1 .. n
    BY <1>1, <1>4, <2>1 DEF History
  <2>2. CASE j = n + 1 /\ i \in 1 .. n
    BY <1>1, <1>3, <2>2
  <2>3. CASE j = n + 1 /\ i = n + 1
    BY <1>1, <2>3 DEF UpstreamVersion
  <2> QED  BY <1>1, <1>4, <2>1, <2>2, <2>3
<1>5. \A i \in 1 .. n + 1 : new[i].phase = "absent" => new[i].finalizers = {}
  BY <1>1 DEF History, Successor
<1> QED  BY <1>1, <1>4, <1>5 DEF History, new
-----------------------------------------------------------------------------
(* Types *)

\* The initial state is well typed.
LEMMA TypeInit == Init => TypeOK
<1> SUFFICES ASSUME Init PROVE TypeOK  OBVIOUS
<1>1. Removed(0) \in UpstreamVersion /\ NoGroup \in GroupVersion
  BY DEF Removed, NoGroup, UpstreamVersion, GroupVersion
<1> QED  BY <1>1 DEF Init, TypeOK

\* A step of Reconcile that returns leaves the agent idle, without a copy.
LEMMA ReturnTypes ==
    ASSUME TypeOK, NEW z \in Zones, Done(z) \/ Retry(z)
    PROVE  /\ queued' \in [Zones -> BOOLEAN]
           /\ pc' = [pc EXCEPT ![z] = "idle"] /\ obj' = [obj EXCEPT ![z] = 0]
  BY DEF TypeOK, Done, Retry, Return

\* The version logs only grow.
UpstreamGrows ==
    UNCHANGED upstream
        \/ \E w \in UpstreamVersion : upstream' = Append(upstream, w)

GroupGrows ==
    UNCHANGED group
        \/ \E z \in Zones, g \in GroupVersion :
                group' = [group EXCEPT ![z] = Append(group[z], g)]

\* An agent goes on with its copy, or returns and drops it.
Proceeds ==
    \/ UNCHANGED <<pc, obj>>
    \/ \E z \in Zones : \/ /\ pc' = [pc EXCEPT ![z] = "idle"]
                           /\ obj' = [obj EXCEPT ![z] = 0]
                        \/ /\ pc[z] # "idle"
                           /\ \E l \in {"guard", "lift"} :
                                pc' = [pc EXCEPT ![z] = l]
                           /\ UNCHANGED obj

\* A step that does just this keeps the types: the positions of caches and
\* copies remain inside the logs.
LEMMA TypeFrame ==
    ASSUME TypeOK, UpstreamGrows, GroupGrows, Proceeds,
           UNCHANGED <<seen, gseen>>, queued' \in [Zones -> BOOLEAN]
    PROVE  TypeOK'
<1>1. /\ upstream' \in Seq(UpstreamVersion) /\ upstream' # <<>>
      /\ Len(upstream) \in Nat /\ Len(upstream') \in Nat
      /\ Len(upstream') >= Len(upstream)
  <2>1. CASE UNCHANGED upstream
    BY <2>1, CurrentFacts DEF TypeOK
  <2>2. CASE \E w \in UpstreamVersion : upstream' = Append(upstream, w)
    BY <2>2, CurrentFacts, AppendFacts DEF TypeOK
  <2> QED  BY <2>1, <2>2 DEF UpstreamGrows
<1>2. /\ group' \in [Zones -> Seq(GroupVersion)]
      /\ \A y \in Zones : /\ Len(group[y]) \in Nat /\ Len(group'[y]) \in Nat
                          /\ Len(group'[y]) >= Len(group[y])
  <2>1. /\ group \in [Zones -> Seq(GroupVersion)]
        /\ \A y \in Zones : Len(group[y]) \in Nat
    BY DEF TypeOK
  <2>2. ASSUME NEW z \in Zones, NEW g \in GroupVersion,
               group' = [group EXCEPT ![z] = Append(group[z], g)]
        PROVE  <1>2!1 /\ <1>2!2
    <3>1. /\ Append(group[z], g) \in Seq(GroupVersion)
          /\ Len(Append(group[z], g)) = Len(group[z]) + 1
      BY <2>1, AppendFacts
    <3> QED  BY <2>1, <2>2, <3>1
  <2> QED  BY <2>1, <2>2 DEF GroupGrows
<1>3. /\ pc' \in [Zones -> {"idle", "put", "guard", "delete", "lift"}]
      /\ obj' \in [Zones -> Nat]
      /\ \A y \in Zones : /\ obj'[y] = obj[y] \/ obj'[y] = 0
                          /\ pc'[y] = "idle" <=> obj'[y] = 0
  <2>1. /\ pc \in [Zones -> {"idle", "put", "guard", "delete", "lift"}]
        /\ obj \in [Zones -> Nat]
        /\ \A y \in Zones : pc[y] = "idle" <=> obj[y] = 0
    BY DEF TypeOK
  <2>2. CASE UNCHANGED <<pc, obj>>
    BY <2>1, <2>2
  <2>3. ASSUME NEW z \in Zones, pc' = [pc EXCEPT ![z] = "idle"],
               obj' = [obj EXCEPT ![z] = 0]
        PROVE  <1>3!1 /\ <1>3!2 /\ <1>3!3
    BY <2>1, <2>3
  <2>4. ASSUME NEW z \in Zones, NEW l \in {"guard", "lift"}, pc[z] # "idle",
               pc' = [pc EXCEPT ![z] = l], UNCHANGED obj
        PROVE  <1>3!1 /\ <1>3!2 /\ <1>3!3
    BY <2>1, <2>4
  <2> QED  BY <2>2, <2>3, <2>4 DEF Proceeds
<1>4. ASSUME NEW y \in Zones
      PROVE  /\ seen'[y] \in 1 .. Len(upstream')
             /\ obj'[y] <= seen'[y]
             /\ gseen'[y] \in 1 .. Len(group'[y])
  <2>1. /\ seen[y] \in 1 .. Len(upstream) /\ seen'[y] = seen[y]
        /\ gseen[y] \in 1 .. Len(group[y]) /\ gseen'[y] = gseen[y]
        /\ obj[y] \in Nat /\ obj[y] <= seen[y]
    BY DEF TypeOK
  <2>2. /\ Len(group'[y]) \in Nat /\ Len(group'[y]) >= Len(group[y])
        /\ Len(group[y]) \in Nat
        /\ obj'[y] = obj[y] \/ obj'[y] = 0
    BY <1>2, <1>3
  <2>3. seen[y] \in 1 .. Len(upstream') /\ gseen[y] \in 1 .. Len(group'[y])
    BY <1>1, <2>1, <2>2
  <2>4. obj'[y] <= seen[y]
    BY <1>1, <2>1, <2>2
  <2> QED  BY <2>1, <2>3, <2>4
<1>5. seen' \in [Zones -> Nat] /\ gseen' \in [Zones -> Nat]
  BY DEF TypeOK
<1> QED  BY <1>1, <1>2, <1>3, <1>4, <1>5 DEF TypeOK

\* Update writes a version or fails, and Reconcile returns.
LEMMA UpdateTypes ==
    ASSUME TypeOK, NEW z \in Zones, NEW rv \in DOMAIN upstream,
           NEW fins \in SUBSET Zones, UpdateFinalizers(z, rv, fins)
    PROVE  /\ Done(z) \/ Retry(z)
           /\ \/ UNCHANGED upstream
              \/ /\ rv = Len(upstream)
                 /\ upstream' = Append(upstream,
                        Collected([Upstream EXCEPT !.finalizers = fins]))
                 /\ [Upstream EXCEPT !.finalizers = fins] \in UpstreamVersion
                 /\ Collected([Upstream EXCEPT !.finalizers = fins])
                        \in UpstreamVersion
<1>1. Upstream \in UpstreamVersion
  BY CurrentFacts DEF TypeOK, Upstream
<1>2. [Upstream EXCEPT !.finalizers = fins] \in UpstreamVersion
  BY <1>1 DEF UpstreamVersion
<1>3. Collected([Upstream EXCEPT !.finalizers = fins]) \in UpstreamVersion
  BY <1>2, CollectedFacts
<1> QED  BY <1>2, <1>3 DEF UpdateFinalizers, UpToDate, Upstream, Current

\* Every step keeps the types.
LEMMA TypeNext == TypeOK /\ [Next]_vars => TypeOK'
<1> SUFFICES ASSUME TypeOK, [Next]_vars PROVE TypeOK'  OBVIOUS
<1>0. /\ Upstream \in UpstreamVersion /\ NoGroup \in GroupVersion
      /\ queued \in [Zones -> BOOLEAN]
  BY CurrentFacts DEF TypeOK, Upstream, NoGroup, GroupVersion
<1>1. ASSUME NEW S \in SUBSET Users, CreateUpstream(S) PROVE TypeOK'
  <2>1. [phase |-> "live", uid |-> Upstream.uid + 1, members |-> S,
         finalizers |-> {}] \in UpstreamVersion
    BY <1>0 DEF UpstreamVersion
  <2> QED  BY <1>0, <1>1, <2>1, TypeFrame
              DEF CreateUpstream, UpstreamGrows, GroupGrows, Proceeds
<1>2. ASSUME NEW S \in SUBSET Users, SetMembers(S) PROVE TypeOK'
  <2> DEFINE w == [Upstream EXCEPT !.members = S]
  <2>1. w \in UpstreamVersion
    BY <1>0 DEF UpstreamVersion
  <2>2. upstream' = upstream \/ upstream' = Append(upstream, w)
    BY <1>2 DEF SetMembers, Store
  <2> HIDE DEF w
  <2> QED  BY <1>0, <1>2, <2>1, <2>2, TypeFrame
              DEF SetMembers, UpstreamGrows, GroupGrows, Proceeds
<1>3. CASE DeleteUpstream
  <2> DEFINE w == Collected([Upstream EXCEPT !.phase = "deleting"])
  <2>1. w \in UpstreamVersion
    BY <1>0, CollectedFacts DEF UpstreamVersion
  <2>2. upstream' = Append(upstream, w)
    BY <1>3 DEF DeleteUpstream
  <2> HIDE DEF w
  <2> QED  BY <1>0, <1>3, <2>1, <2>2, TypeFrame
              DEF DeleteUpstream, UpstreamGrows, GroupGrows, Proceeds
<1>4. ASSUME NEW z \in Zones, Administrator(z) PROVE TypeOK'
  <2>1. PICK g \in GroupVersion : EditGroup(z, g)
    BY <1>4 DEF Administrator, GroupVersion, NoGroup
  <2>2. GroupGrows
    BY <2>1 DEF EditGroup, Store, GroupGrows, TypeOK
  <2> QED  BY <1>0, <2>1, <2>2, TypeFrame DEF EditGroup, UpstreamGrows, Proceeds
<1>5. ASSUME NEW z \in Zones, WatchUpstream(z) PROVE TypeOK'
  BY <1>5 DEF WatchUpstream, Behind, TypeOK
<1>6. ASSUME NEW z \in Zones, WatchGroup(z) PROVE TypeOK'
  BY <1>6 DEF WatchGroup, Behind, TypeOK
<1>7. ASSUME NEW z \in Zones, Begin(z) PROVE TypeOK'
  <2>1. /\ UNCHANGED <<upstream, group, seen, gseen>>
        /\ queued' \in [Zones -> BOOLEAN]
    BY <1>0, <1>7 DEF Begin
  <2>2. CASE UNCHANGED <<pc, obj>>
    BY <2>1, <2>2 DEF TypeOK
  <2>3. ASSUME NEW l \in {"delete", "put"}, pc' = [pc EXCEPT ![z] = l],
               obj' = [obj EXCEPT ![z] = seen[z]]
        PROVE  TypeOK'
    BY <2>1, <2>3 DEF TypeOK
  <2> QED  BY <1>7, <2>2, <2>3 DEF Begin
<1>8. ASSUME NEW z \in Zones, PutGroup(z) PROVE TypeOK'
  <2> DEFINE wanted == [exists |-> TRUE, users |-> upstream[obj[z]].members]
  <2>1. pc[z] = "put" /\ UNCHANGED <<upstream, seen, gseen>>
    BY <1>8 DEF PutGroup
  <2>2. wanted \in GroupVersion
    <3>1. obj[z] \in DOMAIN upstream
      BY <2>1 DEF TypeOK
    <3>2. upstream[obj[z]] \in UpstreamVersion
      BY <3>1 DEF TypeOK
    <3> QED  BY <3>2 DEF UpstreamVersion, GroupVersion
  <2>3. CASE /\ UNCHANGED group \/ group' = [group EXCEPT ![z] = Append(@, wanted)]
             /\ pc' = [pc EXCEPT ![z] = "guard"] /\ UNCHANGED <<queued, obj>>
    <3> HIDE DEF wanted
    <3>1. GroupGrows
      BY <2>2, <2>3 DEF GroupGrows
    <3> QED  BY <1>0, <2>1, <2>3, <3>1, TypeFrame DEF UpstreamGrows, Proceeds
  <2>4. CASE UNCHANGED group /\ Retry(z)
    BY <2>1, <2>4, ReturnTypes, TypeFrame DEF UpstreamGrows, GroupGrows, Proceeds
  <2> QED  BY <1>8, <2>3, <2>4, Zenon DEF PutGroup
<1>9. ASSUME NEW z \in Zones, AddFinalizer(z) \/ RemoveFinalizer(z) PROVE TypeOK'
  <2> DEFINE copy == upstream[obj[z]]
  <2>1. pc[z] \in {"guard", "lift"} /\ UNCHANGED <<group, seen, gseen>>
    BY <1>9, Zenon DEF AddFinalizer, RemoveFinalizer
  <2>2. obj[z] \in DOMAIN upstream
    BY <2>1 DEF TypeOK
  <2>3. copy \in UpstreamVersion
    BY <2>2 DEF TypeOK
  <2>4. /\ copy.finalizers \cup {z} \in SUBSET Zones
        /\ copy.finalizers \ {z} \in SUBSET Zones
    BY <2>3 DEF UpstreamVersion
  <2>5. \/ UNCHANGED upstream /\ Done(z)
        \/ UpdateFinalizers(z, obj[z], copy.finalizers \cup {z})
        \/ UpdateFinalizers(z, obj[z], copy.finalizers \ {z})
    BY <1>9, Zenon DEF AddFinalizer, RemoveFinalizer
  <2>6. (Done(z) \/ Retry(z)) /\ UpstreamGrows
    BY <2>2, <2>4, <2>5, UpdateTypes DEF UpstreamGrows
  <2> QED  BY <2>1, <2>6, ReturnTypes, TypeFrame DEF GroupGrows, Proceeds
<1>10. ASSUME NEW z \in Zones, DeleteGroup(z) PROVE TypeOK'
  <2>1. GroupGrows
    BY <1>0, <1>10 DEF DeleteGroup, Store, GroupGrows, TypeOK
  <2> QED  BY <1>0, <1>10, <2>1, TypeFrame DEF DeleteGroup, UpstreamGrows, Proceeds
<1>11. ASSUME NEW z \in Zones, CallFails(z) PROVE TypeOK'
  <2>1. Retry(z) /\ UNCHANGED <<upstream, group, seen, gseen>>
    BY <1>11 DEF CallFails
  <2> QED  BY <2>1, ReturnTypes, TypeFrame DEF UpstreamGrows, GroupGrows, Proceeds
<1>12. ASSUME NEW z \in Zones, Restart(z) PROVE TypeOK'
  BY <1>12 DEF Restart, Return, TypeOK
<1>13. CASE UNCHANGED vars
  BY <1>13 DEF vars, TypeOK
<1> QED
  BY <1>1, <1>2, <1>3, <1>4, <1>5, <1>6, <1>7, <1>8, <1>9, <1>10, <1>11, <1>12,
     <1>13 DEF Next, ControlApi, Agent

\* Everything the agents keep stays well typed: in particular a cache and the
\* copy a Reconcile holds are always versions the object really had, and a copy
\* is never newer than the cache it came from.
THEOREM TypeCorrect == Spec => []TypeOK
<1> QED  BY TypeInit, TypeNext, PTL DEF Spec

-----------------------------------------------------------------------------
(* The finalizer protects the Group *)

\* A step changes the upstream object by a Writes step, or not at all.
LEMMA UpstreamStep ==
    ASSUME IInv, Next
    PROVE  UNCHANGED upstream \/ \E w \in UpstreamVersion : Writes(w)
<1> USE DEF IInv
<1>0. /\ Upstream \in UpstreamVersion
      /\ Upstream.phase = "absent" => Upstream.finalizers = {}
      /\ \A z \in Zones : obj[z] = Len(upstream) => upstream[obj[z]] = Upstream
  BY CurrentFacts DEF TypeOK, Upstream, Current, History
<1>1. ASSUME NEW S \in SUBSET Users, CreateUpstream(S)
      PROVE  \E w \in UpstreamVersion : Writes(w)
  <2> DEFINE w == [phase |-> "live", uid |-> Upstream.uid + 1,
                   members |-> S, finalizers |-> {}]
  <2>1. w \in UpstreamVersion /\ Successor(Upstream, w)
    BY <1>0, <1>1 DEF UpstreamVersion, Successor, CreateUpstream
  <2>2. Writes(w)
    BY <1>0, <1>1, <2>1 DEF Writes, CreateUpstream
  <2> QED  BY <2>1, <2>2
<1>2. ASSUME NEW S \in SUBSET Users, SetMembers(S)
      PROVE  UNCHANGED upstream \/ \E w \in UpstreamVersion : Writes(w)
  <2> DEFINE w == [Upstream EXCEPT !.members = S]
  <2>1. /\ w \in UpstreamVersion /\ w.finalizers = Upstream.finalizers
        /\ w.phase = Upstream.phase /\ w.uid = Upstream.uid
    BY <1>0 DEF UpstreamVersion
  <2>2. upstream' = upstream \/ upstream' = Append(upstream, w)
    BY <1>2 DEF SetMembers, Store
  <2> HIDE DEF w
  <2>3. Successor(Upstream, w)
    BY <1>0, <2>1 DEF Successor
  <2>4. UNCHANGED <<group, seen, gseen, pc, obj>>
    BY <1>2 DEF SetMembers
  <2> QED  BY <2>1, <2>2, <2>3, <2>4 DEF Writes
<1>3. CASE DeleteUpstream
  <2> DEFINE v == [Upstream EXCEPT !.phase = "deleting"]
             w == Collected(v)
  <2>1. /\ v \in UpstreamVersion /\ v.finalizers = Upstream.finalizers
        /\ v.phase = "deleting" /\ v.uid = Upstream.uid
    BY <1>0 DEF UpstreamVersion
  <2>2. /\ w \in UpstreamVersion /\ w.uid = Upstream.uid /\ w.phase # "live"
        /\ w.finalizers = Upstream.finalizers
        /\ w.phase = "absent" => w.finalizers = {}
    <3> HIDE DEF v
    <3> QED  BY <2>1, CollectedFacts DEF Collected, Removed
  <2>3. upstream' = Append(upstream, w) /\ UNCHANGED <<group, seen, gseen, pc, obj>>
    BY <1>3 DEF DeleteUpstream
  <2> HIDE DEF w
  <2>4. Successor(Upstream, w)
    BY <2>2 DEF Successor
  <2> QED  BY <2>2, <2>3, <2>4 DEF Writes
<1>4. ASSUME NEW z \in Zones, AddFinalizer(z) \/ RemoveFinalizer(z)
      PROVE  UNCHANGED upstream \/ \E w \in UpstreamVersion : Writes(w)
  <2> DEFINE copy == upstream[obj[z]]
             with == copy.finalizers \cup {z}
             without == copy.finalizers \ {z}
             v(fins) == [Upstream EXCEPT !.finalizers = fins]
             w(fins) == Collected(v(fins))
  <2>1. UNCHANGED <<group, seen, gseen>>
    BY <1>4, Zenon DEF AddFinalizer, RemoveFinalizer
  <2>2. \/ UNCHANGED upstream
        \/ pc[z] = "guard" /\ UpdateFinalizers(z, obj[z], with)
        \/ pc[z] = "lift" /\ UpdateFinalizers(z, obj[z], without)
    BY <1>4, Zenon DEF AddFinalizer, RemoveFinalizer
  <2>3. ASSUME pc[z] # "idle" PROVE obj[z] \in DOMAIN upstream /\ copy \in UpstreamVersion
    BY <2>3 DEF TypeOK
  <2>4. ASSUME NEW fins \in SUBSET Zones, pc[z] # "idle",
               UpdateFinalizers(z, obj[z], fins),
               \/ pc[z] = "guard" /\ fins = with
               \/ pc[z] = "lift" /\ fins = without
        PROVE  UNCHANGED upstream \/ \E x \in UpstreamVersion : Writes(x)
    <3>1. /\ Done(z) \/ Retry(z)
          /\ \/ UNCHANGED upstream
             \/ /\ obj[z] = Len(upstream) /\ upstream' = Append(upstream, w(fins))
                /\ v(fins) \in UpstreamVersion /\ w(fins) \in UpstreamVersion
      BY <2>3, <2>4, UpdateTypes
    <3>2. CASE /\ obj[z] = Len(upstream) /\ upstream' = Append(upstream, w(fins))
               /\ v(fins) \in UpstreamVersion /\ w(fins) \in UpstreamVersion
      <4>1. copy = Upstream
        BY <1>0, <3>2
      <4>2. copy.phase \in {"live", "deleting"}
        BY <2>4 DEF CopyFits, TypeOK
      <4>3. /\ v(fins).finalizers = fins /\ v(fins).uid = Upstream.uid
            /\ v(fins).phase = Upstream.phase
        BY <1>0 DEF UpstreamVersion
      <4>4. /\ w(fins).finalizers = fins /\ w(fins).uid = Upstream.uid
            /\ w(fins).phase = "live" => Upstream.phase = "live"
            /\ w(fins).phase = "absent" => fins = {}
        <5> HIDE DEF v
        <5> QED  BY <3>2, <4>1, <4>2, <4>3, CollectedFacts DEF Collected, Removed
      <4> HIDE DEF w, v
      <4>5. Successor(Upstream, w(fins))
        BY <4>4 DEF Successor
      <4>6. pc' = [pc EXCEPT ![z] = "idle"] /\ obj' = [obj EXCEPT ![z] = 0]
        BY <3>1, ReturnTypes
      <4>7. ASSUME NEW y \in Zones
            PROVE  /\ pc'[y] = "idle" \/ (pc'[y] = pc[y] /\ obj'[y] = obj[y])
                   /\ y \in fins \ Upstream.finalizers => pc[y] = "guard"
                   /\ y \in Upstream.finalizers \ fins =>
                        pc[y] = "lift" /\ pc'[y] = "idle" /\ obj[y] = Len(upstream)
        BY <2>4, <3>2, <4>1, <4>6 DEF TypeOK
      <4>8. Writes(w(fins))
        BY <2>1, <3>2, <4>4, <4>5, <4>7 DEF Writes
      <4> QED  BY <3>2, <4>8
    <3> QED  BY <3>1, <3>2
  <2>5. pc[z] # "idle" => with \in SUBSET Zones /\ without \in SUBSET Zones
    BY <2>3 DEF UpstreamVersion
  <2> QED  BY <2>2, <2>4, <2>5
<1>5. ASSUME NEW z \in Zones,
             \/ Administrator(z) \/ WatchUpstream(z) \/ WatchGroup(z) \/ Begin(z)
             \/ PutGroup(z) \/ DeleteGroup(z) \/ CallFails(z) \/ Restart(z)
      PROVE  UNCHANGED upstream
  BY <1>5 DEF Administrator, EditGroup, WatchUpstream, WatchGroup, Begin,
              PutGroup, DeleteGroup, CallFails, Restart
<1> QED  BY <1>1, <1>2, <1>3, <1>4, <1>5, Zenon DEF Next, ControlApi, Agent

\* The inductive invariant holds initially.
LEMMA InvInit == Init => IInv
<1> SUFFICES ASSUME Init PROVE IInv  OBVIOUS
<1>1. TypeOK
  BY TypeInit
<1>2. History(upstream)
  BY DEF Init, History, Removed
<1>3. ASSUME NEW z \in Zones PROVE CopyFits(z) /\ LiftedForGood(z)
  BY DEF Init, CopyFits, LiftedForGood, Lifted, EverGuarded, Removed
<1> QED  BY <1>1, <1>2, <1>3 DEF IInv

\* A write of the upstream object preserves the invariant: a finalizer that
\* goes is one whose agent holds the current version under deletion.
LEMMA WritesKeepInv ==
    ASSUME IInv, NEW w \in UpstreamVersion, Writes(w), TypeOK'
    PROVE  IInv'
<1>1. /\ upstream \in Seq(UpstreamVersion) /\ upstream # <<>>
      /\ History(upstream) /\ Successor(Upstream, w)
      /\ upstream' = Append(upstream, w)
      /\ UNCHANGED <<group, seen, gseen>>
  BY DEF IInv, TypeOK, Writes
<1>2. History(upstream)'
  BY <1>1, HistoryAppend DEF Upstream
<1>3. /\ Len(upstream) \in Nat /\ Len(upstream) >= 1
      /\ DOMAIN upstream = 1 .. Len(upstream)
      /\ DOMAIN upstream' = 1 .. Len(upstream) + 1
      /\ upstream'[Len(upstream) + 1] = w /\ Upstream' = w
      /\ Upstream = upstream[Len(upstream)]
      /\ \A i \in 1 .. Len(upstream) :
            /\ upstream'[i] = upstream[i]
            /\ upstream[i] \in UpstreamVersion
            /\ upstream[i].uid <= Upstream.uid
  BY <1>1, AppendFacts, CurrentFacts DEF Upstream, Current, History
<1>4. ASSUME NEW z \in Zones PROVE CopyFits(z)'
  <2>1. CASE pc'[z] = "idle"
    BY <2>1 DEF CopyFits
  <2>2. CASE pc'[z] # "idle" /\ pc'[z] = pc[z] /\ obj'[z] = obj[z]
    <3>1. obj[z] \in 1 .. Len(upstream)
      BY <1>3, <2>2 DEF IInv, TypeOK
    <3> QED  BY <1>1, <1>3, <2>2, <3>1 DEF IInv, CopyFits, GroupExists
  <2> QED  BY <2>1, <2>2 DEF Writes
<1>5. ASSUME NEW z \in Zones, Lifted(z)'
      PROVE  /\ ~GroupExists(z)' /\ upstream'[seen'[z]].uid = Upstream'.uid
             /\ upstream'[seen'[z]].phase # "live"
             /\ pc'[z] \notin {"put", "guard"}
  <2>1. PICK i \in 1 .. Len(upstream) + 1 :
            upstream'[i].uid = w.uid /\ z \in upstream'[i].finalizers
    BY <1>3, <1>5 DEF Lifted, EverGuarded
  <2>2. z \notin w.finalizers
    BY <1>3, <1>5 DEF Lifted
  <2>3. i \in 1 .. Len(upstream)
    BY <1>3, <2>1, <2>2
  <2>4. /\ upstream[i].uid = w.uid /\ z \in upstream[i].finalizers
        /\ upstream[i].uid <= Upstream.uid
        /\ Upstream.uid \in Nat
    BY <1>3, <2>1, <2>3 DEF UpstreamVersion
  <2>5. w.uid = Upstream.uid
    BY <1>1, <2>4 DEF Successor
  <2>6. EverGuarded(z, Upstream.uid)
    BY <1>3, <2>3, <2>4, <2>5 DEF EverGuarded
  <2>7. seen'[z] = seen[z] /\ seen[z] \in 1 .. Len(upstream) /\ group'[z] = group[z]
    BY <1>1 DEF IInv, TypeOK
  <2>8. CASE z \notin Upstream.finalizers
    <3>1. /\ ~GroupExists(z) /\ upstream[seen[z]].uid = Upstream.uid
          /\ upstream[seen[z]].phase # "live" /\ pc[z] \notin {"put", "guard"}
      BY <2>6, <2>8 DEF IInv, LiftedForGood, Lifted
    <3>2. pc'[z] \notin {"put", "guard"}
      BY <3>1 DEF Writes
    <3> QED  BY <1>3, <2>5, <2>7, <3>1, <3>2 DEF GroupExists
  <2>9. CASE z \in Upstream.finalizers
    <3>1. pc[z] = "lift" /\ pc'[z] = "idle" /\ obj[z] = Len(upstream)
      BY <2>2, <2>9 DEF Writes
    <3>2. upstream[obj[z]].phase = "deleting" /\ ~GroupExists(z)
      BY <3>1 DEF IInv, CopyFits
    <3>3. obj[z] <= seen[z]
      BY DEF IInv, TypeOK
    <3>4. seen[z] = Len(upstream)
      BY <1>3, <2>7, <3>1, <3>3
    <3> QED  BY <1>3, <2>5, <2>7, <3>1, <3>2, <3>4 DEF GroupExists
  <2> QED  BY <2>8, <2>9
<1>6. ASSUME NEW z \in Zones PROVE LiftedForGood(z)'
  BY <1>5 DEF LiftedForGood
<1> QED  BY <1>2, <1>4, <1>6 DEF IInv

\* A cache that moves forward cannot leave a deletion behind.
LEMMA CachesMoveForward ==
    ASSUME IInv, UNCHANGED upstream, NEW z \in Zones,
           seen'[z] \in seen[z] .. Len(upstream), UNCHANGED group,
           pc'[z] = pc[z] \/ pc'[z] = "idle", LiftedForGood(z)
    PROVE  LiftedForGood(z)'
<1> SUFFICES ASSUME Lifted(z)
             PROVE  /\ ~GroupExists(z)' /\ upstream[seen'[z]].uid = Upstream.uid
                    /\ upstream[seen'[z]].phase # "live"
                    /\ pc'[z] \notin {"put", "guard"}
  BY DEF LiftedForGood, Lifted, EverGuarded, Upstream
<1>1. /\ ~GroupExists(z) /\ upstream[seen[z]].uid = Upstream.uid
      /\ upstream[seen[z]].phase # "live" /\ pc[z] \notin {"put", "guard"}
  BY DEF LiftedForGood
<1>2. /\ Len(upstream) \in Nat /\ DOMAIN upstream = 1 .. Len(upstream)
      /\ seen[z] \in 1 .. Len(upstream)
      /\ seen'[z] \in 1 .. Len(upstream) /\ seen[z] <= seen'[z]
      /\ seen'[z] <= Len(upstream) /\ Len(upstream) \in DOMAIN upstream
  BY CurrentFacts DEF IInv, TypeOK
<1>3. /\ upstream[seen[z]].uid \in Nat /\ upstream[seen'[z]].uid \in Nat
      /\ Upstream.uid \in Nat
  <2>1. \A i \in 1 .. Len(upstream) : upstream[i] \in UpstreamVersion
    BY DEF IInv, TypeOK
  <2> QED  BY <1>2, <2>1 DEF UpstreamVersion, Upstream, Current
<1>4. /\ upstream[seen[z]].uid <= upstream[seen'[z]].uid
      /\ upstream[seen'[z]].uid <= Upstream.uid
      /\ upstream[seen[z]].uid = upstream[seen'[z]].uid
            /\ upstream[seen'[z]].phase = "live" => upstream[seen[z]].phase = "live"
  BY <1>2 DEF IInv, History, Upstream, Current
<1>5. upstream[seen'[z]].uid = Upstream.uid
  BY <1>1, <1>3, <1>4
<1>6. upstream[seen'[z]].phase # "live"
  BY <1>1, <1>4, <1>5
<1> QED  BY <1>1, <1>5, <1>6 DEF GroupExists

\* Every step preserves the inductive invariant.
LEMMA InvNext == IInv /\ [Next]_vars => IInv'
<1> SUFFICES ASSUME IInv, [Next]_vars PROVE IInv'  OBVIOUS
<1>1. TypeOK'
  BY TypeNext DEF IInv
<1>2. CASE UNCHANGED vars
  BY <1>2 DEF vars, IInv, TypeOK, History, CopyFits, LiftedForGood, Lifted,
              EverGuarded, GroupExists, Upstream, Current
<1>3. CASE \E w \in UpstreamVersion : Writes(w)
  BY <1>1, <1>3, WritesKeepInv
<1>4. ASSUME Next, UNCHANGED upstream PROVE IInv'
  <2> DEFINE Kept(y) == CopyFits(y)' /\ LiftedForGood(y)'
  <2>0. /\ TypeOK /\ UNCHANGED upstream
        /\ \A y \in Zones : CopyFits(y) /\ LiftedForGood(y)
    BY <1>4 DEF IInv
  <2>1. SUFFICES \A y \in Zones : Kept(y)
    BY <1>1, <1>4 DEF IInv
  \* Nothing changed for zone y.
  <2>2. ASSUME NEW y \in Zones, pc'[y] = pc[y], obj'[y] = obj[y],
               seen'[y] = seen[y], group'[y] = group[y]
        PROVE  Kept(y)
    BY <2>0, <2>2 DEF CopyFits, LiftedForGood, Lifted, EverGuarded, GroupExists,
                      Upstream, Current
  \* Reconcile of zone y returned.
  <2>3. ASSUME NEW y \in Zones, pc'[y] = "idle", seen'[y] = seen[y],
               group'[y] = group[y]
        PROVE  Kept(y)
    BY <2>0, <2>3 DEF CopyFits, LiftedForGood, Lifted, EverGuarded, GroupExists,
                      Upstream, Current
  <2>4. CASE ControlApi
    BY <2>2, <2>4 DEF ControlApi, CreateUpstream, SetMembers, DeleteUpstream
  <2>5. ASSUME NEW z \in Zones, Administrator(z) PROVE \A y \in Zones : Kept(y)
    <3>1. PICK g : EditGroup(z, g)
      BY <2>5 DEF Administrator
    <3>2. ASSUME NEW y \in Zones, y # z PROVE Kept(y)
      BY <2>0, <2>2, <3>1, <3>2 DEF EditGroup, TypeOK
    <3>3. pc[z] # "lift" /\ ~Lifted(z)
      BY <2>0, <3>1 DEF EditGroup, CopyFits, LiftedForGood
    <3>4. Kept(z)
      BY <2>0, <3>1, <3>3 DEF EditGroup, CopyFits, LiftedForGood, Lifted,
                              EverGuarded, Upstream, Current
    <3> QED  BY <3>2, <3>4
  <2>6. ASSUME NEW z \in Zones, WatchUpstream(z) PROVE \A y \in Zones : Kept(y)
    <3>1. /\ UNCHANGED <<group, pc, obj>>
          /\ seen'[z] \in seen[z] .. Len(upstream)
          /\ \A y \in Zones : y # z => seen'[y] = seen[y]
      BY <2>0, <2>6 DEF WatchUpstream, Behind, TypeOK
    <3>2. Kept(z)
      BY <2>0, <3>1, CachesMoveForward DEF CopyFits, GroupExists
    <3> QED  BY <2>2, <3>1, <3>2
  <2>7. ASSUME NEW z \in Zones, WatchGroup(z) PROVE \A y \in Zones : Kept(y)
    BY <2>2, <2>7 DEF WatchGroup
  <2>8. ASSUME NEW z \in Zones, Begin(z) PROVE \A y \in Zones : Kept(y)
    <3>1. UNCHANGED <<group, seen>>
      BY <2>8 DEF Begin
    <3>2. \A y \in Zones : y # z => pc'[y] = pc[y] /\ obj'[y] = obj[y]
      BY <2>0, <2>8 DEF Begin, TypeOK
    <3>3. CASE UNCHANGED <<pc, obj>>
      BY <2>2, <3>1, <3>3
    <3>4. CASE /\ obj'[z] = seen[z]
               /\ pc'[z] = IF upstream[seen[z]].phase = "deleting"
                              THEN "delete" ELSE "put"
               /\ upstream[seen[z]].phase \in {"live", "deleting"}
      BY <2>0, <2>2, <3>1, <3>2, <3>4 DEF CopyFits, LiftedForGood, Lifted,
            EverGuarded, GroupExists, Upstream, Current
    <3>5. upstream[seen[z]].phase \in {"absent", "live", "deleting"}
      <4>1. upstream[seen[z]] \in UpstreamVersion
        BY <2>0 DEF TypeOK
      <4> QED  BY <4>1 DEF UpstreamVersion
    <3> QED  BY <2>0, <2>8, <3>3, <3>4, <3>5 DEF Begin, TypeOK
  <2>9. ASSUME NEW z \in Zones, PutGroup(z) PROVE \A y \in Zones : Kept(y)
    <3>1. /\ pc[z] = "put" /\ UNCHANGED seen
          /\ \A y \in Zones : y # z => /\ pc'[y] = pc[y] /\ obj'[y] = obj[y]
                                       /\ group'[y] = group[y]
      BY <2>0, <2>9 DEF PutGroup, Retry, Return, TypeOK
    <3>2. ~Lifted(z)
      BY <2>0, <3>1 DEF LiftedForGood
    <3>3. LiftedForGood(z)'
      BY <2>0, <3>2 DEF LiftedForGood, Lifted, EverGuarded, Upstream, Current
    <3>4. CopyFits(z)'
      BY <2>0, <2>9, <3>1 DEF PutGroup, Retry, Return, CopyFits, TypeOK
    <3> QED  BY <2>2, <3>1, <3>3, <3>4
  <2>10. ASSUME NEW z \in Zones,
                AddFinalizer(z) \/ RemoveFinalizer(z) \/ CallFails(z)
         PROVE  \A y \in Zones : Kept(y)
    <3>1. UNCHANGED <<group, seen>> /\ Return(z)
      BY <2>10, Zenon DEF AddFinalizer, RemoveFinalizer, CallFails,
                          UpdateFinalizers, Done, Retry
    <3> QED  BY <2>0, <2>2, <2>3, <3>1 DEF Return, TypeOK
  <2>11. ASSUME NEW z \in Zones, DeleteGroup(z) PROVE \A y \in Zones : Kept(y)
    <3>1. /\ pc[z] = "delete" /\ pc'[z] = "lift" /\ UNCHANGED <<seen, obj>>
          /\ \A y \in Zones : y # z => pc'[y] = pc[y] /\ group'[y] = group[y]
          /\ group'[z] = Store(group[z], NoGroup) /\ group[z] \in Seq(GroupVersion)
      BY <2>0, <2>11 DEF DeleteGroup, TypeOK
    <3>2. ~GroupExists(z)'
      <4>1. Current(group'[z]) = NoGroup
        BY <3>1 DEF Store, Current, NoGroup, GroupVersion
      <4> QED  BY <4>1 DEF GroupExists, NoGroup
    <3>3. Kept(z)
      BY <2>0, <3>1, <3>2 DEF CopyFits, LiftedForGood, Lifted, EverGuarded,
                              Upstream, Current
    <3> QED  BY <2>2, <3>1, <3>3
  <2>12. ASSUME NEW z \in Zones, Restart(z) PROVE \A y \in Zones : Kept(y)
    <3>1. /\ UNCHANGED group /\ pc'[z] = "idle"
          /\ seen'[z] \in seen[z] .. Len(upstream)
          /\ \A y \in Zones : y # z => /\ pc'[y] = pc[y] /\ obj'[y] = obj[y]
                                       /\ seen'[y] = seen[y]
      BY <2>0, <2>12 DEF Restart, Return, TypeOK
    <3>2. Kept(z)
      BY <2>0, <3>1, CachesMoveForward DEF CopyFits
    <3> QED  BY <2>2, <3>1, <3>2
  <2> QED
    BY <1>4, <2>4, <2>5, <2>6, <2>7, <2>8, <2>9, <2>10, <2>11, <2>12
       DEF Next, Agent
<1> QED  BY <1>2, <1>3, <1>4, UpstreamStep

\* From the moment an agent's finalizer is on an upstream object, its zone has
\* the Group only while the finalizer is there, for any number of zones, any
\* staleness of the caches, failing calls and restarts.
THEOREM FinalizerSafe == Spec => []FinalizerProtectsGroup
<1>1. IInv => FinalizerProtectsGroup
  BY DEF IInv, LiftedForGood, Lifted, FinalizerProtectsGroup
<1> QED  BY <1>1, InvInit, InvNext, PTL DEF Spec

\* A zone's finalizer is only ever added or removed by that zone's own agent,
\* although every agent writes the whole list of finalizers from a stale copy.
THEOREM FinalizersAreOwn == Spec => OwnFinalizerOnly
<1> DEFINE A == \A z \in Zones :
        /\ z \in Upstream'.finalizers \ Upstream.finalizers => pc[z] = "guard"
        /\ z \in Upstream.finalizers \ Upstream'.finalizers => pc[z] = "lift"
<1>1. IInv /\ [Next]_vars => [A]_vars
  <2> SUFFICES ASSUME IInv, Next PROVE A
    OBVIOUS
  <2>1. CASE UNCHANGED upstream
    BY <2>1 DEF Upstream, Current
  <2>2. ASSUME NEW w \in UpstreamVersion, Writes(w) PROVE A
    <3>1. Upstream' = w
      BY <2>2, AppendFacts DEF IInv, TypeOK, Writes, Upstream
    <3> QED  BY <2>2, <3>1 DEF Writes
  <2> QED  BY <2>1, <2>2, UpstreamStep
<1> QED  BY <1>1, InvInit, InvNext, PTL DEF Spec, OwnFinalizerOnly
=============================================================================
