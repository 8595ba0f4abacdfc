------------------------- MODULE UsageProfileProofs -------------------------
(***************************************************************************)
(* Proofs about UsageProfile, for any profiles, Namespaces, specs and      *)
(* number of edits.                                                        *)
(***************************************************************************)
EXTENDS UsageProfile, TLAPS

\* Between the read of a resource and its overwrite nobody gives it another
\* profile's label: there is one worker, and users only take labels away.
LabelHeld(n) ==
    got[n] # 0 => Current(res[n]).label \in {Absent, res[n][got[n]].label}

IInv == TypeOK /\ \A n \in Namespaces : LabelHeld(n)

-----------------------------------------------------------------------------
(* Logs *)

\* One of the logs, or none, has got one version more.
Grew(K, S, old, new) ==
    \/ new = old
    \/ \E k \in K, v \in S : new = [old EXCEPT ![k] = Append(old[k], v)]

\* What Append does to a log.
LEMMA AppendFacts ==
    ASSUME NEW S, NEW log \in Seq(S), NEW v \in S
    PROVE  /\ Append(log, v) \in Seq(S)
           /\ Len(log) \in Nat
           /\ Len(Append(log, v)) = Len(log) + 1
           /\ Current(Append(log, v)) = v
           /\ \A i \in 1 .. Len(log) : Append(log, v)[i] = log[i]
  BY DEF Current

\* Logs that grow keep their type and do not get shorter.
LEMMA GrewFacts ==
    ASSUME NEW K, NEW S, NEW old \in [K -> Seq(S)], NEW new, Grew(K, S, old, new)
    PROVE  /\ new \in [K -> Seq(S)]
           /\ \A k \in K : /\ Len(old[k]) \in Nat /\ Len(new[k]) \in Nat
                           /\ Len(old[k]) <= Len(new[k])
<1>1. CASE new = old
  BY <1>1
<1>2. ASSUME NEW c \in K, NEW v \in S, new = [old EXCEPT ![c] = Append(old[c], v)]
      PROVE  /\ new \in [K -> Seq(S)]
             /\ \A k \in K : /\ Len(old[k]) \in Nat /\ Len(new[k]) \in Nat
                             /\ Len(old[k]) <= Len(new[k])
  <2>1. /\ old[c] \in Seq(S) /\ Append(old[c], v) \in Seq(S) /\ Len(old[c]) \in Nat
        /\ Len(Append(old[c], v)) = Len(old[c]) + 1
    BY AppendFacts
  <2>2. new \in [K -> Seq(S)] /\ new[c] = Append(old[c], v)
        /\ \A k \in K \ {c} : new[k] = old[k]
    BY <1>2, <2>1
  <2>3. \A k \in K : Len(old[k]) \in Nat
    OBVIOUS
  <2> QED  BY <2>1, <2>2, <2>3
<1> QED  BY <1>1, <1>2 DEF Grew

\* Storing a version lets the log grow, or changes nothing.
LEMMA StoreGrows ==
    ASSUME NEW K, NEW S, NEW old \in [K -> Seq(S)], NEW c \in K, NEW v \in S
    PROVE  Grew(K, S, old, [old EXCEPT ![c] = Store(@, v)])
<1>1. CASE v = Current(old[c])
  BY <1>1 DEF Store, Grew
<1>2. CASE v # Current(old[c])
  BY <1>2 DEF Store, Grew
<1> QED  BY <1>1, <1>2

-----------------------------------------------------------------------------
(* What the steps do to each part of the state *)

ObjectsGrow ==
    /\ Grew(Profiles, Specs \cup {Absent}, upstream, upstream')
    /\ Grew(Profiles, Specs \cup {Absent}, zone, zone')
    /\ Grew(Namespaces, NsVersion, ns, ns')
    /\ Grew(Namespaces, Resource, res, res')

CachesMove ==
    /\ useen' \in [Profiles -> Nat] /\ zseen' \in [Profiles -> Nat]
    /\ \A p \in Profiles : /\ useen'[p] \in 1 .. Len(upstream[p])
                           /\ zseen'[p] \in 1 .. Len(zone[p])
    /\ nseen' \in [Namespaces -> Nat] /\ rseen' \in [Namespaces -> Nat]
    /\ \A n \in Namespaces : /\ nseen'[n] \in nseen[n] .. Len(ns[n])
                             /\ rseen'[n] \in 0 .. Len(res[n])

Proceeds ==
    /\ todo' \in [Namespaces -> Nat] /\ got' \in [Namespaces -> Nat]
    /\ \A n \in Namespaces :
        /\ todo'[n] \in 0 .. nseen[n] /\ got'[n] \in 0 .. Len(res[n])
        /\ got'[n] # 0 => todo'[n] # 0
    /\ run' \in Runs \cup {Absent}
    /\ run' = Absent <=> \A n \in Namespaces : todo'[n] = 0
    /\ failed' \in BOOLEAN

QueuesMove ==
    /\ syncQueue' \subseteq Profiles /\ applyQueue' \subseteq Profiles
    /\ watching' \in BOOLEAN /\ edits' \in 0 .. MaxEdits

\* A resource that stays as it is, is let go of, or loses its label.
LabelKept(n) ==
    \/ got'[n] = 0
    \/ res'[n] = res[n] /\ got'[n] \in {got[n], Len(res[n])}
    \/ /\ got'[n] = got[n]
       /\ \E v \in Resource : /\ res'[n] = Append(res[n], v)
                              /\ v.label \in {Absent, Current(res[n]).label}

\* Types of the state that the steps below start from.
LEMMA TypeFacts ==
    ASSUME TypeOK
    PROVE  /\ \A p \in Profiles :
                /\ Len(upstream[p]) \in Nat /\ Len(zone[p]) \in Nat
                /\ upstream[p] \in Seq(Specs \cup {Absent})
                /\ zone[p] \in Seq(Specs \cup {Absent})
                /\ useen[p] \in 1 .. Len(upstream[p]) /\ zseen[p] \in 1 .. Len(zone[p])
                /\ upstream[p][useen[p]] \in Specs \cup {Absent}
                /\ zone[p][zseen[p]] \in Specs \cup {Absent}
           /\ \A n \in Namespaces :
                /\ Len(ns[n]) \in Nat /\ Len(res[n]) \in Nat
                /\ ns[n] \in Seq(NsVersion)
                /\ res[n] \in Seq(Resource) /\ Len(res[n]) >= 1
                /\ nseen[n] \in 1 .. Len(ns[n]) /\ rseen[n] \in 0 .. Len(res[n])
                /\ todo[n] \in 0 .. nseen[n] /\ got[n] \in 0 .. Len(res[n])
<1>1. ASSUME NEW p \in Profiles
      PROVE  /\ Len(upstream[p]) \in Nat /\ Len(zone[p]) \in Nat
             /\ upstream[p] \in Seq(Specs \cup {Absent})
             /\ zone[p] \in Seq(Specs \cup {Absent})
             /\ useen[p] \in 1 .. Len(upstream[p]) /\ zseen[p] \in 1 .. Len(zone[p])
             /\ upstream[p][useen[p]] \in Specs \cup {Absent}
             /\ zone[p][zseen[p]] \in Specs \cup {Absent}
  <2>1. /\ upstream[p] \in Seq(Specs \cup {Absent})
        /\ zone[p] \in Seq(Specs \cup {Absent})
        /\ useen[p] \in 1 .. Len(upstream[p]) /\ zseen[p] \in 1 .. Len(zone[p])
    BY DEF TypeOK
  <2> QED  BY <2>1
<1>2. ASSUME NEW n \in Namespaces
      PROVE  /\ Len(ns[n]) \in Nat /\ Len(res[n]) \in Nat
             /\ ns[n] \in Seq(NsVersion)
             /\ res[n] \in Seq(Resource) /\ Len(res[n]) >= 1
             /\ nseen[n] \in 1 .. Len(ns[n]) /\ rseen[n] \in 0 .. Len(res[n])
             /\ todo[n] \in 0 .. nseen[n] /\ got[n] \in 0 .. Len(res[n])
  <2>1. /\ ns[n] \in Seq(NsVersion) /\ res[n] \in Seq(Resource) /\ res[n] # <<>>
        /\ nseen[n] \in 1 .. Len(ns[n]) /\ rseen[n] \in 0 .. Len(res[n])
        /\ todo[n] \in 0 .. nseen[n] /\ got[n] \in 0 .. Len(res[n])
    BY DEF TypeOK
  <2> QED  BY <2>1
<1> QED  BY <1>1, <1>2

\* A step whose parts do just this keeps the types.
LEMMA TypeFrame ==
    ASSUME TypeOK, ObjectsGrow, CachesMove, Proceeds, QueuesMove
    PROVE  TypeOK'
<1>1. /\ upstream' \in [Profiles -> Seq(Specs \cup {Absent})]
      /\ \A p \in Profiles : Len(upstream'[p]) \in Nat /\ Len(upstream[p]) <= Len(upstream'[p])
  <2>1. upstream \in [Profiles -> Seq(Specs \cup {Absent})]
    BY DEF TypeOK
  <2> QED  BY <2>1, GrewFacts DEF ObjectsGrow
<1>2. /\ zone' \in [Profiles -> Seq(Specs \cup {Absent})]
      /\ \A p \in Profiles : Len(zone'[p]) \in Nat /\ Len(zone[p]) <= Len(zone'[p])
  <2>1. zone \in [Profiles -> Seq(Specs \cup {Absent})]
    BY DEF TypeOK
  <2> QED  BY <2>1, GrewFacts DEF ObjectsGrow
<1>3. /\ ns' \in [Namespaces -> Seq(NsVersion)]
      /\ \A n \in Namespaces : Len(ns'[n]) \in Nat /\ Len(ns[n]) <= Len(ns'[n])
  <2>1. ns \in [Namespaces -> Seq(NsVersion)]
    BY DEF TypeOK
  <2> QED  BY <2>1, GrewFacts DEF ObjectsGrow
<1>4. /\ res' \in [Namespaces -> Seq(Resource) \ {<<>>}]
      /\ \A n \in Namespaces : Len(res'[n]) \in Nat /\ Len(res[n]) <= Len(res'[n])
  <2>1. res \in [Namespaces -> Seq(Resource)]
    BY DEF TypeOK
  <2>2. /\ res' \in [Namespaces -> Seq(Resource)]
        /\ \A n \in Namespaces : Len(res'[n]) \in Nat /\ Len(res[n]) <= Len(res'[n])
    BY <2>1, GrewFacts DEF ObjectsGrow
  <2>3. \A n \in Namespaces : res'[n] # <<>>
    BY <2>2, TypeFacts
  <2> QED  BY <2>2, <2>3
<1>5. \A p \in Profiles : /\ useen'[p] \in 1 .. Len(upstream'[p])
                          /\ zseen'[p] \in 1 .. Len(zone'[p])
  BY <1>1, <1>2, TypeFacts DEF CachesMove
<1>6. ASSUME NEW n \in Namespaces
      PROVE  /\ nseen'[n] \in 1 .. Len(ns'[n]) /\ rseen'[n] \in 0 .. Len(res'[n])
             /\ todo'[n] \in 0 .. nseen'[n] /\ got'[n] \in 0 .. Len(res'[n])
  <2>1. /\ nseen'[n] \in nseen[n] .. Len(ns[n]) /\ rseen'[n] \in 0 .. Len(res[n])
        /\ todo'[n] \in 0 .. nseen[n] /\ got'[n] \in 0 .. Len(res[n])
    BY DEF CachesMove, Proceeds
  <2>2. /\ nseen[n] \in 1 .. Len(ns[n]) /\ Len(ns[n]) \in Nat
        /\ Len(res[n]) \in Nat
    BY TypeFacts
  <2> QED  BY <1>3, <1>4, <2>1, <2>2
<1> QED  BY <1>1, <1>2, <1>3, <1>4, <1>5, <1>6
         DEF TypeOK, CachesMove, Proceeds, QueuesMove

\* A resource whose label is kept stays what Reconcile has read, or nobody's.
LEMMA HeldFrame ==
    ASSUME IInv, NEW n \in Namespaces, LabelKept(n)
    PROVE  LabelHeld(n)'
<1>0. /\ res[n] \in Seq(Resource) /\ Len(res[n]) \in Nat
      /\ got[n] \in 0 .. Len(res[n]) /\ LabelHeld(n)
  BY TypeFacts DEF IInv
<1>1. CASE got'[n] = 0
  BY <1>1 DEF LabelHeld
<1>2. CASE res'[n] = res[n] /\ got'[n] \in {got[n], Len(res[n])}
  BY <1>0, <1>2 DEF LabelHeld, Current
<1>3. ASSUME NEW v \in Resource, got'[n] = got[n], got[n] # 0,
             res'[n] = Append(res[n], v),
             v.label \in {Absent, Current(res[n]).label}
      PROVE  LabelHeld(n)'
  <2>1. Current(res'[n]) = v /\ res'[n][got[n]] = res[n][got[n]]
    BY <1>0, <1>3, AppendFacts
  <2>2. Current(res[n]).label \in {Absent, res[n][got[n]].label}
    BY <1>0, <1>3 DEF LabelHeld
  <2>3. Current(res'[n]).label \in {Absent, res'[n][got'[n]].label}
    BY <1>3, <2>1, <2>2
  <2> QED  BY <2>3 DEF LabelHeld, Current
<1> QED  BY <1>1, <1>2, <1>3 DEF LabelKept

-----------------------------------------------------------------------------
(* The steps *)

\* Both parts of the invariant, from what a step does.
LEMMA Frame ==
    ASSUME IInv, ObjectsGrow, CachesMove, Proceeds, QueuesMove,
           \A n \in Namespaces : LabelKept(n)
    PROVE  IInv'
<1>1. TypeOK'
  BY TypeFrame DEF IInv
<1>2. \A n \in Namespaces : LabelHeld(n)'
  BY HeldFrame
<1> QED  BY <1>1, <1>2 DEF IInv

\* What a step that leaves a part alone does to it.
LEMMA Quiet ==
    ASSUME IInv
    PROVE  /\ UNCHANGED <<upstream, zone, ns, res>> => ObjectsGrow
           /\ UNCHANGED caches => CachesMove
           /\ UNCHANGED apply => Proceeds
           /\ UNCHANGED <<syncQueue, applyQueue, watching>> /\ Edit => QueuesMove
           /\ UNCHANGED <<res, got>> => \A n \in Namespaces : LabelKept(n)
<1>1. UNCHANGED <<upstream, zone, ns, res>> => ObjectsGrow
  BY DEF ObjectsGrow, Grew
<1>2. UNCHANGED caches => CachesMove
  <2> SUFFICES ASSUME UNCHANGED caches PROVE CachesMove
    OBVIOUS
  <2>1. UNCHANGED <<useen, zseen, nseen, rseen>>
    BY DEF caches
  <2>2. \A n \in Namespaces : nseen[n] \in nseen[n] .. Len(ns[n])
    BY TypeFacts DEF IInv
  <2> QED  BY <2>1, <2>2 DEF CachesMove, IInv, TypeOK
<1>3. UNCHANGED apply => Proceeds
  BY DEF apply, Proceeds, IInv, TypeOK
<1>4. UNCHANGED <<syncQueue, applyQueue, watching>> /\ Edit => QueuesMove
  <2>1. Edit => edits' \in 0 .. MaxEdits
    BY ProfileAssumption DEF Edit, IInv, TypeOK
  <2> QED  BY <2>1 DEF QueuesMove, IInv, TypeOK
<1>5. UNCHANGED <<res, got>> => \A n \in Namespaces : LabelKept(n)
  BY DEF LabelKept
<1> QED  BY <1>1, <1>2, <1>3, <1>4, <1>5

\* What the control API and users do.
LEMMA SetUpstreamStep ==
    ASSUME IInv, NEW p \in Profiles, NEW v \in Specs \cup {Absent}, SetUpstream(p, v)
    PROVE  IInv'
<1>1. upstream \in [Profiles -> Seq(Specs \cup {Absent})]
  BY DEF IInv, TypeOK
<1>2. /\ upstream' = [upstream EXCEPT ![p] = Store(@, v)] /\ Edit
      /\ UNCHANGED <<zone, ns, res, caches, watching, syncQueue, applyQueue, apply>>
  BY DEF SetUpstream
<1>3. ObjectsGrow
  <2>1. Grew(Profiles, Specs \cup {Absent}, upstream, upstream')
    BY <1>1, <1>2, StoreGrows
  <2> QED  BY <1>2, <2>1 DEF ObjectsGrow, Grew
<1>4. UNCHANGED got
  BY <1>2 DEF apply
<1> QED  BY <1>2, <1>3, <1>4, Quiet, Frame

LEMMA EditNamespaceStep ==
    ASSUME IInv, NEW n \in Namespaces, NEW v \in NsVersion, EditNamespace(n, v)
    PROVE  IInv'
<1>1. ns \in [Namespaces -> Seq(NsVersion)]
  BY DEF IInv, TypeOK
<1>2. /\ ns' = [ns EXCEPT ![n] = Store(@, v)] /\ Edit
      /\ UNCHANGED <<upstream, zone, res, caches, watching, syncQueue, applyQueue, apply>>
  BY DEF EditNamespace
<1>3. ObjectsGrow
  <2>1. Grew(Namespaces, NsVersion, ns, ns')
    BY <1>1, <1>2, StoreGrows
  <2> QED  BY <1>2, <2>1 DEF ObjectsGrow, Grew
<1>4. UNCHANGED got
  BY <1>2 DEF apply
<1> QED  BY <1>2, <1>3, <1>4, Quiet, Frame

\* A resource and what users make of it: they add no label.
LEMMA UserVersionFacts ==
    ASSUME NEW u \in Resource, NEW v \in UserVersions(u)
    PROVE  v \in Resource /\ v.label \in {Absent, u.label}
<1>1. CASE v = None
  BY <1>1 DEF None, Resource
<1>2. CASE v = [u EXCEPT !.label = Absent]
  BY <1>2 DEF Resource
<1>3. CASE v = [u EXCEPT !.owner = Absent]
  BY <1>3 DEF Resource
<1>4. CASE \E c \in Content : v = [u EXCEPT !.content = c]
  BY <1>4 DEF Resource
<1> QED  BY <1>1, <1>2, <1>3, <1>4 DEF UserVersions

\* The versions of a resource that steps look at.
LEMMA ResourceFacts ==
    ASSUME IInv, NEW n \in Namespaces
    PROVE  /\ res \in [Namespaces -> Seq(Resource)]
           /\ res[n] \in Seq(Resource) /\ Len(res[n]) \in Nat
           /\ Current(res[n]) \in Resource
           /\ got[n] # 0 => res[n][got[n]] \in Resource
<1>1. /\ res[n] \in Seq(Resource) /\ Len(res[n]) \in Nat /\ Len(res[n]) >= 1
      /\ got[n] \in 0 .. Len(res[n])
  BY TypeFacts DEF IInv
<1>2. res \in [Namespaces -> Seq(Resource)]
  BY DEF IInv, TypeOK
<1> QED  BY <1>1, <1>2 DEF Current

LEMMA EditResourceStep ==
    ASSUME IInv, NEW n \in Namespaces, NEW v \in UserVersions(Current(res[n])),
           EditResource(n, v)
    PROVE  IInv'
<1>1. v \in Resource /\ v.label \in {Absent, Current(res[n]).label}
  BY ResourceFacts, UserVersionFacts
<1>2. /\ res' = [res EXCEPT ![n] = Store(@, v)] /\ Edit
      /\ UNCHANGED <<upstream, zone, ns, caches, watching, syncQueue, applyQueue, apply>>
  BY DEF EditResource
<1>3. ObjectsGrow
  <2>1. Grew(Namespaces, Resource, res, res')
    BY <1>1, <1>2, StoreGrows, ResourceFacts
  <2> QED  BY <1>2, <2>1 DEF ObjectsGrow, Grew
<1>4. UNCHANGED got
  BY <1>2 DEF apply
<1>5. ASSUME NEW m \in Namespaces
      PROVE  LabelKept(m)
  <2>1. res'[m] = res[m] \/ (m = n /\ res'[m] = Append(res[m], v))
    BY <1>2, ResourceFacts DEF Store
  <2> QED  BY <1>1, <1>4, <2>1 DEF LabelKept
<1> QED  BY <1>2, <1>3, <1>5, Quiet, Frame

\* Sync appends what is upstream to the log of the zone's profile.
LEMMA SyncStep ==
    ASSUME IInv, NEW p \in Profiles, Sync(p)
    PROVE  IInv'
<1>1. UNCHANGED zone \/ zone' = [zone EXCEPT ![p] = Append(zone[p], upstream[p][useen[p]])]
  BY DEF Sync
<1>2. Grew(Profiles, Specs \cup {Absent}, zone, zone')
  <2>1. upstream[p][useen[p]] \in Specs \cup {Absent}
    BY TypeFacts DEF IInv
  <2> QED  BY <1>1, <2>1 DEF Grew
<1>3. UNCHANGED <<upstream, ns, res, caches, watching, applyQueue, apply, edits>>
  BY DEF Sync
<1>4. ObjectsGrow
  BY <1>2, <1>3 DEF ObjectsGrow, Grew
<1>5. syncQueue' \subseteq Profiles
  BY DEF Sync, IInv, TypeOK
<1>6. QueuesMove
  BY <1>3, <1>5 DEF QueuesMove, IInv, TypeOK
<1>7. UNCHANGED got
  BY <1>3 DEF apply
<1> QED  BY <1>3, <1>4, <1>6, <1>7, Quiet, Frame

\* Watches move a cache inside its log and enqueue profiles.
LEMMA WatchStep ==
    ASSUME IInv,
           \/ \E p \in Profiles : WatchUpstream(p) \/ WatchZone(p)
           \/ \E n \in Namespaces : WatchNamespace(n) \/ WatchResource(n)
    PROVE  IInv'
<1>1. UNCHANGED <<upstream, zone, ns, res, watching, apply, edits>>
  BY DEF WatchUpstream, WatchZone, WatchNamespace, WatchResource
<1>2. /\ useen \in [Profiles -> Nat] /\ zseen \in [Profiles -> Nat]
      /\ nseen \in [Namespaces -> Nat] /\ rseen \in [Namespaces -> Nat]
      /\ syncQueue \subseteq Profiles /\ applyQueue \subseteq Profiles
      /\ watching \in BOOLEAN /\ edits \in 0 .. MaxEdits /\ TypeOK
  BY DEF IInv, TypeOK
<1>3. CachesMove /\ syncQueue' \subseteq Profiles /\ applyQueue' \subseteq Profiles
  <2>1. ASSUME NEW p \in Profiles, WatchUpstream(p)
        PROVE  CachesMove /\ syncQueue' \subseteq Profiles /\ applyQueue' \subseteq Profiles
    <3>1. CachesMove
      BY <1>2, <2>1, TypeFacts DEF WatchUpstream, CachesMove, Behind
    <3> QED  BY <1>2, <2>1, <3>1 DEF WatchUpstream
  <2>2. ASSUME NEW p \in Profiles, WatchZone(p)
        PROVE  CachesMove /\ syncQueue' \subseteq Profiles /\ applyQueue' \subseteq Profiles
    <3>1. CachesMove
      BY <1>2, <2>2, TypeFacts DEF WatchZone, CachesMove, Behind
    <3> QED  BY <1>2, <2>2, <3>1 DEF WatchZone
  <2>3. ASSUME NEW n \in Namespaces, WatchNamespace(n)
        PROVE  CachesMove /\ syncQueue' \subseteq Profiles /\ applyQueue' \subseteq Profiles
    <3>1. CachesMove
      BY <1>2, <2>3, TypeFacts DEF WatchNamespace, CachesMove, Behind
    <3> QED  BY <1>2, <2>3, <3>1 DEF WatchNamespace, mapToAllUsageProfiles
  <2>4. ASSUME NEW n \in Namespaces, WatchResource(n)
        PROVE  CachesMove /\ syncQueue' \subseteq Profiles /\ applyQueue' \subseteq Profiles
    <3> DEFINE pos == IF rseen[n] = 0 THEN Len(res[n]) ELSE rseen[n] + 1
               old == IF rseen[n] = 0 THEN None ELSE res[n][rseen[n]]
    <3>0. /\ res[n] \in Seq(Resource) /\ Len(res[n]) \in Nat /\ Len(res[n]) >= 1
          /\ rseen[n] \in 0 .. Len(res[n])
      BY <1>2, TypeFacts
    <3>1. pos \in 1 .. Len(res[n]) /\ rseen' = [rseen EXCEPT ![n] = pos]
      BY <2>4, <3>0 DEF WatchResource, Behind
    <3>2. {old.owner, res[n][pos].owner} \subseteq Profiles \cup {Absent}
      <4>1. old \in Resource
        <5>1. None \in Resource
          BY DEF None, Resource
        <5> QED  BY <3>0, <5>1
      <4>2. res[n][pos] \in Resource
        BY <3>0, <3>1
      <4> HIDE DEF old, pos
      <4> QED  BY <4>1, <4>2 DEF Resource
    <3>3. CachesMove
      <4> HIDE DEF pos
      <4>1. UNCHANGED <<useen, zseen, nseen>>
        BY <2>4 DEF WatchResource
      <4> QED  BY <1>2, <3>1, <4>1, TypeFacts DEF CachesMove
    <3> QED  BY <1>2, <2>4, <3>2, <3>3 DEF WatchResource
  <2> QED  BY <2>1, <2>2, <2>3, <2>4
<1>4. QueuesMove
  BY <1>1, <1>2, <1>3 DEF QueuesMove
<1>5. UNCHANGED got
  BY <1>1 DEF apply
<1> QED  BY <1>1, <1>3, <1>4, <1>5, Quiet, Frame

\* Reconcile begins with a profile that exists and at least one Namespace, or
\* returns; a restart forgets it.
LEMMA BeginStep ==
    ASSUME IInv, NEW p \in Profiles, Begin(p)
    PROVE  IInv'
<1>1. /\ UNCHANGED <<upstream, zone, ns, res, caches, watching, syncQueue, got,
                     failed, edits>>
      /\ applyQueue' = applyQueue \ {p} /\ run = Absent
  BY DEF Begin
<1>2. TypeOK /\ \A n \in Namespaces : todo[n] = 0 /\ got[n] = 0
  BY <1>1 DEF IInv, TypeOK
<1>3. Proceeds
  <2>1. CASE UNCHANGED <<run, todo>>
    BY <1>1, <2>1, Quiet DEF apply
  <2>2. ASSUME NEW chosen \in SUBSET Namespaces, chosen # {},
               zone[p][zseen[p]] # Absent,
               run' = [profile |-> p, spec |-> zone[p][zseen[p]]],
               todo' = [n \in Namespaces |-> IF n \in chosen THEN nseen[n] ELSE 0]
        PROVE  Proceeds
    <3>1. zone[p][zseen[p]] \in Specs
      BY <1>2, <2>2, TypeFacts
    <3>2. run' \in Runs /\ run' # Absent
      BY <2>2, <3>1, ProfileAssumption DEF Runs
    <3>3. ASSUME NEW n \in Namespaces
          PROVE  /\ todo'[n] \in Nat /\ todo'[n] \in 0 .. nseen[n]
                 /\ n \in chosen => todo'[n] # 0
      <4>1. nseen[n] \in 1 .. Len(ns[n]) /\ Len(ns[n]) \in Nat
        BY <1>2, TypeFacts
      <4> QED  BY <2>2, <4>1
    <3>4. todo' \in [Namespaces -> Nat] /\ \E n \in Namespaces : todo'[n] # 0
      BY <2>2, <3>3
    <3>5. /\ got' \in [Namespaces -> Nat] /\ failed' \in BOOLEAN
          /\ \A n \in Namespaces : got'[n] \in 0 .. Len(res[n]) /\ got'[n] = 0
      BY <1>1, <1>2 DEF TypeOK
    <3> QED  BY <3>2, <3>3, <3>4, <3>5 DEF Proceeds
  <2> QED  BY <2>1, <2>2 DEF Begin
<1>4. QueuesMove
  BY <1>1, <1>2 DEF QueuesMove, TypeOK
<1> QED  BY <1>1, <1>3, <1>4, Quiet, Frame

LEMMA RestartStep ==
    ASSUME IInv, Restart
    PROVE  IInv'
<1>1. /\ UNCHANGED <<upstream, zone, ns, res, useen, zseen, nseen, edits>>
      /\ watching' = FALSE /\ rseen' = [n \in Namespaces |-> 0]
      /\ run' = Absent /\ failed' = FALSE
      /\ todo' = [n \in Namespaces |-> 0] /\ got' = [n \in Namespaces |-> 0]
  BY DEF Restart
<1>2. CachesMove
  <2>1. ASSUME NEW n \in Namespaces
        PROVE  rseen'[n] \in 0 .. Len(res[n]) /\ nseen'[n] \in nseen[n] .. Len(ns[n])
    BY <1>1, TypeFacts DEF IInv
  <2>2. rseen' \in [Namespaces -> Nat]
    BY <1>1
  <2> QED  BY <1>1, <2>1, <2>2 DEF CachesMove, IInv, TypeOK
<1>3. Proceeds
  <2>1. ASSUME NEW n \in Namespaces
        PROVE  /\ todo'[n] = 0 /\ todo'[n] \in 0 .. nseen[n]
               /\ got'[n] = 0 /\ got'[n] \in 0 .. Len(res[n])
    BY <1>1, TypeFacts DEF IInv
  <2>2. todo' \in [Namespaces -> Nat] /\ got' \in [Namespaces -> Nat]
    BY <1>1
  <2> QED  BY <1>1, <2>1, <2>2 DEF Proceeds
<1>4. syncQueue' \subseteq Profiles /\ applyQueue' \subseteq Profiles
  BY DEF Restart, mapToAllUsageProfiles
<1>5. QueuesMove
  BY <1>1, <1>4 DEF QueuesMove, IInv, TypeOK
<1>6. \A n \in Namespaces : LabelKept(n)
  BY <1>1 DEF LabelKept
<1> QED  BY <1>1, <1>2, <1>3, <1>5, <1>6, Quiet, Frame

\* The resource is read; Reconcile holds its current version.
LEMMA GetResourceStep ==
    ASSUME IInv, NEW n \in Namespaces, GetResource(n)
    PROVE  IInv'
<1>1. /\ UNCHANGED <<upstream, zone, ns, res, caches, watching, syncQueue, applyQueue,
                     run, todo, failed, edits>>
      /\ todo[n] # 0 /\ got' = [got EXCEPT ![n] = Len(res[n])]
  BY DEF GetResource
<1>2. TypeOK /\ got \in [Namespaces -> Nat] /\ Len(res[n]) \in Nat
  BY TypeFacts DEF IInv, TypeOK
<1>3. got' \in [Namespaces -> Nat]
      /\ \A m \in Namespaces : got'[m] = IF m = n THEN Len(res[n]) ELSE got[m]
  BY <1>1, <1>2
<1>4. \A m \in Namespaces : /\ got'[m] \in 0 .. Len(res[m])
                            /\ got'[m] # 0 => todo[m] # 0
  <2>1. \A m \in Namespaces : /\ got[m] \in 0 .. Len(res[m])
                              /\ got[m] # 0 => todo[m] # 0
    BY <1>2 DEF TypeOK
  <2> QED  BY <1>1, <1>2, <1>3, <2>1
<1>5. Proceeds
  BY <1>1, <1>2, <1>3, <1>4 DEF Proceeds, TypeOK
<1>6. QueuesMove
  BY <1>1, <1>2 DEF QueuesMove, TypeOK
<1>7. \A m \in Namespaces : LabelKept(m)
  BY <1>1, <1>3 DEF LabelKept
<1> QED  BY <1>1, <1>5, <1>6, <1>7, Quiet, Frame

\* Serving a Namespace lets go of it and of its resource; Reconcile ends with
\* the last one.
LEMMA ServedFacts ==
    ASSUME IInv, NEW n \in Namespaces, got[n] # 0, NEW err \in BOOLEAN, Served(n, err)
    PROVE  /\ Proceeds /\ applyQueue' \subseteq Profiles
           /\ \A m \in Namespaces : got'[m] = IF m = n THEN 0 ELSE got[m]
<1>1. /\ TypeOK /\ todo \in [Namespaces -> Nat] /\ got \in [Namespaces -> Nat]
      /\ failed \in BOOLEAN /\ applyQueue \subseteq Profiles
      /\ todo[n] # 0 /\ run \in Runs \cup {Absent}
  BY DEF IInv, TypeOK
<1>2. run \in Runs /\ run # Absent /\ run.profile \in Profiles
  <2>1. run # Absent
    BY <1>1 DEF TypeOK
  <2> QED  BY <1>1, <2>1 DEF Runs
<1>3. /\ todo' \in [Namespaces -> Nat] /\ got' \in [Namespaces -> Nat]
      /\ \A m \in Namespaces : todo'[m] = IF m = n THEN 0 ELSE todo[m]
      /\ \A m \in Namespaces : got'[m] = IF m = n THEN 0 ELSE got[m]
  BY <1>1 DEF Served
<1>4. \A m \in Namespaces : /\ todo'[m] \in 0 .. nseen[m] /\ got'[m] \in 0 .. Len(res[m])
                            /\ got'[m] # 0 => todo'[m] # 0
  <2> SUFFICES ASSUME NEW m \in Namespaces
               PROVE  /\ todo'[m] \in 0 .. nseen[m] /\ got'[m] \in 0 .. Len(res[m])
                      /\ got'[m] # 0 => todo'[m] # 0
    OBVIOUS
  <2>1. /\ nseen[m] \in Nat /\ Len(res[m]) \in Nat
        /\ todo[m] \in 0 .. nseen[m] /\ got[m] \in 0 .. Len(res[m])
        /\ got[m] # 0 => todo[m] # 0
    BY <1>1, TypeFacts DEF TypeOK
  <2> QED  BY <1>3, <2>1
<1>5. CASE \E m \in Namespaces : todo'[m] # 0
  <2>1. failed' \in BOOLEAN /\ run' = run /\ applyQueue' = applyQueue
    BY <1>1, <1>5 DEF Served
  <2> QED  BY <1>1, <1>2, <1>3, <1>4, <1>5, <2>1 DEF Proceeds
<1>6. CASE ~\E m \in Namespaces : todo'[m] # 0
  <2>1. failed' \in BOOLEAN /\ run' = Absent /\ applyQueue' \subseteq Profiles
    BY <1>1, <1>2, <1>6 DEF Served
  <2> QED  BY <1>3, <1>4, <1>6, <2>1 DEF Proceeds
<1> QED  BY <1>5, <1>6

\* What applyResourceToNamespace writes replaces a resource without a label or
\* of the same profile, although it may not be the one that was read.
LEMMA ApplyFacts ==
    ASSUME IInv, NEW n \in Namespaces, applyResourceToNamespace(n)
    PROVE  \/ UNCHANGED res
           \/ \E w \in Resource :
                /\ res' = [res EXCEPT ![n] = Append(res[n], w)]
                /\ w.label = run.profile
                /\ Current(res[n]).label \in {Absent, run.profile}
<1> DEFINE found == res[n][got[n]]
           wanted == [label |-> run.profile, owner |-> run.profile,
                      content |-> Transform(run.spec, ns[n][todo[n]].override)]
<1>1. got[n] # 0
  BY DEF applyResourceToNamespace
<1>2. run.profile \in Profiles
  <2>1. run \in Runs
    BY <1>1 DEF IInv, TypeOK
  <2> QED  BY <2>1 DEF Runs
<1>3. CASE /\ ~Conflicts(found) /\ wanted.content \in Content
           /\ res' = [res EXCEPT ![n] = Store(@, wanted)]
  <2>1. wanted \in Resource /\ wanted.label = run.profile
    BY <1>2, <1>3 DEF Resource
  <2>2. Current(res[n]).label \in {Absent, run.profile}
    <3>1. Current(res[n]).label \in {Absent, found.label}
      BY <1>1 DEF IInv, LabelHeld
    <3> HIDE DEF found
    <3> QED  BY <1>3, <3>1 DEF Conflicts
  <2> HIDE DEF wanted
  <2>3. CASE wanted = Current(res[n])
    BY <1>3, <2>3, ResourceFacts DEF Store
  <2>4. CASE wanted # Current(res[n])
    BY <1>3, <2>1, <2>2, <2>4 DEF Store
  <2> QED  BY <2>3, <2>4
<1> QED  BY <1>3 DEF applyResourceToNamespace

LEMMA ApplyStep ==
    ASSUME IInv, NEW n \in Namespaces,
           applyResourceToNamespace(n) \/ CallFails(n)
    PROVE  IInv'
<1>1. /\ UNCHANGED <<upstream, zone, ns, caches, syncQueue, edits>>
      /\ got[n] # 0 /\ watching' = TRUE /\ \E err \in BOOLEAN : Served(n, err)
  BY DEF applyResourceToNamespace, CallFails
<1>2. /\ Proceeds /\ applyQueue' \subseteq Profiles
      /\ \A m \in Namespaces : got'[m] = IF m = n THEN 0 ELSE got[m]
  BY <1>1, ServedFacts
<1>3. \/ UNCHANGED res
      \/ \E w \in Resource : res' = [res EXCEPT ![n] = Append(res[n], w)]
  BY ApplyFacts DEF CallFails
<1>4. ObjectsGrow
  BY <1>1, <1>3 DEF ObjectsGrow, Grew
<1>5. QueuesMove
  BY <1>1, <1>2 DEF QueuesMove, IInv, TypeOK
<1>6. ASSUME NEW m \in Namespaces
      PROVE  LabelKept(m)
  <2>1. m # n => res'[m] = res[m]
    BY <1>3, ResourceFacts
  <2> QED  BY <1>2, <2>1 DEF LabelKept
<1> QED  BY <1>1, <1>2, <1>4, <1>5, <1>6, Quiet, Frame

-----------------------------------------------------------------------------
(* The invariant and what follows from it *)

\* The initial state.
LEMMA InvInit == Init => IInv
<1> SUFFICES ASSUME Init PROVE IInv  OBVIOUS
<1>1. ASSUME NEW p \in Profiles
      PROVE  /\ upstream[p] = <<Absent>> /\ zone[p] = <<Absent>>
             /\ useen[p] = 1 /\ zseen[p] = 1
  BY DEF Init
<1>2. /\ upstream \in [Profiles -> Seq(Specs \cup {Absent})]
      /\ zone \in [Profiles -> Seq(Specs \cup {Absent})]
      /\ useen \in [Profiles -> Nat] /\ zseen \in [Profiles -> Nat]
  BY DEF Init
<1>3. ns \in [Namespaces -> Seq(NsVersion)]
      /\ \A n \in Namespaces : Len(ns[n]) = 1
  <2>1. ns \in [Namespaces -> {<<v>> : v \in {w \in NsVersion : ~w.deleting}}]
    BY DEF Init
  <2>2. \A x \in {<<v>> : v \in {w \in NsVersion : ~w.deleting}} :
            x \in Seq(NsVersion) /\ Len(x) = 1
    <3>1. \A v \in NsVersion : <<v>> \in Seq(NsVersion) /\ Len(<<v>>) = 1
      OBVIOUS
    <3> QED  BY <3>1, Zenon
  <2> QED  BY <2>1, <2>2
<1>4. res \in [Namespaces -> Seq(Resource) \ {<<>>}]
      /\ \A n \in Namespaces : Len(res[n]) = 1
  <2>1. None \in Resource
    BY DEF None, Resource
  <2> QED  BY <2>1 DEF Init
<1>5. /\ nseen \in [Namespaces -> Nat] /\ rseen \in [Namespaces -> Nat]
      /\ todo \in [Namespaces -> Nat] /\ got \in [Namespaces -> Nat]
      /\ \A n \in Namespaces : nseen[n] = 1 /\ rseen[n] = 0 /\ todo[n] = 0 /\ got[n] = 0
  BY DEF Init
<1>6. \A p \in Profiles : /\ useen[p] \in 1 .. Len(upstream[p])
                          /\ zseen[p] \in 1 .. Len(zone[p])
  BY <1>1
<1>7. \A n \in Namespaces :
        /\ nseen[n] \in 1 .. Len(ns[n]) /\ rseen[n] \in 0 .. Len(res[n])
        /\ todo[n] \in 0 .. nseen[n] /\ got[n] \in 0 .. Len(res[n])
  BY <1>3, <1>4, <1>5
<1>8. /\ syncQueue = {} /\ applyQueue = {} /\ run = Absent
      /\ watching = FALSE /\ failed = FALSE /\ edits \in 0 .. MaxEdits
  BY ProfileAssumption DEF Init
<1>9. TypeOK
  BY <1>2, <1>3, <1>4, <1>5, <1>6, <1>7, <1>8 DEF TypeOK
<1> QED  BY <1>5, <1>9 DEF IInv, LabelHeld

\* Every step.
LEMMA InvNext == IInv /\ [Next]_vars => IInv'
<1> SUFFICES ASSUME IInv, [Next]_vars PROVE IInv'  OBVIOUS
<1>1. CASE UNCHANGED vars
  <2>1. /\ UNCHANGED <<upstream, zone, ns, res>> /\ UNCHANGED caches /\ UNCHANGED apply
        /\ UNCHANGED <<res, got>>
    BY <1>1 DEF vars, caches, apply
  <2>2. QueuesMove
    BY <1>1 DEF vars, QueuesMove, IInv, TypeOK
  <2> QED  BY <2>1, <2>2, Quiet, Frame
<1>2. CASE Next
  BY <1>2, SetUpstreamStep, EditNamespaceStep, EditResourceStep, SyncStep, WatchStep,
     BeginStep, RestartStep, GetResourceStep, ApplyStep DEF Next
<1> QED  BY <1>1, <1>2

\* Every reachable state is well typed; Reconcile of apply runs exactly while
\* Namespaces are left to serve.
THEOREM TypeCorrect == Spec => []TypeOK
<1>1. IInv => TypeOK
  BY DEF IInv
<1> QED  BY <1>1, InvInit, InvNext, PTL DEF Spec

\* A labelled resource never passes from one profile to another, although it is
\* overwritten without resourceVersion: since the read it can only have lost
\* its label.
THEOREM TakesNothingOver == Spec => NoTakeover
<1> DEFINE Kept ==
        \A n \in Namespaces :
            LET old == Current(res[n]).label
                new == Current(res'[n]).label
            IN  new \in {old, Absent} \/ old = Absent
<1>1. IInv /\ [Next]_vars => [Kept]_vars
  <2> SUFFICES ASSUME IInv, Next, NEW m \in Namespaces
               PROVE  \/ Current(res'[m]).label \in {Current(res[m]).label, Absent}
                      \/ Current(res[m]).label = Absent
    OBVIOUS
  <2>0. res[m] \in Seq(Resource) /\ res \in [Namespaces -> Seq(Resource)]
    BY ResourceFacts
  <2>1. CASE res'[m] = res[m]
    BY <2>1
  <2>2. ASSUME NEW n \in Namespaces, applyResourceToNamespace(n)
        PROVE  \/ res'[m] = res[m]
               \/ \E w \in Resource :
                    /\ res'[m] = Append(res[m], w) /\ w.label = run.profile
                    /\ Current(res[m]).label \in {Absent, run.profile}
    BY <2>0, <2>2, ApplyFacts
  <2>3. ASSUME NEW n \in Namespaces, NEW v \in UserVersions(Current(res[n])),
               EditResource(n, v)
        PROVE  \/ res'[m] = res[m]
               \/ \E w \in Resource :
                    /\ res'[m] = Append(res[m], w)
                    /\ w.label \in {Absent, Current(res[m]).label}
    <3>1. v \in Resource /\ v.label \in {Absent, Current(res[n]).label}
      BY ResourceFacts, UserVersionFacts
    <3>2. res' = [res EXCEPT ![n] = Store(@, v)]
      BY <2>3 DEF EditResource
    <3> QED  BY <2>0, <3>1, <3>2 DEF Store
  <2>4. ASSUME NEW w \in Resource, res'[m] = Append(res[m], w)
        PROVE  Current(res'[m]) = w
    BY <2>0, <2>4, AppendFacts
  <2>5. \/ UNCHANGED res
        \/ \E n \in Namespaces : applyResourceToNamespace(n)
        \/ \E n \in Namespaces : \E v \in UserVersions(Current(res[n])) : EditResource(n, v)
    BY DEF Next, SetUpstream, EditNamespace, WatchUpstream, Sync, WatchZone, Begin,
           WatchNamespace, WatchResource, GetResource, CallFails, Restart
  <2> QED  BY <2>1, <2>2, <2>3, <2>4, <2>5
<1> QED  BY <1>1, InvInit, InvNext, PTL DEF Spec, NoTakeover
=============================================================================
