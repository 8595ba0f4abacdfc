---------------------------- MODULE OrgRbacProofs ----------------------------
(***************************************************************************)
(* Proofs about OrgRbac, for any RoleBindings, organizations and number of *)
(* edits.                                                                  *)
(***************************************************************************)
EXTENDS OrgRbac, TLAPS

\* The Namespace was once live, in organization o and with RBAC creation on.
EverManaged(o) ==
    \E j \in DOMAIN ns : ns[j] = [phase |-> "live", org |-> o, noRbac |-> FALSE]

\* What a version of a RoleBinding may be: nothing is left of one that is gone,
\* and an organization it is bound to was the Namespace's.
Legitimate(v) ==
    /\ v.exists \/ v = NoRb
    /\ v.subjects \in Orgs => EverManaged(v.subjects)

\* The organization a running Reconcile has read is one it may bind, although
\* the Namespace may have changed since.
IInv ==
    /\ TypeOK
    /\ org # NoOrg => EverManaged(org)
    /\ \A b \in RoleBindings : \A i \in DOMAIN rb[b] : Legitimate(rb[b][i])

-----------------------------------------------------------------------------
(* What the steps do to each part of the state *)

NsGrows == UNCHANGED ns \/ \E v \in NsVersion : ns' = Append(ns, v)

RbGrows ==
    \/ UNCHANGED rb
    \/ \E b \in RoleBindings, v \in RbVersion :
        Legitimate(v) /\ rb' = [rb EXCEPT ![b] = Append(rb[b], v)]

CachesMove ==
    /\ nseen' \in 1 .. Len(ns)
    /\ rseen' \in [RoleBindings -> Nat]
    /\ \A b \in RoleBindings : rseen'[b] \in 1 .. Len(rb[b])

Proceeds ==
    /\ queued' \in BOOLEAN /\ failed' \in BOOLEAN
    /\ org' \in Orgs \cup {NoOrg} /\ todo' \subseteq RoleBindings
    /\ org' = NoOrg <=> todo' = {}
    /\ org' # NoOrg => EverManaged(org')

\* What Append does to a log.
LEMMA AppendFacts ==
    ASSUME NEW S, NEW log \in Seq(S), NEW v \in S
    PROVE  /\ Append(log, v) \in Seq(S)
           /\ Len(log) \in Nat
           /\ Len(Append(log, v)) = Len(log) + 1
           /\ DOMAIN Append(log, v) = 1 .. Len(log) + 1
           /\ DOMAIN log = 1 .. Len(log)
           /\ Current(Append(log, v)) = v
           /\ Append(log, v)[Len(log) + 1] = v
           /\ \A i \in 1 .. Len(log) : Append(log, v)[i] = log[i]
  BY DEF Current

\* A version the Namespace has had stays in its log.
LEMMA EverManagedStays ==
    ASSUME TypeOK, NsGrows, NEW o, EverManaged(o)
    PROVE  EverManaged(o)'
<1>1. CASE UNCHANGED ns
  BY <1>1 DEF EverManaged
<1>2. ASSUME NEW v \in NsVersion, ns' = Append(ns, v)
      PROVE  EverManaged(o)'
  <2>1. PICK j \in DOMAIN ns :
            ns[j] = [phase |-> "live", org |-> o, noRbac |-> FALSE]
    BY DEF EverManaged
  <2>2. ns \in Seq(NsVersion)
    BY DEF TypeOK
  <2>3. j \in DOMAIN ns' /\ ns'[j] = ns[j]
    BY <1>2, <2>2, AppendFacts
  <2> QED  BY <2>1, <2>3 DEF EverManaged
<1> QED  BY <1>1, <1>2 DEF NsGrows

\* Every version in the logs of RoleBindings after a step is one from before
\* or legitimate, and types are kept.
LEMMA RbFrame ==
    ASSUME IInv, RbGrows
    PROVE  /\ rb' \in [RoleBindings -> Seq(RbVersion)]
           /\ \A b \in RoleBindings :
                /\ Len(rb[b]) \in Nat /\ Len(rb'[b]) \in Nat
                /\ Len(rb[b]) <= Len(rb'[b])
                /\ \A i \in DOMAIN rb'[b] : Legitimate(rb'[b][i])
<1>1. rb \in [RoleBindings -> Seq(RbVersion)]
  BY DEF IInv, TypeOK
<1>2. CASE UNCHANGED rb
  BY <1>1, <1>2 DEF IInv
<1>3. ASSUME NEW c \in RoleBindings, NEW v \in RbVersion, Legitimate(v),
             rb' = [rb EXCEPT ![c] = Append(rb[c], v)]
      PROVE  /\ rb' \in [RoleBindings -> Seq(RbVersion)]
             /\ \A b \in RoleBindings :
                  /\ Len(rb[b]) \in Nat /\ Len(rb'[b]) \in Nat
                  /\ Len(rb[b]) <= Len(rb'[b])
                  /\ \A i \in DOMAIN rb'[b] : Legitimate(rb'[b][i])
  <2>1. /\ rb[c] \in Seq(RbVersion) /\ Append(rb[c], v) \in Seq(RbVersion)
        /\ Len(rb[c]) \in Nat /\ Len(Append(rb[c], v)) = Len(rb[c]) + 1
        /\ DOMAIN Append(rb[c], v) = 1 .. Len(rb[c]) + 1
        /\ DOMAIN rb[c] = 1 .. Len(rb[c])
        /\ Append(rb[c], v)[Len(rb[c]) + 1] = v
        /\ \A i \in 1 .. Len(rb[c]) : Append(rb[c], v)[i] = rb[c][i]
    BY <1>1, AppendFacts
  <2>2. \A i \in DOMAIN Append(rb[c], v) : Legitimate(Append(rb[c], v)[i])
    <3> SUFFICES ASSUME NEW i \in 1 .. Len(rb[c]) + 1
                 PROVE  Legitimate(Append(rb[c], v)[i])
      BY <2>1
    <3>1. CASE i \in 1 .. Len(rb[c])
      BY <2>1, <3>1 DEF IInv
    <3>2. CASE i = Len(rb[c]) + 1
      BY <1>3, <2>1, <3>2
    <3> QED  BY <2>1, <3>1, <3>2
  <2>3. /\ rb' \in [RoleBindings -> Seq(RbVersion)]
        /\ rb'[c] = Append(rb[c], v)
        /\ \A b \in RoleBindings \ {c} : rb'[b] = rb[b]
    BY <1>1, <1>3, <2>1
  <2>4. ASSUME NEW b \in RoleBindings \ {c}
        PROVE  /\ Len(rb[b]) \in Nat /\ Len(rb'[b]) = Len(rb[b])
               /\ \A i \in DOMAIN rb'[b] : Legitimate(rb'[b][i])
    BY <1>1, <2>3 DEF IInv
  <2>5. ASSUME NEW b \in RoleBindings
        PROVE  /\ Len(rb[b]) \in Nat /\ Len(rb'[b]) \in Nat
               /\ Len(rb[b]) <= Len(rb'[b])
               /\ \A i \in DOMAIN rb'[b] : Legitimate(rb'[b][i])
    <3>1. CASE b = c
      BY <2>1, <2>2, <2>3, <3>1
    <3>2. CASE b # c
      BY <2>4, <3>2
    <3> QED  BY <3>1, <3>2
  <2> QED  BY <2>3, <2>5
<1> QED  BY <1>2, <1>3 DEF RbGrows

\* A step whose parts do just this keeps the invariant.
LEMMA Frame ==
    ASSUME IInv, NsGrows, RbGrows, CachesMove, Proceeds, edits' \in 0 .. MaxEdits
    PROVE  IInv'
<1>1. ns' \in Seq(NsVersion) /\ Len(ns) \in Nat /\ Len(ns') \in Nat
      /\ Len(ns) <= Len(ns')
  <2>1. ns \in Seq(NsVersion)
    BY DEF IInv, TypeOK
  <2>2. CASE UNCHANGED ns
    BY <2>1, <2>2
  <2>3. CASE \E v \in NsVersion : ns' = Append(ns, v)
    BY <2>1, <2>3, AppendFacts
  <2> QED  BY <2>2, <2>3 DEF NsGrows
<1>2. nseen' \in 1 .. Len(ns')
  BY <1>1 DEF CachesMove
<1>3. \A b \in RoleBindings : rseen'[b] \in 1 .. Len(rb'[b])
  BY RbFrame DEF CachesMove
<1>4. TypeOK'
  BY <1>1, <1>2, <1>3, RbFrame DEF TypeOK, CachesMove, Proceeds
<1>5. \A o : EverManaged(o) => EverManaged(o)'
  BY EverManagedStays DEF IInv
<1>6. (org # NoOrg => EverManaged(org))'
  BY <1>5 DEF Proceeds, EverManaged
<1>7. (\A b \in RoleBindings : \A i \in DOMAIN rb[b] : Legitimate(rb[b][i]))'
  BY <1>5, RbFrame DEF Legitimate, EverManaged, NoRb
<1> QED  BY <1>4, <1>6, <1>7 DEF IInv

-----------------------------------------------------------------------------
(* The steps *)

\* Types of the state that the steps below start from.
LEMMA TypeFacts ==
    ASSUME IInv
    PROVE  /\ ns \in Seq(NsVersion) /\ rb \in [RoleBindings -> Seq(RbVersion)]
           /\ Len(ns) \in Nat /\ nseen \in 1 .. Len(ns)
           /\ DOMAIN ns = 1 .. Len(ns) /\ \A i \in 1 .. Len(ns) : ns[i] \in NsVersion
           /\ rseen \in [RoleBindings -> Nat]
           /\ \A b \in RoleBindings :
                /\ Len(rb[b]) \in Nat /\ rseen[b] \in 1 .. Len(rb[b])
                /\ DOMAIN rb[b] = 1 .. Len(rb[b])
                /\ rb[b][rseen[b]] \in RbVersion /\ Current(rb[b]) \in RbVersion
                /\ Legitimate(rb[b][rseen[b]]) /\ Legitimate(Current(rb[b]))
<1>1. /\ ns \in Seq(NsVersion) /\ rb \in [RoleBindings -> Seq(RbVersion)]
      /\ Len(ns) \in Nat /\ nseen \in 1 .. Len(ns)
      /\ DOMAIN ns = 1 .. Len(ns) /\ \A i \in 1 .. Len(ns) : ns[i] \in NsVersion
      /\ rseen \in [RoleBindings -> Nat]
  BY DEF IInv, TypeOK
<1>2. ASSUME NEW b \in RoleBindings
      PROVE  /\ Len(rb[b]) \in Nat /\ rseen[b] \in 1 .. Len(rb[b])
             /\ DOMAIN rb[b] = 1 .. Len(rb[b]) /\ Len(rb[b]) \in DOMAIN rb[b]
             /\ rb[b][rseen[b]] \in RbVersion /\ Current(rb[b]) \in RbVersion
  <2>1. rb[b] \in Seq(RbVersion) /\ rseen[b] \in 1 .. Len(rb[b])
    BY <1>1 DEF IInv, TypeOK
  <2> QED  BY <2>1 DEF Current
<1>3. ASSUME NEW b \in RoleBindings
      PROVE  Legitimate(rb[b][rseen[b]]) /\ Legitimate(Current(rb[b]))
  BY <1>2 DEF IInv, Current
<1> QED  BY <1>1, <1>2, <1>3

\* Nothing happens to the caches, or to Reconcile.
LEMMA QuietCaches == IInv /\ UNCHANGED <<nseen, rseen>> => CachesMove
  BY TypeFacts DEF CachesMove

LEMMA QuietReconcile == IInv /\ UNCHANGED reconcile => Proceeds
  BY DEF IInv, TypeOK, Proceeds, reconcile

\* Going on to the next RoleBinding keeps the organization until none is left.
LEMMA GoOnProceeds ==
    ASSUME IInv, NEW b \in todo, NEW err \in BOOLEAN, GoOn(b, err)
    PROVE  Proceeds
<1>1. /\ queued \in BOOLEAN /\ failed \in BOOLEAN /\ org \in Orgs \cup {NoOrg}
      /\ todo \subseteq RoleBindings /\ (org = NoOrg <=> todo = {})
      /\ (org # NoOrg => EverManaged(org))
  BY DEF IInv, TypeOK
<1>2. CASE todo' # {}
  BY <1>1, <1>2 DEF GoOn, Proceeds
<1>3. CASE todo' = {}
  BY <1>1, <1>3 DEF GoOn, Proceeds
<1> QED  BY <1>2, <1>3

\* What users and other controllers do.
LEMMA UserStep ==
    ASSUME IInv,
           \/ \E v \in NsVersion : EditNamespace(v)
           \/ \E b \in RoleBindings : \E v \in UserRb : EditRoleBinding(b, v)
    PROVE  IInv'
<1>1. edits \in 0 .. MaxEdits /\ MaxEdits \in Nat
  BY EditsAssumption DEF IInv, TypeOK
<1>2. ASSUME NEW v \in NsVersion, EditNamespace(v)
      PROVE  IInv'
  <2>1. NsGrows
    BY <1>2 DEF EditNamespace, NsGrows, Store
  <2>2. RbGrows /\ CachesMove /\ Proceeds
    BY <1>2, QuietCaches, QuietReconcile DEF EditNamespace, RbGrows
  <2>3. edits' \in 0 .. MaxEdits
    BY <1>1, <1>2 DEF EditNamespace, Edit
  <2> QED  BY <2>1, <2>2, <2>3, Frame
<1>3. ASSUME NEW b \in RoleBindings, NEW v \in UserRb, EditRoleBinding(b, v)
      PROVE  IInv'
  <2>1. v \in RbVersion /\ Legitimate(v)
    <3>1. CASE v = NoRb
      BY <3>1, OrgsAssumption DEF RbVersion, NoRb, Legitimate
    <3>2. CASE v # NoRb
      <4>1. /\ v \in [exists: {TRUE}, uninitialized: BOOLEAN, subjects: {Custom},
                      owner: {"none", "namespace", "other"}]
            /\ v.exists = TRUE /\ v.subjects = Custom
        BY <3>2 DEF UserRb
      <4>2. Legitimate(v)
        BY <4>1, OrgsAssumption DEF Legitimate
      <4>3. v \in RbVersion
        BY <4>1 DEF RbVersion
      <4> QED  BY <4>2, <4>3
    <3> QED  BY <3>1, <3>2
  <2>2. RbGrows
    <3>1. CASE v = Current(rb[b])
      BY <1>3, <3>1, TypeFacts DEF EditRoleBinding, Store, RbGrows
    <3>2. CASE v # Current(rb[b])
      BY <1>3, <2>1, <3>2 DEF EditRoleBinding, Store, RbGrows
    <3> QED  BY <3>1, <3>2
  <2>3. NsGrows /\ CachesMove /\ Proceeds
    BY <1>3, QuietCaches, QuietReconcile DEF EditRoleBinding, NsGrows
  <2>4. edits' \in 0 .. MaxEdits
    BY <1>1, <1>3 DEF EditRoleBinding, Edit
  <2> QED  BY <2>2, <2>3, <2>4, Frame
<1> QED  BY <1>2, <1>3

\* Watches move a cache inside its log.
LEMMA WatchStep ==
    ASSUME IInv,
           WatchNamespace \/ \E b \in RoleBindings : WatchRoleBinding(b)
    PROVE  IInv'
<1>1. queued' \in BOOLEAN
  BY DEF IInv, TypeOK, WatchNamespace, WatchRoleBinding
<1>2. UNCHANGED <<ns, rb, org, todo, failed, edits>>
  BY DEF WatchNamespace, WatchRoleBinding
<1>3. CachesMove
  <2>1. CASE WatchNamespace
    BY <2>1, TypeFacts DEF WatchNamespace, CachesMove, Behind
  <2>2. CASE \E b \in RoleBindings : WatchRoleBinding(b)
    BY <2>2, TypeFacts DEF WatchRoleBinding, CachesMove, Behind
  <2> QED  BY <2>1, <2>2
<1>4. NsGrows /\ RbGrows
  BY <1>2 DEF NsGrows, RbGrows
<1>5. Proceeds
  BY <1>1, <1>2 DEF IInv, TypeOK, Proceeds
<1>6. edits' \in 0 .. MaxEdits
  BY <1>2 DEF IInv, TypeOK
<1> QED  BY <1>3, <1>4, <1>5, <1>6, Frame

\* Reconcile begins with an organization that the cached Namespace shows, or
\* returns; a restart forgets it.
LEMMA BeginOrRestart ==
    ASSUME IInv, Begin \/ Restart
    PROVE  IInv'
<1>1. UNCHANGED <<ns, rb, nseen, rseen, edits>>
  BY DEF Begin, Restart
<1>2. Proceeds
  <2>1. CASE Restart
    BY <2>1 DEF Restart, Proceeds
  <2>2. CASE Begin /\ UNCHANGED <<org, todo>>
    BY <2>2 DEF Begin, IInv, TypeOK, Proceeds
  <2>3. CASE /\ Begin
             /\ ns[nseen].phase = "live" /\ ns[nseen].org # NoOrg /\ ~ns[nseen].noRbac
             /\ org' = ns[nseen].org /\ todo' = RoleBindings
    <3>1. /\ nseen \in DOMAIN ns
          /\ ns[nseen] = [phase |-> "live", org |-> org', noRbac |-> FALSE]
          /\ org' \in Orgs
      BY <2>3, TypeFacts DEF NsVersion
    <3>2. EverManaged(org')
      BY <3>1 DEF EverManaged
    <3>3. queued' \in BOOLEAN /\ failed' \in BOOLEAN
      BY <2>3 DEF Begin, IInv, TypeOK
    <3> QED  BY <2>3, <3>1, <3>2, <3>3, OrgsAssumption, RoleBindingsAssumption
             DEF Proceeds
  <2> QED  BY <2>1, <2>2, <2>3 DEF Begin
<1>3. NsGrows /\ RbGrows /\ CachesMove /\ edits' \in 0 .. MaxEdits
  BY <1>1, QuietCaches DEF NsGrows, RbGrows, IInv, TypeOK
<1> QED  BY <1>2, <1>3, Frame

\* What putRoleBinding writes: a RoleBinding that keeps its subjects, or one of
\* the organization Reconcile works for.
LEMMA WantedFacts ==
    ASSUME IInv, NEW v \in RbVersion, v.exists, Legitimate(v), org # NoOrg
    PROVE  /\ Wanted(v) \in RbVersion /\ Legitimate(Wanted(v))
           /\ ~v.uninitialized => Wanted(v).subjects = v.subjects
<1>1. org \in Orgs /\ EverManaged(org)
  BY DEF IInv, TypeOK
<1>2. /\ Wanted(v).exists = v.exists
      /\ Wanted(v).subjects = IF v.uninitialized THEN org ELSE v.subjects
  BY DEF Wanted, rolebindingIsUninitialized, RbVersion
<1>3. v.subjects \in Orgs \cup {Custom}
  BY DEF RbVersion
<1>4. Wanted(v) \in RbVersion
  BY <1>1, <1>3 DEF Wanted, rolebindingIsUninitialized, RbVersion
<1>5. Legitimate(Wanted(v))
  BY <1>1, <1>2 DEF Legitimate
<1> QED  BY <1>2, <1>4, <1>5

\* putRoleBinding leaves the RoleBinding alone, or appends a legitimate version
\* to one that was gone, or that its cache shows as it is.
LEMMA PutFacts ==
    ASSUME IInv, NEW b \in RoleBindings, putRoleBinding(b)
    PROVE  \/ UNCHANGED rb
           \/ \E w \in RbVersion :
                /\ Legitimate(w)
                /\ rb' = [rb EXCEPT ![b] = Append(rb[b], w)]
                /\ \/ ~Current(rb[b]).exists
                   \/ /\ Current(rb[b]).owner # "other"
                      /\ ~Current(rb[b]).uninitialized
                            => w.subjects = Current(rb[b]).subjects
<1> DEFINE cached == rb[b][rseen[b]]
           wanted == IF cached.exists THEN Wanted(cached) ELSE Fresh
<1>1. org # NoOrg
  BY DEF IInv, TypeOK, putRoleBinding
<1>2. cached \in RbVersion /\ Legitimate(cached)
  BY TypeFacts
<1>3. Fresh \in RbVersion /\ Legitimate(Fresh)
  <2> DEFINE new == [NoRb EXCEPT !.exists = TRUE, !.uninitialized = TRUE]
  <2>1. new \in RbVersion /\ new.exists /\ new.subjects = Custom
    BY DEF NoRb, RbVersion
  <2>2. Legitimate(new)
    BY <2>1, OrgsAssumption DEF Legitimate
  <2>3. Fresh = Wanted(new)
    BY DEF Fresh
  <2> HIDE DEF new
  <2> QED  BY <1>1, <2>1, <2>2, <2>3, WantedFacts
<1>4. wanted \in RbVersion /\ Legitimate(wanted)
  <2>1. CASE cached.exists
    BY <1>1, <1>2, <2>1, WantedFacts
  <2>2. CASE ~cached.exists
    BY <1>3, <2>2
  <2> QED  BY <2>1, <2>2
<1>5. CASE /\ cached.owner # "other"
           /\ IF cached.exists THEN UpToDate(rb[b], rseen[b])
              ELSE ~Current(rb[b]).exists /\ Current(ns).phase = "live"
           /\ rb' = [rb EXCEPT ![b] = Append(@, wanted)]
  <2>1. CASE cached.exists
    <3>1. cached = Current(rb[b])
      BY <1>5, <2>1 DEF UpToDate, Current
    <3>2. ~cached.uninitialized => wanted.subjects = cached.subjects
      BY <1>1, <1>2, <2>1, WantedFacts
    <3> HIDE DEF cached, wanted
    <3> QED  BY <1>4, <1>5, <3>1, <3>2
  <2>2. CASE ~cached.exists
    <3> HIDE DEF cached, wanted
    <3> QED  BY <1>4, <1>5, <2>2
  <2> QED  BY <2>1, <2>2
<1> QED  BY <1>5 DEF putRoleBinding

\* Every RoleBinding that is put, or whose call fails.
LEMMA PutStep ==
    ASSUME IInv, NEW b \in RoleBindings, putRoleBinding(b) \/ CallFails(b)
    PROVE  IInv'
<1>1. UNCHANGED <<ns, nseen, rseen, edits>> /\ b \in todo
      /\ \E err \in BOOLEAN : GoOn(b, err)
  BY DEF putRoleBinding, CallFails
<1>2. Proceeds
  BY <1>1, GoOnProceeds
<1>3. RbGrows
  <2>1. CASE putRoleBinding(b)
    BY <2>1, PutFacts DEF RbGrows
  <2>2. CASE CallFails(b)
    BY <2>2 DEF CallFails, RbGrows
  <2> QED  BY <2>1, <2>2
<1>4. NsGrows /\ CachesMove /\ edits' \in 0 .. MaxEdits
  BY <1>1, QuietCaches DEF NsGrows, IInv, TypeOK
<1> QED  BY <1>2, <1>3, <1>4, Frame

-----------------------------------------------------------------------------
(* The invariant and what follows from it *)

\* The initial state.
LEMMA InvInit == Init => IInv
<1> SUFFICES ASSUME Init PROVE IInv  OBVIOUS
<1>1. NoRb \in RbVersion /\ Legitimate(NoRb)
  BY OrgsAssumption DEF NoRb, RbVersion, Legitimate
<1>2. ns \in Seq(NsVersion) /\ Len(ns) = 1
  BY DEF Init, NsVersion
<1>3. /\ rb \in [RoleBindings -> Seq(RbVersion)]
      /\ \A b \in RoleBindings : Len(rb[b]) = 1 /\ DOMAIN rb[b] = 1 .. 1 /\ rb[b][1] = NoRb
  BY <1>1 DEF Init
<1>4. /\ nseen \in 1 .. Len(ns) /\ rseen \in [RoleBindings -> Nat]
      /\ \A b \in RoleBindings : rseen[b] \in 1 .. Len(rb[b])
      /\ edits \in 0 .. MaxEdits
  BY <1>2, <1>3, EditsAssumption DEF Init
<1>5. /\ queued \in BOOLEAN /\ failed \in BOOLEAN
      /\ org \in Orgs \cup {NoOrg} /\ todo \subseteq RoleBindings
      /\ org = NoOrg <=> todo = {}
  BY DEF Init
<1>6. TypeOK
  BY <1>2, <1>3, <1>4, <1>5 DEF TypeOK
<1>7. \A b \in RoleBindings : \A i \in DOMAIN rb[b] : Legitimate(rb[b][i])
  BY <1>1, <1>3
<1> QED  BY <1>6, <1>7 DEF Init, IInv

\* Every step.
LEMMA InvNext == IInv /\ [Next]_vars => IInv'
<1> SUFFICES ASSUME IInv, [Next]_vars PROVE IInv'  OBVIOUS
<1>1. CASE UNCHANGED vars
  BY <1>1 DEF vars, IInv, TypeOK, Legitimate, EverManaged
<1>2. CASE Next
  BY <1>2, UserStep, WatchStep, BeginOrRestart, PutStep DEF Next
<1> QED  BY <1>1, <1>2

\* Every reachable state is well typed; Reconcile works for an organization
\* exactly while RoleBindings are left to put.
THEOREM TypeCorrect == Spec => []TypeOK
<1>1. IInv => TypeOK
  BY DEF IInv
<1> QED  BY <1>1, InvInit, InvNext, PTL DEF Spec

\* The agent binds a RoleBinding only to an organization the Namespace had,
\* whatever it has become since Reconcile read it.
THEOREM BindsOwn == Spec => []BindsOwnOrganization
<1>1. IInv => BindsOwnOrganization
  BY DEF IInv, Legitimate, EverManaged, BindsOwnOrganization
<1> QED  BY <1>1, InvInit, InvNext, PTL DEF Spec

\* Users keep the subjects of an initialized RoleBinding, and other controllers
\* their RoleBindings: what putRoleBinding overwrites is what it has read.
THEOREM SubjectsKept == Spec => InitializedIsKept
<1> DEFINE Kept ==
        \A b \in todo \ todo' :
            LET before == Current(rb[b])
                after == Current(rb[b])'
            IN  /\ before.exists /\ ~before.uninitialized
                        => after.subjects = before.subjects
                /\ before.owner = "other" => after = before
<1>1. IInv /\ [Next]_vars => [Kept]_vars
  <2> SUFFICES ASSUME IInv, Next, NEW c \in todo, c \notin todo'
               PROVE  /\ /\ Current(rb[c]).exists /\ ~Current(rb[c]).uninitialized
                         => Current(rb'[c]).subjects = Current(rb[c]).subjects
                      /\ Current(rb[c]).owner = "other"
                         => Current(rb'[c]) = Current(rb[c])
    BY DEF Current
  <2>0. c \in RoleBindings
    BY DEF IInv, TypeOK
  <2>1. CASE UNCHANGED rb
    BY <2>1
  <2>2. CASE putRoleBinding(c)
    <3>1. ASSUME NEW w \in RbVersion,
                 rb' = [rb EXCEPT ![c] = Append(rb[c], w)],
                 \/ ~Current(rb[c]).exists
                 \/ /\ Current(rb[c]).owner # "other"
                    /\ ~Current(rb[c]).uninitialized
                          => w.subjects = Current(rb[c]).subjects
          PROVE  /\ /\ Current(rb[c]).exists /\ ~Current(rb[c]).uninitialized
                     => Current(rb'[c]).subjects = Current(rb[c]).subjects
                 /\ Current(rb[c]).owner = "other"
                     => Current(rb'[c]) = Current(rb[c])
      <4>1. rb[c] \in Seq(RbVersion) /\ rb'[c] = Append(rb[c], w)
        BY <2>0, <3>1, TypeFacts
      <4>2. Current(rb'[c]) = w
        BY <4>1, AppendFacts
      <4>3. ~Current(rb[c]).exists => Current(rb[c]).owner # "other"
        BY <2>0, TypeFacts DEF Legitimate, NoRb
      <4> QED  BY <3>1, <4>2, <4>3
    <3> QED  BY <2>0, <2>1, <2>2, <3>1, PutFacts
  <2>3. ASSUME NEW b \in RoleBindings, b # c, putRoleBinding(b)
        PROVE  FALSE
    BY <2>3 DEF putRoleBinding, GoOn
  <2>4. CASE \E b \in RoleBindings : \E v \in UserRb : EditRoleBinding(b, v)
    BY <2>4 DEF EditRoleBinding, reconcile
  <2> QED
    BY <2>1, <2>2, <2>3, <2>4
    DEF Next, EditNamespace, WatchNamespace, Begin, Restart, WatchRoleBinding, CallFails
<1> QED  BY <1>1, InvInit, InvNext, PTL DEF Spec, InitializedIsKept
=============================================================================
