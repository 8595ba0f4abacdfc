-------------------------- MODULE LegacyQuotaProofs --------------------------
(***************************************************************************)
(* Proofs about LegacyQuota, for any requesters, quotas, resources, roles  *)
(* and number of edits.                                                    *)
(***************************************************************************)
EXTENDS LegacyQuota, TLAPS

NsVersion == [phase: {"absent", "live", "deleting"},
              meta: [Keys -> {None, Bad} \cup Names]]
ObjVersion == [exists: BOOLEAN, hard: [Resources -> {Default} \cup Names],
               owner: {None, "namespace", "other"}]

\* Nobody's amount, or that of somebody who was privileged at some time.
Authorized(a) == a \in {None, Bad, Default} \/ WasPrivileged(a)

AuthorizedNs(v) == \A k \in Quotas \X Resources : Authorized(v.meta[k])
AuthorizedObj(v) == \A r \in Resources : Authorized(v.hard[r])

\* The amounts in quotas come from the annotations of any version the Namespace
\* has had, so these have to be authorized as well.
IInv ==
    /\ TypeOK
    /\ Metadata => /\ \A i \in DOMAIN ns : AuthorizedNs(ns[i])
                   /\ \A x \in Objects : \A i \in DOMAIN obj[x] :
                        AuthorizedObj(obj[x][i])

-----------------------------------------------------------------------------
(* What the steps do to each part of the state *)

CrbGrows == UNCHANGED crb \/ \E b \in Bindings : crb' = Append(crb, b)

NsGrows ==
    \/ UNCHANGED ns
    \/ \E v \in NsVersion : /\ Metadata => AuthorizedNs(v)
                            /\ ns' = Append(ns, v)

\* Every log of an object stays or gets one version more.
ObjGrows ==
    /\ obj' \in [Objects -> Seq(ObjVersion)]
    /\ \A x \in Objects :
        \/ obj'[x] = obj[x]
        \/ \E v \in ObjVersion : /\ Metadata => AuthorizedObj(v)
                                 /\ obj'[x] = Append(obj[x], v)

CachesMove ==
    /\ nseen' \in 1 .. Len(ns) /\ nseen' >= nseen
    /\ cseen' \in 1 .. Len(crb)
    /\ oseen' \in [Objects -> Nat]
    /\ \A x \in Objects : oseen'[x] \in 1 .. Len(obj[x])

Proceeds ==
    /\ queued' \in BOOLEAN /\ failed' \in BOOLEAN
    /\ copy' \in 0 .. nseen /\ todo' \subseteq Objects
    /\ copy' # 0 <=> LimitRange \in todo'
    /\ copy' = 0 => todo' = {} /\ ~failed'

\* What Append does to a log.
LEMMA AppendFacts ==
    ASSUME NEW S, NEW log \in Seq(S), NEW v \in S
    PROVE  /\ Append(log, v) \in Seq(S)
           /\ Len(log) \in Nat
           /\ Len(Append(log, v)) = Len(log) + 1
           /\ DOMAIN Append(log, v) = 1 .. Len(log) + 1
           /\ DOMAIN log = 1 .. Len(log)
           /\ Append(log, v)[Len(log) + 1] = v
           /\ \A i \in 1 .. Len(log) : Append(log, v)[i] = log[i]
  OBVIOUS

\* Who was privileged stays somebody who was.
LEMMA AuthorizedStays ==
    ASSUME crb \in Seq(Bindings), CrbGrows, NEW a, Authorized(a)
    PROVE  Authorized(a)'
<1>1. CASE a \in {None, Bad, Default}
  BY <1>1 DEF Authorized
<1>2. ASSUME NEW who \in Requesters, NEW i \in DOMAIN crb,
             who.name = a, PrivilegedUserSkipper(who, crb[i])
      PROVE  Authorized(a)'
  <2>1. i \in DOMAIN crb' /\ crb'[i] = crb[i]
    <3>1. CASE UNCHANGED crb
      BY <3>1
    <3>2. CASE \E b \in Bindings : crb' = Append(crb, b)
      BY <3>2, AppendFacts
    <3> QED  BY <3>1, <3>2 DEF CrbGrows
  <2>2. PrivilegedUserSkipper(who, crb'[i])
    BY <1>2, <2>1
  <2>3. WasPrivileged(a)'
    BY <1>2, <2>1, <2>2 DEF WasPrivileged
  <2> QED  BY <2>3 DEF Authorized
<1> QED  BY <1>1, <1>2 DEF Authorized, WasPrivileged

\* A log that stays or gets one version more keeps its type, its length does
\* not shrink, and it holds only its old versions and the new one.
LEMMA LogFrame ==
    ASSUME NEW S, NEW log \in Seq(S), NEW new,
           new = log \/ \E v \in S : new = Append(log, v)
    PROVE  /\ new \in Seq(S) /\ Len(log) \in Nat /\ Len(new) \in Nat
           /\ Len(log) <= Len(new)
           /\ DOMAIN log = 1 .. Len(log) /\ DOMAIN new = 1 .. Len(new)
<1>1. CASE new = log
  BY <1>1
<1>2. CASE \E v \in S : new = Append(log, v)
  BY <1>2, AppendFacts
<1> QED  BY <1>1, <1>2

\* A step whose parts do just this keeps the invariant.
LEMMA Frame ==
    ASSUME IInv, CrbGrows, NsGrows, ObjGrows, CachesMove, Proceeds,
           edits' \in 0 .. MaxEdits
    PROVE  IInv'
<1>0. /\ ns \in Seq(NsVersion) /\ obj \in [Objects -> Seq(ObjVersion)]
      /\ crb \in Seq(Bindings)
  BY DEF IInv, TypeOK, NsVersion, ObjVersion
<1>1. /\ ns' \in Seq(NsVersion) /\ Len(ns) \in Nat /\ Len(ns') \in Nat
      /\ Len(ns) <= Len(ns')
  <2>1. ns' = ns \/ \E v \in NsVersion : ns' = Append(ns, v)
    BY DEF NsGrows
  <2> QED  BY <1>0, <2>1, LogFrame
<1>2. /\ crb' \in Seq(Bindings) /\ Len(crb) \in Nat /\ Len(crb') \in Nat
      /\ Len(crb) <= Len(crb')
  <2>1. crb' = crb \/ \E v \in Bindings : crb' = Append(crb, v)
    BY DEF CrbGrows
  <2> QED  BY <1>0, <2>1, LogFrame
<1>3. ASSUME NEW x \in Objects
      PROVE  Len(obj[x]) \in Nat /\ Len(obj'[x]) \in Nat /\ Len(obj[x]) <= Len(obj'[x])
  <2>1. obj'[x] = obj[x] \/ \E v \in ObjVersion : obj'[x] = Append(obj[x], v)
    BY DEF ObjGrows
  <2>2. obj[x] \in Seq(ObjVersion)
    BY <1>0
  <2> QED  BY <2>1, <2>2, LogFrame
<1>4. TypeOK'
  <2>1. /\ nseen' \in 1 .. Len(ns)' /\ cseen' \in 1 .. Len(crb)'
        /\ oseen' \in [Objects -> Nat]
        /\ \A x \in Objects : oseen'[x] \in 1 .. Len(obj'[x])
    BY <1>1, <1>2, <1>3 DEF CachesMove
  <2>2. copy' \in 0 .. nseen'
    <3>1. nseen \in Nat
      BY <1>1 DEF IInv, TypeOK
    <3> QED  BY <1>1, <3>1 DEF Proceeds, CachesMove
  <2>3. obj' \in [Objects -> Seq(ObjVersion)]
    BY DEF ObjGrows
  <2> QED  BY <1>1, <1>2, <2>1, <2>2, <2>3
           DEF TypeOK, Proceeds, NsVersion, ObjVersion
<1>5. \A a : Authorized(a) => Authorized(a)'
  BY <1>0, AuthorizedStays
<1>6. ASSUME Metadata, NEW i \in DOMAIN ns', NEW k \in Quotas \X Resources
      PROVE  Authorized(ns[i].meta[k])'
  <2>1. Authorized(ns'[i].meta[k])
    <3>1. CASE UNCHANGED ns
      BY <1>6, <3>1 DEF IInv, AuthorizedNs
    <3>2. ASSUME NEW v \in NsVersion, AuthorizedNs(v), ns' = Append(ns, v)
          PROVE  Authorized(ns'[i].meta[k])
      <4>1. ns'[i] = v \/ (i \in DOMAIN ns /\ ns'[i] = ns[i])
        BY <1>0, <1>6, <3>2, AppendFacts
      <4> QED  BY <1>6, <3>2, <4>1 DEF IInv, AuthorizedNs
    <3> QED  BY <1>6, <3>1, <3>2 DEF NsGrows
  <2> QED  BY <1>5, <2>1
<1>7. ASSUME Metadata, NEW x \in Objects, NEW i \in DOMAIN obj'[x], NEW r \in Resources
      PROVE  Authorized(obj[x][i].hard[r])'
  <2>1. Authorized(obj'[x][i].hard[r])
    <3>1. CASE obj'[x] = obj[x]
      BY <1>7, <3>1 DEF IInv, AuthorizedObj
    <3>2. ASSUME NEW v \in ObjVersion, AuthorizedObj(v), obj'[x] = Append(obj[x], v)
          PROVE  Authorized(obj'[x][i].hard[r])
      <4>0. obj[x] \in Seq(ObjVersion)
        BY <1>0
      <4>1. obj'[x][i] = v \/ (i \in DOMAIN obj[x] /\ obj'[x][i] = obj[x][i])
        BY <1>7, <3>2, <4>0, AppendFacts
      <4> QED  BY <1>7, <3>2, <4>1 DEF IInv, AuthorizedObj
    <3> QED  BY <1>7, <3>1, <3>2 DEF ObjGrows
  <2> QED  BY <1>5, <2>1
<1> QED  BY <1>4, <1>6, <1>7 DEF IInv, AuthorizedNs, AuthorizedObj

-----------------------------------------------------------------------------
(* The steps *)

\* Types of the state that the steps below start from.
LEMMA TypeFacts ==
    ASSUME IInv
    PROVE  /\ ns \in Seq(NsVersion) /\ obj \in [Objects -> Seq(ObjVersion)]
           /\ crb \in Seq(Bindings)
           /\ Len(ns) \in Nat /\ nseen \in 1 .. Len(ns)
           /\ DOMAIN ns = 1 .. Len(ns) /\ Len(ns) \in DOMAIN ns
           /\ Current(ns) \in NsVersion
           /\ Metadata => AuthorizedNs(Current(ns))
           /\ Len(crb) \in Nat /\ cseen \in 1 .. Len(crb) /\ DOMAIN crb = 1 .. Len(crb)
           /\ oseen \in [Objects -> Nat]
           /\ \A x \in Objects : /\ Len(obj[x]) \in Nat /\ oseen[x] \in 1 .. Len(obj[x])
                                 /\ obj[x] \in Seq(ObjVersion)
<1>1. /\ ns \in Seq(NsVersion) /\ obj \in [Objects -> Seq(ObjVersion)]
      /\ crb \in Seq(Bindings) /\ nseen \in 1 .. Len(ns) /\ cseen \in 1 .. Len(crb)
      /\ oseen \in [Objects -> Nat]
      /\ \A x \in Objects : oseen[x] \in 1 .. Len(obj[x])
  BY DEF IInv, TypeOK, NsVersion, ObjVersion
<1>2. /\ Len(ns) \in Nat /\ DOMAIN ns = 1 .. Len(ns) /\ Len(ns) \in DOMAIN ns
      /\ Current(ns) \in NsVersion
  BY <1>1 DEF Current
<1>3. Metadata => AuthorizedNs(Current(ns))
  BY <1>2 DEF IInv, Current
<1>4. Len(crb) \in Nat /\ DOMAIN crb = 1 .. Len(crb)
  BY <1>1
<1>5. \A x \in Objects : Len(obj[x]) \in Nat /\ obj[x] \in Seq(ObjVersion)
  BY <1>1
<1> QED  BY <1>1, <1>2, <1>3, <1>4, <1>5

\* What a step that leaves a part alone does to it.
LEMMA Quiet ==
    ASSUME IInv
    PROVE  /\ UNCHANGED ns => NsGrows
           /\ UNCHANGED crb => CrbGrows
           /\ UNCHANGED obj => ObjGrows
           /\ UNCHANGED <<nseen, oseen, cseen>> => CachesMove
           /\ UNCHANGED reconcile => Proceeds
           /\ UNCHANGED edits => edits' \in 0 .. MaxEdits
           /\ Edit => edits' \in 0 .. MaxEdits
<1>1. /\ UNCHANGED ns => NsGrows
      /\ UNCHANGED crb => CrbGrows
      /\ UNCHANGED obj => ObjGrows
  BY TypeFacts DEF NsGrows, CrbGrows, ObjGrows
<1>2. UNCHANGED <<nseen, oseen, cseen>> => CachesMove
  BY TypeFacts DEF CachesMove
<1>3. UNCHANGED reconcile => Proceeds
  BY DEF IInv, TypeOK, Proceeds, reconcile
<1>4. /\ UNCHANGED edits => edits' \in 0 .. MaxEdits
      /\ Edit => edits' \in 0 .. MaxEdits
  BY LegacyAssumption DEF IInv, TypeOK, Edit
<1> QED  BY <1>1, <1>2, <1>3, <1>4

\* Whoever passes the skippers now is somebody whose amounts are authorized.
LEMMA PassingIsAuthorized ==
    ASSUME IInv, NEW who \in Requesters,
           PrivilegedUserSkipper(who, crb[cseen])
    PROVE  Authorized(who.name)
<1>1. cseen \in DOMAIN crb
  BY TypeFacts
<1> QED  BY <1>1 DEF Authorized, WasPrivileged

\* What NamespaceMetadataValidator lets through: no amount of an annotation
\* changes, unless it is to that of a privileged requester.
LEMMA WriteNamespaceStep ==
    ASSUME IInv, NEW who \in Requesters, NEW k \in Keys,
           NEW v \in {None, Bad, who.name}, WriteNamespace(who, k, v)
    PROVE  IInv'
<1> DEFINE old == Current(ns)
           base == IF old.phase = "absent"
                   THEN [NoMeta EXCEPT ![OrgLabel] = who.name] ELSE old.meta
           new == [base EXCEPT ![k] = v]
           w == [old EXCEPT !.meta = new,
                            !.phase = IF @ = "absent" THEN "live" ELSE @]
<1>1. who.name \in Names /\ old \in NsVersion
  BY TypeFacts DEF Names
<1>2. base \in [Keys -> {None, Bad} \cup Names]
  BY <1>1 DEF NoMeta, NsVersion
<1>3. new \in [Keys -> {None, Bad} \cup Names]
  BY <1>1, <1>2
<1>4. old.meta \in [Keys -> {None, Bad} \cup Names]
  BY <1>1 DEF NsVersion
<1> HIDE DEF old
<1>5. w \in NsVersion /\ w.meta = new
  <2> HIDE DEF new
  <2> QED  BY <1>1, <1>3 DEF NsVersion
<1>6. ASSUME Metadata PROVE AuthorizedNs(w)
  <2>1. AuthorizedNs(old)
    BY <1>6, TypeFacts DEF old
  <2>2. CASE PrivilegedUserSkipper(who, crb[cseen])
    <3>1. Authorized(who.name) /\ Authorized(None) /\ Authorized(v)
      BY <2>2, PassingIsAuthorized DEF Authorized
    <3>2. \A l \in Quotas \X Resources : Authorized(base[l])
      BY <2>1, <3>1 DEF AuthorizedNs, NoMeta, Keys
    <3>3. \A l \in Quotas \X Resources : Authorized(new[l])
      <4> HIDE DEF base
      <4> QED  BY <1>2, <3>1, <3>2 DEF Keys
    <3> QED  BY <1>5, <3>3 DEF AuthorizedNs
  <2>3. CASE changedKeys(old.meta, new) \subseteq AllowedKeys
    <3> HIDE DEF new
    <3>1. ASSUME NEW l \in Quotas \X Resources
          PROVE  new[l] = old.meta[l]
      <4>1. l \in Keys /\ l \notin AllowedKeys
        BY LegacyAssumption DEF Keys
      <4> QED  BY <2>3, <4>1 DEF changedKeys
    <3> QED  BY <1>5, <2>1, <3>1 DEF AuthorizedNs
  <2>4. NamespaceMetadataValidator(who, old.meta, new)
    BY DEF WriteNamespace, old
  <2> QED  BY <1>6, <2>2, <2>3, <2>4 DEF NamespaceMetadataValidator, multiSkipper
<1>7. NsGrows
  <2>1. ns' = Store(ns, w)
    BY DEF WriteNamespace, old
  <2> HIDE DEF w
  <2> QED  BY <1>5, <1>6, <2>1 DEF Store, NsGrows
<1>8. Edit /\ UNCHANGED <<obj, crb, nseen, oseen, cseen, reconcile>>
  BY DEF WriteNamespace
<1> QED  BY <1>7, <1>8, Quiet, Frame

\* A version of the Namespace without any metadata, or with those it had.
LEMMA EndNamespaceStep ==
    ASSUME IInv, DeleteNamespace \/ RemoveNamespace
    PROVE  IInv'
<1>1. CASE DeleteNamespace
  <2> DEFINE w == [Current(ns) EXCEPT !.phase = "deleting"]
  <2>1. w \in NsVersion /\ w.meta = Current(ns).meta
    BY TypeFacts DEF NsVersion
  <2>2. Metadata => AuthorizedNs(w)
    BY <2>1, TypeFacts DEF AuthorizedNs
  <2>3. ns' = Append(ns, w)
    BY <1>1 DEF DeleteNamespace
  <2> HIDE DEF w
  <2>4. NsGrows
    BY <2>1, <2>2, <2>3 DEF NsGrows
  <2> QED  BY <1>1, <2>4, Quiet, Frame DEF DeleteNamespace
<1>2. CASE RemoveNamespace
  <2> DEFINE w == [phase |-> "absent", meta |-> NoMeta]
  <2>1. w \in NsVersion /\ AuthorizedNs(w)
    BY DEF NsVersion, NoMeta, AuthorizedNs, Authorized, Keys
  <2>2. NsGrows
    BY <1>2, <2>1 DEF RemoveNamespace, NsGrows
  <2>3. NoObject \in ObjVersion /\ AuthorizedObj(NoObject)
    BY DEF NoObject, ObjVersion, AuthorizedObj, Authorized
  <2>4. ASSUME NEW x \in Objects
        PROVE  /\ Store(obj[x], NoObject) \in Seq(ObjVersion)
               /\ \/ Store(obj[x], NoObject) = obj[x]
                  \/ Store(obj[x], NoObject) = Append(obj[x], NoObject)
    BY <2>3, TypeFacts, AppendFacts DEF Store
  <2>5. ObjGrows
    BY <1>2, <2>3, <2>4 DEF RemoveNamespace, ObjGrows
  <2>6. CrbGrows /\ CachesMove /\ Proceeds /\ edits' \in 0 .. MaxEdits
    BY <1>2, Quiet DEF RemoveNamespace
  <2> QED  BY <2>2, <2>5, <2>6, Frame
<1> QED  BY <1>1, <1>2

\* One object gets a version.
LEMMA OneObjectGrows ==
    ASSUME IInv, NEW x \in Objects, NEW v \in ObjVersion,
           Metadata => AuthorizedObj(v),
           obj' = [obj EXCEPT ![x] = Append(obj[x], v)]
    PROVE  ObjGrows
<1>1. Append(obj[x], v) \in Seq(ObjVersion)
  BY TypeFacts, AppendFacts
<1>2. /\ obj' \in [Objects -> Seq(ObjVersion)] /\ obj'[x] = Append(obj[x], v)
      /\ \A y \in Objects \ {x} : obj'[y] = obj[y]
  BY <1>1, TypeFacts
<1> QED  BY <1>2 DEF ObjGrows

\* ReservedResourceQuotaLimitRangeValidator lets only privileged requesters
\* write the objects.
LEMMA WriteObjectStep ==
    ASSUME IInv, NEW who \in Requesters, NEW x \in Objects,
           NEW v \in Written(who), WriteObject(who, x, v)
    PROVE  IInv'
<1>1. PrivilegedUserSkipper(who, crb[cseen])
  BY DEF WriteObject, ReservedResourceQuotaLimitRangeValidator, multiSkipper
<1>2. Authorized(who.name) /\ Authorized(Default) /\ who.name \in Names
  BY <1>1, PassingIsAuthorized DEF Authorized, Names
<1>3. v \in ObjVersion /\ AuthorizedObj(v)
  <2>1. CASE v = NoObject
    BY <1>2, <2>1 DEF NoObject, ObjVersion, AuthorizedObj
  <2>2. CASE v # NoObject
    <3>1. PICK o \in {None, "namespace", "other"} :
            v = [exists |-> TRUE, hard |-> [r \in Resources |-> who.name],
                 owner |-> o]
      BY <2>2 DEF Written
    <3> QED  BY <1>2, <3>1 DEF ObjVersion, AuthorizedObj
  <2> QED  BY <2>1, <2>2
<1>4. ObjGrows
  <2>1. CASE v = Current(obj[x])
    <3>1. UNCHANGED obj
      BY <2>1, TypeFacts DEF WriteObject, Store
    <3> QED  BY <3>1, Quiet
  <2>2. CASE v # Current(obj[x])
    <3>1. obj' = [obj EXCEPT ![x] = Append(obj[x], v)]
      BY <2>2 DEF WriteObject, Store
    <3> QED  BY <1>3, <3>1, OneObjectGrows
  <2> QED  BY <2>1, <2>2
<1>5. Edit /\ UNCHANGED <<ns, crb, nseen, oseen, cseen, reconcile>>
  BY DEF WriteObject
<1> QED  BY <1>4, <1>5, Quiet, Frame

\* Bindings change.
LEMMA EditBindingsStep ==
    ASSUME IInv, NEW b \in Bindings, EditBindings(b)
    PROVE  IInv'
<1>1. CrbGrows
  BY DEF EditBindings, Store, CrbGrows
<1>2. Edit /\ UNCHANGED <<ns, obj, nseen, oseen, cseen, reconcile>>
  BY DEF EditBindings
<1> QED  BY <1>1, <1>2, Quiet, Frame

\* Watches move a cache inside its log.
LEMMA WatchStep ==
    ASSUME IInv,
           \/ WatchNamespace \/ WatchBindings
           \/ \E x \in Objects : WatchObject(x)
    PROVE  IInv'
<1>1. UNCHANGED <<ns, obj, crb, copy, todo, failed, edits>>
  BY DEF WatchNamespace, WatchBindings, WatchObject, reconcile
<1>2. queued' \in BOOLEAN
  BY DEF IInv, TypeOK, WatchNamespace, WatchBindings, WatchObject, reconcile
<1>3. Proceeds
  BY <1>1, <1>2 DEF IInv, TypeOK, Proceeds
<1>4. CachesMove
  <2>1. CASE WatchNamespace
    BY <2>1, TypeFacts DEF WatchNamespace, CachesMove, Behind
  <2>2. CASE WatchBindings
    BY <2>2, TypeFacts DEF WatchBindings, CachesMove, Behind
  <2>3. CASE \E x \in Objects : WatchObject(x)
    BY <2>3, TypeFacts DEF WatchObject, CachesMove, Behind
  <2> QED  BY <2>1, <2>2, <2>3
<1> QED  BY <1>1, <1>3, <1>4, Quiet, Frame

\* Reconcile begins with all objects, or returns; a restart forgets it.
LEMMA BeginOrRestart ==
    ASSUME IInv, Begin \/ Restart
    PROVE  IInv'
<1>1. UNCHANGED <<ns, obj, crb, nseen, oseen, cseen, edits>>
  BY DEF Begin, Restart
<1>2. Proceeds
  <2>0. LimitRange \in Objects /\ nseen \in Nat /\ nseen > 0
    BY TypeFacts DEF Objects
  <2>1. CASE Restart
    <3>1. queued' \in BOOLEAN
      BY <2>1 DEF Restart
    <3>2. copy' = 0 /\ todo' = {} /\ failed' = FALSE /\ 0 \in 0 .. nseen
      BY <2>0, <2>1 DEF Restart
    <3> QED  BY <3>1, <3>2 DEF Proceeds
  <2>2. CASE Begin /\ UNCHANGED <<copy, todo>>
    BY <2>2 DEF Begin, IInv, TypeOK, Proceeds
  <2>3. CASE Begin /\ copy' = nseen /\ todo' = Objects
    <3>1. queued' \in BOOLEAN /\ failed' \in BOOLEAN
      BY <2>3 DEF Begin, IInv, TypeOK
    <3> QED  BY <2>0, <2>3, <3>1 DEF Proceeds
  <2> QED  BY <2>1, <2>2, <2>3 DEF Begin
<1> QED  BY <1>1, <1>2, Quiet, Frame

\* Going on keeps the copy until the LimitRange is put.
LEMMA GoOnProceeds ==
    ASSUME IInv, NEW x \in Objects, IsNext(x), NEW err \in BOOLEAN, GoOn(x, err)
    PROVE  Proceeds
<1>1. /\ queued \in BOOLEAN /\ failed \in BOOLEAN /\ copy \in 0 .. nseen
      /\ todo \subseteq Objects /\ (copy # 0 <=> LimitRange \in todo)
      /\ (copy = 0 => todo = {} /\ ~failed) /\ nseen \in Nat
  BY TypeFacts DEF IInv, TypeOK
<1>2. LimitRange \in todo /\ copy # 0
  BY <1>1 DEF IsNext
<1>3. CASE todo' # {}
  <2>1. x # LimitRange
    BY <1>3 DEF GoOn, IsNext
  <2> QED  BY <1>1, <1>2, <1>3, <2>1 DEF GoOn, Proceeds
<1>4. CASE todo' = {}
  <2>1. copy' = 0 /\ failed' = FALSE /\ queued' \in BOOLEAN /\ 0 \in 0 .. nseen
    BY <1>1, <1>4 DEF GoOn
  <2> QED  BY <1>4, <2>1 DEF Proceeds
<1> QED  BY <1>3, <1>4

\* Put writes the defaults and the amounts of the copy of the Namespace.
LEMMA PutStep ==
    ASSUME IInv, NEW x \in Objects, Put(x) \/ CallFails(x)
    PROVE  IInv'
<1>1. /\ IsNext(x) /\ UNCHANGED <<ns, crb, nseen, oseen, cseen, edits>>
      /\ \E err \in BOOLEAN : GoOn(x, err)
  BY DEF Put, CallFails
<1>2. Proceeds
  BY <1>1, GoOnProceeds
<1> DEFINE meta == ns[copy].meta
           wanted == [exists |-> TRUE, hard |-> Hard(x, meta), owner |-> "namespace"]
<1>3. copy \in DOMAIN ns /\ ns[copy] \in NsVersion
  <2>1. copy \in 1 .. Len(ns)
    <3>1. copy # 0 /\ copy \in 0 .. nseen
      BY <1>1 DEF IInv, TypeOK, IsNext
    <3> QED  BY <3>1, TypeFacts
  <2> QED  BY <2>1, TypeFacts
<1>4. meta \in [Keys -> {None, Bad} \cup Names]
  BY <1>3 DEF NsVersion
<1>5. ASSUME NEW r \in Resources
      PROVE  /\ Hard(x, meta)[r] \in {Default} \cup Names
             /\ Metadata => Authorized(Hard(x, meta)[r])
  <2>1. CASE x = LimitRange \/ meta[<<x, r>>] \in {None, Bad}
    BY <2>1 DEF Hard, Authorized
  <2>2. CASE x # LimitRange /\ meta[<<x, r>>] \notin {None, Bad}
    <3>1. <<x, r>> \in Quotas \X Resources /\ <<x, r>> \in Keys
      BY <2>2 DEF Objects, Keys
    <3>2. Hard(x, meta)[r] = meta[<<x, r>>]
      BY <2>2 DEF Hard
    <3>3. Metadata => Authorized(meta[<<x, r>>])
      BY <1>3, <3>1 DEF IInv, AuthorizedNs
    <3> HIDE DEF meta
    <3> QED  BY <1>4, <2>2, <3>1, <3>2, <3>3
  <2> QED  BY <2>1, <2>2
<1>6. wanted \in ObjVersion /\ (Metadata => AuthorizedObj(wanted))
  <2>1. Hard(x, meta) \in [Resources -> {Default} \cup Names]
    BY <1>5 DEF Hard
  <2> HIDE DEF meta
  <2> QED  BY <1>5, <2>1 DEF ObjVersion, AuthorizedObj
<1>7. ObjGrows
  <2>1. UNCHANGED obj \/ obj' = [obj EXCEPT ![x] = Append(obj[x], wanted)]
    BY DEF Put, CallFails
  <2> HIDE DEF wanted
  <2> QED  BY <1>6, <2>1, Quiet, OneObjectGrows
<1> QED  BY <1>1, <1>2, <1>7, Quiet, Frame

-----------------------------------------------------------------------------
(* The invariant and what follows from it *)

\* The initial state.
LEMMA InvInit == Init => IInv
<1> SUFFICES ASSUME Init PROVE IInv  OBVIOUS
<1>1. [phase |-> "absent", meta |-> NoMeta] \in NsVersion
      /\ AuthorizedNs([phase |-> "absent", meta |-> NoMeta])
  BY DEF NsVersion, NoMeta, AuthorizedNs, Authorized, Keys
<1>2. NoObject \in ObjVersion /\ AuthorizedObj(NoObject)
  BY DEF NoObject, ObjVersion, AuthorizedObj, Authorized
<1>3. /\ ns \in Seq(NsVersion) /\ Len(ns) = 1 /\ DOMAIN ns = 1 .. 1
      /\ AuthorizedNs(ns[1])
  BY <1>1 DEF Init
<1>4. /\ obj \in [Objects -> Seq(ObjVersion)]
      /\ \A x \in Objects : Len(obj[x]) = 1 /\ DOMAIN obj[x] = 1 .. 1 /\ obj[x][1] = NoObject
  BY <1>2 DEF Init
<1>5. crb \in Seq(Bindings) /\ Len(crb) = 1
  <2>1. PICK b \in Bindings : crb = <<b>>
    BY DEF Init
  <2> QED  BY <2>1
<1>6. TypeOK
  <2>1. /\ nseen \in 1 .. Len(ns) /\ cseen \in 1 .. Len(crb)
        /\ oseen \in [Objects -> Nat]
        /\ \A x \in Objects : oseen[x] \in 1 .. Len(obj[x])
        /\ edits \in 0 .. MaxEdits /\ copy \in 0 .. nseen
    BY <1>3, <1>4, <1>5, LegacyAssumption DEF Init
  <2>2. /\ queued \in BOOLEAN /\ failed \in BOOLEAN /\ todo \subseteq Objects
        /\ copy # 0 <=> LimitRange \in todo
        /\ copy = 0 => todo = {} /\ ~failed
    BY DEF Init
  <2> QED  BY <1>3, <1>4, <1>5, <2>1, <2>2 DEF TypeOK, NsVersion, ObjVersion
<1>7. /\ \A i \in DOMAIN ns : AuthorizedNs(ns[i])
      /\ \A x \in Objects : \A i \in DOMAIN obj[x] : AuthorizedObj(obj[x][i])
  BY <1>2, <1>3, <1>4
<1> QED  BY <1>6, <1>7 DEF IInv

\* Every step.
LEMMA InvNext == IInv /\ [Next]_vars => IInv'
<1> SUFFICES ASSUME IInv, [Next]_vars PROVE IInv'  OBVIOUS
<1>1. CASE UNCHANGED vars
  <2>1. NsGrows /\ CrbGrows /\ ObjGrows /\ CachesMove /\ Proceeds
        /\ edits' \in 0 .. MaxEdits
    BY <1>1, Quiet DEF vars, reconcile
  <2> QED  BY <2>1, Frame
<1>2. CASE Next
  BY <1>2, WriteNamespaceStep, WriteObjectStep, EndNamespaceStep, EditBindingsStep,
     WatchStep, BeginOrRestart, PutStep DEF Next
<1> QED  BY <1>1, <1>2

\* Every reachable state is well typed; Reconcile holds a copy exactly while
\* the LimitRange is left to put.
THEOREM TypeCorrect == Spec => []TypeOK
<1>1. IInv => TypeOK
  BY DEF IInv
<1> QED  BY <1>1, InvInit, InvNext, PTL DEF Spec

\* No amount that somebody unprivileged chose gets into a quota: the webhooks
\* keep it out of the objects and out of the annotations that Reconcile
\* carries over, for every version of either.
THEOREM QuotasAreAuthorized == Spec => []AmountsAreAuthorized
<1>1. IInv => AmountsAreAuthorized
  <2> SUFFICES ASSUME IInv, Metadata, NEW x \in Objects, NEW i \in DOMAIN obj[x],
                      NEW r \in Resources
               PROVE  \/ obj[x][i].hard[r] = Default
                      \/ WasPrivileged(obj[x][i].hard[r])
    BY DEF AmountsAreAuthorized
  <2>1. Authorized(obj[x][i].hard[r])
    BY DEF IInv, AuthorizedObj
  <2>2. obj[x][i] \in ObjVersion
    BY TypeFacts
  <2>3. obj[x][i].hard[r] \in {Default} \cup Names
    BY <2>2 DEF ObjVersion
  <2> QED  BY <2>1, <2>3, LegacyAssumption DEF Authorized
<1> QED  BY <1>1, InvInit, InvNext, PTL DEF Spec
=============================================================================
