-------------------------- MODULE ZoneVersionProofs --------------------------
(***************************************************************************)
(* Proofs about ZoneVersion, for any Zones and any number of upgrades.     *)
(***************************************************************************)
EXTENDS ZoneVersion, FiniteSetTheorems, WellFoundedInduction, TLAPS

Update == [version: 1 .. MaxVersion, verified: BOOLEAN, time: Nat]
ClusterVersion == [desired: 1 .. MaxVersion, history: SUBSET Update]
ZoneObject == [labelled: BOOLEAN, features: BOOLEAN, k8s: 0 .. MaxVersion,
               ocp: 0 .. MaxVersion, other: Nat]

Completed(c) == {h \in c.history : h.time # 0}
Done(c) == {h \in c.history : h.time # 0 /\ h.verified}

\* A history has each version once, the desired one is the only one that may be
\* partial, and the last of those that are completed and verified is defined.
Orderly(c) ==
    /\ IsFiniteSet(c.history)
    /\ \A h \in c.history : /\ h.version <= c.desired
                            /\ h.time <= Cardinality(c.history)
                            /\ h.time = 0 => h.version = c.desired
    /\ \A g, h \in c.history : g.version = h.version => g = h
    /\ Done(c) # {} => \E h \in Done(c) : \A g \in Done(c) : g.time <= h.time

\* A ClusterVersion the agent has seen fits the versions o and k.
Seen(o, k) == \E j \in 1 .. cseen : Fit(o, k, cv[j])

\* The API servers run no older version than any that was completed.
ClusterInv ==
    /\ cv \in Seq(ClusterVersion) /\ Len(cv) > 0
    /\ k8s \in 1 .. MaxVersion /\ k8s <= Current(cv).desired
    /\ \A i \in DOMAIN cv : /\ Orderly(cv[i])
                            /\ \A h \in Completed(cv[i]) : h.version <= k8s

\* The version Reconcile has read fits the one the API servers run, then the one
\* it has read from them, and so do those it has written.
ReconcileInv ==
    /\ TypeOK
    /\ zone \in [Zones -> Seq(ZoneObject)]
    /\ zseen \in [Zones -> Nat] /\ held \in [Zones -> Nat]
    /\ ocp # 0 => Seen(ocp, k8s)
    /\ kube # 0 => Seen(ocp, kube)
    /\ VersionsFitTogether

IInv == ClusterInv /\ ReconcileInv

-----------------------------------------------------------------------------
(* The cluster *)

\* What Append does to a log.
LEMMA AppendFacts ==
    ASSUME NEW S, NEW log \in Seq(S), NEW v \in S
    PROVE  /\ Append(log, v) \in Seq(S)
           /\ Len(log) \in Nat
           /\ Len(Append(log, v)) = Len(log) + 1
           /\ DOMAIN Append(log, v) = 1 .. Len(log) + 1
           /\ DOMAIN log = 1 .. Len(log)
           /\ Append(log, v)[Len(log) + 1] = v
           /\ \A i \in 1 .. Len(log) : Append(log, v)[i] = log[i]
  OBVIOUS

LEMMA CurrentFacts ==
    ASSUME ClusterInv
    PROVE  /\ Current(cv) \in ClusterVersion /\ Orderly(Current(cv))
           /\ Current(cv).desired \in 1 .. MaxVersion
           /\ Current(cv).history \in SUBSET Update
           /\ \A h \in Completed(Current(cv)) : h.version <= k8s
<1>1. Len(cv) \in DOMAIN cv /\ Current(cv) = cv[Len(cv)] /\ Current(cv) \in ClusterVersion
  BY DEF ClusterInv, Current
<1>2. /\ Current(cv).desired \in 1 .. MaxVersion
      /\ Current(cv).history \in SUBSET Update
  BY <1>1 DEF ClusterVersion
<1> QED  BY <1>1, <1>2 DEF ClusterInv

LogGrows == Len(cv) <= Len(cv') /\ \A i \in DOMAIN cv : cv'[i] = cv[i]

\* A new version of the ClusterVersion.
LEMMA NewVersion ==
    ASSUME ClusterInv, NEW c \in ClusterVersion, cv' = Append(cv, c), UNCHANGED k8s,
           Orderly(c), k8s <= c.desired,
           \A h \in Completed(c) : h.version <= k8s
    PROVE  ClusterInv' /\ LogGrows
<1>1. cv \in Seq(ClusterVersion) /\ Len(cv) > 0 /\ Len(cv) \in Nat
  BY DEF ClusterInv
<1>2. /\ cv' \in Seq(ClusterVersion) /\ Len(cv') = Len(cv) + 1
      /\ DOMAIN cv' = 1 .. Len(cv) + 1 /\ DOMAIN cv = 1 .. Len(cv)
      /\ cv'[Len(cv) + 1] = c
      /\ \A i \in 1 .. Len(cv) : cv'[i] = cv[i]
  BY <1>1, AppendFacts
<1>3. LogGrows
  BY <1>1, <1>2 DEF LogGrows
<1>4. Current(cv') = c
  BY <1>2 DEF Current
<1>5. ASSUME NEW i \in DOMAIN cv'
      PROVE  /\ Orderly(cv'[i])
             /\ \A h \in Completed(cv'[i]) : h.version <= k8s
  <2>1. CASE i = Len(cv) + 1
    BY <1>2, <2>1
  <2>2. CASE i \in 1 .. Len(cv)
    BY <1>2, <2>2 DEF ClusterInv
  <2> QED  BY <1>2, <1>5, <2>1, <2>2
<1>6. k8s' \in 1 .. MaxVersion /\ k8s' <= Current(cv').desired
  BY <1>4 DEF ClusterInv
<1>7. \A i \in DOMAIN cv' : /\ Orderly(cv[i])'
                            /\ \A h \in Completed(cv[i])' : h.version <= k8s'
  BY <1>5 DEF Orderly, Completed, Done
<1>8. ClusterInv'
  BY <1>1, <1>2, <1>6, <1>7 DEF ClusterInv
<1> QED  BY <1>3, <1>8

LEMMA StartStep ==
    ASSUME ClusterInv, NEW verified \in BOOLEAN, StartUpgrade(verified)
    PROVE  ClusterInv' /\ LogGrows
<1> DEFINE c == Current(cv)
           u == [version |-> c.desired + 1, verified |-> verified, time |-> 0]
           d == [desired |-> c.desired + 1, history |-> c.history \cup {u}]
<1>1. /\ c.desired < MaxVersion /\ cv' = Append(cv, d) /\ UNCHANGED k8s
      /\ \A h \in c.history : h.time # 0
  BY DEF StartUpgrade, Upgrading
<1>2. /\ c.desired \in 1 .. MaxVersion /\ c.history \in SUBSET Update /\ Orderly(c)
      /\ \A h \in Completed(c) : h.version <= k8s
      /\ k8s <= c.desired /\ k8s \in 1 .. MaxVersion
  BY CurrentFacts DEF ClusterInv
<1> HIDE DEF c
<1>3. u \in Update /\ d \in ClusterVersion
  BY <1>1, <1>2, VersionsAssumption DEF Update, ClusterVersion
<1>4. /\ d.desired = c.desired + 1 /\ d.history = c.history \cup {u}
      /\ u.time = 0 /\ u.version = c.desired + 1
  OBVIOUS
<1> HIDE DEF d, u
<1>5. Done(d) = Done(c) /\ Completed(d) = Completed(c)
  BY <1>4 DEF Done, Completed
<1>6. u \notin c.history
  BY <1>1, <1>4
<1>7. /\ IsFiniteSet(d.history) /\ Cardinality(c.history) \in Nat
      /\ Cardinality(d.history) = Cardinality(c.history) + 1
  BY <1>2, <1>4, <1>6, FS_AddElement, FS_CardinalityType DEF Orderly
<1>8. ASSUME NEW h \in d.history
      PROVE  /\ h.version <= d.desired /\ h.time <= Cardinality(d.history)
             /\ h.time = 0 => h.version = d.desired
  BY <1>1, <1>2, <1>4, <1>7 DEF Orderly, Update
<1>9. ASSUME NEW g \in d.history, NEW h \in d.history, g.version = h.version
      PROVE  g = h
  BY <1>2, <1>4, <1>9 DEF Orderly, Update
<1>10. Orderly(d)
  BY <1>2, <1>5, <1>7, <1>8, <1>9 DEF Orderly
<1> QED  BY <1>1, <1>2, <1>3, <1>4, <1>5, <1>10, NewVersion

\* The update that was partial is the last one, and the API servers run it.
LEMMA CompleteStep ==
    ASSUME ClusterInv, CompleteUpgrade
    PROVE  ClusterInv' /\ LogGrows
<1> DEFINE c == Current(cv)
           n == Cardinality(c.history)
           Complete(h) == [h EXCEPT !.time = IF @ = 0 THEN n ELSE @]
           H == {Complete(h) : h \in c.history}
           d == [c EXCEPT !.history = H]
<1>1. /\ k8s = c.desired /\ cv' = Append(cv, d) /\ UNCHANGED k8s
      /\ \E h \in c.history : h.time = 0
  BY DEF CompleteUpgrade, Upgrading
<1>2. /\ c \in ClusterVersion
      /\ c.desired \in 1 .. MaxVersion /\ c.history \in SUBSET Update /\ Orderly(c)
      /\ \A h \in Completed(c) : h.version <= k8s
      /\ k8s \in 1 .. MaxVersion
  BY CurrentFacts DEF ClusterInv
<1>3. PICK u \in c.history : u.time = 0
  BY <1>1
<1> HIDE DEF c
<1>4. n \in Nat /\ n # 0 /\ IsFiniteSet(c.history)
  BY <1>2, <1>3, FS_CardinalityType, FS_EmptySet DEF Orderly
<1>5. \A h \in c.history : h.time = 0 => h = u
  BY <1>2, <1>3 DEF Orderly
<1> DEFINE w == [u EXCEPT !.time = n]
<1>6. /\ w \in Update /\ w.time = n /\ w.version = u.version
      /\ w.verified = u.verified /\ u \in Update
  BY <1>2, <1>3, <1>4 DEF Update
<1>7. Complete(u) = w /\ \A h \in c.history \ {u} : Complete(h) = h
  BY <1>2, <1>3, <1>5 DEF Update
<1>8. d.desired = c.desired /\ d.history = {Complete(h) : h \in c.history}
  BY <1>2 DEF ClusterVersion
<1>9. H \in SUBSET Update => d \in ClusterVersion
  BY <1>2 DEF ClusterVersion
<1>10. d.history = (c.history \ {u}) \cup {w}
  BY <1>3, <1>7, <1>8
<1> HIDE DEF d, w, Complete
<1>11. d \in ClusterVersion
  BY <1>2, <1>6, <1>8, <1>9, <1>10
<1>12. w \notin c.history \ {u}
  BY <1>2, <1>3, <1>6 DEF Orderly
<1>13. IsFiniteSet(d.history) /\ Cardinality(d.history) = n
  <2>1. /\ IsFiniteSet(c.history \ {u})
        /\ Cardinality(c.history \ {u}) = n - 1
    BY <1>3, <1>4, FS_RemoveElement
  <2>2. /\ IsFiniteSet((c.history \ {u}) \cup {w})
        /\ Cardinality((c.history \ {u}) \cup {w}) = Cardinality(c.history \ {u}) + 1
    BY <1>12, <2>1, FS_AddElement
  <2> QED  BY <1>4, <1>10, <2>1, <2>2
<1>14. ASSUME NEW h \in d.history
       PROVE  /\ h.version <= d.desired /\ h.time <= n /\ h.time # 0
              /\ h.version \in Nat /\ h.time \in Nat
  <2>1. CASE h = w
    BY <1>2, <1>3, <1>4, <1>6, <1>8, <2>1 DEF Orderly, Update
  <2>2. CASE h \in c.history \ {u}
    BY <1>2, <1>5, <1>8, <2>2 DEF Orderly, Update
  <2> QED  BY <1>10, <2>1, <2>2
<1>15. ASSUME NEW g \in d.history, NEW h \in d.history, g.version = h.version
       PROVE  g = h
  BY <1>2, <1>3, <1>6, <1>10, <1>15 DEF Orderly
<1>16. Done(c) \subseteq Done(d)
  BY <1>3, <1>10 DEF Done
<1>17. ASSUME Done(d) # {}
       PROVE  \E h \in Done(d) : \A g \in Done(d) : g.time <= h.time
  <2>1. CASE w.verified
    <3>1. w \in Done(d)
      BY <1>4, <1>6, <1>10, <2>1 DEF Done
    <3>2. \A g \in Done(d) : g.time <= w.time
      BY <1>6, <1>14 DEF Done
    <3> QED  BY <3>1, <3>2
  <2>2. CASE ~w.verified
    <3>1. Done(d) = Done(c)
      BY <1>3, <1>10, <1>16, <2>2 DEF Done
    <3> QED  BY <1>2, <1>17, <3>1 DEF Orderly
  <2> QED  BY <2>1, <2>2
<1>18. Orderly(d)
  BY <1>13, <1>14, <1>15, <1>17 DEF Orderly
<1>19. \A h \in Completed(d) : h.version <= k8s
  BY <1>1, <1>8, <1>14 DEF Completed
<1>20. k8s <= d.desired
  BY <1>1, <1>2, <1>8
<1> QED  BY <1>1, <1>2, <1>11, <1>16, <1>18, <1>19, <1>20, NewVersion

LEMMA RollOutStep ==
    ASSUME ClusterInv, RollOut
    PROVE  ClusterInv' /\ LogGrows /\ k8s <= k8s'
<1>1. /\ UNCHANGED cv /\ k8s' = Current(cv).desired /\ Current(cv).desired \in 1 .. MaxVersion
      /\ k8s <= k8s' /\ k8s \in 1 .. MaxVersion /\ Len(cv) \in Nat
  BY CurrentFacts DEF RollOut, ClusterInv
<1>2. LogGrows
  BY <1>1 DEF LogGrows
<1>3. Current(cv)' = Current(cv)
  BY <1>1 DEF Current
<1>4. ASSUME NEW i \in DOMAIN cv, NEW h \in Completed(cv[i])
      PROVE  h.version <= k8s'
  <2>1. h.version \in Nat
    <3>1. cv[i] \in ClusterVersion
      BY <1>4 DEF ClusterInv
    <3>2. h \in Update
      BY <1>4, <3>1 DEF Completed, ClusterVersion
    <3> QED  BY <3>2 DEF Update
  <2>2. h.version <= k8s
    BY <1>4 DEF ClusterInv
  <2> QED  BY <1>1, <2>1, <2>2
<1>5. \A i \in DOMAIN cv' : /\ Orderly(cv[i])'
                            /\ \A h \in Completed(cv[i])' : h.version <= k8s'
  BY <1>1, <1>2, <1>4 DEF Orderly, Completed, Done, ClusterInv
<1>6. ClusterInv'
  BY <1>1, <1>3, <1>5 DEF ClusterInv
<1> QED  BY <1>1, <1>2, <1>6

-----------------------------------------------------------------------------
(* Reconcile *)

\* The version reported is one of the cluster's, and the ClusterVersion it was
\* read from, whichever that is, fits it and what the API servers run.
LEMMA ExtractFacts ==
    ASSUME ClusterInv, NEW i \in DOMAIN cv
    PROVE  /\ extractOpenShiftVersion(cv[i]) \in 1 .. MaxVersion
           /\ Fit(extractOpenShiftVersion(cv[i]), k8s, cv[i])
<1> DEFINE c == cv[i]
<1>1. /\ c.desired \in 1 .. MaxVersion /\ c.history \in SUBSET Update /\ Orderly(c)
      /\ \A h \in Completed(c) : h.version <= k8s
  <2>1. c \in ClusterVersion
    BY DEF ClusterInv
  <2>2. c.desired \in 1 .. MaxVersion /\ c.history \in SUBSET Update
    BY <2>1 DEF ClusterVersion
  <2> QED  BY <2>2 DEF ClusterInv
<1> HIDE DEF c
<1>2. CASE Done(c) = {}
  BY <1>1, <1>2 DEF extractOpenShiftVersion, Done, Completed, Fit, c
<1>3. CASE Done(c) # {}
  <2> DEFINE last == CHOOSE h \in Done(c) : \A g \in Done(c) : g.time <= h.time
  <2>1. \E h \in Done(c) : \A g \in Done(c) : g.time <= h.time
    BY <1>1, <1>3 DEF Orderly
  <2>2. last \in Done(c)
    BY <2>1
  <2>3. extractOpenShiftVersion(c) = last.version
    BY <1>3 DEF extractOpenShiftVersion, Done
  <2> HIDE DEF last
  <2>4. last \in Completed(c) /\ last \in Update
    BY <1>1, <2>2 DEF Done, Completed
  <2>5. Fit(last.version, k8s, c)
    BY <1>1, <2>2 DEF Fit, Done, Completed
  <2> QED  BY <2>3, <2>4, <2>5 DEF Update, c
<1> QED  BY <1>2, <1>3

\* What the steps do to each part of the state.
ClusterMoves == ClusterInv' /\ LogGrows /\ k8s <= k8s'

ZonesGrow ==
    \/ UNCHANGED zone
    \/ \E z \in Zones, v \in ZoneObject :
        /\ v.ocp # 0 => Seen(v.ocp, v.k8s)
        /\ zone' = [zone EXCEPT ![z] = Append(zone[z], v)]

CachesMove ==
    /\ cseen' \in 1 .. Len(cv) /\ cseen <= cseen'
    /\ zseen' \in [Zones -> Nat]
    /\ \A z \in Zones : zseen'[z] \in 1 .. Len(zone[z]) /\ zseen[z] <= zseen'[z]

ReconcileMoves ==
    /\ held' \in [Zones -> Nat] /\ \A z \in Zones : held'[z] <= zseen[z]
    /\ {queued', failed'} \subseteq BOOLEAN
    /\ {ocp', kube'} \subseteq 0 .. MaxVersion
    /\ kube' # 0 <=> held' # NoneHeld
    /\ ocp' = 0 => kube' = 0 /\ ~failed'
    /\ ocp' # 0 => Seen(ocp', k8s)
    /\ kube' # 0 => Seen(ocp', kube')

\* What fitted goes on fitting, also with a newer Kubernetes version.
LEMMA SeenStays ==
    ASSUME ClusterInv, TypeOK, ClusterMoves, CachesMove,
           NEW o, NEW k \in Nat, NEW m \in Nat, k <= m, Seen(o, k)
    PROVE  Seen(o, m)'
<1>1. PICK j \in 1 .. cseen : Fit(o, k, cv[j])
  BY DEF Seen
<1>2. j \in DOMAIN cv /\ j \in 1 .. cseen'
  BY DEF TypeOK, CachesMove, ClusterInv
<1>3. cv'[j] = cv[j]
  BY <1>2 DEF ClusterMoves, LogGrows
<1> DEFINE c == cv[j]
<1>4. \A h \in c.history : h.version \in Nat
  <2>1. c \in ClusterVersion
    BY <1>2 DEF ClusterInv
  <2>2. c.history \in SUBSET Update
    BY <2>1 DEF ClusterVersion
  <2> QED  BY <2>2 DEF Update
<1>5. Fit(o, k, c)
  BY <1>1
<1> HIDE DEF c
<1>6. Fit(o, m, c)
  BY <1>4, <1>5 DEF Fit
<1>7. Fit(o, m, cv'[j])
  BY <1>3, <1>6 DEF c
<1> QED  BY <1>2, <1>7 DEF Seen

LEMMA ZonesFrame ==
    ASSUME zone \in [Zones -> Seq(ZoneObject)], ZonesGrow
    PROVE  /\ zone' \in [Zones -> Seq(ZoneObject)]
           /\ \A z \in Zones :
                /\ Len(zone[z]) \in Nat /\ Len(zone'[z]) \in Nat
                /\ Len(zone[z]) <= Len(zone'[z])
                /\ \A i \in DOMAIN zone'[z] :
                    \/ i \in DOMAIN zone[z] /\ zone'[z][i] = zone[z][i]
                    \/ zone'[z][i].ocp # 0 => Seen(zone'[z][i].ocp, zone'[z][i].k8s)
<1>1. CASE UNCHANGED zone
  BY <1>1
<1>2. ASSUME NEW y \in Zones, NEW v \in ZoneObject,
             v.ocp # 0 => Seen(v.ocp, v.k8s),
             zone' = [zone EXCEPT ![y] = Append(zone[y], v)]
      PROVE  /\ zone' \in [Zones -> Seq(ZoneObject)]
             /\ \A z \in Zones :
                /\ Len(zone[z]) \in Nat /\ Len(zone'[z]) \in Nat
                /\ Len(zone[z]) <= Len(zone'[z])
                /\ \A i \in DOMAIN zone'[z] :
                    \/ i \in DOMAIN zone[z] /\ zone'[z][i] = zone[z][i]
                    \/ zone'[z][i].ocp # 0 => Seen(zone'[z][i].ocp, zone'[z][i].k8s)
  <2>1. /\ zone[y] \in Seq(ZoneObject) /\ Append(zone[y], v) \in Seq(ZoneObject)
        /\ zone'[y] = Append(zone[y], v)
        /\ \A z \in Zones \ {y} : zone'[z] = zone[z]
    BY <1>2
  <2>2. zone' \in [Zones -> Seq(ZoneObject)]
    BY <1>2, <2>1
  <2>3. ASSUME NEW z \in Zones
        PROVE  /\ Len(zone[z]) \in Nat /\ Len(zone'[z]) \in Nat
               /\ Len(zone[z]) <= Len(zone'[z])
               /\ \A i \in DOMAIN zone'[z] :
                    \/ i \in DOMAIN zone[z] /\ zone'[z][i] = zone[z][i]
                    \/ zone'[z][i].ocp # 0 => Seen(zone'[z][i].ocp, zone'[z][i].k8s)
    <3>1. CASE z = y
      BY <1>2, <2>1, <3>1, AppendFacts
    <3>2. CASE z # y
      BY <2>1, <3>2
    <3> QED  BY <3>1, <3>2
  <2> QED  BY <2>2, <2>3
<1> QED  BY <1>1, <1>2 DEF ZonesGrow

\* A step whose parts do just this keeps the invariant.
LEMMA Frame ==
    ASSUME IInv, ClusterMoves, ZonesGrow, CachesMove, ReconcileMoves
    PROVE  IInv'
<1>1. /\ zone \in [Zones -> Seq(ZoneObject)] /\ TypeOK /\ VersionsFitTogether
      /\ cv \in Seq(ClusterVersion) /\ cv' \in Seq(ClusterVersion)
      /\ k8s \in 1 .. MaxVersion /\ k8s' \in 1 .. MaxVersion
      /\ zseen \in [Zones -> Nat]
  BY DEF IInv, ClusterInv, ReconcileInv, ClusterMoves
<1>2. /\ zone' \in [Zones -> Seq(ZoneObject)]
      /\ \A z \in Zones : /\ Len(zone[z]) \in Nat /\ Len(zone'[z]) \in Nat
                          /\ Len(zone[z]) <= Len(zone'[z])
  BY <1>1, ZonesFrame
<1>3. TypeOK'
  <2>1. cseen' \in 1 .. Len(cv') /\ k8s' \in 1 .. MaxVersion
    BY <1>1 DEF CachesMove, ClusterMoves, LogGrows
  <2>2. \A z \in Zones : zseen'[z] \in 1 .. Len(zone'[z])
    BY <1>2 DEF CachesMove
  <2>3. \A z \in Zones : held'[z] \in 0 .. zseen'[z]
    BY <1>1 DEF CachesMove, ReconcileMoves
  <2>4. NoneHeld' = NoneHeld
    BY DEF NoneHeld
  <2> QED  BY <2>1, <2>2, <2>3, <2>4 DEF TypeOK, ReconcileMoves
<1>4. VersionsFitTogether'
  <2> SUFFICES ASSUME NEW z \in Zones, NEW i \in DOMAIN zone'[z], zone'[z][i].ocp # 0
               PROVE  Seen(zone[z][i].ocp, zone[z][i].k8s)'
    BY DEF VersionsFitTogether, Seen
  <2>1. Seen(zone'[z][i].ocp, zone'[z][i].k8s)
    <3>1. \/ i \in DOMAIN zone[z] /\ zone'[z][i] = zone[z][i]
          \/ zone'[z][i].ocp # 0 => Seen(zone'[z][i].ocp, zone'[z][i].k8s)
      BY <1>1, ZonesFrame
    <3> QED  BY <1>1, <3>1 DEF VersionsFitTogether, Seen
  <2>2. zone'[z][i].k8s \in Nat
    <3>1. zone'[z][i] \in ZoneObject
      BY <1>2
    <3> QED  BY <3>1 DEF ZoneObject
  <2> QED  BY <1>1, <2>1, <2>2, SeenStays DEF IInv
<1>5. (ocp' # 0 => Seen(ocp, k8s)') /\ (kube' # 0 => Seen(ocp, kube)')
  <2>1. k8s \in Nat /\ k8s' \in Nat /\ k8s <= k8s' /\ kube' \in Nat
    BY <1>1 DEF ClusterMoves, ReconcileMoves
  <2>2. ASSUME ocp' # 0
        PROVE  Seen(ocp, k8s)'
    BY <1>1, <2>1, <2>2, SeenStays DEF ReconcileMoves, IInv
  <2>3. ASSUME kube' # 0
        PROVE  Seen(ocp, kube)'
    BY <1>1, <2>1, <2>3, SeenStays DEF ReconcileMoves, IInv
  <2> QED  BY <2>2, <2>3
<1>6. zseen' \in [Zones -> Nat] /\ held' \in [Zones -> Nat] /\ ClusterInv'
  BY DEF CachesMove, ReconcileMoves, ClusterMoves
<1> QED  BY <1>2, <1>3, <1>4, <1>5, <1>6 DEF IInv, ReconcileInv

\* What a step that leaves a part alone does to it.
LEMMA Quiet ==
    ASSUME IInv
    PROVE  /\ UNCHANGED <<cv, k8s>> => ClusterMoves
           /\ UNCHANGED zone => ZonesGrow
           /\ UNCHANGED <<cseen, zseen>> => CachesMove
           /\ UNCHANGED <<queued, ocp, kube, held, failed>> => ReconcileMoves
<1>1. ASSUME UNCHANGED <<cv, k8s>> PROVE ClusterMoves
  <2>1. LogGrows
    BY <1>1 DEF LogGrows, IInv, ClusterInv
  <2>2. Len(cv) \in Nat /\ k8s \in Nat
    BY DEF IInv, ClusterInv
  <2>3. ClusterInv'
    BY <1>1 DEF IInv, ClusterInv, Current, Orderly, Completed, Done
  <2> QED  BY <1>1, <2>1, <2>2, <2>3 DEF ClusterMoves
<1>2. UNCHANGED zone => ZonesGrow
  BY DEF ZonesGrow
<1>3. UNCHANGED <<cseen, zseen>> => CachesMove
  BY DEF CachesMove, IInv, ReconcileInv, TypeOK
<1>4. UNCHANGED <<queued, ocp, kube, held, failed>> => ReconcileMoves
  BY DEF ReconcileMoves, IInv, ReconcileInv, TypeOK
<1> QED  BY <1>1, <1>2, <1>3, <1>4

LEMMA ClusterStep ==
    ASSUME IInv,
           \/ \E verified \in BOOLEAN : StartUpgrade(verified)
           \/ RollOut \/ CompleteUpgrade
    PROVE  IInv'
<1>1. ClusterInv /\ k8s \in Nat
  BY DEF IInv, ClusterInv
<1>2. UNCHANGED <<zone, cseen, zseen, queued, ocp, kube, held, failed>>
  BY DEF StartUpgrade, RollOut, CompleteUpgrade, agent
<1>3. ClusterMoves
  <2>1. ASSUME NEW verified \in BOOLEAN, StartUpgrade(verified)
        PROVE  ClusterMoves
    BY <1>1, <2>1, StartStep DEF ClusterMoves, StartUpgrade, LogGrows
  <2>2. CASE RollOut
    BY <1>1, <2>2, RollOutStep DEF ClusterMoves
  <2>3. CASE CompleteUpgrade
    BY <1>1, <2>3, CompleteStep DEF ClusterMoves, CompleteUpgrade, LogGrows
  <2> QED  BY <2>1, <2>2, <2>3
<1> QED  BY <1>2, <1>3, Quiet, Frame

\* The current version of a Zone.
LEMMA ZoneFacts ==
    ASSUME IInv, NEW z \in Zones
    PROVE  /\ zone[z] \in Seq(ZoneObject) /\ Len(zone[z]) \in DOMAIN zone[z]
           /\ Current(zone[z]) \in ZoneObject
           /\ Current(zone[z]).ocp # 0 =>
                Seen(Current(zone[z]).ocp, Current(zone[z]).k8s)
<1>1. zone[z] \in Seq(ZoneObject) /\ Len(zone[z]) > 0
  BY DEF IInv, ReconcileInv, TypeOK
<1>2. Len(zone[z]) \in DOMAIN zone[z] /\ Current(zone[z]) = zone[z][Len(zone[z])]
  BY <1>1 DEF Current
<1> QED  BY <1>1, <1>2 DEF IInv, ReconcileInv, VersionsFitTogether, Seen

LEMMA EditStep ==
    ASSUME IInv, NEW z \in Zones, EditZone(z)
    PROVE  IInv'
<1> DEFINE c == Current(zone[z])
           v == [c EXCEPT !.other = c.other + 1]
<1>1. c \in ZoneObject /\ (c.ocp # 0 => Seen(c.ocp, c.k8s))
  BY ZoneFacts
<1>2. zone' = [zone EXCEPT ![z] = Append(zone[z], v)]
  BY DEF EditZone
<1>3. UNCHANGED <<cv, k8s, cseen, zseen, queued, ocp, kube, held, failed>>
  BY DEF EditZone, agent
<1> HIDE DEF c
<1>4. v \in ZoneObject /\ v.ocp = c.ocp /\ v.k8s = c.k8s
  BY <1>1 DEF ZoneObject
<1> HIDE DEF v
<1>5. ZonesGrow
  BY <1>1, <1>2, <1>4 DEF ZonesGrow
<1> QED  BY <1>3, <1>5, Quiet, Frame

LEMMA WatchStep ==
    ASSUME IInv, WatchClusterVersion \/ \E z \in Zones : WatchZone(z)
    PROVE  IInv'
<1>1. /\ cseen \in 1 .. Len(cv) /\ Len(cv) \in Nat /\ zseen \in [Zones -> Nat]
      /\ \A z \in Zones : zseen[z] \in 1 .. Len(zone[z]) /\ Len(zone[z]) \in Nat
  BY DEF IInv, ClusterInv, ReconcileInv, TypeOK
<1>2. CASE WatchClusterVersion
  <2>1. CachesMove
    BY <1>1, <1>2 DEF CachesMove, WatchClusterVersion, Behind
  <2>2. ReconcileMoves
    BY <1>2 DEF ReconcileMoves, WatchClusterVersion, IInv, ReconcileInv, TypeOK
  <2> QED  BY <1>2, <2>1, <2>2, Quiet, Frame DEF WatchClusterVersion, cluster
<1>3. ASSUME NEW z \in Zones, WatchZone(z)
      PROVE  IInv'
  <2>1. zseen' = [zseen EXCEPT ![z] = zseen[z] + 1] /\ zseen[z] < Len(zone[z])
    BY <1>3 DEF WatchZone, Behind
  <2>2. CachesMove
    BY <1>1, <1>3, <2>1 DEF CachesMove, WatchZone
  <2> QED  BY <1>3, <2>2, Quiet, Frame DEF WatchZone, cluster
<1> QED  BY <1>2, <1>3

LEMMA BeginStep ==
    ASSUME IInv, Begin
    PROVE  IInv'
<1>1. /\ cseen \in DOMAIN cv /\ cseen \in 1 .. cseen /\ ClusterInv /\ kube = 0
      /\ failed \in BOOLEAN /\ ~failed
  BY DEF IInv, ClusterInv, ReconcileInv, TypeOK, Begin
<1>2. ocp' \in 1 .. MaxVersion /\ Seen(ocp', k8s)
  BY <1>1, ExtractFacts DEF Begin, Seen
<1>3. ReconcileMoves
  <2>1. UNCHANGED <<kube, held, failed>> /\ queued' = FALSE
    BY DEF Begin
  <2>2. {queued', failed'} \subseteq BOOLEAN /\ ~failed'
    BY <1>1, <2>1
  <2>3. /\ held \in [Zones -> Nat] /\ \A z \in Zones : held[z] <= zseen[z]
        /\ held = NoneHeld
    BY <1>1 DEF IInv, ReconcileInv, TypeOK
  <2>4. {ocp', kube'} \subseteq 0 .. MaxVersion /\ kube' = 0
    BY <1>1, <1>2, <2>1, VersionsAssumption
  <2> QED  BY <1>2, <2>1, <2>2, <2>3, <2>4 DEF ReconcileMoves
<1> QED  BY <1>3, Quiet, Frame DEF Begin, cluster

\* Reconcile ends.
LEMMA ReturnMoves ==
    ASSUME IInv, NEW err \in BOOLEAN, Return(err)
    PROVE  ReconcileMoves
<1>1. /\ ocp' = 0 /\ kube' = 0 /\ held' = NoneHeld /\ failed' = FALSE
      /\ queued' \in BOOLEAN
  BY DEF Return, IInv, ReconcileInv, TypeOK
<1>2. NoneHeld \in [Zones -> Nat] /\ \A z \in Zones : NoneHeld[z] = 0
  BY DEF NoneHeld
<1>3. \A z \in Zones : zseen[z] \in Nat
  BY DEF IInv, ReconcileInv
<1>4. k8s \in 1 .. MaxVersion
  BY DEF IInv, ClusterInv
<1>5. {queued', failed'} \subseteq BOOLEAN /\ ~failed'
  BY <1>1
<1>6. {ocp', kube'} \subseteq 0 .. MaxVersion
  BY <1>1, <1>4, VersionsAssumption
<1>7. held' \in [Zones -> Nat] /\ \A z \in Zones : held'[z] <= zseen[z]
  BY <1>1, <1>2, <1>3
<1> QED  BY <1>1, <1>5, <1>6, <1>7 DEF ReconcileMoves

\* Both versions are there only after Reconcile has found a Zone.
LEMMA ReadStep ==
    ASSUME IInv, ReadVersionAndZones
    PROVE  IInv'
<1> DEFINE found == {z \in Zones : zone[z][zseen[z]].labelled}
           copies == [z \in Zones |-> IF z \in found THEN zseen[z] ELSE 0]
<1>1. UNCHANGED <<cv, k8s, zone, cseen, zseen>>
  BY DEF ReadVersionAndZones, cluster
<1>2. CASE Return(FALSE)
  BY <1>1, <1>2, ReturnMoves, Quiet, Frame
<1>3. ASSUME found # {}, kube' = k8s, held' = copies, ocp # 0,
             UNCHANGED <<ocp, queued, failed>>
      PROVE  IInv'
  <2>1. /\ zseen \in [Zones -> Nat] /\ \A z \in Zones : zseen[z] # 0
        /\ k8s \in 1 .. MaxVersion
    BY DEF IInv, ClusterInv, ReconcileInv, TypeOK
  <2>2. held' # NoneHeld
    BY <1>3, <2>1 DEF NoneHeld
  <2>3. held' \in [Zones -> Nat] /\ \A z \in Zones : held'[z] <= zseen[z]
    BY <1>3, <2>1
  <2> HIDE DEF copies, found
  <2>4. ReconcileMoves
    BY <1>3, <2>1, <2>2, <2>3 DEF ReconcileMoves, IInv, ReconcileInv, TypeOK
  <2> QED  BY <1>1, <2>4, Quiet, Frame
<1> QED  BY <1>2, <1>3 DEF ReadVersionAndZones

\* Reconcile goes on to the next Zone.
LEMMA GoOnMoves ==
    ASSUME IInv, NEW z \in Zones, held[z] # 0, NEW err \in BOOLEAN, GoOn(z, err)
    PROVE  ReconcileMoves
<1>1. failed \in BOOLEAN /\ held \in [Zones -> Nat]
  BY DEF IInv, ReconcileInv, TypeOK
<1>2. CASE \A y \in Zones \ {z} : held[y] = 0
  <2>1. Return(failed \/ err) /\ (failed \/ err) \in BOOLEAN
    BY <1>1, <1>2 DEF GoOn
  <2> QED  BY <2>1, ReturnMoves
<1>3. ASSUME NEW y \in Zones \ {z}, held[y] # 0
      PROVE  ReconcileMoves
  <2>1. /\ held' = [held EXCEPT ![z] = 0] /\ failed' = (failed \/ err)
        /\ UNCHANGED <<ocp, kube, queued>>
    BY <1>3 DEF GoOn
  <2>2. held'[y] # 0 /\ held' \in [Zones -> Nat]
    BY <1>1, <1>3, <2>1
  <2>3. held' # NoneHeld /\ held # NoneHeld
    BY <1>3, <2>2 DEF NoneHeld
  <2>4. \A x \in Zones : held'[x] <= zseen[x]
    BY <1>1, <2>1 DEF IInv, ReconcileInv, TypeOK
  <2>5. kube # 0 /\ ocp # 0
    BY <2>3 DEF IInv, ReconcileInv, TypeOK
  <2>6. failed' \in BOOLEAN
    BY <1>1, <2>1
  <2> QED  BY <2>1, <2>2, <2>3, <2>4, <2>5, <2>6
           DEF ReconcileMoves, IInv, ReconcileInv, TypeOK
<1> QED  BY <1>2, <1>3

\* What is written to a Zone fits together, as what Reconcile holds does.
LEMMA UpdateStep ==
    ASSUME IInv, NEW z \in Zones, UpdateZone(z)
    PROVE  IInv'
<1> DEFINE copy == zone[z][held[z]]
           new == [copy EXCEPT !.k8s = kube, !.ocp = ocp]
<1>1. UNCHANGED <<cv, k8s, cseen, zseen>> /\ held[z] # 0
  BY DEF UpdateZone
<1>2. CASE UNCHANGED zone
  <2>1. GoOn(z, TRUE) \/ GoOn(z, FALSE) \/ Return(TRUE)
    BY DEF UpdateZone
  <2> QED  BY <1>1, <1>2, <2>1, GoOnMoves, ReturnMoves, Quiet, Frame
<1>3. ASSUME zone' = [zone EXCEPT ![z] = Store(zone[z], new)], GoOn(z, FALSE)
      PROVE  IInv'
  <2>1. /\ held \in [Zones -> Nat] /\ zone \in [Zones -> Seq(ZoneObject)]
        /\ held[z] \in DOMAIN zone[z]
    BY <1>1 DEF IInv, ReconcileInv, TypeOK
  <2>2. kube # 0 /\ {ocp, kube} \subseteq 0 .. MaxVersion
    BY <1>1 DEF IInv, ReconcileInv, TypeOK, NoneHeld
  <2>3. Seen(ocp, kube)
    BY <2>2 DEF IInv, ReconcileInv
  <2>4. copy \in ZoneObject
    BY <2>1
  <2> HIDE DEF copy
  <2>5. new \in ZoneObject /\ new.ocp = ocp /\ new.k8s = kube
    BY <2>2, <2>4 DEF ZoneObject
  <2> HIDE DEF new
  <2>6. ZonesGrow
    <3>1. CASE Store(zone[z], new) = zone[z]
      BY <1>3, <2>1, <3>1 DEF ZonesGrow
    <3>2. CASE Store(zone[z], new) = Append(zone[z], new)
      BY <1>3, <2>3, <2>5, <3>2 DEF ZonesGrow
    <3> QED  BY <3>1, <3>2 DEF Store
  <2> QED  BY <1>1, <1>3, <2>6, GoOnMoves, Quiet, Frame
<1> QED  BY <1>2, <1>3 DEF UpdateZone

LEMMA FailOrRestart ==
    ASSUME IInv, CallFails \/ Restart
    PROVE  IInv'
<1>1. UNCHANGED <<cv, k8s, zone, cseen, zseen>>
  BY DEF CallFails, Restart, cluster
<1>2. ReconcileMoves
  <2>1. CASE Return(TRUE)
    BY <2>1, ReturnMoves
  <2>2. ASSUME NEW z \in Zones, held[z] # 0, GoOn(z, TRUE)
        PROVE  ReconcileMoves
    BY <2>2, GoOnMoves
  <2> QED  BY <2>1, <2>2 DEF CallFails, Restart
<1> QED  BY <1>1, <1>2, Quiet, Frame

-----------------------------------------------------------------------------
(* The invariant and what follows from it *)

\* Of updates whose times are bounded there is a latest.
LEMMA LatestExists ==
    ASSUME NEW m \in Nat, NEW D, D # {}, \A h \in D : h.time \in 1 .. m
    PROVE  \E h \in D : \A g \in D : g.time <= h.time
<1> DEFINE T == {m - h.time : h \in D}
<1>1. T \in SUBSET Nat /\ T # {}
  OBVIOUS
<1> DEFINE R == {p \in Nat \X Nat : p[1] < p[2]}
<1>2. IsWellFoundedOn(R, Nat)
  BY NatLessThanWellFounded DEF OpToRel
<1>3. PICK t \in T : \A y \in T : ~(<<y, t>> \in R)
  <2> HIDE DEF T, R
  <2> QED  BY <1>1, <1>2, WFMin
<1>4. PICK h \in D : t = m - h.time
  OBVIOUS
<1>5. ASSUME NEW g \in D
      PROVE  g.time <= h.time
  <2>1. m - g.time \in T /\ m - h.time \in Nat /\ m - g.time \in Nat
    BY <1>1
  <2>2. ~(m - g.time < m - h.time)
    BY <1>3, <1>4, <2>1
  <2> QED  BY <2>2
<1> QED  BY <1>5

LEMMA InvInit == Init => IInv
<1> SUFFICES ASSUME Init PROVE IInv  OBVIOUS
<1>1. PICK v \in [1 .. FirstVersion -> BOOLEAN] :
        cv = <<[desired |-> FirstVersion,
                history |-> {[version |-> n, verified |-> v[n], time |-> n] :
                              n \in 1 .. FirstVersion}]>>
  BY DEF Init
<1> DEFINE u == [n \in 1 .. FirstVersion |->
                    [version |-> n, verified |-> v[n], time |-> n]]
           H == {u[n] : n \in 1 .. FirstVersion}
           c == [desired |-> FirstVersion, history |-> H]
<1>2. cv = <<c>> /\ c.desired = FirstVersion /\ c.history = H
  BY <1>1
<1>3. \A n \in 1 .. FirstVersion : /\ u[n] \in Update
                                   /\ u[n].version = n /\ u[n].time = n
  BY VersionsAssumption DEF Update
<1>4. c \in ClusterVersion
  BY <1>3, VersionsAssumption DEF ClusterVersion
<1> HIDE DEF c
<1>5. /\ cv \in Seq(ClusterVersion) /\ Len(cv) = 1 /\ DOMAIN cv = 1 .. 1
      /\ cv[1] = c /\ Current(cv) = c
  BY <1>2, <1>4 DEF Current
<1>6. IsFiniteSet(H) /\ Cardinality(H) = FirstVersion
  <2>1. IsFiniteSet(1 .. FirstVersion) /\ Cardinality(1 .. FirstVersion) = FirstVersion
    BY FS_Interval, VersionsAssumption
  <2>2. u \in Bijection(1 .. FirstVersion, H)
    BY <1>3 DEF Bijection, Injection, Surjection, IsInjective
  <2>3. ExistsBijection(1 .. FirstVersion, H)
    BY <2>2 DEF ExistsBijection
  <2> QED  BY <2>1, <2>3, FS_Bijection
<1> HIDE DEF u
<1>7. Orderly(c)
  <2>1. ASSUME Done(c) # {}
        PROVE  \E h \in Done(c) : \A g \in Done(c) : g.time <= h.time
    <3>1. \A h \in Done(c) : h.time \in 1 .. FirstVersion
      BY <1>2, <1>3 DEF Done
    <3>2. FirstVersion \in Nat
      BY VersionsAssumption
    <3> HIDE DEF H
    <3> QED  BY <2>1, <3>1, <3>2, LatestExists
  <2>2. ASSUME NEW h \in H
        PROVE  /\ h.version <= FirstVersion /\ h.time <= FirstVersion /\ h.time # 0
               /\ h.version \in 1 .. FirstVersion /\ h = u[h.version]
    BY <1>3, VersionsAssumption
  <2>3. \A g, h \in H : g.version = h.version => g = h
    BY <2>2
  <2> HIDE DEF H
  <2> QED  BY <1>2, <1>6, <2>1, <2>2, <2>3 DEF Orderly
<1>8. k8s = FirstVersion /\ FirstVersion \in 1 .. MaxVersion /\ FirstVersion \in Nat
  BY VersionsAssumption DEF Init
<1>9. \A h \in Completed(c) : h.version <= k8s
  BY <1>2, <1>3, <1>8 DEF Completed
<1>10. ClusterInv
  BY <1>2, <1>5, <1>7, <1>8, <1>9 DEF ClusterInv
<1>11. ASSUME NEW z \in Zones
       PROVE  /\ zone[z] \in Seq(ZoneObject) /\ Len(zone[z]) = 1
              /\ DOMAIN zone[z] = 1 .. 1 /\ zone[z][1].ocp = 0
  <2>1. PICK l \in BOOLEAN, f \in BOOLEAN :
            zone[z] = <<[labelled |-> l, features |-> f, k8s |-> 0, ocp |-> 0,
                         other |-> 0]>>
    BY DEF Init
  <2> DEFINE w == [labelled |-> l, features |-> f, k8s |-> 0, ocp |-> 0, other |-> 0]
  <2>2. w \in ZoneObject /\ w.ocp = 0 /\ zone[z] = <<w>>
    BY <2>1, VersionsAssumption DEF ZoneObject
  <2> HIDE DEF w
  <2> QED  BY <2>2
<1>12. /\ cseen = 1 /\ zseen = [z \in Zones |-> 1] /\ queued = TRUE
       /\ ocp = 0 /\ kube = 0 /\ held = NoneHeld /\ failed = FALSE
  BY DEF Init
<1>13. TypeOK
  <2>1. \A z \in Zones : zseen[z] \in 1 .. Len(zone[z]) /\ held[z] \in 0 .. zseen[z]
    BY <1>11, <1>12 DEF NoneHeld
  <2>2. {queued, failed} \subseteq BOOLEAN /\ ~failed
    BY <1>12
  <2>3. {ocp, kube} \subseteq 0 .. MaxVersion
    BY <1>12, VersionsAssumption
  <2> QED  BY <1>5, <1>8, <1>12, <2>1, <2>2, <2>3 DEF TypeOK
<1>14. zone \in [Zones -> Seq(ZoneObject)]
  <2>1. zone = [z \in Zones |-> zone[z]]
    BY DEF Init
  <2> QED  BY <1>11, <2>1
<1>15. VersionsFitTogether
  BY <1>11 DEF VersionsFitTogether
<1> QED  BY <1>8, <1>10, <1>12, <1>13, <1>14, <1>15 DEF IInv, ReconcileInv, NoneHeld

LEMMA InvNext == IInv /\ [Next]_vars => IInv'
<1> SUFFICES ASSUME IInv, [Next]_vars PROVE IInv'  OBVIOUS
<1>1. CASE UNCHANGED vars
  BY <1>1, Quiet, Frame DEF vars
<1>2. CASE Next
  BY <1>2, ClusterStep, EditStep, WatchStep, BeginStep, ReadStep, UpdateStep,
     FailOrRestart DEF Next
<1> QED  BY <1>1, <1>2

\* Every reachable state is well typed: Reconcile has copies of Zones to update
\* exactly after it has read both versions.
THEOREM TypeCorrect == Spec => []TypeOK
<1>1. IInv => TypeOK
  BY DEF IInv, ReconcileInv
<1> QED  BY <1>1, InvInit, InvNext, PTL DEF Spec

\* Every pair of versions a Zone ever shows fits a ClusterVersion the agent has
\* seen, through any number of upgrades, verified or not, and however far the
\* cache of the ClusterVersion is behind: the OpenShift version is one it has as
\* completed and verified (the desired one only if it has none), and the
\* Kubernetes version is no older than any it has as completed.
THEOREM VersionsFit == Spec => []VersionsFitTogether
<1>1. IInv => VersionsFitTogether
  BY DEF IInv, ReconcileInv
<1> QED  BY <1>1, InvInit, InvNext, PTL DEF Spec
=============================================================================
