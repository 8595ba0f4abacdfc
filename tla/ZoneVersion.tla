----------------------------- MODULE ZoneVersion -----------------------------
(***************************************************************************)
(* ZoneK8sVersionReconciler (controllers/zonek8sversion_controller.go): it *)
(* writes the zone's OpenShift and Kubernetes versions to the Zone objects *)
(* of the control API that carry the zone's id.                            *)
(*                                                                         *)
(* The cluster is upgraded from version to version (the minor version is   *)
(* what is reported; Kubernetes version n comes with OpenShift version n). *)
(* The ClusterVersion and the Zones are read from caches, the Kubernetes   *)
(* version live.  Only the ClusterVersion is watched.                      *)
(***************************************************************************)
EXTENDS ApiServer, FiniteSets

CONSTANTS
    Zones,          \* Zone objects of the control API
    FirstVersion,   \* the version the zone is at when the agent starts
    MaxVersion,     \* bound: the last version the cluster is upgraded to
    MaxZoneEdits    \* bound: a Zone that was edited so often ends it

ASSUME VersionsAssumption ==
    /\ MaxVersion \in Nat /\ FirstVersion \in 1 .. MaxVersion
    /\ MaxZoneEdits \in Nat

VARIABLES
    cv,         \* versions of the ClusterVersion
    k8s,        \* the Kubernetes version the API servers run
    zone,       \* zone[z]: versions of Zone z
    cseen,      \* position of the agent's cache of the ClusterVersion
    zseen,      \* zseen[z]: position of its cache of Zone z
    queued,     \* the workqueue holds a request
    ocp, kube,  \* the versions Reconcile has read, 0: not yet
    held,       \* held[z]: position of the copy of z it has to update, 0: none
    failed      \* an Update failed

vars == <<cv, k8s, zone, cseen, zseen, queued, ocp, kube, held, failed>>
cluster == <<cv, k8s, zone>>

-----------------------------------------------------------------------------
(* time is the CompletionTime, 0 while the update is Partial.  The first      *)
(* entry is the installation; neither it nor the updates need be verified.   *)
(* Whether a Zone without the label has features does not matter.            *)
NoneHeld == [z \in Zones |-> 0]

Init ==
    /\ cv \in {<<[desired |-> FirstVersion,
                  history |-> {[version |-> n, verified |-> v[n], time |-> n] :
                                n \in 1 .. FirstVersion}]>> :
                 v \in [1 .. FirstVersion -> BOOLEAN]}
    /\ k8s = FirstVersion
    /\ zone \in [Zones -> {<<[labelled |-> l, features |-> f, k8s |-> 0,
                              ocp |-> 0, other |-> 0]>> :
                           l \in BOOLEAN, f \in BOOLEAN}]
    /\ \A z \in Zones : zone[z][1].labelled \/ zone[z][1].features
    /\ cseen = 1 /\ zseen = [z \in Zones |-> 1]
    /\ queued = TRUE
    /\ ocp = 0 /\ kube = 0 /\ held = NoneHeld /\ failed = FALSE

agent == <<cseen, zseen, queued, ocp, kube, held, failed>>

-----------------------------------------------------------------------------
(* The cluster version operator, and the control API *)

Upgrading == \E h \in Current(cv).history : h.time = 0

StartUpgrade(verified) ==
    LET c == Current(cv)
    IN  /\ ~Upgrading /\ c.desired < MaxVersion
        /\ cv' = Append(cv, [desired |-> c.desired + 1,
                history |-> c.history \cup
                    {[version |-> c.desired + 1, verified |-> verified, time |-> 0]}])
        /\ UNCHANGED <<k8s, zone, agent>>

\* The API servers are replaced before the upgrade completes.
RollOut ==
    /\ Upgrading
    /\ k8s' = Current(cv).desired
    /\ UNCHANGED <<cv, zone, agent>>

CompleteUpgrade ==
    /\ Upgrading /\ k8s = Current(cv).desired
    /\ cv' = Append(cv, [Current(cv) EXCEPT !.history =
            {[h EXCEPT !.time = IF @ = 0 THEN Cardinality(Current(cv).history)
                                         ELSE @] : h \in @}])
    /\ UNCHANGED <<k8s, zone, agent>>

\* Somebody changes another part of the Zone; its label and whether it has
\* features stay as they were when the agent started.
EditZone(z) ==
    LET v == Current(zone[z])
    IN  /\ \A y \in Zones : Current(zone[y]).other < MaxZoneEdits
        /\ zone' = [zone EXCEPT ![z] = Append(@, [v EXCEPT !.other = v.other + 1])]
        /\ UNCHANGED <<cv, k8s, agent>>

-----------------------------------------------------------------------------
WatchClusterVersion ==
    /\ Behind(cv, cseen)
    /\ cseen' = cseen + 1
    /\ queued' = TRUE
    /\ UNCHANGED <<cluster, zseen, ocp, kube, held, failed>>

\* The cache of Zones follows without enqueuing anything.
WatchZone(z) ==
    /\ Behind(zone[z], zseen[z])
    /\ zseen' = [zseen EXCEPT ![z] = @ + 1]
    /\ UNCHANGED <<cluster, cseen, queued, ocp, kube, held, failed>>

-----------------------------------------------------------------------------
(* Reconcile *)

\* Mutant of extractOpenShiftVersion: the version that is aimed at.
extractDesiredVersion(c) == c.desired

\* The version of the last update that is completed and verified, else the
\* desired one.
extractOpenShiftVersion(c) ==
    LET done == {h \in c.history : h.time # 0 /\ h.verified}
    IN  IF done = {} THEN c.desired
        ELSE (CHOOSE h \in done : \A g \in done : g.time <= h.time).version

\* Mutant of Return: the errors outlive the Reconcile.
ReturnKeepingErrors(err) ==
    /\ ocp' = 0 /\ kube' = 0 /\ held' = NoneHeld
    /\ queued' = (queued \/ err)
    /\ UNCHANGED failed

Return(err) ==
    /\ ocp' = 0 /\ kube' = 0 /\ held' = NoneHeld /\ failed' = FALSE
    /\ queued' = (queued \/ err)

Begin ==
    /\ ocp = 0 /\ queued
    /\ queued' = FALSE
    /\ ocp' = extractOpenShiftVersion(cv[cseen])
    /\ UNCHANGED <<cluster, cseen, zseen, kube, held, failed>>

\* /version is read live, then the Zones with the label are listed.
ReadVersionAndZones ==
    LET found == {z \in Zones : zone[z][zseen[z]].labelled}
    IN  /\ ocp # 0 /\ kube = 0
        /\ \/ /\ found # {}
              /\ kube' = k8s
              /\ held' = [z \in Zones |-> IF z \in found THEN zseen[z] ELSE 0]
              /\ UNCHANGED <<ocp, queued, failed>>
           \/ found = {} /\ Return(FALSE)
        /\ UNCHANGED <<cluster, cseen, zseen>>

\* Mutant of GoOn: the errors are not returned.
GoOnSwallowing(z, err) ==
    IF \A y \in Zones \ {z} : held[y] = 0 THEN Return(FALSE)
    ELSE /\ held' = [held EXCEPT ![z] = 0]
         /\ UNCHANGED <<ocp, kube, queued, failed>>

\* On to the next Zone; after the last the combined errors are returned.
GoOn(z, err) ==
    IF \A y \in Zones \ {z} : held[y] = 0 THEN Return(failed \/ err)
    ELSE /\ held' = [held EXCEPT ![z] = 0]
         /\ failed' = (failed \/ err)
         /\ UNCHANGED <<ocp, kube, queued>>

\* Zones are listed in no particular order.  Writing to the features of a Zone
\* that has none panics: controller-runtime recovers and Reconcile fails there.
UpdateZone(z) ==
    LET copy == zone[z][held[z]]
        new == [copy EXCEPT !.k8s = kube, !.ocp = ocp]
    IN  /\ held[z] # 0
        /\ \/ /\ copy.features /\ UpToDate(zone[z], held[z])
              /\ zone' = [zone EXCEPT ![z] = Store(@, new)]
              /\ GoOn(z, FALSE)
           \/ /\ copy.features /\ ~UpToDate(zone[z], held[z])
              /\ UNCHANGED zone
              /\ GoOn(z, TRUE)
           \/ /\ ~copy.features
              /\ UNCHANGED zone
              /\ Return(TRUE)
        /\ UNCHANGED <<cv, k8s, cseen, zseen>>

\* The call Reconcile is about to make fails.
CallFails ==
    /\ ocp # 0
    /\ \/ kube = 0 /\ Return(TRUE)
       \/ \E z \in Zones : held[z] # 0 /\ zone[z][held[z]].features
                        /\ GoOn(z, TRUE)
    /\ UNCHANGED <<cluster, cseen, zseen>>

\* The agent restarts; the ClusterVersion is enqueued when it is listed.
Restart ==
    /\ Return(TRUE)
    /\ UNCHANGED <<cluster, cseen, zseen>>

-----------------------------------------------------------------------------
Next ==
    \/ \E verified \in BOOLEAN : StartUpgrade(verified)
    \/ RollOut \/ CompleteUpgrade
    \/ WatchClusterVersion \/ Begin \/ ReadVersionAndZones \/ CallFails \/ Restart
    \/ \E z \in Zones : EditZone(z) \/ WatchZone(z) \/ UpdateZone(z)

Spec == Init /\ [][Next]_vars

\* Watches and the worker make progress, no call fails for ever, and no Zone
\* always comes after one that fails.
FairSpec ==
    /\ Spec
    /\ WF_vars(WatchClusterVersion) /\ WF_vars(Begin)
    /\ SF_vars(ReadVersionAndZones)
    /\ \A z \in Zones : WF_vars(WatchZone(z)) /\ SF_vars(UpdateZone(z))

-----------------------------------------------------------------------------
(* Properties *)

\* Types of the state.  Reconcile has copies of Zones to update exactly after
\* it has read both versions.
TypeOK ==
    /\ cseen \in 1 .. Len(cv) /\ k8s \in 1 .. MaxVersion
    /\ \A z \in Zones : /\ zseen[z] \in 1 .. Len(zone[z])
                        /\ held[z] \in 0 .. zseen[z]
    /\ {queued, failed} \subseteq BOOLEAN
    /\ {ocp, kube} \subseteq 0 .. MaxVersion
    /\ kube # 0 <=> held # NoneHeld
    /\ ocp = 0 => kube = 0 /\ ~failed

\* The versions o and k, of OpenShift and of Kubernetes, can have been there
\* together in a zone whose ClusterVersion was c: o is one that c has as completed
\* and verified, or, while it has none, the one it aims at, and k is no older
\* than what c says was completed.
Fit(o, k, c) ==
    LET completed == {h \in c.history : h.time # 0}
        verified == {h \in completed : h.verified}
    IN  /\ IF verified = {} THEN o = c.desired ELSE \E h \in verified : h.version = o
        /\ \A h \in completed : h.version <= k

\* What a Zone says fits together, although one version is read from a cache
\* and the other live, at different times of an upgrade: for every pair of
\* versions a Zone ever showed there is one ClusterVersion the agent has seen
\* that both fit.  So the OpenShift version is not newer than the Kubernetes
\* version next to it as soon as that ClusterVersion has a verified update that
\* is completed, whether the installation was verified or not.
VersionsFitTogether ==
    \A z \in Zones : \A i \in DOMAIN zone[z] :
        LET v == zone[z][i]
        IN  v.ocp # 0 => \E j \in 1 .. cseen : Fit(v.ocp, v.k8s, cv[j])

\* When no upgrade is under way any more, every Zone with the zone's id has
\* both versions: although others edit the Zone and make Updates fail, and
\* although another Zone may fail for good.
Reported ==
    <>[](~Upgrading =>
            \A z \in Zones :
                LET v == Current(zone[z])
                IN  v.labelled /\ v.features =>
                        /\ v.k8s = k8s
                        /\ v.ocp = extractOpenShiftVersion(Current(cv)))
=============================================================================
