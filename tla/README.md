# TLA+ verification of the APPUiO Cloud Agent

The agent (`src/`) runs once per zone, an OpenShift cluster. Its controllers
keep the zone in step with a central control API and put defaults into the
Namespaces of organizations; its admission webhooks decide who may create what.
This directory holds TLA+ models of that code, the TLC configurations that
check them on small instances, and TLAPS proofs for every instance.
`PROJECT.json` maps each definition to the source lines it models, and lists
the runs, the hazards they are aimed at, and what they found.

## Inventory

| Part | State it keeps | Operations | What makes it correct |
|---|---|---|---|
| Group sync (`controllers/groupsync_controller.go`) | OpenShift Groups; the zone's finalizer on the upstream Team or OrganizationMembers | `Reconcile`: create, update or delete the Group, then set or lift the finalizer | the finalizer guards the Group; zones leave each other's finalizers alone; members arrive |
| Organization mutator (`webhooks/namespace_project_organization_mutator.go`) | none; reads cached Users, Groups, Namespaces | decide the organization label of a Namespace or Project | an organization's Namespaces go back to its members |
| Namespace quota (`webhooks/namespace_quota_validator.go`) | none; reads cached Namespaces, profile, overrides | admit or refuse a Namespace or ProjectRequest | the quota holds, or by how much it can fail |
| Skippers (`skipper/`) | none; reads cached ClusterRoleBindings | let privileged requesters pass | nobody passes who was never privileged |
| Organization RBAC (`controllers/org_rbac_controller.go`) | default RoleBindings | `Reconcile`: initialize each, own each | subjects that users changed are kept; errors are retried |
| User attribute sync (`controllers/userattributesync_controller.go`) | an annotation of the User | `Reconcile`: compare, patch | the default organization arrives |
| Usage profiles (`controllers/zoneusageprofile{sync,apply}_controller.go`, `controllers/transformers/`) | ZoneUsageProfiles; their resources in Namespaces; the kinds that are watched | `Reconcile` of either; dynamic watches | every Namespace gets the profile; two profiles do not fight over a resource |
| Legacy resource quota (`controllers/legacy_resource_quota_controller.go`) | ResourceQuotas, LimitRange | `Reconcile`: put each, with the Namespace's overrides | defaults and overrides arrive although some do not parse or another controller owns an object |
| Metadata and reserved-name webhooks (`webhooks/namespace_metadata_validator.go`, `webhooks/reserved_resourcequota_limitrange_validator.go`) | none; read cached ClusterRoleBindings | admit or refuse writes of Namespaces, ResourceQuotas, LimitRanges | users do not raise their own quota |
| Zone Kubernetes version (`controllers/zonek8sversion_controller.go`) | features of the upstream Zones | `Reconcile`: read both versions, update every Zone | the versions arrive, and those next to each other fit |
| Pod mutators (`webhooks/pod_node_selector_mutator.go`, `webhooks/pod_runonce_active_deadline_seconds_mutator.go`) | none; read cached Namespaces | complete a Pod | Pods run where and as long as the Namespace says |
| Ratio (`ratio/`, `limits/`, `webhooks/ratio_validator.go`, `controllers/ratio_controller.go`) | events on the Namespace | sum requests, compare with limits, warn | every unfair ratio is reported, no fair one is, and the webhook foretells what the mutators will do |
| Load balancer webhook (`webhooks/service_cloudscale_lb_validator.go`) | none | refuse a change of one annotation | a function of the request |

The parts meet in the objects of the API server: group sync writes the Groups
and user attribute sync the annotations that the organization mutator reads;
the mutator writes the labels that the quota, RBAC and usage profiles go by;
profile sync writes the ZoneUsageProfiles that apply and the quota read. The
metadata webhook guards the annotations that the legacy quota goes by, and the
node selector mutator makes the groups of Pods that the ratio is about.

What is hard is the same nearly everywhere. The agent reads from watch caches
that trail behind, holds what it read while other actors write, and makes
several calls of which any can fail, be answered but lost, or be the last
before a restart. What a Reconcile writes is protected by a `resourceVersion`
in some places (`Update` of a Group, a RoleBinding, the finalizers) and not in
others (`Delete` of a Group, the patch of a User, the overwrite of a profile's
resource). Webhooks decide on a request that is stored only later.

## Modules

* **ApiServer** (external): what is assumed of a Kubernetes API server. An
  object is the sequence of its versions; a `resourceVersion` and a watch cache
  are positions in it. All components use it, so that staleness, optimistic
  concurrency and event order mean the same in each.
* **GroupSync**: any number of zones, one upstream object, one Group per zone.
  `pc` and `obj` are a running `Reconcile` and the copy it holds; there is one
  step per call (`Begin`, `PutGroup`, `AddFinalizer`, `DeleteGroup`,
  `RemoveFinalizer`), and every call may fail (`CallFails`), lose its answer, or
  be cut short by `Restart`. `CreateUpstream`, `SetMembers`, `DeleteUpstream`
  and `EditGroup` are the control API and administrators.
* **GuardedReplica**: what a finalizer promises, without caches, copies, retries
  and restarts. `GroupSync!Abstract` instantiates it: `phase` and `guards` are
  those of the current upstream object, `ever` the zones whose finalizer it has
  had under its present uid, `replicas` the zones whose Group exists.
* **GroupSyncProofs**, **GroupSyncRefinement**, **NamespaceAdmissionProofs**,
  **LegacyQuotaProofs**, **OrgRbacProofs**, **UsageProfileProofs**,
  **ZoneVersionProofs**, **FairUseProofs**: theorems about the module they are
  named after, and in the last one about Ratio.
* **NamespaceAdmission**: requests of users, service accounts (each stands for
  its Namespace) and OpenShift components on their way through the mutator and
  the quota validator to the store. Every webhook is one step: it reads caches
  and answers. `OrganizationFor`, `handleUserRequested`,
  `handleServiceAccountNamespace`, `QuotaOrganization` and `NsCountLimit` are
  the decisions, as sets of admitted outcomes (empty: refused).
  `PrivilegedUserSkipper` is membership in a constant set. A request and a
  stored Namespace remember, in `quota`, the organization they were checked
  against; only the properties look at it.
* **Skipper**: the privileged users, groups and cluster roles as operators.
* **LegacyQuota**: one Namespace, its ResourceQuotas and LimitRange, the
  Reconcile that writes them (`Put`, one step per object) and the two webhooks as
  guards of what users write. An amount is represented by the name of who wrote
  it, so that one can tell whose amount a quota holds.
* **OrgRbac**: one Namespace and its default RoleBindings. `Begin` reads the
  Namespace; `putRoleBinding` is one CreateOrUpdate, in any order, as the code
  ranges over a map; `GoOn` collects the errors.
* **UserAttributeSync**: one User on either side. `NeedsPatch` compares cached
  copies, `Patch` writes without `resourceVersion`.
* **UsageProfile**: both profile controllers. The profiles all hold one resource
  of one name, which is where they can conflict. `Sync` is the Reconcile of the
  first; `Begin`, `GetResource` and `applyResourceToNamespace` that of the
  second, whose read is live (unstructured objects are not cached).
  `WatchResource` works from the first apply on (`ensureWatch`).
* **Ratio**: sums, both roundings, the comparison and the limits by label selector,
  on integers (`Core` units to a core, `MiB` bytes to a MiB). `WellBelow` and
  `AtLimit` are the reference: the same comparison without rounding.
* **FairUse**: the Pods of a Namespace. `CreatePod` passes both mutators;
  `Reconcile` is the ratio controller's; `RatioValidator` is the set of answers
  of the webhook, which never refuses and so changes no state.
* **ZoneVersion**: one agent, the cluster's upgrades, and the Zones of the control
  API. `Begin` reads the cached ClusterVersion, `ReadVersionAndZones` the live
  `/version` and the cached Zones, `UpdateZone` writes one of them.
* **MC...** modules give constants that need a definition, and symmetry sets.

A definition whose comment begins "Mutant of" is a plausible bug of the
definition it names; each property is known to notice one of them.

## Assumptions

* A cache never goes back, also across a restart: the list an agent starts from
  is no older than what it had seen. (GroupSync lets it be any newer; the other
  modules let it catch up by watch steps.)
* Each controller has one worker (`MaxConcurrentReconciles` is not set) and one
  active replica per zone.
* Updates without `resourceVersion` are accepted, as for ResourceQuota and
  LimitRange.
* Caches of Users and Groups in NamespaceAdmission are represented by their
  content; a change to them is when the cache gets it.
* Every webhook of a model is called (its `failurePolicy` is `Fail`, but for the
  ratio's, which only warns) and, unless a constant says otherwise, enabled.
  Mutating webhooks are called in the order of their names.
* Wildcards of the configuration stand for the names they match.
* Where the code ranges over a map, or over a list from a cache, any order is
  possible.
* A panic in a Reconcile counts as an error, as controller-runtime v0.19 recovers
  it: ZoneVersion has one, the write to the features of a Zone that has none.
* The periodic resync of caches (hours) is left out, so nothing converges
  thanks to it.

Fairness: watches and workers are weakly fair, since informers and workqueues
run on their own. Calls are strongly fair: a failing call is retried for ever
with back-off and neither calls nor the agent fail for ever. Users,
administrators and the control API owe nothing, but rest at their bounds.

## Runs

| Run | Instance | Shows |
|---|---|---|
| `groupsync_zones` | 2 zones, 5 upstream versions | `FinalizerProtectsGroup`, `OwnFinalizerOnly`, `ImplementsGuardedReplica`; `Converges` in spite of conflicts between zones |
| `groupsync_converges` | 1 zone, 1 user, 5 upstream and 4 Group versions | `Converges` with members, manual edits, re-creation |
| `groupsync_orphan` | 1 zone | **violated**: a Group without finalizer outlives its upstream object |
| `admission_organization` | 1 user, 2 Namespaces, 2 organizations, all kinds of request, 4 versions, 1 change of the directory | `OrganizationsComeFromMembers` |
| `admission_quota` | 2 requests at a time, 2 Namespaces, 2 organizations, limit 1, cache 1 behind, creation, relabelling, deletion and Projects, 3 writes, 1 change of the directory | `QuotaExcessBounded` |
| `orgrbac` | 2 RoleBindings, 2 organizations, 2 edits | `InitializedIsKept`, `BindsOwnOrganization`; `Converges`, no error lost |
| `userattributesync_converges` | 2 organizations, 4 versions on either side | `Converges` |
| `usageprofile_overrides` | selected profile, 2 specs, 2 Namespaces, overrides that do not parse or are refused, 2 edits | `Converges`, no failure hidden or blocking |
| `usageprofile_conflict` | 2 profiles, 1 Namespace, valid overrides, 3 edits | `NoTakeover`; `Converges` |
| `legacyquota` | 1 quota of 2 resources and the LimitRange, 1 requester who is made and unmade privileged by a binding, 3 edits | `AmountsAreAuthorized`; `Converges`, nothing held up |
| `fairuse` | 2 Pods, 3 edits, limits with all operators of label selectors | `NoFalseAlarm`, `ForetellsNewPods`, `PodsAreCompleted`; `LowRatioIsTold` |
| `zoneversion` | 2 Zones with or without label and features, an installation and an update behind it and one ahead, each verified or not, 1 edit | `VersionsFitTogether`; `Reported` |

Bounds: `MaxRv`, `MaxWrites`, `MaxEdits` and their like stop the other actors,
never the agent, so that a Reconcile can always run to its end. Where a module
counts edits, these may fall on any object and at any time. The bounds allow
what the properties need: an object that is created, changed or deleted and
created again, a stale copy from before each of these, and two actors between
each other's read and write.
Symmetry is used only where no temporal property is checked.

What the quota does and does not hold: admission counts stored Namespaces, from
a cache, so requests that are under way together are admitted on the same count.
Nothing is counted when a Namespace is relabelled, and a Project takes the
default organization that holds when it is created, not the one its
ProjectRequest was checked against. `QuotaExcessBounded` says that these are all
the ways past it: Namespaces checked against the organization they are in
exceed its limit by at most the lag of the cache and the other requests under
way.

What the ratio webhook does and does not foretell: the webhook takes the object's
selector as it is, or the default where it has none, and counts the object to
the group of Pods that has just this selector, else to some group that has all of
it; the mutator adds what the default has and the selector has not.
`ForetellsNewPods` holds where these come to the same (`SinglesOut`). They do
not, and the webhook looks at another group, where the selector lacks keys of the
default and there are Pods with just this selector, or no Pods in the right group
yet, or Pods in several groups that have all of it. Both read the Namespace as it
is cached when the object is created: an annotation that changes before the Pods
come makes the warning one about other Pods.

What a Zone shows: the OpenShift version is of a ClusterVersion that may be far
behind, the Kubernetes version is live, so the second can be newer, and while an
upgrade is under way it is. `VersionsFitTogether` says that it is not older than
what that ClusterVersion had completed. While no completed update was verified
the code reports the desired version, which may be newer than the API servers.

### Findings

* **Orphaned Group.** `Reconcile` creates the Group before it adds the
  finalizer. If the upstream object is deleted in between nothing holds it; the
  `Update` fails, the retry finds no upstream object and returns nil. The Group,
  by which the mutator decides membership, stays.

## Proofs

For every value of the constants that satisfies the named `ASSUME`s:

| Module | Theorem | States |
|---|---|---|
| `GroupSyncProofs` | `FinalizerSafe` | `Spec => []FinalizerProtectsGroup` |
| | `FinalizersAreOwn` | `Spec => OwnFinalizerOnly` |
| `GroupSyncRefinement` | `Refinement` | `Spec => ImplementsGuardedReplica` |
| `NamespaceAdmissionProofs` | `NobodyFromOutside` | `Spec => []OrganizationsComeFromMembers` |
| | `QuotaHolds` | `Spec => []QuotaExcessBounded` |
| `LegacyQuotaProofs` | `QuotasAreAuthorized` | `Spec => []AmountsAreAuthorized` |
| `OrgRbacProofs` | `BindsOwn` | `Spec => []BindsOwnOrganization` |
| | `SubjectsKept` | `Spec => InitializedIsKept` |
| `UsageProfileProofs` | `TakesNothingOver` | `Spec => NoTakeover` |
| `ZoneVersionProofs` | `VersionsFit` | `Spec => []VersionsFitTogether` |
| `FairUseProofs` | `AlarmsAreTrue` | `Spec => []NoFalseAlarm` |
| | `ForetellsHolds` | `Spec => []ForetellsNewPods` |
| | `PodsComplete` | `Spec => []PodsAreCompleted` |

and in each `...Proofs` module but the last `TypeCorrect`, `Spec => []TypeOK`
(FairUse has no such property; its types are part of the invariant). These are
all the safety properties that the runs check. Every module has an inductive
invariant `IInv`, a lemma for each action that it keeps it, and, where several
actions do the same to a part of the state (append a version, move a cache),
one lemma for what they have in common.

### GroupSync

`FinalizerProtectsGroup` is not inductive: it says nothing of what running
Reconciles are about to do. `IInv` adds three parts. `History`: uids never decrease along the
upstream versions, within one uid an object that was not live is not live again,
and one that is gone has no finalizers. `CopyFits`: a Reconcile at "put" or
"guard" holds a copy that was live, one at "delete" or "lift" a copy under
deletion, and at "lift" the Group is gone.
`LiftedForGood`: where a finalizer was
once on the current object and is not any more, the Group is gone and neither
the agent's cache nor its copy lets it be created again. The argument: a
finalizer is lifted only by an `Update` of an up-to-date copy under deletion,
after the Group was deleted; from then on the agent's cache shows the object
under deletion or later, and caches do not go back. Assumptions: `BoundsAssumption`
and the cache assumption above, which is part of `Restart`.

`Refinement` needs the same `IInv`: a step that puts the Group is a `Put` of
GuardedReplica only because `LiftedForGood` forbids it after the finalizer is
lifted, and a step that lifts the finalizer is a `Lift` only because `CopyFits`
says that the Group is gone. There is one lemma for each kind of step:
`GroupStep` (the Group is put, edited or deleted), `ControlApiStep`,
`FinalizerStep`, and `OtherStep` for all that stutters; `EverGrows` and
`EverRestarts` follow the zones that have guarded the object along its
versions.

### NamespaceAdmission

The property is about what is stored; the decision falls earlier. `IInv` says
that a request which has passed the mutator is `Justified`: its requester is
`Entitled` to the organization in the next version of the store, as a user that
has been a member, as a service account whose own Namespace an earlier version has
in it, or because it is not checked. This stays true until it is stored because it
speaks of the past (`granted`, the versions of the store): members that leave and
Namespaces that are deleted or relabelled meanwhile do not undo it
(`EntitledStays`). What a service account gets comes from a version of its
Namespace that the cache holds, however stale, and that is an earlier one than any
it will be stored in. As the versions get strictly earlier along a chain of service
accounts, the chain starts with a member or somebody who is not checked.
Uses `RequestersAssumption` (users, service accounts and OpenShift's components
are told apart) and `ConfigAssumption`.

`QuotaExcessBounded` compares what is stored now with a limit that was applied to
a count from the cache. `QuotaInv` puts `LagBounded` next to it: for every version
a cache can hold, the current one has at most as many more Namespaces of an
organization as it is versions ahead. It is kept because a write stores one
Namespace at a time, and it makes of the comparison across versions an induction
over single steps: when a request is approved, the count it was approved on is
off by the lag at most, and the load (`LoadOfMove`, `LoadStays`) grows by one at
most with each other request that is approved meanwhile. Cardinalities are those of
`FiniteSetTheorems`.

### LegacyQuota

The amounts in a quota come from a user that passed the reserved-name webhook or
from an annotation of any version of the Namespace that a Reconcile has read, so
`IInv` says of all versions of the Namespace, too, that their amounts are
`Authorized`. The webhooks ask a cached list of bindings, which is one of those
there have been: hence "privileged at some time", which a later withdrawal does not
change. The theorem, like the property, is for a configuration in which the
metadata webhook guards the annotations of the quotas (`Metadata`).

### OrgRbac

`BindsOwnOrganization` needs that the organization a Reconcile holds was the
Namespace's while it was live and wanted RBAC (`EverManaged`), which is true
when it is read and of the past ever after. For `InitializedIsKept` there is no
more to assume: `putRoleBinding` decides on a cached copy, and its `Update`
succeeds only with the current `resourceVersion`, so that what it decided on is
what it overwrites; a create succeeds only if there is nothing to overwrite.

### UsageProfile

The overwrite of a resource is not protected by a `resourceVersion`.
`LabelHeld` says that since the live read the resource has kept its label or lost
it. This rests on two facts outside the code of `applyResourceToNamespace`: that
the controller has one worker, so that no other profile is applied between read and
write, and that users at most remove the label. With a second worker or with
users who set the label of another profile the theorem would not hold.

### ZoneVersion

A Reconcile reads the ClusterVersion from a cache and then the API server's version
live. `VersionsFitTogether` holds because the second is never older than the first:
`ClusterInv` says that every version that any ClusterVersion there has been lists as
completed is at most the one the API servers run, which only goes up. `Orderly`
says what a history is like (each version once, only the desired one partial, a
latest among the completed and verified), so that what `extractOpenShiftVersion`
picks is one of these or, where there is none, the desired one. `ReconcileInv`
carries this through the steps of a Reconcile: some ClusterVersion the agent has
seen (`Seen`) fits the version it has read and the one the API servers run, then
the one it has read from them, and what it writes to one Zone after the other;
`SeenStays` says that neither upgrades nor watch steps undo this. The zone may have
any history of verified and unverified updates when the agent starts; that there is
a latest among those that count (`LatestExists`) is the well-ordering of the
naturals.

### FairUse

`NoFalseAlarm` and `ForetellsNewPods` rest on the arithmetic of `Bytes`.
`RoundHalfEvenBounds` and `RoundUpBounds` say how far each rounding is off;
`BytesBounds` combines them, multiplied by the CPU so that nothing is divided;
`BelowIsNotAtLimit` and `WellBelowIsBelow` compare with the limit. They hold for
natural numbers, and that a sum of requests is a pair of them is `FoldType`. A fold
is a recursive function that is chosen, so it takes that there is one
(`IterExists`, which extends a function that obeys the recursion on sets of up to
n Pods to n + 1) and then the type of its values; both are shown by looking at a
smallest number for which they would fail (`Least`), which needs no induction
theorem with an operator as parameter.

`ForetellsFromTypes` then follows the webhook: `NodeSelector` finds the object's
selector or the default the mutator adds, `fuzzyMatchRatioKey` makes of it the group
the mutator will put the Pods in, and no other, where `SinglesOut` says so, and there
is one limit at most for it (`OneLimit`).

`PodsAreCompleted` is inductive with the types, among them that caches are at
versions there are: the default that the mutator reads is one of the Namespace's
versions, however stale. Assumptions: `RatioAssumption`, `FairUseAssumption`
(annotations that parse have a label: the code treats "" as not set) and
`SpecsAssumption` (requests are not negative, and what else the API server
validates).

### Left to TLC

Everything about liveness, which is out of the prover's reach: `Converges`,
`Reported` and `LowRatioIsTold`.

## Not modelled

* The cloudscale load balancer webhook: it compares one annotation in the two
  objects of one request, and a model could only repeat it.
* `validate/`: regular expressions over labels, which nothing but its own tests
  calls.
* Configuration, flags and wiring: what they decide is a constant.
* API types: declarations and generated code.
* Updates of Pods, which pass the node selector mutator too, and updates of
  Projects, whose labels OpenShift keeps.
* A change of `-usage-profile` between restarts, and edits of a resource before
  the dynamic watch has listed it (`EarlyEdits`): in both cases the resource can
  stay wrong until something else happens, so `Converges` does not hold.
* Changes of a Zone's label or features: the Reconcile that finds no Zone with the
  zone's id returns nil and Zones are not watched, so one that is labelled later is
  not reported before the next event of the ClusterVersion.
* Changes of a Namespace's disable annotation and organization label in FairUse: the
  ratio controller does not watch Namespaces, so they have no effect before the next
  event of a Pod.
* Users who set another profile's label on a resource between a Reconcile's read and
  its write (`UserVersions`): the write takes it away again.
* Errors of `ensureWatch`: the wiring gives it a cache and a controller, a profile's
  resource has a kind, and the `Watch` of controller-runtime v0.19 returns before the
  informer has synced and fails only without type, handler or cache, so that its
  `sync.Once` is not used up in vain.
* Leader election; events other than the ratio's, metrics and logging; the
  wording of messages; the syntax of annotations, quantities and patches.

## Plan

Done: all components with state, and the webhooks that guard it; GuardedReplica
and the proof that GroupSync implements it; proofs of all safety properties that
the runs check.

Left: UserAttributeSync has no safety property of its own to prove, only
`Converges`. What could be added are abstract specifications of other components
with a refinement, as GuardedReplica is for GroupSync: the quota as a counter that
may be exceeded by a bound, and the RoleBindings as registers that are written
once.
