------------------------------- MODULE FairUse -------------------------------
(***************************************************************************)
(* Pods of one Namespace and what the agent does about them: the mutating  *)
(* webhooks PodNodeSelectorMutator and PodRunOnceActiveDeadlineSeconds-    *)
(* Mutator complete a Pod when it is created, RatioValidator warns whoever *)
(* creates or updates something while the Pods request too much CPU for    *)
(* their memory, and RatioReconciler records warning events when Pods      *)
(* change.                                                                 *)
(*                                                                         *)
(* RatioValidator never refuses anything (failurePolicy=ignore, and errors *)
(* are answered with Allowed), so its answers change no state; they are    *)
(* the operator RatioValidator.                                            *)
(***************************************************************************)
EXTENDS ApiServer, Ratio

CONSTANTS
    Pods,                   \* names of Pods
    PodSpecs,               \* what Pods are created with
    Workloads,              \* Deployments and StatefulSets to be created
    DefaultNodeSelector,
    Annotations,            \* default node selectors a Namespace may ask for
    Partial,                \* the labels of an annotation that does not parse, as
                            \* far as it does
    DefaultActiveDeadlineSeconds,
    Deadlines,              \* deadlines a Namespace may ask for
    None,                   \* an annotation or a deadline that is not there
    MaxEdits                \* bound: writes after which users rest

\* An annotation that is set and parses has at least one label: "" counts as
\* not set.
ASSUME FairUseAssumption ==
    /\ MaxEdits \in Nat /\ IsFiniteSet(Pods)
    /\ None # Bad /\ {} \notin Annotations
    /\ None \notin Deadlines \cup {DefaultActiveDeadlineSeconds}

\* What the API server lets through, CPU and memory in the units of Ratio.
ASSUME SpecsAssumption ==
    /\ \A s \in PodSpecs :
        s \in [selector: {s.selector}, cpu: Nat, mem: Nat,
              restartPolicy: {"Always", "OnFailure", "Never"},
              deadline: {s.deadline}]
    /\ \A q \in Workloads :
        /\ q.kind = "Workload" /\ q.verb = "create" /\ ~q.system
        /\ {q.replicas, q.cpu, q.mem} \subseteq Nat

VARIABLES
    ns,         \* versions of the Namespace
    pod,        \* pod[p]: versions of Pod p
    nseen,      \* position of the agent's cache of the Namespace
    pseen,      \* pseen[p]: position of its cache of Pod p
    queue,      \* Pods RatioReconciler has requests for
    told,       \* the warning events on the Namespace
    edits       \* number of writes by users

vars == <<ns, pod, nseen, pseen, queue, told, edits>>

-----------------------------------------------------------------------------
NoPod == [exists |-> FALSE]

\* disable and org are settled when the Namespace is made: RatioReconciler does
\* not watch Namespaces, so a later change has no effect before the next event
\* of a Pod.
Init ==
    /\ \E disable \in {None, "true", Bad}, org \in BOOLEAN :
        ns = <<[exists |-> TRUE, disable |-> disable, org |-> org,
                selector |-> None, deadline |-> None]>>
    /\ pod = [p \in Pods |-> <<NoPod>>]
    /\ nseen = 1 /\ pseen = [p \in Pods |-> 1]
    /\ queue = {} /\ told = {} /\ edits = 0

CachedNs == ns[nseen]
Cached(p) == pod[p][pseen[p]]

-----------------------------------------------------------------------------
(* The mutating webhooks *)

\* The default node selector, as a set: empty, an error, when the annotation
\* does not parse.
defaultLabels ==
    CASE CachedNs.selector = None -> {DefaultNodeSelector}
      [] CachedNs.selector = Bad  -> {}
      [] OTHER                    -> {CachedNs.selector}

\* The defaults are added for the keys the Pod does not have.
AddDefaults(sel, defaults) ==
    sel \cup {d \in defaults : \A l \in sel : l[1] # d[1]}

\* Mutant of PodNodeSelectorMutator: the defaults replace the Pod's selector.
PodNodeSelectorReplacer(spec) ==
    {[spec EXCEPT !.selector = d] : d \in {e \in defaultLabels : CachedNs.exists}}

\* What the webhooks let through, as a set: empty, refused.
PodNodeSelectorMutator(spec) ==
    {[spec EXCEPT !.selector = AddDefaults(@, d)] :
        d \in {e \in defaultLabels : CachedNs.exists}}

PodRunOnceActiveDeadlineSecondsMutator(spec) ==
    IF spec.restartPolicy \notin {"OnFailure", "Never"} \/ spec.deadline # None
    THEN {spec}
    ELSE {[spec EXCEPT !.deadline = d] :
            d \in CASE ~CachedNs.exists \/ CachedNs.deadline = Bad -> {}
                    [] CachedNs.deadline = None -> {DefaultActiveDeadlineSeconds}
                    [] OTHER -> {CachedNs.deadline}}

-----------------------------------------------------------------------------
(* Users and the cluster *)

Edit == edits < MaxEdits /\ edits' = edits + 1

\* Mutating webhooks are called in the order of their names.
CreatePod(p, spec) ==
    /\ Edit
    /\ Current(ns).exists /\ ~Current(pod[p]).exists
    /\ \E placed \in PodNodeSelectorMutator(spec) :
        \E done \in PodRunOnceActiveDeadlineSecondsMutator(placed) :
            pod' = [pod EXCEPT ![p] = Append(@,
                [exists |-> TRUE, phase |-> "Pending", selector |-> done.selector,
                 cpu |-> done.cpu, mem |-> done.mem,
                 restartPolicy |-> done.restartPolicy,
                 deadline |-> done.deadline])]
    /\ UNCHANGED <<ns, nseen, pseen, queue, told>>

DeletePod(p) ==
    /\ Edit
    /\ Current(pod[p]).exists
    /\ pod' = [pod EXCEPT ![p] = Append(@, NoPod)]
    /\ UNCHANGED <<ns, nseen, pseen, queue, told>>

\* The kubelet starts the Pod or finds it done.
SetPhase(p, from, to) ==
    /\ Current(pod[p]).exists /\ Current(pod[p]).phase = from
    /\ pod' = [pod EXCEPT ![p] = Append(@, [Current(@) EXCEPT !.phase = to])]
    /\ UNCHANGED <<ns, nseen, pseen, queue, told, edits>>

Annotate(n) ==
    /\ Edit
    /\ Current(ns).exists
    /\ ns' = Store(ns, n)
    /\ UNCHANGED <<pod, nseen, pseen, queue, told>>

DeleteNamespace ==
    /\ Edit
    /\ Current(ns).exists
    /\ \A p \in Pods : ~Current(pod[p]).exists
    /\ ns' = Append(ns, [Current(ns) EXCEPT !.exists = FALSE])
    /\ UNCHANGED <<pod, nseen, pseen, queue, told>>

-----------------------------------------------------------------------------
(* Fetcher *)

\* The request ratio is not looked at; only the controller's Fetcher knows the
\* organization label.
Disabled(orgOnly) ==
    CachedNs.disable = "true" \/ (orgOnly /\ ~CachedNs.org)

\* The requests of the Pods by node selector.
FetchRatios ==
    LET pods == {p \in Pods : Cached(p).exists}
    IN  [k \in {Cached(p).selector : p \in pods} |->
            FoldSet(LAMBDA p, r : RecordPod(r, Cached(p)), NewRatio,
                    {p \in pods : Cached(p).selector = k})]

\* The node selectors whose ratio is below their limit.
TooLow(ratios) ==
    {k \in DOMAIN ratios :
        \E limit \in GetLimitForNodeSelector(k) : Below(ratios[k], limit)}

-----------------------------------------------------------------------------
(* RatioValidator *)

\* The keys the code may pick: s itself, or any of those with all its labels.
fuzzyMatchRatioKey(s, ratios) ==
    LET wider == {k \in DOMAIN ratios : s \subseteq k}
    IN  IF s \in DOMAIN ratios \/ wider = {} THEN {s} ELSE wider

recordObject(r, q) ==
    CASE q.kind = "Pod"      -> RecordPod(r, q)
      [] q.kind = "Workload" -> recordReplicatedPodSpec(r, q.replicas, q)
      [] OTHER               -> r

getNodeSelector(q) == IF q.kind \in {"Pod", "Workload"} THEN q.selector ELSE {}

\* ConvertSelectorToLabelsMap returns with its error what it has parsed so far,
\* and the error is only logged.
getDefaultNodeSelectorFromNamespace ==
    CASE CachedNs.selector = None -> {}
      [] CachedNs.selector = Bad  -> Partial
      [] OTHER                    -> CachedNs.selector

\* Mutant of NodeSelector: the Namespace is not asked.
NodeSelectorOfObject(q) ==
    IF getNodeSelector(q) # {} THEN getNodeSelector(q) ELSE DefaultNodeSelector

\* Of the object, else of the Namespace, else the default.
NodeSelector(q) ==
    IF getNodeSelector(q) # {} THEN getNodeSelector(q)
    ELSE IF getDefaultNodeSelectorFromNamespace # {}
         THEN getDefaultNodeSelectorFromNamespace
    ELSE DefaultNodeSelector

\* The answers to request q, each the set of node selectors it warns about, when
\* ratios is what FetchRatios returns.
RatioValidator(q, ratios) ==
    LET total(k) == recordObject(
            IF k \in DOMAIN ratios THEN ratios[k] ELSE NewRatio, q)
    IN  IF q.system \/ ~CachedNs.exists \/ Disabled(FALSE) THEN {{}}
        ELSE IF q.verb # "create" THEN {TooLow(ratios)}
        ELSE {TooLow([j \in DOMAIN ratios \cup {k} |->
                        IF j = k THEN total(k) ELSE ratios[j]]) :
                k \in fuzzyMatchRatioKey(NodeSelector(q), ratios)}

-----------------------------------------------------------------------------
(* RatioReconciler: For(Pod) *)

WatchPod(p) ==
    /\ Behind(pod[p], pseen[p])
    /\ pseen' = [pseen EXCEPT ![p] = @ + 1]
    /\ queue' = queue \cup {p}
    /\ UNCHANGED <<ns, pod, nseen, told, edits>>

WatchNamespace ==
    /\ Behind(ns, nseen)
    /\ nseen' = nseen + 1
    /\ UNCHANGED <<ns, pod, pseen, queue, told, edits>>

\* Mutant of Reconcile: a Pod that is gone ends it.
ReconcileExisting(p) ==
    /\ p \in queue
    /\ CachedNs.exists
    /\ queue' = queue \ {p}
    /\ told' = IF Disabled(TRUE) \/ ~Cached(p).exists THEN told
               ELSE told \cup {[selector |-> k, ratio |-> FetchRatios[k]] :
                                k \in TooLow(FetchRatios)}
    /\ UNCHANGED <<ns, pod, nseen, pseen, edits>>

\* All reads come from caches, which only fail when an object is not there: no
\* Namespace is an error and the request stays queued, no Pod is logged and
\* the event on the Namespace recorded all the same.
Reconcile(p) ==
    /\ p \in queue
    /\ CachedNs.exists
    /\ queue' = queue \ {p}
    /\ told' = IF Disabled(TRUE) THEN told
               ELSE told \cup {[selector |-> k, ratio |-> FetchRatios[k]] :
                                k \in TooLow(FetchRatios)}
    /\ UNCHANGED <<ns, pod, nseen, pseen, edits>>

\* The agent restarts; every Pod is enqueued when it is listed.
Restart ==
    /\ queue' = {p \in Pods : Cached(p).exists}
    /\ UNCHANGED <<ns, pod, nseen, pseen, told, edits>>

-----------------------------------------------------------------------------
Next ==
    \/ \E p \in Pods :
        \/ \E spec \in PodSpecs : CreatePod(p, spec)
        \/ DeletePod(p)
        \/ SetPhase(p, "Pending", "Running") \/ SetPhase(p, "Running", "Succeeded")
        \/ WatchPod(p) \/ Reconcile(p)
    \/ \E s \in Annotations \cup {None, Bad} :
        Annotate([Current(ns) EXCEPT !.selector = s])
    \/ \E d \in Deadlines \cup {None, Bad} :
        Annotate([Current(ns) EXCEPT !.deadline = d])
    \/ DeleteNamespace \/ WatchNamespace \/ Restart

Spec == Init /\ [][Next]_vars

\* Watches and the worker make progress; users and kubelets owe nothing.
FairSpec ==
    /\ Spec
    /\ WF_vars(WatchNamespace)
    /\ \A p \in Pods : WF_vars(WatchPod(p)) /\ WF_vars(Reconcile(p))

-----------------------------------------------------------------------------
(* Properties *)

\* The Pods' requests for nodes of selector k, as they are on the API server.
Requested(k) ==
    FoldSet(LAMBDA p, r : RecordPod(r, Current(pod[p])), NewRatio,
            {p \in Pods : /\ Current(pod[p]).exists
                          /\ Current(pod[p]).selector = k})

\* When Pods rest, the Namespace of an organization has an event for every
\* group of Pods that is a MiB or more below its limit, with the ratio it has
\* now: also when it got there because a Pod went away, through a stale cache,
\* or while the agent was restarting.
LowRatioIsTold ==
    <>[](LET n == Current(ns)
         IN  n.exists /\ n.org /\ n.disable # "true" =>
                \A p \in Pods : Current(pod[p]).exists =>
                    LET k == Current(pod[p]).selector
                    IN  \A limit \in GetLimitForNodeSelector(k) :
                            WellBelow(Requested(k), limit) =>
                                [selector |-> k, ratio |-> Requested(k)] \in told)

\* Two roundings and the threshold do not make a fair ratio unfair: nobody is
\* told about a ratio that is more than half a byte above the limit that holds
\* for the node selector.
NoFalseAlarm ==
    \A e \in told : \E limit \in GetLimitForNodeSelector(e.selector) :
        ~AtLimit(e.ratio, limit)

\* The groups of Pods there are leave no doubt that Pods of selector s will be
\* in group k: s is k, and there are Pods in k or in no group with all of s; or
\* there are no Pods with just s, and k is the one group with all of s.
SinglesOut(s, k, groups) ==
    LET wider == {j \in groups : s \subseteq j}
    IN  IF s \in groups \/ wider = {} THEN s = k ELSE wider = {k}

\* RatioValidator guesses from the groups of Pods there are where the Pods of a
\* Deployment or StatefulSet will be, which is up to PodNodeSelectorMutator, and
\* the two read the Namespace's annotation each in its own way.  When the groups
\* single out the right one for the object's selector, or for the default if it
\* has none, whoever creates the object is warned if its Pods will bring their
\* group a MiB below its limit, and not if they keep it above.  The Pods are the
\* ones PodNodeSelectorMutator would make of the Namespace as it is cached now.
ForetellsNewPods ==
    LET ratios == FetchRatios
    IN  CachedNs.exists /\ CachedNs.disable # "true" =>
        \A q \in Workloads : \A d \in defaultLabels :
            LET k == AddDefaults(q.selector, d)
                s == IF q.selector = {} THEN d ELSE q.selector
                after == recordReplicatedPodSpec(
                    IF k \in DOMAIN ratios THEN ratios[k] ELSE NewRatio,
                    q.replicas, q)
            IN  SinglesOut(s, k, DOMAIN ratios) =>
                \A limit \in GetLimitForNodeSelector(k) :
                    \A warned \in RatioValidator(q, ratios) :
                        /\ WellBelow(after, limit) => k \in warned
                        /\ AtLimit(after, limit) => k \notin warned

\* Every Pod that is let in keeps the selector it was created with, has a value
\* for all the default's keys as the Namespace set them at some time, and does
\* not run for ever if it is to run once.
PodsAreCompleted ==
    \A p \in Pods : \A i \in DOMAIN pod[p] :
        pod[p][i].exists =>
            /\ \E spec \in PodSpecs, j \in DOMAIN ns :
                /\ ns[j].selector # Bad
                /\ pod[p][i].selector = AddDefaults(spec.selector,
                        IF ns[j].selector = None THEN DefaultNodeSelector
                                                 ELSE ns[j].selector)
                /\ <<pod[p][i].cpu, pod[p][i].mem>> = <<spec.cpu, spec.mem>>
            /\ pod[p][i].restartPolicy # "Always" => pod[p][i].deadline # None
=============================================================================
