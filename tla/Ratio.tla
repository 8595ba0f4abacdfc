-------------------------------- MODULE Ratio --------------------------------
(***************************************************************************)
(* The memory to CPU ratio and its limits (ratio/ratio.go, limits/).        *)
(*                                                                         *)
(* Memory is in bytes, CPU in fractions of a core.  What a Pod requests is *)
(* the sum over its containers.  A node selector is a set of               *)
(* <<key, value>> pairs with distinct keys.                                *)
(***************************************************************************)
EXTENDS Integers, FiniteSets, FiniteSetsExt

CONSTANTS
    Core,       \* CPU units to a core (1000 in the code)
    MiB,        \* bytes to a MiB (2^20 in the code)
    Limits,     \* MemoryPerCoreLimits: [selector, limit], in order; a selector
                \* is a set of requirements [key, operator, values]
    Percent,    \* MemoryPerCoreWarnThreshold, in hundredths
    Bad         \* a selector that does not parse

ASSUME RatioAssumption ==
    /\ {Core, MiB} \subseteq Nat \ {0} /\ Percent \in Nat
    /\ \A i \in DOMAIN Limits : i \in Nat /\ Limits[i].limit \in Nat

NewRatio == [cpu |-> 0, mem |-> 0]

recordReplicatedPodSpec(r, replicas, spec) ==
    [cpu |-> r.cpu + replicas * spec.cpu, mem |-> r.mem + replicas * spec.mem]

\* Only running Pods count.
RecordPod(r, pod) ==
    IF pod.phase = "Running" THEN recordReplicatedPodSpec(r, 1, pod) ELSE r

RoundHalfEven(n, d) ==
    LET q == n \div d
        rest == 2 * (n % d)
    IN  IF rest > d \/ (rest = d /\ q % 2 = 1) THEN q + 1 ELSE q

RoundUp(n, d) == (n + d - 1) \div d

\* Mutant of Bytes: rounded down to the MiB.
BytesRoundedDown(r) == (RoundHalfEven(r.mem * Core, r.cpu) \div MiB) * MiB

\* Ratio(), for r.cpu > 0: bytes per core, rounded up to the MiB.
Bytes(r) == RoundUp(RoundHalfEven(r.mem * Core, r.cpu), MiB) * MiB

\* False when no CPU is requested.
Below(r, limit) == r.cpu > 0 /\ Bytes(r) * 100 < limit * Percent

\* A requirement of a label selector; matchLabels are In with one value.
Fulfils(sel, r) ==
    LET has == \E l \in sel : l[1] = r.key
        in == \E l \in sel : l[1] = r.key /\ l[2] \in r.values
    IN  \/ r.operator = "In" /\ in
        \/ r.operator = "NotIn" /\ ~in
        \/ r.operator = "Exists" /\ has
        \/ r.operator = "DoesNotExist" /\ ~has

\* The first limit that matches, as a set: empty if none does.
GetLimitForNodeSelector(sel) ==
    LET matching == {i \in DOMAIN Limits :
                        /\ Limits[i].selector # Bad
                        /\ \A r \in Limits[i].selector : Fulfils(sel, r)}
    IN  {Limits[i].limit : i \in {j \in matching :
                                    \A k \in matching : j <= k}}

-----------------------------------------------------------------------------
\* What the ratio is compared with, without rounding: r is at least a MiB
\* below the limit, or, in AtLimit, at the limit or above it by half a byte.
WellBelow(r, limit) ==
    r.cpu > 0 /\ r.mem * Core * 100 <= (limit * Percent - MiB * 100) * r.cpu

AtLimit(r, limit) ==
    2 * r.mem * Core * 100 > (2 * limit * Percent + 100) * r.cpu
=============================================================================
