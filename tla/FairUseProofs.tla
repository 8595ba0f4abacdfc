----------------------------- MODULE FairUseProofs -----------------------------
(***************************************************************************)
(* Proofs about Ratio and FairUse, for any Pods, limits and numbers of     *)
(* writes.                                                                 *)
(*                                                                         *)
(* The arithmetic of Bytes is what NoFalseAlarm and ForetellsNewPods rest  *)
(* on; that it is applied to natural numbers takes the type of a fold,     *)
(* which is shown by looking at a smallest set for which it would fail.    *)
(***************************************************************************)
EXTENDS FairUse, FiniteSetTheorems, WellFoundedInduction, TLAPS

Ratios == [cpu: Nat, mem: Nat]

-----------------------------------------------------------------------------
(* Rounding *)

\* Division with remainder.
LEMMA DivMod ==
    ASSUME NEW n \in Nat, NEW d \in Nat \ {0}
    PROVE  \E m \in Nat : m = n % d /\ m < d /\ n \div d \in Nat /\ n = d * (n \div d) + m
<1>1. n % d \in 0 .. d - 1  OBVIOUS
<1>2. n \div d \in Nat  OBVIOUS
<1>3. n = d * (n \div d) + (n % d)  OBVIOUS
<1> QED  BY <1>1, <1>2, <1>3

\* Rounding to the nearest is off by half a unit at most.
LEMMA RoundHalfEvenBounds ==
    ASSUME NEW n \in Nat, NEW d \in Nat \ {0}
    PROVE  /\ RoundHalfEven(n, d) \in Nat
           /\ 2 * n <= 2 * (d * RoundHalfEven(n, d)) + d
           /\ 2 * (d * RoundHalfEven(n, d)) <= 2 * n + d
<1> DEFINE q == n \div d
           R == RoundHalfEven(n, d)
<1>1. PICK m \in Nat : m = n % d /\ m < d /\ q \in Nat /\ n = d * q + m
  BY DivMod
<1>2. \/ R = q /\ 2 * m <= d
      \/ R = q + 1 /\ 2 * m >= d
  <2>1. 2 * (n % d) = 2 * m  BY <1>1
  <2>2. R = IF 2 * m > d \/ (2 * m = d /\ q % 2 = 1) THEN q + 1 ELSE q
    BY <2>1 DEF RoundHalfEven
  <2> HIDE DEF q, R
  <2> QED  BY <1>1, <2>2
<1> HIDE DEF q, R
<1>3. d * q \in Nat /\ d * (q + 1) = d * q + d
  BY <1>1
<1>4. CASE R = q /\ 2 * m <= d
  BY <1>1, <1>3, <1>4 DEF R
<1>5. CASE R = q + 1 /\ 2 * m >= d
  <2>1. d * R = d * q + d  BY <1>3, <1>5
  <2> QED  BY <1>1, <1>3, <1>5, <2>1 DEF R
<1> QED  BY <1>2, <1>4, <1>5

\* Rounding up to a multiple of d adds less than d.
LEMMA RoundUpBounds ==
    ASSUME NEW n \in Nat, NEW d \in Nat \ {0}
    PROVE  /\ RoundUp(n, d) * d \in Nat
           /\ n <= RoundUp(n, d) * d
           /\ RoundUp(n, d) * d <= n + d - 1
<1>1. n + d - 1 \in Nat  OBVIOUS
<1>2. PICK m \in Nat : /\ m < d /\ (n + d - 1) \div d \in Nat
                       /\ n + d - 1 = d * ((n + d - 1) \div d) + m
  BY <1>1, DivMod
<1>3. RoundUp(n, d) \in Nat /\ RoundUp(n, d) * d = n + d - 1 - m
  BY <1>2 DEF RoundUp
<1> QED  BY <1>2, <1>3

\* Bytes and the exact ratio, both times the CPU.
LEMMA BytesBounds ==
    ASSUME NEW r \in Ratios, r.cpu > 0
    PROVE  /\ Bytes(r) \in Nat
           /\ 2 * (r.mem * Core) <= 2 * (r.cpu * Bytes(r)) + r.cpu
           /\ 2 * (r.cpu * Bytes(r)) + r.cpu <= 2 * (r.mem * Core) + 2 * (r.cpu * MiB)
<1> DEFINE n == r.mem * Core
           R == RoundHalfEven(n, r.cpu)
           B == Bytes(r)
<1>1. n \in Nat /\ r.cpu \in Nat \ {0} /\ MiB \in Nat \ {0}
  BY RatioAssumption DEF Ratios
<1>2. /\ R \in Nat
      /\ 2 * n <= 2 * (r.cpu * R) + r.cpu
      /\ 2 * (r.cpu * R) <= 2 * n + r.cpu
  BY <1>1, RoundHalfEvenBounds
<1>3. B \in Nat /\ R <= B /\ B <= R + MiB - 1
  BY <1>1, <1>2, RoundUpBounds DEF Bytes
<1> HIDE DEF n, R, B
<1>4. PICK e \in Nat : B = R + e /\ e <= MiB - 1
  BY <1>1, <1>2, <1>3
<1>5. PICK f \in Nat : MiB = e + 1 + f
  BY <1>1, <1>4
<1>6. r.cpu * B = r.cpu * R + r.cpu * e /\ r.cpu * MiB = r.cpu * e + r.cpu + r.cpu * f
  BY <1>1, <1>2, <1>4, <1>5
<1>7. r.cpu * R \in Nat /\ r.cpu * e \in Nat /\ r.cpu * f \in Nat
  BY <1>1, <1>2
<1>8. B \in Nat /\ 2 * n <= 2 * (r.cpu * B) + r.cpu
  BY <1>1, <1>2, <1>3, <1>6, <1>7
<1>9. 2 * (r.cpu * B) + r.cpu <= 2 * n + 2 * (r.cpu * MiB)
  BY <1>1, <1>2, <1>6, <1>7
<1> QED  BY <1>8, <1>9 DEF n, B

\* Roundings never make a ratio look lower than it is by more than half a
\* byte.
LEMMA BelowIsNotAtLimit ==
    ASSUME NEW r \in Ratios, NEW limit \in Nat, Below(r, limit)
    PROVE  ~AtLimit(r, limit)
<1> DEFINE n == r.mem * Core
           c == r.cpu
           B == Bytes(r)
           K == limit * Percent
<1>1. n \in Nat /\ c \in Nat /\ c > 0 /\ K \in Nat
  BY RatioAssumption DEF Ratios, Below
<1>2. B \in Nat /\ 2 * n <= 2 * (c * B) + c
  BY <1>1, BytesBounds
<1>3. B * 100 < K
  BY DEF Below
<1>4. 2 * r.mem * Core * 100 = 200 * n /\ (2 * limit * Percent + 100) * c = 2 * (c * K) + 100 * c
  BY <1>1, RatioAssumption DEF Ratios
<1> HIDE DEF n, c, B, K
<1>5. PICK e \in Nat : K = B * 100 + e
  BY <1>1, <1>2, <1>3
<1>6. c * K = 100 * (c * B) + c * e /\ c * B \in Nat /\ c * e \in Nat
  BY <1>1, <1>2, <1>5
<1>7. 200 * n <= 2 * (c * K) + 100 * c
  BY <1>1, <1>2, <1>6
<1>8. c * K \in Nat  BY <1>1
<1> QED  BY <1>1, <1>4, <1>7, <1>8 DEF AtLimit, c

\* A ratio that is a MiB below its limit is recognized.
LEMMA WellBelowIsBelow ==
    ASSUME NEW r \in Ratios, NEW limit \in Nat, WellBelow(r, limit)
    PROVE  Below(r, limit)
<1> DEFINE n == r.mem * Core
           c == r.cpu
           B == Bytes(r)
           K == limit * Percent
<1>1. n \in Nat /\ c \in Nat /\ c > 0 /\ K \in Nat /\ MiB \in Nat
  BY RatioAssumption DEF Ratios, WellBelow
<1>2. B \in Nat /\ 2 * (c * B) + c <= 2 * n + 2 * (c * MiB)
  BY <1>1, BytesBounds
<1>3. n * 100 <= (K - MiB * 100) * c
  BY DEF WellBelow
<1> HIDE DEF n, c, B, K
<1>4. (K - MiB * 100) * c = c * K - 100 * (c * MiB)
  BY <1>1
<1>5. c * B \in Nat /\ c * K \in Nat /\ c * MiB \in Nat
  BY <1>1, <1>2
<1>6. 200 * (c * B) + 100 * c <= 2 * (c * K)
  BY <1>1, <1>2, <1>3, <1>4, <1>5
<1>7. B * 100 < K
  <2> SUFFICES ASSUME K <= B * 100 PROVE FALSE
    BY <1>1, <1>2
  <2>1. PICK e \in Nat : B * 100 = K + e
    BY <1>1, <1>2
  <2>2. 100 * (c * B) = c * K + c * e /\ c * e \in Nat
    BY <1>1, <1>2, <2>1
  <2> QED  BY <1>1, <1>5, <1>6, <2>2
<1> QED  BY <1>1, <1>7 DEF Below, c, B, K

-----------------------------------------------------------------------------
(* The sum of requests *)

One(s) == CHOOSE x \in s : TRUE
Rest(s) == s \ {One(s)}

\* The sum FetchRatios takes over Pods T.
Fold(T) == FoldSet(LAMBDA p, r : RecordPod(r, Cached(p)), NewRatio, T)

\* f is the function FoldSet defines by recursion.
IsIter(f, T) ==
    f = [s \in SUBSET T |->
            IF s = {} THEN NewRatio
            ELSE RecordPod(f[s \ {CHOOSE x \in s : TRUE}],
                           Cached(CHOOSE x \in s : TRUE))]

\* What FoldSet stands for.
LEMMA FoldIsIter ==
    ASSUME NEW T
    PROVE  Fold(T) = (CHOOSE f : IsIter(f, T))[T]
  BY DEF Fold, FoldSet, MapThenFoldSet, IsIter

\* If there is such a function then the chosen one is one.
LEMMA IterChosen ==
    ASSUME NEW T, NEW f, IsIter(f, T)
    PROVE  IsIter(CHOOSE g : IsIter(g, T), T)
  BY Zenon

\* A set of natural numbers has a least element.
LEMMA Least ==
    ASSUME NEW S \in SUBSET Nat, S # {}
    PROVE  \E n \in S : \A m \in S : n <= m
<1>1. \E n \in S : \A m \in S : <<m, n>> \notin OpToRel(<, Nat)
  BY NatLessThanWellFounded, WFMin
<1>2. PICK n \in S : \A m \in S : <<m, n>> \notin OpToRel(<, Nat)
  BY <1>1
<1>3. ASSUME NEW m \in S PROVE n <= m
  <2>1. ~(<<m, n>> \in Nat \X Nat /\ m < n)
    BY <1>2 DEF OpToRel
  <2> QED  BY <2>1
<1> QED  BY <1>3

\* f obeys the recursion on the sets of at most n Pods.
IterUpTo(f, T, n) ==
    \A s \in SUBSET T : Cardinality(s) <= n =>
        f[s] = IF s = {} THEN NewRatio
               ELSE RecordPod(f[Rest(s)], Cached(One(s)))

\* Taking one Pod away leaves a smaller set.
LEMMA RestFacts ==
    ASSUME NEW T, IsFiniteSet(T), NEW s \in SUBSET T
    PROVE  /\ Cardinality(s) \in Nat /\ Cardinality(s) <= Cardinality(T)
           /\ s # {} => /\ One(s) \in s /\ Rest(s) \in SUBSET T
                        /\ Cardinality(Rest(s)) = Cardinality(s) - 1
<1>1. IsFiniteSet(s) /\ Cardinality(s) <= Cardinality(T)
  BY FS_Subset
<1>2. s # {} => One(s) \in s
  BY Zenon DEF One
<1>3. s # {} => Cardinality(Rest(s)) = Cardinality(s) - 1
  BY <1>1, <1>2, FS_RemoveElement DEF Rest
<1> QED  BY <1>1, <1>2, <1>3, FS_CardinalityType DEF Rest

\* Functions that obey the recursion up to some size can be extended to the
\* next.
LEMMA IterExistsUpTo ==
    ASSUME NEW T, IsFiniteSet(T), NEW N \in Nat
    PROVE  \E f : f = [s \in SUBSET T |-> f[s]] /\ IterUpTo(f, T, N)
<1> DEFINE Fails == {n \in Nat : ~\E f : f = [s \in SUBSET T |-> f[s]] /\ IterUpTo(f, T, n)}
<1> SUFFICES ASSUME Fails # {} PROVE FALSE
  OBVIOUS
<1>1. PICK n \in Fails : \A m \in Fails : n <= m
  BY Least
<1>2. CASE n = 0
  <2> DEFINE f == [s \in SUBSET T |-> NewRatio]
  <2>1. \A s \in SUBSET T : Cardinality(s) <= 0 => s = {}
    BY RestFacts, FS_EmptySet, FS_Subset
  <2>2. IterUpTo(f, T, 0)
    BY <2>1 DEF IterUpTo
  <2>3. f = [s \in SUBSET T |-> f[s]]
    OBVIOUS
  <2> QED  BY <1>2, <2>2, <2>3
<1>3. CASE n # 0
  <2>1. n - 1 \in Nat /\ n - 1 \notin Fails
    <3> HIDE DEF Fails
    <3>1. Fails \subseteq Nat  BY DEF Fails
    <3> QED  BY <1>1, <1>3, <3>1
  <2>2. PICK g : g = [s \in SUBSET T |-> g[s]] /\ IterUpTo(g, T, n - 1)
    BY <2>1
  <2> DEFINE f == [s \in SUBSET T |->
                    IF s = {} THEN NewRatio ELSE RecordPod(g[Rest(s)], Cached(One(s)))]
  <2>3. ASSUME NEW s \in SUBSET T, Cardinality(s) <= n - 1
        PROVE  f[s] = g[s]
    BY <2>2, <2>3 DEF IterUpTo
  <2>4. IterUpTo(f, T, n)
    <3> SUFFICES ASSUME NEW s \in SUBSET T, Cardinality(s) <= n, s # {}
                 PROVE  f[s] = RecordPod(f[Rest(s)], Cached(One(s)))
      BY DEF IterUpTo
    <3>1. n \in Nat  OBVIOUS
    <3>2. Rest(s) \in SUBSET T /\ Cardinality(Rest(s)) <= n - 1
      BY <3>1, RestFacts
    <3>3. f[Rest(s)] = g[Rest(s)]
      BY <2>3, <3>2
    <3> QED  BY <3>3
  <2>5. f = [s \in SUBSET T |-> f[s]]
    OBVIOUS
  <2> QED  BY <1>1, <2>4, <2>5
<1> QED  BY <1>2, <1>3

\* The recursion of the fold has a solution.
LEMMA IterExists ==
    ASSUME NEW T, IsFiniteSet(T)
    PROVE  \E f : IsIter(f, T)
<1>1. Cardinality(T) \in Nat
  BY FS_CardinalityType
<1>2. PICK f : f = [s \in SUBSET T |-> f[s]] /\ IterUpTo(f, T, Cardinality(T))
  BY <1>1, IterExistsUpTo
<1>3. \A s \in SUBSET T : f[s] = IF s = {} THEN NewRatio
                                 ELSE RecordPod(f[Rest(s)], Cached(One(s)))
  BY <1>2, RestFacts DEF IterUpTo
<1>4. IsIter(f, T)
  BY <1>2, <1>3 DEF IsIter, Rest, One
<1> QED  BY <1>4

\* Adding up the requests of Pods gives natural numbers.
LEMMA FoldType ==
    ASSUME NEW T, IsFiniteSet(T),
           \A p \in T : Cached(p).cpu \in Nat /\ Cached(p).mem \in Nat
    PROVE  Fold(T) \in Ratios
<1> DEFINE f == CHOOSE g : IsIter(g, T)
<1>1. IsIter(f, T)
  <2>1. PICK g : IsIter(g, T)  BY IterExists
  <2> QED  BY <2>1, IterChosen
<1>2. \A s \in SUBSET T : f[s] = IF s = {} THEN NewRatio
                                 ELSE RecordPod(f[Rest(s)], Cached(One(s)))
  <2> HIDE DEF f
  <2> QED  BY <1>1 DEF IsIter, Rest, One
<1> HIDE DEF f
<1> DEFINE Fails == {n \in Nat : \E s \in SUBSET T : Cardinality(s) = n /\ f[s] \notin Ratios}
<1>3. Fails = {}
  <2> SUFFICES ASSUME Fails # {} PROVE FALSE
    OBVIOUS
  <2>1. PICK n \in Fails : \A m \in Fails : n <= m
    BY Least
  <2>2. PICK s \in SUBSET T : Cardinality(s) = n /\ f[s] \notin Ratios
    OBVIOUS
  <2>3. s # {}
    BY <1>2, <2>2 DEF NewRatio, Ratios
  <2>4. /\ One(s) \in T /\ Rest(s) \in SUBSET T
        /\ Cardinality(Rest(s)) \in Nat /\ Cardinality(Rest(s)) = n - 1
    BY <2>2, <2>3, RestFacts
  <2>5. f[Rest(s)] \in Ratios
    BY <2>1, <2>4
  <2>6. RecordPod(f[Rest(s)], Cached(One(s))) \in Ratios
    BY <2>4, <2>5 DEF RecordPod, recordReplicatedPodSpec, Ratios
  <2> QED  BY <1>2, <2>2, <2>3, <2>6
<1>4. f[T] \in Ratios
  BY <1>3, RestFacts
<1> QED  BY <1>4, FoldIsIter DEF f

-----------------------------------------------------------------------------
(* The inductive invariant *)

Defaults == {DefaultNodeSelector} \cup Annotations
Selectors == {AddDefaults(s.selector, d) : s \in PodSpecs, d \in Defaults}
NsVersion == [exists: BOOLEAN, disable: {None, "true", Bad}, org: BOOLEAN,
              selector: Annotations \cup {None, Bad},
              deadline: Deadlines \cup {None, Bad}]
RunOnceDeadlines == {s.deadline : s \in PodSpecs} \cup Deadlines
                        \cup {DefaultActiveDeadlineSeconds}
PodVersion == {NoPod} \cup
    [exists: {TRUE}, phase: {"Pending", "Running", "Succeeded"},
     selector: Selectors, cpu: Nat, mem: Nat,
     restartPolicy: {"Always", "OnFailure", "Never"}, deadline: RunOnceDeadlines]

\* The caches are at versions there are.
TypeInv ==
    /\ ns \in Seq(NsVersion) /\ nseen \in DOMAIN ns
    /\ pod \in [Pods -> Seq(PodVersion)] /\ pseen \in [Pods -> Nat]
    /\ \A p \in Pods : pseen[p] \in DOMAIN pod[p]

\* The default's labels for a Namespace annotated with s.
DefaultOf(s) == IF s = None THEN DefaultNodeSelector ELSE s

\* Version v of a Pod was completed with a default of the Namespace.
Completed(v, N) ==
    v.exists =>
        /\ \E spec \in PodSpecs, j \in DOMAIN N :
            /\ N[j].selector # Bad
            /\ v.selector = AddDefaults(spec.selector, DefaultOf(N[j].selector))
            /\ v.cpu = spec.cpu /\ v.mem = spec.mem
        /\ v.restartPolicy # "Always" => v.deadline # None

IInv ==
    /\ TypeInv
    /\ NoFalseAlarm
    /\ \A p \in Pods : \A i \in DOMAIN pod[p] : Completed(pod[p][i], ns)

\* What Append does to a log.
LEMMA AppendFacts ==
    ASSUME NEW S, NEW log \in Seq(S), NEW v \in S
    PROVE  /\ Append(log, v) \in Seq(S)
           /\ Len(log) \in Nat
           /\ Len(Append(log, v)) = Len(log) + 1
           /\ DOMAIN Append(log, v) = 1 .. Len(log) + 1
           /\ DOMAIN log = 1 .. Len(log)
           /\ Append(log, v)[Len(log) + 1] = v
           /\ \A i \in 1 .. Len(log) : Append(log, v)[i] = log[i]
  OBVIOUS

\* The versions of a Pod that are read are versions of it.
LEMMA CurrentPod ==
    ASSUME TypeInv, NEW p \in Pods
    PROVE  /\ pod[p] \in Seq(PodVersion) /\ Len(pod[p]) \in DOMAIN pod[p]
           /\ Current(pod[p]) \in PodVersion /\ Current(pod[p]) = pod[p][Len(pod[p])]
           /\ Cached(p) \in PodVersion /\ pseen[p] \in Nat
<1>1. pod[p] \in Seq(PodVersion) /\ pseen[p] \in DOMAIN pod[p] /\ pseen[p] \in Nat
  BY DEF TypeInv
<1>2. DOMAIN pod[p] = 1 .. Len(pod[p]) /\ Len(pod[p]) \in Nat
  BY <1>1
<1>3. Len(pod[p]) \in DOMAIN pod[p]
  BY <1>1, <1>2
<1> QED  BY <1>1, <1>3 DEF Current, Cached

\* The same of the Namespace.
LEMMA CurrentNs ==
    ASSUME TypeInv
    PROVE  /\ Len(ns) \in DOMAIN ns /\ Current(ns) \in NsVersion
           /\ CachedNs \in NsVersion /\ nseen \in Nat
<1>1. DOMAIN ns = 1 .. Len(ns) /\ Len(ns) \in Nat /\ nseen \in DOMAIN ns
  BY DEF TypeInv
<1>2. Len(ns) \in DOMAIN ns
  BY <1>1
<1> QED  BY <1>1, <1>2 DEF Current, CachedNs, TypeInv

\* A Pod is written, its history so far left alone.
LEMMA PodAppended ==
    ASSUME IInv, NEW p \in Pods, NEW v \in PodVersion, Completed(v, ns),
           pod' = [pod EXCEPT ![p] = Append(@, v)],
           UNCHANGED <<ns, nseen, pseen, told>>
    PROVE  IInv'
<1>1. /\ pod[p] \in Seq(PodVersion) /\ pod \in [Pods -> Seq(PodVersion)]
      /\ TypeInv
  BY CurrentPod DEF IInv, TypeInv
<1>2. /\ pod'[p] = Append(pod[p], v)
      /\ \A q \in Pods : q # p => pod'[q] = pod[q]
  BY <1>1
<1>3. /\ Append(pod[p], v) \in Seq(PodVersion)
      /\ DOMAIN Append(pod[p], v) = 1 .. Len(pod[p]) + 1
      /\ DOMAIN pod[p] = 1 .. Len(pod[p]) /\ Len(pod[p]) \in Nat
      /\ Append(pod[p], v)[Len(pod[p]) + 1] = v
      /\ \A i \in 1 .. Len(pod[p]) : Append(pod[p], v)[i] = pod[p][i]
  BY <1>1, AppendFacts
<1>4. TypeInv'
  <2>1. pod' \in [Pods -> Seq(PodVersion)]
    BY <1>1, <1>3
  <2>2. ASSUME NEW q \in Pods PROVE pseen'[q] \in DOMAIN pod'[q]
    BY <1>1, <1>2, <1>3 DEF TypeInv
  <2> QED  BY <1>1, <2>1, <2>2 DEF TypeInv
<1>5. NoFalseAlarm'
  BY DEF IInv, NoFalseAlarm, GetLimitForNodeSelector, AtLimit
<1>6. ASSUME NEW q \in Pods, NEW i \in DOMAIN pod'[q]
      PROVE  Completed(pod'[q][i], ns')
  <2>1. CASE q # p
    BY <1>2, <2>1 DEF IInv
  <2>2. CASE q = p /\ i = Len(pod[p]) + 1
    BY <1>2, <1>3, <2>2
  <2>3. CASE q = p /\ i # Len(pod[p]) + 1
    <3>1. i \in DOMAIN pod[p] /\ pod'[p][i] = pod[p][i]
      BY <1>2, <1>3, <2>3
    <3> QED  BY <2>3, <3>1 DEF IInv
  <2> QED  BY <2>1, <2>2, <2>3
<1> QED  BY <1>4, <1>5, <1>6 DEF IInv

\* The Namespace is written; Pods completed so far stay completed.
LEMMA NamespaceAppended ==
    ASSUME IInv, NEW n \in NsVersion, ns' = Append(ns, n),
           UNCHANGED <<pod, nseen, pseen, told>>
    PROVE  IInv'
<1>1. ns \in Seq(NsVersion) /\ nseen \in DOMAIN ns
  BY DEF IInv, TypeInv
<1>2. /\ ns' \in Seq(NsVersion) /\ DOMAIN ns \subseteq DOMAIN ns'
      /\ \A j \in DOMAIN ns : ns'[j] = ns[j]
  BY <1>1, AppendFacts
<1>3. TypeInv'
  BY <1>1, <1>2 DEF IInv, TypeInv
<1>4. NoFalseAlarm'
  BY DEF IInv, NoFalseAlarm, GetLimitForNodeSelector, AtLimit
<1>5. ASSUME NEW p \in Pods, NEW i \in DOMAIN pod[p]
      PROVE  Completed(pod[p][i], ns')
  BY <1>2 DEF IInv, Completed
<1> QED  BY <1>3, <1>4, <1>5 DEF IInv

\* Neither the objects nor the caches nor the events change.
LEMMA StutterPreserves ==
    ASSUME IInv, UNCHANGED <<ns, pod, nseen, pseen, told>>
    PROVE  IInv'
  BY DEF IInv, TypeInv, Completed, NoFalseAlarm, GetLimitForNodeSelector, AtLimit

\* The webhooks complete a Pod with a default that was cached, hence one of
\* the versions the Namespace has had.
LEMMA CreatePodPreserves ==
    ASSUME IInv, NEW p \in Pods, NEW spec \in PodSpecs, CreatePod(p, spec)
    PROVE  IInv'
<1> DEFINE Version(e) ==
            [exists |-> TRUE, phase |-> "Pending", selector |-> e.selector,
             cpu |-> e.cpu, mem |-> e.mem, restartPolicy |-> e.restartPolicy,
             deadline |-> e.deadline]
<1>1. PICK placed \in PodNodeSelectorMutator(spec) :
        \E done \in PodRunOnceActiveDeadlineSecondsMutator(placed) :
            pod' = [pod EXCEPT ![p] = Append(@, Version(done))]
  BY DEF CreatePod
<1>2. PICK done \in PodRunOnceActiveDeadlineSecondsMutator(placed) :
        pod' = [pod EXCEPT ![p] = Append(@, Version(done))]
  BY <1>1
<1>3. spec \in [selector: {spec.selector}, cpu: Nat, mem: Nat,
                restartPolicy: {"Always", "OnFailure", "Never"},
                deadline: {spec.deadline}]
  BY SpecsAssumption
<1>4. CachedNs \in NsVersion /\ nseen \in DOMAIN ns /\ CachedNs = ns[nseen]
  BY CurrentNs DEF IInv, TypeInv, CachedNs
<1>5. PICK d \in defaultLabels : placed = [spec EXCEPT !.selector = AddDefaults(spec.selector, d)]
  BY <1>1 DEF PodNodeSelectorMutator
<1>6. CachedNs.selector # Bad /\ d = DefaultOf(CachedNs.selector) /\ d \in Defaults
  BY <1>4, <1>5, FairUseAssumption DEF defaultLabels, DefaultOf, Defaults, NsVersion
<1>7. /\ placed \in [selector: {AddDefaults(spec.selector, d)}, cpu: Nat, mem: Nat,
                     restartPolicy: {"Always", "OnFailure", "Never"},
                     deadline: {spec.deadline}]
      /\ placed.cpu = spec.cpu /\ placed.mem = spec.mem
      /\ placed.restartPolicy = spec.restartPolicy
      /\ placed.selector = AddDefaults(spec.selector, d)
      /\ placed.deadline = spec.deadline
  BY <1>3, <1>5
<1>8. /\ done.selector = placed.selector
      /\ done.cpu = placed.cpu /\ done.mem = placed.mem
      /\ done.restartPolicy = placed.restartPolicy
      /\ done.deadline \in RunOnceDeadlines
      /\ done.restartPolicy # "Always" => done.deadline # None
  <2>1. CASE placed.restartPolicy \notin {"OnFailure", "Never"} \/ placed.deadline # None
    <3>1. done = placed
      BY <1>2, <2>1 DEF PodRunOnceActiveDeadlineSecondsMutator
    <3> QED  BY <1>7, <2>1, <3>1 DEF RunOnceDeadlines
  <2>2. CASE ~(placed.restartPolicy \notin {"OnFailure", "Never"} \/ placed.deadline # None)
    <3>1. PICK e \in CASE ~CachedNs.exists \/ CachedNs.deadline = Bad -> {}
                       [] CachedNs.deadline = None -> {DefaultActiveDeadlineSeconds}
                       [] OTHER -> {CachedNs.deadline} :
                done = [placed EXCEPT !.deadline = e]
      BY <1>2, <2>2 DEF PodRunOnceActiveDeadlineSecondsMutator
    <3>2. e \in Deadlines \cup {DefaultActiveDeadlineSeconds} /\ e # None
      BY <1>4, <3>1, FairUseAssumption DEF NsVersion
    <3> QED  BY <1>7, <3>1, <3>2 DEF RunOnceDeadlines
  <2> QED  BY <2>1, <2>2
<1> DEFINE v == Version(done)
<1>9. v \in PodVersion
  <2>1. done.selector \in Selectors
    BY <1>6, <1>7, <1>8 DEF Selectors
  <2> QED  BY <1>7, <1>8, <2>1 DEF PodVersion
<1>10. Completed(v, ns)
  BY <1>4, <1>6, <1>7, <1>8 DEF Completed
<1>11. UNCHANGED <<ns, nseen, pseen, told>>
  BY DEF CreatePod
<1> HIDE DEF v
<1> QED  BY <1>2, <1>9, <1>10, <1>11, PodAppended DEF v

\* A Pod that is gone owes nothing.
LEMMA DeletePodPreserves ==
    ASSUME IInv, NEW p \in Pods, DeletePod(p)
    PROVE  IInv'
<1>1. NoPod \in PodVersion /\ Completed(NoPod, ns)
  BY DEF NoPod, PodVersion, Completed
<1> QED  BY <1>1, PodAppended DEF DeletePod

\* The kubelet writes nothing but the phase.
LEMMA SetPhasePreserves ==
    ASSUME IInv, NEW p \in Pods, NEW from, NEW to \in {"Running", "Succeeded"},
           SetPhase(p, from, to)
    PROVE  IInv'
<1> DEFINE c == Current(pod[p])
           v == [c EXCEPT !.phase = to]
<1>1. c \in PodVersion /\ c.exists /\ Completed(c, ns)
  BY CurrentPod DEF IInv, SetPhase
<1>2. pod' = [pod EXCEPT ![p] = Append(pod[p], v)]
  BY DEF SetPhase
<1> HIDE DEF c
<1>3. /\ v \in PodVersion /\ v.selector = c.selector /\ v.cpu = c.cpu /\ v.mem = c.mem
      /\ v.restartPolicy = c.restartPolicy /\ v.deadline = c.deadline
  BY <1>1 DEF PodVersion, NoPod
<1>4. Completed(v, ns)
  BY <1>1, <1>3 DEF Completed
<1>5. UNCHANGED <<ns, nseen, pseen, told>>
  BY DEF SetPhase
<1> QED  BY <1>2, <1>3, <1>4, <1>5, PodAppended

\* Annotate writes a new version or, when nothing changes, none.
LEMMA AnnotatePreserves ==
    ASSUME IInv, NEW n \in NsVersion, Annotate(n)
    PROVE  IInv'
<1>1. CASE ns' = Append(ns, n)
  BY <1>1, NamespaceAppended DEF Annotate
<1>2. CASE ns' = ns
  <2>1. UNCHANGED <<ns, pod, nseen, pseen, told>>
    BY <1>2 DEF Annotate
  <2> QED  BY <2>1, StutterPreserves
<1> QED  BY <1>1, <1>2 DEF Annotate, Store

\* Deleting the Namespace only adds a version.
LEMMA DeleteNamespacePreserves ==
    ASSUME IInv, DeleteNamespace
    PROVE  IInv'
<1>1. [Current(ns) EXCEPT !.exists = FALSE] \in NsVersion
  BY CurrentNs DEF IInv, NsVersion
<1> QED  BY <1>1, NamespaceAppended DEF DeleteNamespace

\* Caches move on to the next version there is.
LEMMA WatchPreserves ==
    ASSUME IInv, (\E p \in Pods : WatchPod(p)) \/ WatchNamespace
    PROVE  IInv'
<1>1. TypeInv'
  <2>1. ASSUME NEW p \in Pods, WatchPod(p) PROVE TypeInv'
    <3>1. pod[p] \in Seq(PodVersion) /\ pseen[p] \in Nat /\ pseen[p] + 1 <= Len(pod[p])
      BY <2>1, CurrentPod DEF IInv, WatchPod, Behind
    <3>2. pseen[p] + 1 \in DOMAIN pod[p]
      BY <3>1
    <3> QED  BY <2>1, <3>1, <3>2 DEF IInv, TypeInv, WatchPod
  <2>2. ASSUME WatchNamespace PROVE TypeInv'
    <3>1. ns \in Seq(NsVersion) /\ nseen \in Nat /\ nseen + 1 <= Len(ns)
      BY <2>2, CurrentNs DEF IInv, TypeInv, WatchNamespace, Behind
    <3>2. nseen + 1 \in DOMAIN ns
      BY <3>1
    <3> QED  BY <2>2, <3>2 DEF IInv, TypeInv, WatchNamespace
  <2> QED  BY <2>1, <2>2
<1>2. UNCHANGED <<ns, pod, told>>
  BY DEF WatchPod, WatchNamespace
<1>3. NoFalseAlarm'
  BY <1>2 DEF IInv, NoFalseAlarm, GetLimitForNodeSelector, AtLimit
<1> QED  BY <1>1, <1>2, <1>3 DEF IInv, Completed

\* Every request ratio the Fetcher returns is a pair of naturals.
LEMMA FetchRatiosType ==
    ASSUME TypeInv, NEW k \in DOMAIN FetchRatios
    PROVE  FetchRatios[k] \in Ratios
<1> DEFINE T == {p \in {q \in Pods : Cached(q).exists} : Cached(p).selector = k}
<1>1. FetchRatios[k] = Fold(T)
  BY DEF FetchRatios, Fold
<1>2. IsFiniteSet(T)
  BY FairUseAssumption, FS_Subset
<1>3. ASSUME NEW p \in T PROVE Cached(p).cpu \in Nat /\ Cached(p).mem \in Nat
  <2>1. Cached(p) \in PodVersion /\ Cached(p).exists
    BY CurrentPod
  <2>2. Cached(p) # NoPod
    BY <2>1 DEF NoPod
  <2> QED  BY <2>1, <2>2 DEF PodVersion
<1> HIDE DEF T
<1> QED  BY <1>1, <1>2, <1>3, FoldType

\* Limits are natural numbers.
LEMMA LimitType ==
    ASSUME NEW sel, NEW limit \in GetLimitForNodeSelector(sel)
    PROVE  limit \in Nat
  BY RatioAssumption DEF GetLimitForNodeSelector

\* No node selector has two limits.
LEMMA OneLimit ==
    ASSUME NEW sel, NEW l \in GetLimitForNodeSelector(sel),
           NEW m \in GetLimitForNodeSelector(sel)
    PROVE  l = m
<1> DEFINE M == {i \in DOMAIN Limits :
                    /\ Limits[i].selector # Bad
                    /\ \A r \in Limits[i].selector : Fulfils(sel, r)}
<1>1. PICK i \in M : l = Limits[i].limit /\ \A k \in M : i <= k
  BY DEF GetLimitForNodeSelector
<1>2. PICK j \in M : m = Limits[j].limit /\ \A k \in M : j <= k
  BY DEF GetLimitForNodeSelector
<1>3. i \in Nat /\ j \in Nat
  BY RatioAssumption
<1>4. i = j
  BY <1>1, <1>2, <1>3
<1> QED  BY <1>1, <1>2, <1>4

\* Whatever Reconcile tells is about a ratio below its limit.
LEMMA ReconcilePreserves ==
    ASSUME IInv, NEW p \in Pods, Reconcile(p)
    PROVE  IInv'
<1>1. TypeInv /\ NoFalseAlarm
  BY DEF IInv
<1>2. ASSUME NEW k \in TooLow(FetchRatios)
      PROVE  \E limit \in GetLimitForNodeSelector(k) : ~AtLimit(FetchRatios[k], limit)
  <2>1. k \in DOMAIN FetchRatios
    BY DEF TooLow
  <2>2. PICK limit \in GetLimitForNodeSelector(k) : Below(FetchRatios[k], limit)
    BY DEF TooLow
  <2>3. FetchRatios[k] \in Ratios /\ limit \in Nat
    BY <1>1, <2>1, <2>2, FetchRatiosType, LimitType
  <2> QED  BY <2>2, <2>3, BelowIsNotAtLimit
<1>3. \A e \in told' :
        e \in told \/ \E k \in TooLow(FetchRatios) :
                        e = [selector |-> k, ratio |-> FetchRatios[k]]
  BY DEF Reconcile
<1>4. NoFalseAlarm'
  <2> SUFFICES ASSUME NEW e \in told'
               PROVE  \E limit \in GetLimitForNodeSelector(e.selector) :
                        ~AtLimit(e.ratio, limit)
    BY DEF NoFalseAlarm, GetLimitForNodeSelector, AtLimit
  <2>1. CASE e \in told
    BY <1>1, <2>1 DEF NoFalseAlarm
  <2>2. ASSUME NEW k \in TooLow(FetchRatios), e = [selector |-> k, ratio |-> FetchRatios[k]]
        PROVE  \E limit \in GetLimitForNodeSelector(e.selector) : ~AtLimit(e.ratio, limit)
    <3>1. e.selector = k /\ e.ratio = FetchRatios[k]
      BY <2>2
    <3> QED  BY <1>2, <3>1
  <2> QED  BY <1>3, <2>1, <2>2
<1>5. UNCHANGED <<ns, pod, nseen, pseen>>
  BY DEF Reconcile
<1> QED  BY <1>4, <1>5 DEF IInv, TypeInv, Completed

\* The first versions.
LEMMA InitHolds == Init => IInv
<1> SUFFICES ASSUME Init PROVE IInv
  OBVIOUS
<1>1. PICK disable \in {None, "true", Bad}, org \in BOOLEAN :
        ns = <<[exists |-> TRUE, disable |-> disable, org |-> org,
                selector |-> None, deadline |-> None]>>
  BY DEF Init
<1>2. ns \in Seq(NsVersion) /\ DOMAIN ns = 1 .. 1
  BY <1>1 DEF NsVersion
<1>3. <<NoPod>> \in Seq(PodVersion) /\ DOMAIN <<NoPod>> = 1 .. 1 /\ <<NoPod>>[1] = NoPod
  BY DEF PodVersion
<1>4. TypeInv
  BY <1>2, <1>3 DEF Init, TypeInv
<1>5. NoFalseAlarm
  BY DEF Init, NoFalseAlarm
<1>6. \A p \in Pods : \A i \in DOMAIN pod[p] : Completed(pod[p][i], ns)
  <2>1. Completed(NoPod, ns)
    BY DEF Completed, NoPod
  <2>2. \A p \in Pods : pod[p] = <<NoPod>>
    BY DEF Init
  <2> QED  BY <1>3, <2>1, <2>2
<1> QED  BY <1>4, <1>5, <1>6 DEF IInv

\* Every step preserves the invariant.
LEMMA NextPreserves == IInv /\ [Next]_vars => IInv'
<1> SUFFICES ASSUME IInv, [Next]_vars PROVE IInv'
  OBVIOUS
<1>1. ASSUME NEW p \in Pods, NEW spec \in PodSpecs, CreatePod(p, spec) PROVE IInv'
  BY <1>1, CreatePodPreserves
<1>2. ASSUME NEW p \in Pods, DeletePod(p) PROVE IInv'
  BY <1>2, DeletePodPreserves
<1>3. ASSUME NEW p \in Pods, SetPhase(p, "Pending", "Running") PROVE IInv'
  BY <1>3, SetPhasePreserves
<1>4. ASSUME NEW p \in Pods, SetPhase(p, "Running", "Succeeded") PROVE IInv'
  BY <1>4, SetPhasePreserves
<1>5. ASSUME (\E p \in Pods : WatchPod(p)) \/ WatchNamespace PROVE IInv'
  BY <1>5, WatchPreserves
<1>6. ASSUME NEW p \in Pods, Reconcile(p) PROVE IInv'
  BY <1>6, ReconcilePreserves
<1>7. ASSUME NEW s \in Annotations \cup {None, Bad},
             Annotate([Current(ns) EXCEPT !.selector = s])
      PROVE  IInv'
  <2>1. [Current(ns) EXCEPT !.selector = s] \in NsVersion
    BY CurrentNs DEF IInv, NsVersion
  <2> QED  BY <1>7, <2>1, AnnotatePreserves
<1>8. ASSUME NEW d \in Deadlines \cup {None, Bad},
             Annotate([Current(ns) EXCEPT !.deadline = d])
      PROVE  IInv'
  <2>1. [Current(ns) EXCEPT !.deadline = d] \in NsVersion
    BY CurrentNs DEF IInv, NsVersion
  <2> QED  BY <1>8, <2>1, AnnotatePreserves
<1>9. ASSUME DeleteNamespace PROVE IInv'
  BY <1>9, DeleteNamespacePreserves
<1>10. ASSUME Restart \/ UNCHANGED vars PROVE IInv'
  BY <1>10, StutterPreserves DEF Restart, vars
<1> QED  BY <1>1, <1>2, <1>3, <1>4, <1>5, <1>6, <1>7, <1>8, <1>9, <1>10 DEF Next

-----------------------------------------------------------------------------
\* The invariant holds in every reachable state: the caches hold versions of
\* Namespace and Pods that there were, and what Reconcile and the mutators made
\* of them is right.
THEOREM InvariantHolds == Spec => []IInv
  BY InitHolds, NextPreserves, PTL DEF Spec

\* RatioReconciler never tells about a ratio that is more than half a byte above
\* the limit for its node selector, whatever Core, MiB, Percent and the limits
\* are: rounding half to even and then up to the MiB errs on one side only.
THEOREM AlarmsAreTrue == Spec => []NoFalseAlarm
<1>1. IInv => NoFalseAlarm
  BY DEF IInv
<1> QED  BY <1>1, InvariantHolds, PTL

\* PodNodeSelectorMutator and PodRunOnceActiveDeadlineSecondsMutator complete
\* every Pod that is let in, however far behind the cached Namespace is.
THEOREM PodsComplete == Spec => []PodsAreCompleted
<1>1. IInv => PodsAreCompleted
  BY DEF IInv, Completed, DefaultOf, PodsAreCompleted
<1> QED  BY <1>1, InvariantHolds, PTL

\* RatioValidator then finds the group PodNodeSelectorMutator will put the Pods
\* in, adds what they request and compares it with the one limit there is.
LEMMA ForetellsFromTypes == TypeInv => ForetellsNewPods
<1> DEFINE ratios == FetchRatios
<1> SUFFICES ASSUME TypeInv, CachedNs.exists, CachedNs.disable # "true",
                    NEW q \in Workloads, NEW d \in defaultLabels,
                    NEW k, k = AddDefaults(q.selector, d),
                    NEW after, after = recordReplicatedPodSpec(
                        IF k \in DOMAIN ratios THEN ratios[k] ELSE NewRatio,
                        q.replicas, q),
                    NEW s, s = (IF q.selector = {} THEN d ELSE q.selector),
                    SinglesOut(s, k, DOMAIN ratios),
                    NEW limit \in GetLimitForNodeSelector(k),
                    NEW warned \in RatioValidator(q, ratios)
             PROVE  /\ WellBelow(after, limit) => k \in warned
                    /\ AtLimit(after, limit) => k \notin warned
  BY DEF ForetellsNewPods
<1>0. getNodeSelector(q) = q.selector
  BY SpecsAssumption DEF getNodeSelector
<1>1. NodeSelector(q) = s
  <2>1. CachedNs.selector # Bad /\ d = DefaultOf(CachedNs.selector)
    BY FairUseAssumption DEF defaultLabels, DefaultOf
  <2>2. CASE q.selector # {}
    BY <1>0, <2>2 DEF NodeSelector
  <2>3. CASE q.selector = {}
    <3>1. CachedNs.selector \in Annotations \cup {None}
      BY <2>1, CurrentNs DEF NsVersion
    <3> QED  BY <1>0, <2>1, <2>3, <3>1, FairUseAssumption
             DEF NodeSelector, getDefaultNodeSelectorFromNamespace, DefaultOf
  <2> QED  BY <2>2, <2>3
<1>2. fuzzyMatchRatioKey(s, ratios) = {k}
  BY DEF fuzzyMatchRatioKey, SinglesOut
<1> DEFINE base == IF k \in DOMAIN ratios THEN ratios[k] ELSE NewRatio
           F == [j \in DOMAIN ratios \cup {k} |->
                    IF j = k THEN recordObject(base, q) ELSE ratios[j]]
<1>3. /\ q.kind = "Workload" /\ q.verb = "create" /\ ~q.system
      /\ q.replicas \in Nat /\ q.cpu \in Nat /\ q.mem \in Nat
  BY SpecsAssumption
<1>4. recordObject(base, q) = after
  BY <1>3 DEF recordObject
<1>5. after \in Ratios
  <2>1. base \in Ratios
    BY FetchRatiosType DEF NewRatio, Ratios
  <2> HIDE DEF base
  <2>2. after = recordReplicatedPodSpec(base, q.replicas, q)
    BY DEF base
  <2> QED  BY <1>3, <2>1, <2>2 DEF recordReplicatedPodSpec, Ratios
<1>6. warned = TooLow(F)
  <2>1. ~Disabled(FALSE)
    BY DEF Disabled
  <2> QED  BY <1>1, <1>2, <1>3, <2>1 DEF RatioValidator
<1>7. k \in warned <=> \E l \in GetLimitForNodeSelector(k) : Below(after, l)
  BY <1>4, <1>6 DEF TooLow
<1>8. \A l \in GetLimitForNodeSelector(k) : l = limit /\ l \in Nat
  BY OneLimit, LimitType
<1>9. k \in warned <=> Below(after, limit)
  BY <1>7, <1>8
<1> QED  BY <1>5, <1>8, <1>9, BelowIsNotAtLimit, WellBelowIsBelow

\* RatioValidator warns of a Deployment or StatefulSet whose Pods will bring
\* their group a MiB below its limit, and not of one that keeps it above,
\* whenever the cached Pods single out that group (ForetellsNewPods says how).
THEOREM ForetellsHolds == Spec => []ForetellsNewPods
<1>1. IInv => ForetellsNewPods
  BY ForetellsFromTypes DEF IInv
<1> QED  BY <1>1, InvariantHolds, PTL
=============================================================================
