----------------------- MODULE NamespaceAdmissionProofs -----------------------
(***************************************************************************)
(* Proofs about NamespaceAdmission, for any requesters, Namespaces,        *)
(* organizations and configuration.                                        *)
(***************************************************************************)
EXTENDS NamespaceAdmission, FiniteSetTheorems, TLAPS

\* A version of the set of Namespaces.
Snapshot == UNION {[S -> Entry] : S \in SUBSET Namespaces}

\* What who may store in organization o from now on.
Justified(who, o) == Entitled(who, o, Len(store) + 1)

\* The request has been through the mutator.
Mutated(q) == q.stage = "store" \/ (q.stage = "quota" /\ q.kind = "Namespace")

\* A request is justified when it leaves the mutator and stays so until it is
\* stored, whatever happens to members and Namespaces meanwhile.
IInv ==
    /\ TypeOK
    /\ store \in Seq(Snapshot)
    /\ \A o \in Orgs : members[o] \subseteq granted[o]
    /\ MutatorEnabled =>
        /\ \A i \in DOMAIN store : \A n \in DOMAIN store[i] :
                Entitled(store[i][n].by, store[i][n].org, i)
        /\ \A r \in Requests : Mutated(req[r]) => Justified(req[r].who, req[r].label)

-----------------------------------------------------------------------------
(* What the steps do to each part of the state *)

StoreGrows ==
    \/ UNCHANGED store
    \/ \E s \in Snapshot :
        /\ store' = Append(store, s)
        /\ MutatorEnabled => \A n \in DOMAIN s : Justified(s[n].by, s[n].org)

DirectoryGrows ==
    /\ members' \in [Orgs -> SUBSET Users] /\ granted' \in [Orgs -> SUBSET Users]
    /\ defaultOrg' \in [Users -> Labels \cup {NoUser}]
    /\ edits' \in 0 .. MaxEdits
    /\ \A o \in Orgs : granted[o] \subseteq granted'[o] /\ members'[o] \subseteq granted'[o]

RequestsMove ==
    /\ req' \in [Requests -> PendingRequest \cup {Idle}]
    /\ MutatorEnabled =>
        \A r \in Requests : Mutated(req'[r]) => Justified(req'[r].who, req'[r].label)

\* What Append does to a log.
LEMMA AppendFacts ==
    ASSUME NEW S, NEW log \in Seq(S), NEW v \in S
    PROVE  /\ Append(log, v) \in Seq(S)
           /\ Len(log) \in Nat
           /\ Len(Append(log, v)) = Len(log) + 1
           /\ DOMAIN Append(log, v) = 1 .. Len(log) + 1
           /\ DOMAIN log = 1 .. Len(log)
           /\ Append(log, v)[Len(log) + 1] = v
           /\ \A i \in 1 .. Len(log) : Append(log, v)[i] = log[i]
  OBVIOUS

\* A snapshot names Namespaces and gives each an entry.
LEMMA SnapshotFacts ==
    ASSUME NEW s \in Snapshot
    PROVE  DOMAIN s \subseteq Namespaces /\ \A n \in DOMAIN s : s[n] \in Entry
  BY DEF Snapshot

LEMMA IsSnapshot ==
    ASSUME NEW S \in SUBSET Namespaces, NEW s \in [S -> Entry]
    PROVE  s \in Snapshot
  BY DEF Snapshot

\* Versions stay where they are.
LEMMA StoreFrame ==
    ASSUME store \in Seq(Snapshot), StoreGrows
    PROVE  /\ store' \in Seq(Snapshot)
           /\ Len(store) \in Nat /\ Len(store') \in Nat /\ Len(store) <= Len(store')
           /\ \A i \in DOMAIN store : i \in DOMAIN store' /\ store'[i] = store[i]
<1>1. CASE UNCHANGED store
  BY <1>1
<1>2. CASE \E s \in Snapshot : store' = Append(store, s)
  BY <1>2, AppendFacts
<1> QED  BY <1>1, <1>2 DEF StoreGrows

\* Who is entitled stays so, in this version and in later ones.
LEMMA EntitledStays ==
    ASSUME store \in Seq(Snapshot), StoreGrows, DirectoryGrows,
           NEW who, NEW o, NEW i \in 1 .. Len(store) + 1, NEW k \in Nat, i <= k,
           Entitled(who, o, i)
    PROVE  Entitled(who, o, k)'
<1>1. CASE who \in Privileged \cup {NoRequester}
  BY <1>1 DEF Entitled
<1>2. CASE o \in Orgs /\ who \in Users /\ who \in granted[o]
  BY <1>2 DEF Entitled, DirectoryGrows
<1>3. ASSUME o \in Orgs, who \in Namespaces, NEW j \in 1 .. i - 1,
             who \in DOMAIN store[j], store[j][who].org = o
      PROVE  Entitled(who, o, k)'
  <2>1. Len(store) \in Nat /\ DOMAIN store = 1 .. Len(store)
    OBVIOUS
  <2>2. j \in DOMAIN store /\ j \in 1 .. k - 1
    BY <2>1
  <2>3. store'[j] = store[j]
    BY <2>2, StoreFrame
  <2> QED  BY <1>3, <2>2, <2>3 DEF Entitled
<1> QED  BY <1>1, <1>2, <1>3 DEF Entitled

\* The same without a step: an entry of a version may be stored again later.
LEMMA EntitledLater ==
    ASSUME store \in Seq(Snapshot), NEW who, NEW o, NEW i \in DOMAIN store,
           Entitled(who, o, i)
    PROVE  Justified(who, o)
<1>1. Len(store) \in Nat /\ DOMAIN store = 1 .. Len(store)
  OBVIOUS
<1>2. 1 .. i - 1 \subseteq 1 .. (Len(store) + 1) - 1
  BY <1>1
<1> QED  BY <1>2 DEF Justified, Entitled

\* A step whose parts do just this keeps the invariant.
LEMMA Frame ==
    ASSUME IInv, StoreGrows, DirectoryGrows, RequestsMove, seen' \in 1 .. Len(store)
    PROVE  IInv'
<1>0. store \in Seq(Snapshot) /\ TypeOK
  BY DEF IInv
<1>1. /\ store' \in Seq(Snapshot) /\ Len(store') \in Nat
      /\ Len(store) \in Nat /\ Len(store) <= Len(store')
  BY <1>0, StoreFrame
<1>2. TypeOK'
  <2>1. Len(store') > 0 /\ seen' \in 1 .. Len(store')
    BY <1>0, <1>1 DEF TypeOK
  <2>2. \A i \in DOMAIN store' : /\ DOMAIN store'[i] \subseteq Namespaces
                                 /\ \A n \in DOMAIN store'[i] : store'[i][n] \in Entry
    <3>1. \A i \in DOMAIN store' : store'[i] \in Snapshot
      BY <1>1
    <3> QED  BY <3>1, SnapshotFacts
  <2> QED  BY <2>1, <2>2 DEF TypeOK, DirectoryGrows, RequestsMove
<1>3. ASSUME NEW who, NEW o, NEW i \in 1 .. Len(store) + 1, NEW k \in Nat, i <= k,
             Entitled(who, o, i)
      PROVE  Entitled(who, o, k)'
  BY <1>0, <1>3, EntitledStays
<1>4. ASSUME MutatorEnabled, NEW i \in DOMAIN store', NEW n \in DOMAIN store'[i]
      PROVE  Entitled(store[i][n].by, store[i][n].org, i)'
  <2>1. /\ i \in 1 .. Len(store) + 1 /\ i \in Nat
        /\ Entitled(store'[i][n].by, store'[i][n].org, i)
    <3>1. CASE UNCHANGED store
      <4>1. i \in DOMAIN store /\ DOMAIN store = 1 .. Len(store)
            /\ n \in DOMAIN store[i] /\ store'[i] = store[i]
        BY <1>0, <1>4, <3>1
      <4>2. Entitled(store[i][n].by, store[i][n].org, i)
        BY <1>4, <4>1 DEF IInv
      <4> QED  BY <1>1, <4>1, <4>2
    <3>2. ASSUME NEW s \in Snapshot, store' = Append(store, s),
                 \A m \in DOMAIN s : Justified(s[m].by, s[m].org)
          PROVE  /\ i \in 1 .. Len(store) + 1 /\ i \in Nat
                 /\ Entitled(store'[i][n].by, store'[i][n].org, i)
      <4>1. \/ i = Len(store) + 1 /\ store'[i] = s
            \/ i \in DOMAIN store /\ store'[i] = store[i]
        BY <1>0, <1>4, <3>2, AppendFacts
      <4>2. i \in 1 .. Len(store) + 1 /\ i \in Nat
        BY <1>0, <1>1, <1>4, <3>2, AppendFacts
      <4>3. CASE i = Len(store) + 1 /\ store'[i] = s
        BY <1>4, <3>2, <4>2, <4>3 DEF Justified
      <4>4. CASE i \in DOMAIN store /\ store'[i] = store[i]
        BY <1>4, <4>2, <4>4 DEF IInv
      <4> QED  BY <4>1, <4>3, <4>4
    <3> QED  BY <1>4, <3>1, <3>2 DEF StoreGrows
  <2> QED  BY <1>3, <2>1
<1>5. ASSUME MutatorEnabled, NEW r \in Requests, Mutated(req[r])'
      PROVE  Justified(req[r].who, req[r].label)'
  <2>1. Entitled(req'[r].who, req'[r].label, Len(store) + 1)
    BY <1>5 DEF RequestsMove, Mutated, Justified
  <2>2. Len(store) + 1 \in 1 .. Len(store) + 1
        /\ Len(store') + 1 \in Nat /\ Len(store) + 1 <= Len(store') + 1
    BY <1>1
  <2> QED  BY <1>3, <2>1, <2>2 DEF Justified
<1>6. \A o \in Orgs : members'[o] \subseteq granted'[o]
  BY DEF DirectoryGrows
<1> QED  BY <1>1, <1>2, <1>4, <1>5, <1>6 DEF IInv

-----------------------------------------------------------------------------
(* The steps *)

\* What a step that leaves a part alone does to it.
LEMMA Quiet ==
    ASSUME IInv
    PROVE  /\ UNCHANGED store => StoreGrows
           /\ UNCHANGED directory => DirectoryGrows
           /\ UNCHANGED req => RequestsMove
           /\ UNCHANGED seen => seen' \in 1 .. Len(store)
<1>1. UNCHANGED store => StoreGrows
  BY DEF StoreGrows
<1>2. UNCHANGED directory => DirectoryGrows
  BY DEF directory, DirectoryGrows, IInv, TypeOK
<1>3. UNCHANGED req => RequestsMove
  BY DEF RequestsMove, IInv, TypeOK
<1>4. UNCHANGED seen => seen' \in 1 .. Len(store)
  BY DEF IInv, TypeOK
<1> QED  BY <1>1, <1>2, <1>3, <1>4

\* One request changes.
LEMMA OneRequest ==
    ASSUME IInv, NEW r \in Requests, NEW q \in PendingRequest \cup {Idle},
           req' = [req EXCEPT ![r] = q],
           MutatorEnabled /\ Mutated(q) => Justified(q.who, q.label)
    PROVE  RequestsMove
<1>1. req \in [Requests -> PendingRequest \cup {Idle}]
  BY DEF IInv, TypeOK
<1>2. /\ req' \in [Requests -> PendingRequest \cup {Idle}] /\ req'[r] = q
      /\ \A p \in Requests \ {r} : req'[p] = req[p]
  BY <1>1
<1> QED  BY <1>2 DEF RequestsMove, IInv

\* The request is answered or fails.
LEMMA RefuseMoves ==
    ASSUME IInv, NEW r \in Requests, Refuse(r)
    PROVE  RequestsMove
<1>1. ~Mutated(Idle)
  BY DEF Mutated, Idle
<1> QED  BY <1>1, OneRequest DEF Refuse

\* A request arrives before the mutator.
LEMMA ArriveStep ==
    ASSUME IInv, NEW r \in Requests, NEW q \in Inputs, Arrive(r, q)
    PROVE  IInv'
<1>1. q \in PendingRequest /\ ~Mutated(q)
  <2>1. ASSUME NEW kind \in {"Namespace", "ProjectRequest", "Project"},
               NEW v \in AllVerbs, NEW who \in Requesters \cup {NoRequester},
               NEW n \in Namespaces, NEW label \in Labels,
               q = Request(kind, v, who, n, label, NoOrg)
        PROVE  q \in PendingRequest /\ ~Mutated(q)
    BY <2>1 DEF Request, PendingRequest, Mutated, Labels
  <2>2. \E kind \in {"Namespace", "ProjectRequest", "Project"}, v \in AllVerbs,
           who \in Requesters \cup {NoRequester}, n \in Namespaces, label \in Labels :
            q = Request(kind, v, who, n, label, NoOrg)
    <3>1. CASE q \in {Request("Namespace", v, who, n, label, NoOrg) :
                        v \in Verbs \cap {"create", "update"}, who \in Requesters,
                        n \in Namespaces, label \in Orgs \cup {NoOrg}}
      BY <3>1, ConfigAssumption DEF Labels
    <3>2. CASE q \in {Request("ProjectRequest", v, who, n, NoOrg, NoOrg) :
                        v \in Verbs \cap {"project"}, who \in Requesters,
                        n \in Namespaces}
      BY <3>2, ConfigAssumption DEF Labels
    <3>3. CASE q \in {Request("Project", v, NoRequester, n, label, NoOrg) :
                        v \in Verbs \cap {"component"}, n \in Namespaces,
                        label \in Orgs \cup {NoOrg}}
      BY <3>3, ConfigAssumption DEF Labels
    <3> QED  BY <3>1, <3>2, <3>3 DEF Inputs
  <2> QED  BY <2>1, <2>2
<1>2. RequestsMove
  BY <1>1, OneRequest DEF Arrive
<1> QED  BY <1>2, Quiet, Frame DEF Arrive

\* What the mutator lets through is justified: by the group of a user, or by
\* the version of the service account's Namespace that the cache holds.
LEMMA OrganizationFacts ==
    ASSUME IInv, MutatorEnabled, NEW q \in PendingRequest, NEW o \in OrganizationFor(q)
    PROVE  Justified(q.who, o)
<1>1. CASE q.who \in Privileged \cup {NoRequester}
  BY <1>1 DEF Justified, Entitled
<1>2. CASE q.who \notin Privileged \cup {NoRequester}
  <2>1. ~SkipMutation(q)
    BY <1>2 DEF SkipMutation, multiSkipper, PrivilegedUserSkipper
  <2>2. CASE q.who \in Users
    <3>1. o \in handleUserRequested(q)
      BY <1>2, <2>1, <2>2 DEF OrganizationFor
    <3>2. o \in Orgs /\ q.who \in members[o]
      BY <3>1 DEF handleUserRequested
    <3>3. q.who \in granted[o]
      BY <3>2 DEF IInv
    <3> QED  BY <2>2, <3>2, <3>3 DEF Justified, Entitled
  <2>3. CASE q.who \notin Users
    <3>1. o \in handleServiceAccountNamespace(q)
      BY <1>2, <2>1, <2>3 DEF OrganizationFor
    <3>2. o \in Orgs /\ q.who \in DOMAIN Cached /\ o = Cached[q.who].org
      BY <3>1 DEF handleServiceAccountNamespace
    <3>3. seen \in 1 .. (Len(store) + 1) - 1
      BY DEF IInv, TypeOK
    <3>4. q.who \in Namespaces
      BY <1>2, <2>3 DEF PendingRequest, Requesters
    <3> QED  BY <3>2, <3>3, <3>4 DEF Justified, Entitled, Cached
  <2> QED  BY <2>2, <2>3
<1> QED  BY <1>1, <1>2

\* The labels it lets through are organizations, or none.
LEMMA OrganizationTypes ==
    ASSUME NEW q \in PendingRequest, NEW o \in OrganizationFor(q)
    PROVE  o \in Labels
<1>1. q.label \in Labels
  BY DEF PendingRequest
<1>2. OrganizationFor(q) \subseteq {q.label} \cup Orgs
  BY DEF OrganizationFor, handleUserRequested, handleServiceAccountNamespace
<1> QED  BY <1>1, <1>2 DEF Labels

LEMMA MutateStep ==
    ASSUME IInv, NEW r \in Requests, Mutate(r)
    PROVE  IInv'
<1>0. req \in [Requests -> PendingRequest \cup {Idle}]
  BY DEF IInv, TypeOK
<1>1. req[r] \in PendingRequest
  BY <1>0 DEF Mutate, Idle
<1>2. CASE Refuse(r)
  BY <1>2, RefuseMoves, Quiet, Frame DEF Mutate
<1>3. ASSUME NEW o \in OrganizationFor(req[r]), NEW stage \in {"quota", "store"},
             req' = [req EXCEPT ![r].label = o, ![r].stage = stage]
      PROVE  IInv'
  <2> DEFINE q == [req[r] EXCEPT !.label = o, !.stage = stage]
  <2>1. req' = [req EXCEPT ![r] = q]
    BY <1>0, <1>1, <1>3 DEF PendingRequest
  <2>2. q \in PendingRequest /\ q.who = req[r].who /\ q.label = o
    BY <1>1, OrganizationTypes DEF PendingRequest
  <2>3. MutatorEnabled => Justified(q.who, q.label)
    BY <1>1, <2>2, OrganizationFacts
  <2> HIDE DEF q
  <2>4. RequestsMove
    BY <2>1, <2>2, <2>3, OneRequest
  <2> QED  BY <2>4, Quiet, Frame DEF Mutate
<1> QED  BY <1>2, <1>3 DEF Mutate

\* The quota changes nothing about a request but its stage; the Project of a
\* ProjectRequest goes to the mutator.
LEMMA ValidateQuotaStep ==
    ASSUME IInv, NEW r \in Requests, ValidateQuota(r)
    PROVE  IInv'
<1> DEFINE q == req[r]
<1>0. req \in [Requests -> PendingRequest \cup {Idle}]
  BY DEF IInv, TypeOK
<1>1. q \in PendingRequest /\ q.stage = "quota"
  <2>1. q.stage = "quota"
    BY ZenonT(20) DEF ValidateQuota
  <2>2. q # Idle
    BY <2>1 DEF Idle
  <2> QED  BY <1>0, <2>1, <2>2
<1>2. CASE Refuse(r)
  BY <1>2, RefuseMoves, Quiet, Frame DEF ValidateQuota
<1>3. ASSUME NEW o \in HeldAgainst(q)
      PROVE  o \in Labels
  BY <1>1, <1>3 DEF HeldAgainst, QuotaOrganization, Labels, PendingRequest
<1>4. ASSUME NEW o \in HeldAgainst(q), q.kind = "Namespace",
             req' = [req EXCEPT ![r] = [q EXCEPT !.stage = "store", !.quota = o]]
      PROVE  RequestsMove
  <2> DEFINE p == [q EXCEPT !.stage = "store", !.quota = o]
  <2>1. p \in PendingRequest /\ p.who = q.who /\ p.label = q.label
    BY <1>1, <1>3, <1>4 DEF PendingRequest
  <2>2. MutatorEnabled => Justified(q.who, q.label)
    BY <1>1, <1>4 DEF IInv, Mutated
  <2>3. MutatorEnabled => Justified(p.who, p.label)
    BY <2>1, <2>2
  <2>4. req' = [req EXCEPT ![r] = p]
    BY <1>4
  <2> HIDE DEF p, q
  <2> QED  BY <2>1, <2>3, <2>4, OneRequest
<1>5. ASSUME NEW o \in HeldAgainst(q),
             req' = [req EXCEPT ![r] = Request("Project", "project", q.who, q.ns, NoOrg, o)]
      PROVE  RequestsMove
  <2> DEFINE p == Request("Project", "project", q.who, q.ns, NoOrg, o)
  <2>1. p \in PendingRequest /\ ~Mutated(p)
    BY <1>1, <1>3, <1>5 DEF Request, PendingRequest, Labels, AllVerbs, Mutated
  <2>2. req' = [req EXCEPT ![r] = p]
    BY <1>5
  <2> HIDE DEF p, q
  <2> QED  BY <2>1, <2>2, OneRequest
<1>6. Refuse(r) \/ RequestsMove
  BY <1>4, <1>5 DEF ValidateQuota
<1>7. RequestsMove
  BY <1>6, RefuseMoves
<1> QED  BY <1>7, Quiet, Frame DEF ValidateQuota

LEMMA RequestFailsStep ==
    ASSUME IInv, NEW r \in Requests, RequestFails(r)
    PROVE  IInv'
  BY RefuseMoves, Quiet, Frame DEF RequestFails

\* The current set of Namespaces.
LEMMA CurrentFacts ==
    ASSUME IInv
    PROVE  /\ Len(store) \in DOMAIN store /\ Current(store) = store[Len(store)]
           /\ Current(store) \in Snapshot
           /\ DOMAIN Current(store) \subseteq Namespaces
           /\ \A n \in DOMAIN Current(store) : Current(store)[n] \in Entry
           /\ MutatorEnabled => \A n \in DOMAIN Current(store) :
                Justified(Current(store)[n].by, Current(store)[n].org)
<1>1. store \in Seq(Snapshot) /\ Len(store) > 0
  BY DEF IInv, TypeOK
<1>2. /\ Len(store) \in DOMAIN store /\ Current(store) = store[Len(store)]
      /\ Current(store) \in Snapshot
  BY <1>1 DEF Current
<1>3. DOMAIN Current(store) \subseteq Namespaces
      /\ \A n \in DOMAIN Current(store) : Current(store)[n] \in Entry
  BY <1>2, SnapshotFacts
<1>4. MutatorEnabled => \A n \in DOMAIN Current(store) :
        Justified(Current(store)[n].by, Current(store)[n].org)
  BY <1>1, <1>2, EntitledLater DEF IInv
<1> QED  BY <1>2, <1>3, <1>4

\* A request that is stored was justified when it left the mutator.
LEMMA PersistStep ==
    ASSUME IInv, NEW r \in Requests, Persist(r)
    PROVE  IInv'
<1> DEFINE q == req[r]
           old == Current(store)[q.ns]
           entry == [org |-> q.label, by |-> q.who,
                     quota |-> IF q.verb # "update" THEN q.quota
                               ELSE IF old.org = q.label THEN old.quota ELSE NoOrg]
           S == DOMAIN Current(store) \cup {q.ns}
           new == [n \in S |-> IF n = q.ns THEN entry ELSE Current(store)[n]]
<1>0. req \in [Requests -> PendingRequest \cup {Idle}]
  BY DEF IInv, TypeOK
<1>1. q \in PendingRequest /\ q.stage = "store"
  BY <1>0 DEF Persist, Idle
<1>2. entry \in Entry
  <2>1. q.verb = "update" => old \in Entry
    BY CurrentFacts DEF Persist, Exists
  <2> HIDE DEF old, q
  <2> QED  BY <1>1, <2>1 DEF Entry, PendingRequest, Labels
<1>3. MutatorEnabled => Justified(entry.by, entry.org)
  BY <1>1 DEF IInv, Mutated
<1>4. store' = Append(store, new)
  BY DEF Persist
<1>5. S \in SUBSET Namespaces
  BY <1>1, CurrentFacts DEF PendingRequest
<1> HIDE DEF entry, q, S
<1>6. new \in [S -> Entry]
  BY <1>2, CurrentFacts DEF S
<1>7. MutatorEnabled => \A n \in DOMAIN new : Justified(new[n].by, new[n].org)
  BY <1>3, CurrentFacts DEF S
<1> HIDE DEF new
<1>8. StoreGrows
  BY <1>4, <1>5, <1>6, <1>7, IsSnapshot DEF StoreGrows
<1>9. RequestsMove
  BY RefuseMoves DEF Persist, Refuse
<1> QED  BY <1>8, <1>9, Quiet, Frame DEF Persist

LEMMA DeleteStep ==
    ASSUME IInv, NEW n \in Namespaces, DeleteNamespace(n)
    PROVE  IInv'
<1> DEFINE S == DOMAIN Current(store) \ {n}
           new == [m \in S |-> Current(store)[m]]
<1>1. store' = Append(store, new) /\ UNCHANGED <<seen, directory, req>>
  BY DEF DeleteNamespace
<1>2. S \in SUBSET Namespaces /\ new \in [S -> Entry]
  BY CurrentFacts
<1>3. MutatorEnabled => \A m \in DOMAIN new : Justified(new[m].by, new[m].org)
  BY CurrentFacts
<1> HIDE DEF new, S
<1>4. StoreGrows
  BY <1>1, <1>2, <1>3, IsSnapshot DEF StoreGrows
<1> QED  BY <1>1, <1>4, Quiet, Frame

LEMMA WatchStep ==
    ASSUME IInv, WatchNamespaces
    PROVE  IInv'
<1>1. seen' \in 1 .. Len(store)
  <2>1. store \in Seq(Snapshot) /\ seen \in 1 .. Len(store)
    BY DEF IInv, TypeOK
  <2> QED  BY <2>1 DEF WatchNamespaces, Behind
<1> QED  BY <1>1, Quiet, Frame DEF WatchNamespaces

\* Members come and go, but who was a member is not forgotten.
LEMMA DirectoryStep ==
    ASSUME IInv,
           \/ \E o \in Orgs, S \in SUBSET Users : SyncMembers(o, S)
           \/ \E u \in Users, o \in Orgs \cup {NoOrg, NoUser} : SyncDefault(u, o)
    PROVE  IInv'
<1>1. /\ members \in [Orgs -> SUBSET Users] /\ granted \in [Orgs -> SUBSET Users]
      /\ defaultOrg \in [Users -> Labels \cup {NoUser}]
      /\ \A o \in Orgs : members[o] \subseteq granted[o]
  BY DEF IInv, TypeOK
<1>2. edits' \in 0 .. MaxEdits
  BY ConfigAssumption DEF IInv, TypeOK, SyncMembers, SyncDefault
<1>3. ASSUME NEW o \in Orgs, NEW S \in SUBSET Users, SyncMembers(o, S)
      PROVE  DirectoryGrows
  BY <1>1, <1>2, <1>3 DEF SyncMembers, DirectoryGrows
<1>4. ASSUME NEW u \in Users, NEW o \in Orgs \cup {NoOrg, NoUser}, SyncDefault(u, o)
      PROVE  DirectoryGrows
  BY <1>1, <1>2, <1>4 DEF SyncDefault, DirectoryGrows, Labels
<1>5. UNCHANGED <<store, seen, req>>
  BY DEF SyncMembers, SyncDefault
<1> QED  BY <1>3, <1>4, <1>5, Quiet, Frame

-----------------------------------------------------------------------------
(* The invariant and what follows from it *)

\* The initial state.
LEMMA InvInit == Init => IInv
<1> SUFFICES ASSUME Init PROVE IInv  OBVIOUS
<1>1. <<>> \in Snapshot /\ DOMAIN <<>> = {}
  <2>1. <<>> \in [{} -> Entry]
    OBVIOUS
  <2> QED  BY <2>1, IsSnapshot
<1>2. /\ store \in Seq(Snapshot) /\ Len(store) = 1 /\ DOMAIN store = 1 .. 1
      /\ store[1] = <<>>
  BY <1>1 DEF Init
<1>3. \A r \in Requests : req[r] = Idle /\ ~Mutated(req[r])
  BY DEF Init, Mutated, Idle
<1>4. TypeOK
  <2>1. req \in [Requests -> PendingRequest \cup {Idle}]
    BY DEF Init
  <2>2. /\ members \in [Orgs -> SUBSET Users] /\ granted \in [Orgs -> SUBSET Users]
        /\ defaultOrg \in [Users -> Labels \cup {NoUser}]
        /\ edits \in 0 .. MaxEdits /\ seen = 1
    BY ConfigAssumption DEF Init, Labels
  <2>3. \A i \in DOMAIN store : DOMAIN store[i] = {}
    BY <1>1, <1>2
  <2> QED  BY <1>2, <2>1, <2>2, <2>3 DEF TypeOK
<1>5. \A o \in Orgs : members[o] \subseteq granted[o]
  BY DEF Init
<1>6. \A i \in DOMAIN store : DOMAIN store[i] = {}
  BY <1>1, <1>2
<1> QED  BY <1>2, <1>3, <1>4, <1>5, <1>6 DEF IInv

\* Every step.
LEMMA InvNext == IInv /\ [Next]_vars => IInv'
<1> SUFFICES ASSUME IInv, [Next]_vars PROVE IInv'  OBVIOUS
<1>1. CASE UNCHANGED vars
  BY <1>1, Quiet, Frame DEF vars, directory
<1>2. CASE Next
  BY <1>2, ArriveStep, MutateStep, ValidateQuotaStep, RequestFailsStep, PersistStep,
     DeleteStep, WatchStep, DirectoryStep DEF Next
<1> QED  BY <1>1, <1>2

\* Every reachable state is well typed: every label that a webhook puts on a
\* Namespace or that is stored names an organization or is not there.
THEOREM TypeCorrect == Spec => []TypeOK
<1>1. IInv => TypeOK
  BY DEF IInv
<1> QED  BY <1>1, InvInit, InvNext, PTL DEF Spec

\* Nobody gets a Namespace into an organization from outside: a user is or was
\* a member, a service account's own Namespace was in it in an earlier version,
\* over any number of service accounts, requests under way and versions that
\* caches are behind.
THEOREM NobodyFromOutside == Spec => []OrganizationsComeFromMembers
<1>1. IInv => OrganizationsComeFromMembers
  BY DEF IInv, OrganizationsComeFromMembers
<1> QED  BY <1>1, InvInit, InvNext, PTL DEF Spec

-----------------------------------------------------------------------------
(* The quota *)

\* Every version that a cache can hold counts at most as many Namespaces of an
\* organization less than there are as it is versions behind.
LagBounded ==
    \A o \in Orgs : \A i \in DOMAIN store :
        Count(Current(store), o) <= Count(store[i], o) + (Len(store) - i)

QuotaInv == IInv /\ LagBounded /\ QuotaExcessBounded

\* The Namespaces of a snapshot can be counted.
LEMMA CountFacts ==
    ASSUME NEW s \in Snapshot, NEW o
    PROVE  /\ IsFiniteSet({n \in DOMAIN s : s[n].org = o})
           /\ Count(s, o) \in Nat
<1>1. {n \in DOMAIN s : s[n].org = o} \in SUBSET Namespaces
  BY SnapshotFacts
<1>2. IsFiniteSet({n \in DOMAIN s : s[n].org = o})
  BY <1>1, ConfigAssumption, FS_Subset
<1> QED  BY <1>2, FS_CardinalityType DEF Count

\* One more Namespace is at most one more.
LEMMA CountGrows ==
    ASSUME NEW s \in Snapshot, NEW t \in Snapshot, NEW o, NEW m,
           \A n \in DOMAIN t \ {m} : n \in DOMAIN s /\ t[n] = s[n]
    PROVE  Count(t, o) <= Count(s, o) + 1
<1> DEFINE S == {n \in DOMAIN s : s[n].org = o}
           T == {n \in DOMAIN t : t[n].org = o}
<1>1. T \in SUBSET (S \cup {m})
  OBVIOUS
<1>2. IsFiniteSet(S) /\ Cardinality(S) \in Nat /\ Cardinality(T) \in Nat
  BY CountFacts DEF Count
<1>3. Count(s, o) = Cardinality(S) /\ Count(t, o) = Cardinality(T)
  BY DEF Count
<1> HIDE DEF S, T
<1>4. IsFiniteSet(S \cup {m}) /\ Cardinality(S \cup {m}) <= Cardinality(S) + 1
  BY <1>2, FS_AddElement
<1>5. /\ Cardinality(T) <= Cardinality(S \cup {m})
      /\ Cardinality(S \cup {m}) \in Nat
  BY <1>1, <1>4, FS_Subset, FS_CardinalityType
<1> QED  BY <1>2, <1>3, <1>4, <1>5

\* A version that has one Namespace more, less or other keeps the lag bounded.
LEMMA LagStays ==
    ASSUME IInv, LagBounded, NEW t \in Snapshot, store' = Append(store, t), NEW m,
           \A n \in DOMAIN t \ {m} :
                n \in DOMAIN Current(store) /\ t[n] = Current(store)[n]
    PROVE  LagBounded'
<1> SUFFICES ASSUME NEW o \in Orgs, NEW i \in DOMAIN store'
             PROVE  Count(Current(store'), o) <= Count(store'[i], o) + (Len(store') - i)
  BY DEF LagBounded, Count
<1>1. store \in Seq(Snapshot)
  BY DEF IInv
<1>2. /\ Len(store) \in Nat /\ Len(store') = Len(store) + 1
      /\ DOMAIN store = 1 .. Len(store) /\ DOMAIN store' = 1 .. Len(store) + 1
      /\ store'[Len(store) + 1] = t
      /\ \A j \in 1 .. Len(store) : store'[j] = store[j]
  BY <1>1, AppendFacts
<1>3. Current(store') = t
  BY <1>2 DEF Current
<1>4. Count(t, o) \in Nat /\ Count(Current(store), o) \in Nat
  BY CountFacts, CurrentFacts
<1>5. CASE i = Len(store) + 1
  BY <1>2, <1>3, <1>4, <1>5
<1>6. CASE i \in 1 .. Len(store)
  <2>1. Count(t, o) <= Count(Current(store), o) + 1
    BY CurrentFacts, CountGrows
  <2>2. Count(Current(store), o) <= Count(store[i], o) + (Len(store) - i)
    BY <1>2, <1>6 DEF LagBounded
  <2>3. store[i] \in Snapshot
    BY <1>1, <1>2, <1>6
  <2>4. Count(store[i], o) \in Nat
    BY <2>3, CountFacts
  <2>5. store'[i] = store[i]
    BY <1>2, <1>6
  <2> QED  BY <1>2, <1>3, <1>4, <1>6, <2>1, <2>2, <2>4, <2>5
<1> QED  BY <1>2, <1>5, <1>6

\* What the quota is about is finite.
LEMMA LoadFacts ==
    ASSUME IInv, NEW o
    PROVE  /\ IsFiniteSet(Counted(o)) /\ Cardinality(Counted(o)) \in Nat
           /\ IsFiniteSet(Approved(o)) /\ Cardinality(Approved(o)) \in Nat
           /\ Cardinality(Approved(o)) <= Cardinality(Requests)
           /\ Cardinality(Requests) \in Nat
           /\ Cardinality(Counted(o)) <= Count(Current(store), o)
<1> DEFINE S == {n \in DOMAIN Current(store) : Current(store)[n].org = o}
<1>1. IsFiniteSet(S) /\ Count(Current(store), o) = Cardinality(S)
  BY CurrentFacts, CountFacts DEF Count
<1>2. Counted(o) \in SUBSET S
  BY DEF Counted
<1>3. Approved(o) \in SUBSET Requests
  BY DEF Approved
<1> HIDE DEF S
<1>4. /\ IsFiniteSet(Counted(o)) /\ Cardinality(Counted(o)) <= Cardinality(S)
  BY <1>1, <1>2, FS_Subset
<1>5. /\ IsFiniteSet(Approved(o)) /\ Cardinality(Approved(o)) <= Cardinality(Requests)
  BY <1>3, ConfigAssumption, FS_Subset
<1> QED  BY <1>1, <1>4, <1>5, ConfigAssumption, FS_CardinalityType

\* A limit is a number.
LEMMA LimitFacts ==
    ASSUME NEW o \in Orgs
    PROVE  \A limit \in NsCountLimit(o) : limit \in Nat /\ NsCountLimit(o) = {limit}
  BY ConfigAssumption DEF NsCountLimit

\* As long as neither grows, nor one by what the other loses, the quota holds.
LEMMA LoadStays ==
    ASSUME QuotaInv, IInv', NEW o \in Orgs, NEW limit \in NsCountLimit(o),
           \/ Counted(o)' \subseteq Counted(o) /\ Approved(o)' \subseteq Approved(o)
           \/ \E m, r : /\ Counted(o)' \subseteq Counted(o) \cup {m}
                        /\ r \in Approved(o)
                        /\ Approved(o)' \subseteq Approved(o) \ {r}
    PROVE  Cardinality(Counted(o)') + Cardinality(Approved(o)')
                <= limit + MaxLag + Cardinality(Requests) - 1
<1>1. /\ IsFiniteSet(Counted(o)) /\ Cardinality(Counted(o)) \in Nat
      /\ IsFiniteSet(Approved(o)) /\ Cardinality(Approved(o)) \in Nat
      /\ Cardinality(Requests) \in Nat
  BY LoadFacts DEF QuotaInv
<1>2. /\ Cardinality(Counted(o)) + Cardinality(Approved(o))
            <= limit + MaxLag + Cardinality(Requests) - 1
      /\ limit \in Nat /\ MaxLag \in Nat
  BY LimitFacts, ConfigAssumption DEF QuotaInv, QuotaExcessBounded
<1>3. CASE Counted(o)' \subseteq Counted(o) /\ Approved(o)' \subseteq Approved(o)
  <2>1. /\ Cardinality(Counted(o)') <= Cardinality(Counted(o))
        /\ IsFiniteSet(Counted(o)') /\ Cardinality(Counted(o)') \in Nat
    BY <1>1, <1>3, FS_Subset, FS_CardinalityType
  <2>2. /\ Cardinality(Approved(o)') <= Cardinality(Approved(o))
        /\ IsFiniteSet(Approved(o)') /\ Cardinality(Approved(o)') \in Nat
    BY <1>1, <1>3, FS_Subset, FS_CardinalityType
  <2> QED  BY <1>1, <1>2, <2>1, <2>2
<1>4. ASSUME NEW m, NEW r, Counted(o)' \subseteq Counted(o) \cup {m},
             r \in Approved(o), Approved(o)' \subseteq Approved(o) \ {r}
      PROVE  Cardinality(Counted(o)') + Cardinality(Approved(o)')
                <= limit + MaxLag + Cardinality(Requests) - 1
  <2>1. /\ IsFiniteSet(Counted(o) \cup {m})
        /\ Cardinality(Counted(o) \cup {m}) <= Cardinality(Counted(o)) + 1
    <3>1. /\ IsFiniteSet(Counted(o) \cup {m})
          /\ Cardinality(Counted(o) \cup {m}) =
                IF m \in Counted(o) THEN Cardinality(Counted(o))
                                    ELSE Cardinality(Counted(o)) + 1
      BY <1>1, FS_AddElement, ZenonT(20)
    <3> QED  BY <1>1, <3>1
  <2>2. /\ Cardinality(Counted(o)') <= Cardinality(Counted(o) \cup {m})
        /\ Cardinality(Counted(o) \cup {m}) \in Nat
        /\ IsFiniteSet(Counted(o)') /\ Cardinality(Counted(o)') \in Nat
    BY <2>1, <1>4, FS_Subset, FS_CardinalityType
  <2>3. /\ IsFiniteSet(Approved(o) \ {r})
        /\ Cardinality(Approved(o) \ {r}) = Cardinality(Approved(o)) - 1
    BY <1>1, <1>4, FS_RemoveElement
  <2>4. /\ Cardinality(Approved(o)') <= Cardinality(Approved(o) \ {r})
        /\ IsFiniteSet(Approved(o)') /\ Cardinality(Approved(o)') \in Nat
    BY <2>3, <1>4, FS_Subset, FS_CardinalityType
  <2> QED  BY <1>1, <1>2, <2>1, <2>2, <2>3, <2>4
<1> QED  BY <1>3, <1>4

\* A request that moves on without being approved.
LEMMA LoadOfMove ==
    ASSUME QuotaInv, IInv', UNCHANGED store, NEW r \in Requests, NEW q,
           req' = [req EXCEPT ![r] = q],
           \A o \in Orgs : q.stage \in {"mutate", "store"} /\ q.quota = o
                                => r \in Approved(o)
    PROVE  QuotaInv'
<1>0. req \in [Requests -> PendingRequest \cup {Idle}]
  BY DEF QuotaInv, IInv, TypeOK
<1>1. ASSUME NEW o \in Orgs
      PROVE  Counted(o)' \subseteq Counted(o) /\ Approved(o)' \subseteq Approved(o)
  <2>1. Counted(o)' = Counted(o)
    BY DEF Counted, Current
  <2>2. ASSUME NEW p \in Requests, p \in Approved(o)'
        PROVE  p \in Approved(o)
    <3>1. CASE p = r
      BY <1>0, <2>2, <3>1 DEF Approved
    <3>2. CASE p # r
      BY <1>0, <2>2, <3>2 DEF Approved
    <3> QED  BY <3>1, <3>2
  <2> QED  BY <2>1, <2>2 DEF Approved
<1>2. LagBounded'
  BY DEF QuotaInv, LagBounded, Current, Count
<1>3. QuotaExcessBounded'
  BY <1>1, LoadStays DEF QuotaExcessBounded, NsCountLimit
<1> QED  BY <1>2, <1>3 DEF QuotaInv

\* Steps that leave Namespaces and requests alone.
LEMMA LoadUnchanged ==
    ASSUME QuotaInv, IInv', UNCHANGED <<store, req>>
    PROVE  QuotaInv'
<1>1. \A o \in Orgs : Counted(o)' = Counted(o) /\ Approved(o)' = Approved(o)
  BY DEF Counted, Approved, Current
<1>2. LagBounded'
  BY DEF QuotaInv, LagBounded, Current, Count
<1>3. QuotaExcessBounded'
  BY <1>1, LoadStays DEF QuotaExcessBounded, NsCountLimit
<1> QED  BY <1>2, <1>3 DEF QuotaInv

LEMMA QuotaArrive ==
    ASSUME QuotaInv, IInv', NEW r \in Requests, NEW q \in Inputs, Arrive(r, q)
    PROVE  QuotaInv'
<1>1. q.quota = NoOrg
  BY DEF Inputs, Request
<1>2. UNCHANGED store /\ req' = [req EXCEPT ![r] = q]
  BY DEF Arrive
<1> QED  BY <1>1, <1>2, LoadOfMove, RequestersAssumption

LEMMA QuotaRefuse ==
    ASSUME QuotaInv, IInv', NEW r \in Requests, Refuse(r), UNCHANGED store
    PROVE  QuotaInv'
<1>1. Idle.stage \notin {"mutate", "store"}
  BY DEF Idle
<1> QED  BY <1>1, LoadOfMove DEF Refuse

LEMMA QuotaMutate ==
    ASSUME QuotaInv, IInv', NEW r \in Requests, Mutate(r)
    PROVE  QuotaInv'
<1>0. req \in [Requests -> PendingRequest \cup {Idle}]
  BY DEF QuotaInv, IInv, TypeOK
<1>1. req[r] \in PendingRequest /\ req[r].stage = "mutate" /\ UNCHANGED store
  BY <1>0 DEF Mutate, Idle
<1>2. CASE Refuse(r)
  BY <1>1, <1>2, QuotaRefuse
<1>3. ASSUME NEW o \in OrganizationFor(req[r]), NEW stage \in {"quota", "store"},
             req' = [req EXCEPT ![r].label = o, ![r].stage = stage]
      PROVE  QuotaInv'
  <2> DEFINE q == [req[r] EXCEPT !.label = o, !.stage = stage]
  <2>1. req' = [req EXCEPT ![r] = q]
    BY <1>0, <1>1, <1>3 DEF PendingRequest
  <2>2. q.quota = req[r].quota
    BY <1>1 DEF PendingRequest
  <2>3. \A p \in Orgs : q.quota = p => r \in Approved(p)
    BY <1>1, <2>2 DEF Approved
  <2> HIDE DEF q
  <2> QED  BY <1>1, <2>1, <2>3, LoadOfMove
<1> QED  BY <1>2, <1>3 DEF Mutate

\* The only step by which an organization's share grows: there was room in the
\* version that the cache holds.
LEMMA QuotaApprove ==
    ASSUME QuotaInv, IInv', NEW r \in Requests, NEW o \in Labels, NEW q,
           UNCHANGED store, Len(store) - seen <= MaxLag,
           req' = [req EXCEPT ![r] = q], q.quota = o,
           o # NoOrg => \E limit \in NsCountLimit(o) : Count(Cached, o) < limit
    PROVE  QuotaInv'
<1>0. req \in [Requests -> PendingRequest \cup {Idle}]
  BY DEF QuotaInv, IInv, TypeOK
<1>1. LagBounded'
  BY DEF QuotaInv, LagBounded, Current, Count
<1>2. ASSUME NEW p \in Orgs, NEW limit \in NsCountLimit(p)
      PROVE  Cardinality(Counted(p)') + Cardinality(Approved(p)')
                <= limit + MaxLag + Cardinality(Requests) - 1
  <2>1. Counted(p)' = Counted(p)
    BY DEF Counted, Current
  <2>2. CASE p # o
    <3>1. ASSUME NEW x \in Requests, x \in Approved(p)'
          PROVE  x \in Approved(p)
      <4>1. x # r
        BY <1>0, <2>2, <3>1 DEF Approved
      <4> QED  BY <1>0, <3>1, <4>1 DEF Approved
    <3>2. Approved(p)' \subseteq Approved(p)
      BY <3>1 DEF Approved
    <3> QED  BY <1>2, <2>1, <3>2, LoadStays
  <2>3. CASE p = o
    <3>1. Count(Cached, o) < limit /\ limit \in Nat
      BY <1>2, <2>3, LimitFacts, RequestersAssumption
    <3>2. /\ Len(store) \in Nat /\ seen \in 1 .. Len(store) /\ seen \in DOMAIN store
          /\ Cached \in Snapshot
      BY DEF QuotaInv, IInv, TypeOK, Cached
    <3>3. Count(Current(store), o) <= Count(Cached, o) + (Len(store) - seen)
      BY <2>3, <3>2 DEF QuotaInv, LagBounded, Cached
    <3>4. /\ Cardinality(Counted(o)) <= Count(Current(store), o)
          /\ Cardinality(Counted(o)) \in Nat
          /\ Cardinality(Requests) \in Nat
      BY LoadFacts DEF QuotaInv
    <3>5. Count(Cached, o) \in Nat /\ Count(Current(store), o) \in Nat
      BY <3>2, CurrentFacts, CountFacts DEF QuotaInv
    <3>6. /\ Cardinality(Approved(o)') <= Cardinality(Requests)
          /\ Cardinality(Approved(o)') \in Nat
      <4>1. Approved(o)' \in SUBSET Requests
        BY DEF Approved
      <4> QED  BY <4>1, ConfigAssumption, FS_Subset, FS_CardinalityType
    <3>7. Cardinality(Counted(o)') = Cardinality(Counted(o))
      BY <2>1, <2>3
    <3>8. MaxLag \in Nat
      BY ConfigAssumption
    <3>9. Cardinality(Counted(o)) <= limit - 1 + MaxLag
      BY <3>1, <3>2, <3>3, <3>4, <3>5, <3>8
    <3> QED  BY <2>3, <3>1, <3>4, <3>6, <3>7, <3>8, <3>9
  <2> QED  BY <2>2, <2>3
<1>3. QuotaExcessBounded'
  BY <1>2 DEF QuotaExcessBounded, NsCountLimit
<1> QED  BY <1>1, <1>3 DEF QuotaInv

\* A request is approved for the organization there is room in.
LEMMA QuotaValidate ==
    ASSUME QuotaInv, IInv', NEW r \in Requests, ValidateQuota(r)
    PROVE  QuotaInv'
<1> DEFINE q == req[r]
<1>0. req \in [Requests -> PendingRequest \cup {Idle}]
  BY DEF QuotaInv, IInv, TypeOK
<1>1. UNCHANGED store /\ Len(store) - seen <= MaxLag
  BY DEF ValidateQuota
<1>2. q \in PendingRequest
  <2>1. q.stage = "quota"
    BY ZenonT(20) DEF ValidateQuota
  <2>2. q # Idle
    BY <2>1 DEF Idle
  <2> QED  BY <1>0, <2>2
<1>3. CASE Refuse(r)
  BY <1>1, <1>3, QuotaRefuse
<1>4. ASSUME NEW o \in HeldAgainst(q), QuotaAllows(q)
      PROVE  /\ o \in Labels
             /\ o # NoOrg => \E limit \in NsCountLimit(o) : Count(Cached, o) < limit
  <2>1. o \in Labels
    BY <1>2 DEF HeldAgainst, QuotaOrganization, Labels, PendingRequest
  <2>2. CASE PrivilegedUserSkipper(q.who) \/ SkipValidateQuota
    BY <2>1, <2>2 DEF HeldAgainst
  <2>3. CASE ~(PrivilegedUserSkipper(q.who) \/ SkipValidateQuota)
    <3>1. o \in QuotaOrganization(q)
      BY <2>3 DEF HeldAgainst
    <3>2. PICK p \in QuotaOrganization(q) :
            \E limit \in NsCountLimit(p) : Count(Cached, p) < limit
      BY <1>4, <2>3 DEF QuotaAllows
    <3>3. p = o
      BY <3>1, <3>2 DEF QuotaOrganization
    <3> QED  BY <2>1, <3>2, <3>3
  <2> QED  BY <2>2, <2>3
<1>5. ASSUME NEW o \in HeldAgainst(q), QuotaAllows(q),
             req' = [req EXCEPT ![r] = [q EXCEPT !.stage = "store", !.quota = o]]
      PROVE  QuotaInv'
  <2> DEFINE p == [q EXCEPT !.stage = "store", !.quota = o]
  <2>1. p.quota = o /\ req' = [req EXCEPT ![r] = p]
    BY <1>2, <1>5 DEF PendingRequest
  <2> HIDE DEF p, q
  <2> QED  BY <1>1, <1>4, <1>5, <2>1, QuotaApprove
<1>6. ASSUME NEW o \in HeldAgainst(q), QuotaAllows(q),
             req' = [req EXCEPT ![r] = Request("Project", "project", q.who, q.ns, NoOrg, o)]
      PROVE  QuotaInv'
  <2> DEFINE p == Request("Project", "project", q.who, q.ns, NoOrg, o)
  <2>1. p.quota = o /\ req' = [req EXCEPT ![r] = p]
    BY <1>6 DEF Request
  <2> HIDE DEF p, q
  <2> QED  BY <1>1, <1>4, <1>6, <2>1, QuotaApprove
<1> QED  BY <1>3, <1>5, <1>6 DEF ValidateQuota

\* A Namespace that is created takes the place of the request that was
\* approved for it; an update brings an organization no Namespace that was
\* counted for it.
LEMMA QuotaPersist ==
    ASSUME QuotaInv, IInv', NEW r \in Requests, Persist(r)
    PROVE  QuotaInv'
<1> DEFINE q == req[r]
           cur == Current(store)
           old == cur[q.ns]
           entry == [org |-> q.label, by |-> q.who,
                     quota |-> IF q.verb # "update" THEN q.quota
                               ELSE IF old.org = q.label THEN old.quota ELSE NoOrg]
           new == [n \in DOMAIN cur \cup {q.ns} |-> IF n = q.ns THEN entry ELSE cur[n]]
<1>0. req \in [Requests -> PendingRequest \cup {Idle}] /\ store \in Seq(Snapshot)
  BY DEF QuotaInv, IInv, TypeOK
<1>1. /\ q.stage = "store" /\ store' = Append(store, new)
      /\ q.ns \in DOMAIN cur <=> q.verb = "update"
      /\ req' = [req EXCEPT ![r] = Idle]
  BY DEF Persist, Exists
<1>2. DOMAIN new = DOMAIN cur \cup {q.ns} /\ new[q.ns] = entry
      /\ \A n \in DOMAIN cur \ {q.ns} : new[n] = cur[n]
  OBVIOUS
<1>3. entry.org = q.label
      /\ (q.verb # "update" => entry.quota = q.quota)
      /\ (q.verb = "update" => entry.quota = IF old.org = q.label THEN old.quota ELSE NoOrg)
  OBVIOUS
<1> HIDE DEF new, entry
<1>4. Current(store') = new /\ new \in Snapshot
  <2>1. store' \in Seq(Snapshot) /\ Len(store') > 0
    BY DEF IInv, TypeOK
  <2>2. Current(store') = new
    BY <1>0, <1>1, AppendFacts DEF Current
  <2>3. Current(store') \in Snapshot
    BY <2>1 DEF Current
  <2> QED  BY <2>2, <2>3
<1>5. LagBounded'
  BY <1>1, <1>2, <1>4, LagStays DEF QuotaInv
<1>6. ASSUME NEW o \in Orgs
      PROVE  /\ Approved(o)' = Approved(o) \ {r}
             /\ Counted(o)' = {n \in DOMAIN new : new[n].org = o /\ new[n].quota = o}
  <2>1. \A x \in Requests : req'[x] = IF x = r THEN Idle ELSE req[x]
    BY <1>0, <1>1
  <2>2. Idle.stage \notin {"mutate", "store"}
    BY DEF Idle
  <2>3. Approved(o)' = Approved(o) \ {r}
    BY <2>1, <2>2 DEF Approved
  <2> QED  BY <1>4, <2>3 DEF Counted
<1>7. ASSUME NEW o \in Orgs
      PROVE  \/ Counted(o)' \subseteq Counted(o) /\ Approved(o)' \subseteq Approved(o)
             \/ \E m, x : /\ Counted(o)' \subseteq Counted(o) \cup {m}
                          /\ x \in Approved(o)
                          /\ Approved(o)' \subseteq Approved(o) \ {x}
  <2>1. Counted(o)' \subseteq Counted(o) \cup {q.ns}
    BY <1>2, <1>6 DEF Counted
  <2>2. CASE q.ns \notin Counted(o)'
    BY <1>6, <2>1, <2>2
  <2>3. CASE q.ns \in Counted(o)'
    <3>1. entry.org = o /\ entry.quota = o
      BY <1>2, <1>6, <2>3
    <3>2. CASE q.verb = "update"
      <4>1. q.ns \in DOMAIN cur /\ old.org = o /\ old.quota = o
        BY <1>1, <1>3, <3>1, <3>2, RequestersAssumption
      <4>2. q.ns \in Counted(o)
        BY <4>1 DEF Counted
      <4> QED  BY <1>6, <2>1, <4>2
    <3>3. CASE q.verb # "update"
      <4>1. r \in Approved(o)
        BY <1>1, <1>3, <3>1, <3>3 DEF Approved
      <4> QED  BY <1>6, <2>1, <4>1
    <3> QED  BY <3>2, <3>3
  <2> QED  BY <2>2, <2>3
<1>8. QuotaExcessBounded'
  BY <1>7, LoadStays DEF QuotaExcessBounded, NsCountLimit
<1> QED  BY <1>5, <1>8 DEF QuotaInv

LEMMA QuotaDelete ==
    ASSUME QuotaInv, IInv', NEW m \in Namespaces, DeleteNamespace(m)
    PROVE  QuotaInv'
<1> DEFINE cur == Current(store)
           new == [n \in DOMAIN cur \ {m} |-> cur[n]]
<1>1. store' = Append(store, new) /\ UNCHANGED req /\ store \in Seq(Snapshot)
  BY DEF DeleteNamespace, QuotaInv, IInv
<1>2. DOMAIN new = DOMAIN cur \ {m} /\ \A n \in DOMAIN new : new[n] = cur[n]
  OBVIOUS
<1> HIDE DEF new
<1>3. Current(store') = new /\ new \in Snapshot
  <2>1. store' \in Seq(Snapshot) /\ Len(store') > 0
    BY DEF IInv, TypeOK
  <2>2. Current(store') = new
    BY <1>1, AppendFacts DEF Current
  <2>3. Current(store') \in Snapshot
    BY <2>1 DEF Current
  <2> QED  BY <2>2, <2>3
<1>4. LagBounded'
  BY <1>1, <1>2, <1>3, LagStays DEF QuotaInv
<1>5. \A o \in Orgs : /\ Counted(o)' \subseteq Counted(o)
                      /\ Approved(o)' \subseteq Approved(o)
  BY <1>1, <1>2, <1>3 DEF Counted, Approved
<1>6. QuotaExcessBounded'
  BY <1>5, LoadStays DEF QuotaExcessBounded, NsCountLimit
<1> QED  BY <1>4, <1>6 DEF QuotaInv

LEMMA QuotaInit == Init => QuotaInv
<1> SUFFICES ASSUME Init PROVE QuotaInv  OBVIOUS
<1>1. IInv
  BY InvInit
<1>2. /\ Len(store) = 1 /\ DOMAIN store = 1 .. 1 /\ store[1] = <<>>
      /\ Current(store) = <<>> /\ DOMAIN <<>> = {}
  BY DEF Init, Current
<1>3. LagBounded
  <2>1. \A o : Count(Current(store), o) \in Nat
    BY <1>1, CurrentFacts, CountFacts
  <2> QED  BY <1>2, <2>1 DEF LagBounded
<1>4. QuotaExcessBounded
  <2> SUFFICES ASSUME NEW o \in Orgs, NEW limit \in NsCountLimit(o)
               PROVE  Cardinality(Counted(o)) + Cardinality(Approved(o))
                        <= limit + MaxLag + Cardinality(Requests) - 1
    BY DEF QuotaExcessBounded
  <2>1. Counted(o) = {}
    BY <1>2 DEF Counted
  <2>2. Approved(o) = {}
    BY DEF Init, Idle, Approved
  <2>3. Cardinality(Requests) \in Nat /\ Cardinality(Requests) # 0
    BY ConfigAssumption, FS_CardinalityType, FS_EmptySet
  <2>4. Cardinality({}) = 0
    BY FS_EmptySet
  <2>5. limit \in Nat /\ MaxLag \in Nat
    BY LimitFacts, ConfigAssumption
  <2> QED  BY <2>1, <2>2, <2>3, <2>4, <2>5
<1> QED  BY <1>1, <1>3, <1>4 DEF QuotaInv

LEMMA QuotaNext == QuotaInv /\ [Next]_vars => QuotaInv'
<1> SUFFICES ASSUME QuotaInv, [Next]_vars PROVE QuotaInv'  OBVIOUS
<1>1. IInv'
  BY InvNext DEF QuotaInv
<1>2. CASE UNCHANGED vars
  BY <1>1, <1>2, LoadUnchanged DEF vars
<1>3. ASSUME NEW r \in Requests,
             \/ \E q \in Inputs : Arrive(r, q)
             \/ Mutate(r) \/ ValidateQuota(r) \/ RequestFails(r) \/ Persist(r)
      PROVE  QuotaInv'
  <2>1. CASE RequestFails(r)
    BY <1>1, <2>1, QuotaRefuse DEF RequestFails
  <2> QED  BY <1>1, <1>3, <2>1, QuotaArrive, QuotaMutate, QuotaValidate, QuotaPersist
<1>4. ASSUME NEW n \in Namespaces, DeleteNamespace(n)
      PROVE  QuotaInv'
  BY <1>1, <1>4, QuotaDelete
<1>5. CASE \/ WatchNamespaces
           \/ \E o \in Orgs, S \in SUBSET Users : SyncMembers(o, S)
           \/ \E u \in Users, o \in Orgs \cup {NoOrg, NoUser} : SyncDefault(u, o)
  <2>1. UNCHANGED <<store, req>>
    BY <1>5 DEF WatchNamespaces, SyncMembers, SyncDefault
  <2> QED  BY <1>1, <2>1, LoadUnchanged
<1> QED  BY <1>2, <1>3, <1>4, <1>5 DEF Next

\* The lag of the cache and the requests under way bound by how much an
\* organization exceeds its quota: there is no other way past it, for any
\* number of requests, Namespaces and organizations and any limits.
THEOREM QuotaHolds == Spec => []QuotaExcessBounded
<1>1. QuotaInv => QuotaExcessBounded
  BY DEF QuotaInv
<1> QED  BY <1>1, QuotaInit, QuotaNext, PTL DEF Spec
=============================================================================
