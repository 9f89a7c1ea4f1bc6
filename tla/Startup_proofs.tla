--------------------------- MODULE Startup_proofs ---------------------------
(***************************************************************************)
(* Proofs about Startup for any number of meshes, clusters, Secrets and    *)
(* events.                                                                 *)
(*                                                                         *)
(* SettledFresh compares the registry with the API server, but the process *)
(* never does: it compares two fingerprints.  The invariant follows the    *)
(* configuration through the start of a process: the registry is built     *)
(* from it (Building), the fingerprint taken of it (Reading), and from     *)
(* then on boot says what the registry was made of (Running), whatever     *)
(* becomes of the meshes and the Secrets.                                  *)
(***************************************************************************)
EXTENDS Startup, FiniteSetTheorems, NaturalsInduction, WellFoundedInduction, TLAPS

-----------------------------------------------------------------------------
(* The operators.                                                          *)

AnySpec == {Gone} \cup UNION {Options[m] : m \in Meshes}

\* The meshes are as their users may write them.
SpecsOK(C) == C \in [Meshes -> AnySpec] /\ \A m \in Meshes : C[m] \in Options[m] \cup {Gone}

\* No version is newer than n, and a Secret that is not there holds nothing.
SecretsOK(S, n) ==
    /\ S \in [Secrets -> [rv : 0..n, usable : SUBSET Keys]]
    /\ \A s \in Secrets : S[s].rv = 0 => S[s].usable = {}

Clients(n) == {None, <<Local, 0>>} \cup ((Secrets \X Keys) \X (1..n))

\* A listed entry is Local or a key of a Secret.
LEMMA EntryType ==
    ASSUME NEW C, SpecsOK(C), NEW c \in Clusters, NEW m \in Lists(C, c)
    PROVE  C[m][c] \in Refs
  <1>1. m \in Meshes /\ C[m] \in Options[m] /\ c \in DOMAIN C[m]
    BY DEF Lists, Exists, SpecsOK
  <1>2. PICK S \in SUBSET Clusters : C[m] \in [S -> Refs]
    BY <1>1, ConstantsAssumption
  <1> QED BY <1>1, <1>2

\* A nonempty set of meshes has a first one.
LEMMA FirstMesh ==
    ASSUME NEW M \in SUBSET Meshes, M # {}
    PROVE  \E m \in M : \A x \in M : m <= x
  <1>1. M \subseteq Nat
    BY ConstantsAssumption
  <1>2. \E m \in M : \A x \in M : <<x, m>> \notin OpToRel(<, Nat)
    BY <1>1, NatLessThanWellFounded, WFMin
  <1>3. \A m, x \in M : <<x, m>> \notin OpToRel(<, Nat) => m <= x
    BY <1>1 DEF OpToRel
  <1> QED BY <1>2, <1>3

\* mergeClusterEntries takes an entry of a mesh if there is one.
LEMMA MergeEntry ==
    ASSUME NEW C, SpecsOK(C), NEW c \in Clusters
    PROVE  /\ Lists(C, c) = {} => Merge(C)[c] = None
           /\ Lists(C, c) # {} => \E m \in Lists(C, c) : Merge(C)[c] = C[m][c]
           /\ Merge(C)[c] \in Refs \cup {None}
  <1>1. CASE Lists(C, c) = {}
    BY <1>1 DEF Merge
  <1>2. CASE Lists(C, c) # {}
    <2> DEFINE m == CHOOSE m \in Lists(C, c) : \A x \in Lists(C, c) : m <= x
    <2>1. Lists(C, c) \in SUBSET Meshes
      BY DEF Lists, Exists
    <2>2. m \in Lists(C, c)
      BY <1>2, <2>1, FirstMesh
    <2>3. Merge(C)[c] = C[m][c]
      BY <1>2 DEF Merge
    <2> QED BY <1>2, <2>2, <2>3, EntryType
  <1> QED BY <1>1, <1>2

\* The Secret behind a listed entry is one whose version is in the fingerprint.
LEMMA EntryUsed ==
    ASSUME NEW C, NEW c \in Clusters, NEW m \in Lists(C, c), C[m][c] \in Secrets \X Keys
    PROVE  C[m][c][1] \in Used(C)
  <1>1. C[m][c][1] \in Secrets /\ C[m][c] \in {C[m][c][1]} \X Keys
    OBVIOUS
  <1> QED BY <1>1 DEF Used

\* The Secret behind a merged entry likewise.
LEMMA MergeUsed ==
    ASSUME NEW C, SpecsOK(C), NEW c \in Clusters, Merge(C)[c] \in Secrets \X Keys
    PROVE  Merge(C)[c][1] \in Used(C)
  <1>1. None \notin Secrets \X Keys
    BY ConstantsAssumption DEF Refs
  <1>2. PICK m \in Lists(C, c) : Merge(C)[c] = C[m][c]
    BY <1>1, MergeEntry
  <1> QED BY <1>2, EntryUsed

\* A client is made from a version that there is; without the Secret there is none.
LEMMA ClientFacts ==
    ASSUME NEW n \in Nat, NEW S, SecretsOK(S, n), NEW ref \in Refs \cup {None}
    PROVE  /\ Client(ref, S) \in Clients(n)
           /\ ref \in Secrets \X Keys /\ S[ref[1]].rv = 0 => Client(ref, S) = None
  <1>1. CASE ref \in Secrets \X Keys
    <2>1. ref # Local /\ ref # None /\ ref[1] \in Secrets
      BY <1>1, ConstantsAssumption DEF Refs
    <2>2. S[ref[1]].rv \in 0..n /\ (S[ref[1]].rv = 0 => S[ref[1]].usable = {})
      BY <2>1 DEF SecretsOK
    <2> QED BY <1>1, <2>1, <2>2 DEF Client, RestConfigFromSecret, Clients
  <1>2. CASE ref \in {Local, None}
    BY <1>2, ConstantsAssumption DEF Client, Clients, Refs
  <1> QED BY <1>1, <1>2 DEF Refs

\* A client depends on its own Secret only.
LEMMA ClientSame ==
    ASSUME NEW S, NEW T, NEW ref \in Refs \cup {None},
           ref \in Secrets \X Keys => S[ref[1]] = T[ref[1]]
    PROVE  Client(ref, S) = Client(ref, T)
    BY DEF Client, RestConfigFromSecret, Refs

\* With equal fingerprints, every reference of the one is a reference of the other.
LEMMA SameRefs ==
    ASSUME NEW A, NEW B, NEW f, NEW g, Fingerprint(A, f) = Fingerprint(B, g),
           NEW c \in Clusters, NEW m \in Lists(A.specs, c)
    PROVE  \E x \in Lists(B.specs, c) :
                ClusterRef(A, A.specs[m][c]) = ClusterRef(B, B.specs[x][c])
  <1> DEFINE I(K, h, y) == Cardinality({x \in Lists(K.specs, c) : h[x] <= h[y]})
             P(K, h) == {<<I(K, h, y), ClusterRef(K, K.specs[y][c])>> : y \in Lists(K.specs, c)}
  <1>1. Fingerprint(A, f)[c] = P(A, f) /\ Fingerprint(B, g)[c] = P(B, g)
    BY DEF Fingerprint
  <1>2. <<I(A, f, m), ClusterRef(A, A.specs[m][c])>> \in P(B, g)
    BY <1>1
  <1> HIDE DEF I
  <1> QED BY <1>2

\* Place y has in a listing L that is in the order f.
Place(L, f, y) == Cardinality({x \in L : f[x] <= f[y]})

\* The places of a listing are 1, 2, 3 and so on, in whatever order it is.
LEMMA Places ==
    ASSUME NEW L \in SUBSET Meshes, NEW f \in Orders
    PROVE  {Place(L, f, y) : y \in L} = 1..Cardinality(L)
  <1> DEFINE Upto(y) == {x \in L : f[x] <= f[y]}
             n == Cardinality(L)
             place == [y \in L |-> Place(L, f, y)]
  <1>1. IsFiniteSet(L) /\ n \in Nat
    BY ConstantsAssumption, FS_Subset, FS_CardinalityType
  <1>2. \A x \in L : f[x] \in Nat
    BY ConstantsAssumption DEF Orders
  <1>3. ASSUME NEW y \in L
        PROVE  Place(L, f, y) \in 1..n
    <2>1. Upto(y) \in SUBSET L /\ y \in Upto(y)
      BY <1>2
    <2>2. IsFiniteSet(Upto(y)) /\ Cardinality(Upto(y)) <= n
      BY <1>1, <2>1, FS_Subset
    <2>3. Cardinality(Upto(y)) \in Nat /\ Cardinality(Upto(y)) # 0
      BY <2>1, <2>2, FS_CardinalityType, FS_EmptySet
    <2> QED BY <1>1, <2>2, <2>3 DEF Place
  <1>4. ASSUME NEW y \in L, NEW z \in L, f[y] < f[z]
        PROVE  Place(L, f, y) # Place(L, f, z)
    <2>1. Upto(y) \in SUBSET Upto(z) /\ z \in Upto(z) /\ z \notin Upto(y) /\ Upto(z) \in SUBSET L
      BY <1>2, <1>4
    <2>2. IsFiniteSet(Upto(z))
      BY <1>1, <2>1, FS_Subset
    <2>3. Cardinality(Upto(z)) # Cardinality(Upto(y))
      BY <2>1, <2>2, FS_Subset
    <2> QED BY <2>3 DEF Place
  <1>5. \A y, z \in L : Place(L, f, y) = Place(L, f, z) => y = z
    <2> SUFFICES ASSUME NEW y \in L, NEW z \in L, y # z
                 PROVE  Place(L, f, y) # Place(L, f, z)
      OBVIOUS
    <2>1. f[y] # f[z]
      BY DEF Orders
    <2>2. f[y] < f[z] \/ f[z] < f[y]
      BY <1>2, <2>1
    <2> QED BY <1>4, <2>2
  <1>6. place \in Injection(L, 1..n)
    BY <1>3, <1>5 DEF Injection, IsInjective
  <1>7. IsFiniteSet(1..n) /\ Cardinality(1..n) = n
    BY <1>1, FS_Interval
  <1>8. place \in Surjection(L, 1..n)
    BY <1>6, <1>7, FS_Injection
  <1>9. ASSUME NEW k \in 1..n
        PROVE  \E y \in L : Place(L, f, y) = k
    BY <1>8 DEF Surjection
  <1> QED BY <1>3, <1>9, Zenon

\* The fingerprint does not depend on the order of the listing as long as the meshes
\* agree on the Secret behind each cluster.
LEMMA OrderIrrelevant ==
    ASSUME NEW A, Agreed(A.specs), NEW f \in Orders, NEW g \in Orders
    PROVE  Fingerprint(A, f) = Fingerprint(A, g)
  <1> SUFFICES ASSUME NEW c \in Clusters
               PROVE  Fingerprint(A, f)[c] = Fingerprint(A, g)[c]
    BY DEF Fingerprint
  <1> DEFINE L == Lists(A.specs, c)
             ref(m) == ClusterRef(A, A.specs[m][c])
  <1>1. \A h \in Orders : Fingerprint(A, h)[c] = {<<Place(L, h, m), ref(m)>> : m \in L}
    BY DEF Fingerprint, Place
  <1>2. L \in SUBSET Meshes
    BY DEF Lists, Exists
  <1>3. \A m, x \in L : ref(m) = ref(x)
    BY DEF Agreed, ClusterRef
  <1>4. {Place(L, f, y) : y \in L} = {Place(L, g, y) : y \in L}
    BY <1>2, Places
  <1> HIDE DEF L, ref
  <1>5. {<<Place(L, f, m), ref(m)>> : m \in L} = {<<Place(L, g, m), ref(m)>> : m \in L}
    <2>1. \A m \in L : \E y \in L : Place(L, f, m) = Place(L, g, y) /\ ref(m) = ref(y)
      BY <1>3, <1>4
    <2>2. \A m \in L : \E y \in L : Place(L, g, m) = Place(L, f, y) /\ ref(m) = ref(y)
      BY <1>3, <1>4
    <2> QED BY <2>1, <2>2, Zenon
  <1> QED BY <1>1, <1>5

-----------------------------------------------------------------------------
(* The inductive invariant.                                                *)

Typed ==
    /\ changes \in 0..MaxChanges
    /\ SpecsOK(specs) /\ SpecsOK(seen)
    /\ boot = [specs |-> boot.specs, rvs |-> boot.rvs] /\ SpecsOK(boot.specs)
    /\ boot.rvs \in [Secrets -> 0..(changes + 1)]
    /\ SecretsOK(secrets, changes + 1) /\ SecretsOK(seenSecs, changes + 1)
    /\ crd \in [rv : Nat, ours : BOOLEAN, established : BOOLEAN] /\ found \in 0..crd.rv
    /\ pc \in {"get", "apply", "wait", "list", "build", "read", "run"}
    /\ entries \in [Clusters -> Refs \cup {None}]
    /\ registry \in [Clusters -> Clients(changes + 1)]
    /\ todo \subseteq Clusters \cup Secrets
    /\ due \in BOOLEAN /\ raced \in BOOLEAN

\* Before the meshes are listed there are no clients.
Blank == pc \in {"get", "apply", "wait", "list"} => \A c \in Clusters : registry[c] = None

\* Undisturbed, Build has made the clients of the entries behind it.
Building ==
    pc = "build" /\ ~raced =>
        /\ entries = Merge(specs)
        /\ \A c \in Clusters \ todo : registry[c] = Client(entries[c], secrets)

\* Undisturbed, ComputeFingerprint reads what the clients were made from.
Reading ==
    pc = "read" /\ ~raced =>
        /\ entries = Merge(specs) /\ boot.specs = specs /\ todo \subseteq Used(specs)
        /\ \A c \in Clusters : registry[c] = Client(entries[c], secrets)
        /\ \A s \in Secrets : boot.rvs[s] = IF s \in Used(specs) \ todo THEN secrets[s].rv ELSE 0

\* The client of c is the one of the configuration in boot: the Secret, if it has
\* its version again, gives the same one.
Matches(c) ==
    LET ref == Merge(boot.specs)[c]
    IN  IF ref \in Secrets \X Keys
        THEN /\ boot.rvs[ref[1]] = 0 => registry[c] = None
             /\ secrets[ref[1]].rv = boot.rvs[ref[1]] => registry[c] = Client(ref, secrets)
        ELSE registry[c] = Client(ref, secrets)

\* The watcher at rest has seen the fingerprint of the start, in some order.
Checked ==
    \E order \in Orders : Fingerprint(Config(seen, seenSecs), order) = Fingerprint(boot, ByName)

Running ==
    pc = "run" /\ ~raced =>
        /\ entries = Merge(boot.specs)
        /\ \A c \in Clusters : Matches(c)
        /\ ~due => Checked

IInv == Typed /\ Blank /\ Building /\ Reading /\ Running

\* The first state: no clients, and nothing read.
LEMMA InitIInv == Init => IInv
  <1> SUFFICES ASSUME Init PROVE IInv
    OBVIOUS
  <1>1. SpecsOK(specs)
    BY DEF Init, SpecsOK, AnySpec
  <1>2. SecretsOK(secrets, 1)
    BY DEF Init, SecretsOK
  <1>3. boot = Config(specs, secrets) /\ boot.specs = specs /\ boot.rvs \in [Secrets -> 0..1]
    BY <1>2 DEF Init, Config, SecretsOK
  <1>4. boot = [specs |-> boot.specs, rvs |-> boot.rvs]
    BY <1>3 DEF Config
  <1>5. changes = 0 /\ changes + 1 = 1 /\ changes \in 0..MaxChanges
    BY ConstantsAssumption DEF Init
  <1>6. /\ crd \in [rv : Nat, ours : BOOLEAN, established : BOOLEAN] /\ found \in 0..crd.rv
        /\ entries \in [Clusters -> Refs \cup {None}] /\ registry \in [Clusters -> Clients(1)]
    <2>1. crd \in [rv : Nat, ours : BOOLEAN, established : BOOLEAN]
      <3>1. {0} \subseteq Nat /\ {1} \subseteq Nat
        OBVIOUS
      <3>2. {FALSE} \subseteq BOOLEAN /\ {TRUE} \subseteq BOOLEAN
        OBVIOUS
      <3> QED BY <3>1, <3>2, Zenon DEF Init
    <2>2. found \in 0..crd.rv
      BY <2>1 DEF Init
    <2> QED BY <2>1, <2>2 DEF Init, Clients
  <1>7. seen = specs /\ seenSecs = secrets /\ pc = "get" /\ todo = {} /\ due = FALSE /\ raced = FALSE
    BY DEF Init
  <1>8. Typed
    BY <1>1, <1>2, <1>3, <1>4, <1>5, <1>6, <1>7 DEF Typed
  <1> QED BY <1>8 DEF Init, IInv, Blank, Building, Reading, Running

-----------------------------------------------------------------------------
(* The steps.                                                              *)

\* Bounds may grow.
LEMMA Later ==
    ASSUME NEW n \in Nat, NEW k \in Nat, n <= k
    PROVE  /\ \A S : SecretsOK(S, n) => SecretsOK(S, k)
           /\ \A S : S \in [Secrets -> 0..n] => S \in [Secrets -> 0..k]
           /\ Clients(n) \subseteq Clients(k)
  <1>1. \A S : SecretsOK(S, n) => SecretsOK(S, k)
    BY DEF SecretsOK
  <1>2. Clients(n) \subseteq Clients(k)
    BY DEF Clients
  <1> QED BY <1>1, <1>2

\* The types, over a step in which only the count of events and the flags change.
LEMMA ChangeTyped ==
    ASSUME Typed, Change
    PROVE  /\ changes' \in 0..MaxChanges /\ changes' = changes + 1
           /\ boot.rvs \in [Secrets -> 0..(changes' + 1)]
           /\ SecretsOK(secrets, changes' + 1) /\ SecretsOK(seenSecs, changes' + 1)
           /\ registry \in [Clusters -> Clients(changes' + 1)]
  <1>1. changes' \in 0..MaxChanges /\ changes' = changes + 1 /\ changes \in Nat
    BY ConstantsAssumption DEF Typed, Change
  <1>2. changes + 1 \in Nat /\ changes' + 1 \in Nat /\ changes + 1 <= changes' + 1
    BY <1>1
  <1>3. Clients(changes + 1) \subseteq Clients(changes' + 1)
    BY <1>2, Later
  <1>4. registry \in [Clusters -> Clients(changes' + 1)]
    BY <1>3 DEF Typed
  <1> QED BY <1>1, <1>2, <1>4, Later DEF Typed

\* A new process knows nothing.
LEMMA RestartedIInv ==
    ASSUME Typed, Restarted, SpecsOK(specs'), SpecsOK(seen'), UNCHANGED boot,
           changes' \in 0..MaxChanges, boot.rvs \in [Secrets -> 0..(changes' + 1)],
           SecretsOK(secrets', changes' + 1), SecretsOK(seenSecs', changes' + 1),
           crd' \in [rv : Nat, ours : BOOLEAN, established : BOOLEAN]
    PROVE  IInv'
  <1>1. /\ entries' \in [Clusters -> Refs \cup {None}] /\ found' \in 0..crd'.rv
        /\ registry' \in [Clusters -> Clients(changes' + 1)]
    BY DEF Restarted, Clients
  <1>2. pc' = "get" /\ todo' = {} /\ due' = FALSE /\ raced' = FALSE
    BY DEF Restarted
  <1>3. Typed'
    BY <1>1, <1>2 DEF Typed
  <1> QED BY <1>3 DEF IInv, Restarted, Blank, Building, Reading, Running

\* A user writes a mesh: only a process past its start stays undisturbed, and Running
\* does not look at the meshes.
LEMMA WriteMeshIInv ==
    ASSUME IInv, NEW m \in Meshes, NEW x \in Options[m] \cup {Gone}, WriteMesh(m, x)
    PROVE  IInv'
  <1>1. SpecsOK(specs')
    BY DEF IInv, Typed, SpecsOK, AnySpec, WriteMesh
  <1>2. Typed'
    BY <1>1, ChangeTyped DEF IInv, Typed, WriteMesh, Edit, cache
  <1>3. Running'
    BY DEF IInv, Running, Matches, Checked, WriteMesh, Edit, cache
  <1> QED BY <1>2, <1>3 DEF IInv, Blank, Building, Reading, WriteMesh, Edit

\* A Secret that changes keeps the promise of Matches: it gets a version the
\* fingerprint cannot hold, or none.
LEMMA SecretMatches ==
    ASSUME IInv, NEW s \in Secrets, NEW v, secrets' = [secrets EXCEPT ![s] = v],
           SecretsOK(secrets', changes + 2), v.rv \in {0, changes + 2},
           UNCHANGED <<boot, registry>>, NEW c \in Clusters, Matches(c)
    PROVE  Matches(c)'
  <1> DEFINE ref == Merge(boot.specs)[c]
  <1>1. ref \in Refs \cup {None} /\ changes + 2 \in Nat
    BY MergeEntry, ConstantsAssumption DEF IInv, Typed
  <1>2. CASE ref \notin Secrets \X Keys
    <2>1. Client(ref, secrets) = Client(ref, secrets')
      BY <1>1, <1>2, ClientSame
    <2> QED BY <1>2, <2>1 DEF Matches
  <1>3. CASE ref \in Secrets \X Keys /\ ref[1] # s
    <2>1. secrets'[ref[1]] = secrets[ref[1]]
      BY <1>3 DEF IInv, Typed, SecretsOK
    <2>2. Client(ref, secrets) = Client(ref, secrets')
      BY <1>1, <2>1, ClientSame
    <2> QED BY <1>3, <2>1, <2>2 DEF Matches
  <1>4. CASE ref \in Secrets \X Keys /\ ref[1] = s
    <2>1. secrets'[s].rv = v.rv /\ boot.rvs[s] \in 0..(changes + 1) /\ changes \in Nat
      BY ConstantsAssumption DEF IInv, Typed, SecretsOK
    <2>2. secrets'[s].rv = boot.rvs[s] => v.rv = 0 /\ boot.rvs[s] = 0
      BY <2>1
    <2>3. v.rv = 0 => Client(ref, secrets') = None
      BY <1>1, <1>4, <2>1, ClientFacts
    <2> QED BY <1>4, <2>2, <2>3 DEF Matches
  <1> QED BY <1>2, <1>3, <1>4

\* A Secret is written or deleted.
LEMMA WriteSecretIInv ==
    ASSUME IInv, NEW s \in Secrets, NEW usable \in SUBSET Keys,
           WriteSecret(s, usable) \/ DeleteSecret(s)
    PROVE  IInv'
  <1>1. PICK v \in [rv : {0, changes + 2}, usable : SUBSET Keys] :
            secrets' = [secrets EXCEPT ![s] = v] /\ (v.rv = 0 => v.usable = {})
    <2>1. changes + 2 # 0
      BY ConstantsAssumption DEF IInv, Typed
    <2>2. CASE WriteSecret(s, usable)
      <3> WITNESS [rv |-> changes + 2, usable |-> usable] \in [rv : {0, changes + 2}, usable : SUBSET Keys]
      <3> QED BY <2>1, <2>2 DEF WriteSecret
    <2>3. CASE DeleteSecret(s)
      <3> WITNESS [rv |-> 0, usable |-> {}] \in [rv : {0, changes + 2}, usable : SUBSET Keys]
      <3> QED BY <2>3 DEF DeleteSecret
    <2> QED BY <2>2, <2>3
  <1>2. Edit /\ UNCHANGED <<specs, crd, cache, pc, found, entries, registry, boot, todo, due>>
    BY DEF WriteSecret, DeleteSecret
  <1>3. SecretsOK(secrets', changes + 2) /\ changes' + 1 = changes + 2
    <2>1. changes \in Nat /\ changes' = changes + 1
      BY <1>2, ChangeTyped, ConstantsAssumption DEF IInv, Edit, Typed
    <2>2. SecretsOK(secrets, changes + 2)
      <3>1. changes + 1 \in Nat /\ changes + 2 \in Nat /\ changes + 1 <= changes + 2
        BY <2>1
      <3> QED BY <3>1, Later DEF IInv, Typed
    <2> QED BY <1>1, <2>1, <2>2 DEF SecretsOK
  <1>4. Typed'
    BY <1>2, <1>3, ChangeTyped DEF IInv, Typed, Edit, cache
  <1>5. Running'
    <2>1. \A c \in Clusters : Matches(c) => Matches(c)'
      BY <1>1, <1>2, <1>3, SecretMatches
    <2> QED BY <1>2, <2>1 DEF IInv, Running, Checked, Edit, cache
  <1> QED BY <1>2, <1>4, <1>5 DEF IInv, Blank, Building, Reading, Edit

\* What leaves the configuration and the process's knowledge of it alone keeps all
\* but the types.
LEMMA Untouched ==
    ASSUME IInv, Typed',
           UNCHANGED <<specs, secrets, seen, seenSecs, entries, registry, boot, todo, due, raced>>,
           \/ pc' = pc
           \/ pc \in {"get", "apply", "wait"} /\ pc' \in {"get", "apply", "wait", "list"}
    PROVE  IInv'
    BY DEF IInv, Blank, Building, Reading, Running, Matches, Checked

\* An applied CRD is one, with a later version.
LEMMA Applied ==
    ASSUME Typed, NEW b \in BOOLEAN
    PROVE  /\ [crd EXCEPT !.rv = @ + 1, !.ours = b] \in [rv : Nat, ours : BOOLEAN, established : BOOLEAN]
           /\ [crd EXCEPT !.rv = @ + 1, !.ours = b].rv = crd.rv + 1
           /\ found \in 0..(crd.rv + 1)
  <1> DEFINE T == [rv : Nat, ours : BOOLEAN, established : BOOLEAN]
  <1>1. crd \in T /\ crd.rv + 1 \in Nat /\ found \in 0..(crd.rv + 1)
    BY DEF Typed
  <1>2. [crd EXCEPT !.rv = @ + 1] \in T /\ [crd EXCEPT !.rv = @ + 1].rv = crd.rv + 1
    BY <1>1
  <1>3. \A d \in T : [d EXCEPT !.ours = b] \in T /\ [d EXCEPT !.ours = b].rv = d.rv
    OBVIOUS
  <1>4. [crd EXCEPT !.rv = @ + 1, !.ours = b] = [[crd EXCEPT !.rv = @ + 1] EXCEPT !.ours = b]
    OBVIOUS
  <1> QED BY <1>1, <1>2, <1>3, <1>4, Zenon

\* Somebody else applies the CRD.
LEMMA ApplyOtherIInv == IInv /\ ApplyOther => IInv'
  <1> SUFFICES ASSUME IInv, ApplyOther PROVE IInv'
    OBVIOUS
  <1>1. crd' \in [rv : Nat, ours : BOOLEAN, established : BOOLEAN] /\ found' \in 0..crd'.rv
    BY Applied DEF IInv, Typed, ApplyOther
  <1>2. Typed'
    BY <1>1, ChangeTyped DEF IInv, Typed, ApplyOther, cache
  <1> QED BY <1>2, Untouched DEF ApplyOther, cache

\* The CRD is established.
LEMMA EstablishIInv == IInv /\ Establish => IInv'
  <1> SUFFICES ASSUME IInv, Establish PROVE IInv'
    OBVIOUS
  <1>1. crd' \in [rv : Nat, ours : BOOLEAN, established : BOOLEAN] /\ found' \in 0..crd'.rv
    BY DEF IInv, Typed, Establish
  <1>2. Typed'
    BY <1>1 DEF IInv, Typed, Establish, cache
  <1> QED BY <1>2, Untouched DEF Establish, cache

\* The process dies.
LEMMA CrashIInv == IInv /\ Crash => IInv'
    BY ChangeTyped, RestartedIInv DEF IInv, Typed, Crash, api, cache

\* InstallOrUpdate reads the CRD.
LEMMA GetCRDIInv == IInv /\ GetCRD => IInv'
  <1> SUFFICES ASSUME IInv, GetCRD PROVE IInv'
    OBVIOUS
  <1>1. Typed'
    BY DEF IInv, Typed, GetCRD, api, cache
  <1> QED BY <1>1, Untouched DEF GetCRD, api, cache

\* InstallOrUpdate writes the CRD, or the process ends.
LEMMA ApplyCRDIInv == IInv /\ ApplyCRD => IInv'
  <1> SUFFICES ASSUME IInv, ApplyCRD PROVE IInv'
    OBVIOUS
  <1>1. CASE found # crd.rv
    BY <1>1, RestartedIInv DEF IInv, Typed, ApplyCRD, cache
  <1>2. CASE found = crd.rv
    <2>1. crd' \in [rv : Nat, ours : BOOLEAN, established : BOOLEAN] /\ found' \in 0..crd'.rv
      BY <1>2, Applied DEF IInv, Typed, ApplyCRD
    <2>2. Typed'
      BY <1>2, <2>1 DEF IInv, Typed, ApplyCRD, cache
    <2> QED BY <1>2, <2>2, Untouched DEF ApplyCRD, cache
  <1> QED BY <1>1, <1>2

\* waitForCRD returns, or the process ends.
LEMMA WaitForCRDIInv == IInv /\ WaitForCRD => IInv'
  <1> SUFFICES ASSUME IInv, WaitForCRD PROVE IInv'
    OBVIOUS
  <1>1. CASE ~crd.established
    BY <1>1, RestartedIInv DEF IInv, Typed, WaitForCRD, api, cache
  <1>2. CASE crd.established
    <2>1. Typed'
      BY <1>2 DEF IInv, Typed, WaitForCRD, api, cache
    <2> QED BY <1>2, <2>1, Untouched DEF WaitForCRD, api, cache
  <1> QED BY <1>1, <1>2

\* buildInitialRegistry: the clusters without an entry have no client, and need none.
LEMMA ListMeshesIInv == IInv /\ ListMeshes => IInv'
  <1> SUFFICES ASSUME IInv, ListMeshes PROVE IInv'
    OBVIOUS
  <1>1. entries' = Merge(specs) /\ entries' \in [Clusters -> Refs \cup {None}]
    <2>1. \A c \in Clusters : Merge(specs)[c] \in Refs \cup {None}
      BY MergeEntry DEF IInv, Typed
    <2>2. Merge(specs) = [c \in Clusters |-> Merge(specs)[c]]
      BY DEF Merge
    <2> QED BY <2>1, <2>2 DEF ListMeshes
  <1>2. Typed'
    BY <1>1 DEF IInv, Typed, ListMeshes, api, cache
  <1>3. Building'
    <2>1. \A c \in Clusters \ todo' : registry[c] = None /\ entries'[c] = None
      BY DEF IInv, Blank, ListMeshes
    <2>2. Client(None, secrets) = None
      BY ConstantsAssumption DEF Client, Refs
    <2> QED BY <1>1, <2>1, <2>2 DEF Building, ListMeshes, api
  <1> QED BY <1>2, <1>3 DEF IInv, Blank, Reading, Running, ListMeshes

\* Build makes one client, or fails to read its Secret.
LEMMA BuildEntryIInv ==
    ASSUME IInv, NEW c \in Clusters, BuildEntry(c)
    PROVE  IInv'
  <1>1. UNCHANGED <<specs, secrets, crd, seen, seenSecs, pc, found, entries, boot, due>> /\ pc = "build"
    BY DEF BuildEntry, api, cache
  <1>2. CASE registry' = [registry EXCEPT ![c] = Client(entries[c], secrets)] /\ UNCHANGED <<raced, changes>>
    <2>1. Client(entries[c], secrets) \in Clients(changes + 1)
      <3>1. changes + 1 \in Nat /\ entries[c] \in Refs \cup {None}
        BY ConstantsAssumption DEF IInv, Typed
      <3> QED BY <3>1, ClientFacts DEF IInv, Typed
    <2>2. Typed'
      BY <1>1, <1>2, <2>1 DEF IInv, Typed, BuildEntry
    <2>3. Building'
      BY <1>1, <1>2 DEF IInv, Typed, Building, BuildEntry
    <2> QED BY <1>1, <2>2, <2>3 DEF IInv, Blank, Reading, Running
  <1>3. CASE Change /\ raced' = TRUE /\ UNCHANGED registry
    <2>1. Typed'
      BY <1>1, <1>3, ChangeTyped DEF IInv, Typed, BuildEntry
    <2> QED BY <1>1, <1>3, <2>1 DEF IInv, Blank, Building, Reading, Running
  <1> QED BY <1>2, <1>3 DEF BuildEntry

\* ComputeFingerprint lists the meshes the registry was built from.
LEMMA ListAgainIInv == IInv /\ ListAgain => IInv'
  <1> SUFFICES ASSUME IInv, ListAgain PROVE IInv'
    OBVIOUS
  <1>1. boot' = [specs |-> specs, rvs |-> [s \in Secrets |-> 0]] /\ changes \in Nat
    BY ConstantsAssumption DEF IInv, Typed, ListAgain
  <1>2. Typed'
    <2>1. UNCHANGED <<specs, secrets, crd, seen, seenSecs, found, entries, registry, due, raced, changes>>
      BY DEF ListAgain, api, cache
    <2>2. pc' = "read" /\ todo' \subseteq Secrets
      BY DEF ListAgain, Used
    <2>3. boot'.specs = specs /\ boot'.rvs = [s \in Secrets |-> 0]
      BY <1>1
    <2> QED BY <1>1, <2>1, <2>2, <2>3 DEF IInv, Typed
  <1>3. Reading'
    BY <1>1 DEF IInv, Building, Reading, ListAgain, api
  <1> QED BY <1>2, <1>3 DEF IInv, Blank, Building, Running, ListAgain

\* ComputeFingerprint reads one version.
LEMMA ReadVersionIInv ==
    ASSUME IInv, NEW s \in Secrets, ReadVersion(s)
    PROVE  IInv'
  <1>1. UNCHANGED <<specs, secrets, crd, seen, seenSecs, pc, found, entries, registry, due>> /\ pc = "read"
    BY DEF ReadVersion, api, cache
  <1>2. CASE boot' = [boot EXCEPT !.rvs[s] = secrets[s].rv] /\ UNCHANGED <<raced, changes>>
    <2>1. /\ boot' = [specs |-> boot'.specs, rvs |-> boot'.rvs] /\ boot'.specs = boot.specs
          /\ boot'.rvs = [boot.rvs EXCEPT ![s] = secrets[s].rv]
      BY <1>2 DEF IInv, Typed
    <2>2. Typed'
      BY <1>1, <1>2, <2>1 DEF IInv, Typed, ReadVersion, SecretsOK
    <2>3. Reading'
      <3> SUFFICES ASSUME ~raced, NEW x \in Secrets
                   PROVE  boot'.rvs[x] = IF x \in Used(specs) \ todo' THEN secrets[x].rv ELSE 0
        BY <1>1, <1>2, <2>1 DEF IInv, Reading, ReadVersion
      <3>1. todo \subseteq Used(specs) /\ boot.rvs[x] = IF x \in Used(specs) \ todo THEN secrets[x].rv ELSE 0
        BY <1>1 DEF IInv, Reading
      <3>2. todo' = todo \ {s} /\ boot'.rvs[x] = IF x = s THEN secrets[s].rv ELSE boot.rvs[x]
        BY <2>1 DEF IInv, Typed, ReadVersion
      <3> QED BY <3>1, <3>2 DEF ReadVersion
    <2> QED BY <1>1, <2>2, <2>3 DEF IInv, Blank, Building, Running
  <1>3. CASE Change /\ raced' = TRUE /\ UNCHANGED boot
    <2>1. Typed'
      BY <1>1, <1>3, ChangeTyped DEF IInv, Typed, ReadVersion
    <2> QED BY <1>1, <1>3, <2>1 DEF IInv, Blank, Building, Reading, Running
  <1> QED BY <1>2, <1>3 DEF ReadVersion

\* The manager starts: boot is the configuration in the caches, and the one the registry
\* was built from.
LEMMA StartManagerIInv == IInv /\ StartManager => IInv'
  <1> SUFFICES ASSUME IInv, StartManager PROVE IInv'
    OBVIOUS
  <1>1. /\ UNCHANGED <<specs, secrets, crd, found, entries, registry, boot, todo, raced, changes>>
        /\ pc = "read" /\ pc' = "run" /\ todo = {} /\ seen' = specs /\ seenSecs' = secrets
    BY DEF StartManager, api
  <1>2. Typed'
    BY <1>1 DEF IInv, Typed, StartManager
  <1>3. ASSUME ~raced
        PROVE  entries' = Merge(boot'.specs) /\ Checked' /\ \A c \in Clusters : Matches(c)'
    <2>1. /\ entries = Merge(specs) /\ boot.specs = specs
          /\ \A c \in Clusters : registry[c] = Client(entries[c], secrets)
          /\ \A s \in Secrets : boot.rvs[s] = IF s \in Used(specs) THEN secrets[s].rv ELSE 0
      BY <1>1, <1>3 DEF IInv, Reading
    <2>2. Checked'
      <3>1. boot.rvs = [s \in Secrets |-> IF s \in Used(specs) THEN secrets[s].rv ELSE 0]
        BY <2>1 DEF IInv, Typed
      <3>2. boot = Config(specs, secrets)
        BY <2>1, <3>1 DEF Config, IInv, Typed
      <3>3. ByName \in Orders
        BY DEF ByName, Orders
      <3> QED BY <1>1, <3>2, <3>3 DEF Checked
    <2>3. ASSUME NEW c \in Clusters PROVE Matches(c)'
      <3>1. CASE Merge(specs)[c] \in Secrets \X Keys
        <4>1. boot.rvs[Merge(specs)[c][1]] = secrets[Merge(specs)[c][1]].rv
          BY <2>1, <3>1, MergeUsed DEF IInv, Typed, Used
        <4>2. secrets[Merge(specs)[c][1]].rv = 0 => Client(Merge(specs)[c], secrets) = None
          BY <3>1, ClientFacts, ConstantsAssumption DEF IInv, Typed, Refs
        <4> QED BY <1>1, <2>1, <3>1, <4>1, <4>2 DEF Matches
      <3>2. CASE Merge(specs)[c] \notin Secrets \X Keys
        BY <1>1, <2>1, <3>2 DEF Matches
      <3> QED BY <3>1, <3>2
    <2> QED BY <1>1, <2>1, <2>2, <2>3
  <1>4. Running'
    BY <1>1, <1>3 DEF Running
  <1> QED BY <1>1, <1>2, <1>4 DEF IInv, Blank, Building, Reading

\* A mesh event leaves the watcher with something to do.
LEMMA DeliverMeshIInv ==
    ASSUME IInv, NEW m \in Meshes, DeliverMesh(m)
    PROVE  IInv'
  <1>1. SpecsOK(seen')
    BY DEF IInv, Typed, SpecsOK, DeliverMesh
  <1>2. Typed'
    BY <1>1 DEF IInv, Typed, DeliverMesh, api
  <1> QED BY <1>2 DEF IInv, Blank, Building, Reading, Running, Matches, DeliverMesh, api

\* An event about a Secret that no cached mesh uses does not change the fingerprint.
LEMMA DeliverSecretIInv ==
    ASSUME IInv, NEW s \in Secrets, DeliverSecret(s)
    PROVE  IInv'
  <1>1. SecretsOK(seenSecs', changes + 1)
    BY DEF IInv, Typed, SecretsOK, DeliverSecret
  <1>2. Typed'
    BY <1>1 DEF IInv, Typed, DeliverSecret, api
  <1>3. ~due' => Config(seen', seenSecs') = Config(seen, seenSecs)
    <2> SUFFICES ASSUME s \notin Used(seen) PROVE Config(seen', seenSecs') = Config(seen, seenSecs)
      BY DEF DeliverSecret, Requests
    <2>1. \A x \in Used(seen) : seenSecs'[x] = seenSecs[x]
      BY DEF IInv, Typed, SecretsOK, DeliverSecret, Used
    <2> QED BY <2>1 DEF Config, DeliverSecret
  <1>4. ~due' => ~due
    BY DEF DeliverSecret
  <1> QED BY <1>2, <1>3, <1>4 DEF IInv, Blank, Building, Reading, Running, Matches, Checked, DeliverSecret, api

\* The watcher compares the fingerprints.
LEMMA WatchIInv == IInv /\ Watch => IInv'
  <1> SUFFICES ASSUME IInv, Watch PROVE IInv'
    OBVIOUS
  <1>1. UNCHANGED <<specs, secrets, crd, seen, seenSecs, boot, changes>> /\ pc = "run"
    BY DEF Watch, api, cache
  <1>2. CASE Restarted
    BY <1>1, <1>2, RestartedIInv DEF IInv, Typed
  <1>3. CASE Checked /\ due' = FALSE /\ UNCHANGED <<pc, found, entries, registry, todo, raced>>
    <2>1. Typed'
      BY <1>1, <1>3 DEF IInv, Typed
    <2>2. Running'
      BY <1>1, <1>3 DEF IInv, Running, Matches, Checked
    <2> QED BY <1>1, <1>3, <2>1, <2>2 DEF IInv, Blank, Building, Reading
  <1> QED BY <1>2, <1>3 DEF Watch, Checked

\* Every step keeps the invariant.
LEMMA NextIInv == IInv /\ [Next]_vars => IInv'
  <1> SUFFICES ASSUME IInv, [Next]_vars PROVE IInv'
    OBVIOUS
  <1>1. CASE Environment
    BY <1>1, WriteMeshIInv, WriteSecretIInv, ApplyOtherIInv, CrashIInv DEF Environment
  <1>2. CASE Operator
    BY <1>2, GetCRDIInv, ApplyCRDIInv, WaitForCRDIInv, ListMeshesIInv, BuildEntryIInv, ListAgainIInv,
       ReadVersionIInv, StartManagerIInv, WatchIInv DEF Operator
  <1>3. CASE UNCHANGED vars
    <2>1. Typed'
      BY <1>3 DEF IInv, Typed, vars, api, cache
    <2> QED BY <1>3, <2>1, Untouched DEF vars, api, cache
  <1> QED BY <1>1, <1>2, <1>3, EstablishIInv, DeliverMeshIInv, DeliverSecretIInv DEF Next

-----------------------------------------------------------------------------
(* The theorems.                                                           *)

\* The invariant has the types.
LEMMA IInvTypes == IInv => TypeOK
  <1> SUFFICES ASSUME IInv PROVE TypeOK
    OBVIOUS
  <1>1. changes \in Nat /\ MaxChanges \in Nat /\ changes + 1 \in Nat /\ changes + 1 <= MaxChanges + 1
    BY ConstantsAssumption DEF IInv, Typed
  <1>2. Clients(changes + 1) \subseteq Clients(MaxChanges + 1)
    BY <1>1, Later
  <1>3. registry \in [Clusters -> Clients(MaxChanges + 1)]
    BY <1>2 DEF IInv, Typed
  <1>4. SecretsOK(secrets, MaxChanges + 1) /\ SecretsOK(seenSecs, MaxChanges + 1)
    BY <1>1, Later DEF IInv, Typed
  <1>5. boot.rvs \in [Secrets -> 0..(MaxChanges + 1)]
    BY <1>1, Later DEF IInv, Typed
  <1>6. \A C \in {specs, seen, boot.specs} : \A m \in Meshes : C[m] \in Options[m] \cup {Gone}
    BY DEF IInv, Typed, SpecsOK
  <1>7. \A S \in {secrets, seenSecs} : S \in [Secrets -> [rv : 0..(MaxChanges + 1), usable : SUBSET Keys]]
    BY <1>4 DEF SecretsOK
  <1> QED BY <1>3, <1>5, <1>6, <1>7 DEF IInv, Typed, TypeOK, Clients

\* At rest, the fingerprint the watcher saw vouches for every client.
LEMMA IInvFresh == IInv => SettledFresh
  <1> SUFFICES ASSUME IInv, Settled, ~raced, Agreed(specs), NEW c \in Clusters PROVE Fresh(c)
    BY DEF SettledFresh
  <1> DEFINE now == Config(specs, secrets)
             ref == Merge(specs)[c]
             old == Merge(boot.specs)[c]
  <1>1. entries[c] = old /\ Matches(c) /\ SpecsOK(specs) /\ SpecsOK(boot.specs)
    BY DEF IInv, Running, Settled, Typed
  <1>2. PICK order \in Orders : Fingerprint(now, order) = Fingerprint(boot, ByName)
    BY DEF IInv, Running, Settled, Checked
  <1>3. now.specs = specs /\ \A s \in Used(specs) : now.rvs[s] = secrets[s].rv
    BY DEF Config, Used
  <1>4. Rebuilt[c] = Client(ref, secrets)
    BY DEF Rebuilt
  <1> HIDE DEF now
  <1>5. \A m \in Lists(specs, c) : \E z \in Lists(boot.specs, c) :
              ClusterRef(now, specs[m][c]) = ClusterRef(boot, boot.specs[z][c])
    <2> TAKE m \in Lists(specs, c)
    <2>1. m \in Lists(now.specs, c)
      BY <1>3
    <2>2. \E z \in Lists(boot.specs, c) :
              ClusterRef(now, now.specs[m][c]) = ClusterRef(boot, boot.specs[z][c])
      BY <1>2, <2>1, SameRefs
    <2> QED BY <1>3, <2>2
  <1>6. \A z \in Lists(boot.specs, c) : \E x \in Lists(specs, c) :
              ClusterRef(boot, boot.specs[z][c]) = ClusterRef(now, specs[x][c])
    <2> TAKE z \in Lists(boot.specs, c)
    <2>1. Fingerprint(boot, ByName) = Fingerprint(now, order)
      BY <1>2
    <2>2. \E x \in Lists(now.specs, c) :
              ClusterRef(boot, boot.specs[z][c]) = ClusterRef(now, now.specs[x][c])
      BY <2>1, SameRefs
    <2> QED BY <1>3, <2>2
  <1>7. CASE Lists(specs, c) = {}
    <2>1. Lists(boot.specs, c) = {}
      BY <1>6, <1>7
    <2>2. ref = None /\ old = None /\ None \notin Secrets \X Keys
      BY <1>1, <1>7, <2>1, MergeEntry, ConstantsAssumption DEF Refs
    <2> QED BY <1>1, <1>4, <2>2 DEF Matches, Fresh
  <1>8. CASE Lists(specs, c) # {}
    <2>1. PICK m \in Lists(specs, c) : ref = specs[m][c]
      BY <1>1, <1>8, MergeEntry
    <2>2. PICK z \in Lists(boot.specs, c) : ClusterRef(now, specs[m][c]) = ClusterRef(boot, boot.specs[z][c])
      BY <1>5
    <2>3. PICK y \in Lists(boot.specs, c) : old = boot.specs[y][c]
      BY <1>1, <2>2, MergeEntry
    <2>4. PICK x \in Lists(specs, c) : ClusterRef(boot, old) = ClusterRef(now, specs[x][c])
      BY <1>6, <2>3
    <2>5. ClusterRef(now, specs[x][c]) = ClusterRef(now, ref)
      <3>1. specs[x][c] = ref \/ (Local \notin {specs[x][c], ref} /\ specs[x][c][1] = ref[1])
        BY <2>1 DEF Agreed
      <3> HIDE DEF ref
      <3> QED BY <3>1 DEF ClusterRef
    <2>6. ref \in Refs /\ old \in Refs
      BY <1>1, <2>1, <2>3, EntryType
    <2>7. CASE ref = Local
      <3>1. old = Local
        BY <2>4, <2>5, <2>6, <2>7, ConstantsAssumption DEF ClusterRef, Refs
      <3>2. Local \notin Secrets \X Keys
        BY ConstantsAssumption
      <3> QED BY <1>1, <1>4, <2>7, <3>1, <3>2 DEF Matches, Fresh
    <2>8. CASE ref \in Secrets \X Keys
      <3>1. ref # Local /\ old \in Secrets \X Keys /\ old # Local
        BY <2>4, <2>5, <2>6, <2>8, ConstantsAssumption DEF ClusterRef, Refs
      <3>2. old[1] = ref[1] /\ boot.rvs[old[1]] = now.rvs[ref[1]]
        BY <2>4, <2>5, <3>1 DEF ClusterRef
      <3>3. registry[c] = Client(old, secrets)
        BY <1>1, <1>3, <2>8, <3>1, <3>2, MergeUsed DEF Matches
      <3>4. CASE old[2] = ref[2]
        <4>1. old = ref
          <5> HIDE DEF old, ref
          <5> QED BY <2>8, <3>1, <3>2, <3>4
        <4> QED BY <1>4, <3>3, <4>1 DEF Fresh
      <3>5. CASE old[2] # ref[2]
        BY <1>1, <2>8, <3>1, <3>2, <3>5 DEF Fresh
      <3> QED BY <3>4, <3>5
    <2> QED BY <2>6, <2>7, <2>8 DEF Refs
  <1> QED BY <1>7, <1>8

\* The process and the API server stay in their types, and a client was made from a
\* Secret that was there.
THEOREM TypeCorrect == Spec => []TypeOK
  <1>1. Spec => []IInv
    BY InitIInv, NextIInv, PTL DEF Spec
  <1> QED BY <1>1, IInvTypes, PTL

\* However many meshes, clusters, Secrets, edits, rotations, late events and restarts:
\* a process that started undisturbed, whose watcher is at rest and whose meshes agree on
\* the Secret behind each cluster, has the clients it would build now, up to the keys.
THEOREM ClientsFresh == Spec => []SettledFresh
  <1>1. Spec => []IInv
    BY InitIInv, NextIInv, PTL DEF Spec
  <1> QED BY <1>1, IInvFresh, PTL
\* A restart by the watcher is a step of Watch that saw another fingerprint.
LEMMA WatcherStep ==
    ASSUME Typed, [Next]_vars, pc = "run", pc' = "get", changes' = changes
    PROVE  \E order \in Orders :
                Fingerprint(Config(seen, seenSecs), order) # Fingerprint(boot, ByName)
  <1>1. pc' # pc /\ changes' # changes + 1
    BY DEF Typed
  <1>2. Watch
    BY <1>1 DEF Next, vars, api, cache, Environment, Operator, Change, Edit, WriteMesh, WriteSecret,
        DeleteSecret, ApplyOther, Crash, Establish, DeliverMesh, DeliverSecret, GetCRD, ApplyCRD,
        WaitForCRD, ListMeshes, BuildEntry, ListAgain, ReadVersion, StartManager
  <1> QED BY <1>1, <1>2 DEF Watch

\* However the informer caches order the meshes they list, the watcher restarts the
\* process only if a mesh or a Secret is not what it was when the fingerprint was taken,
\* as long as the meshes agree on the Secret behind each cluster.
THEOREM RestartsJustified == Spec => RestartJustified
<1>1. IInv /\ [Next]_vars => [IdleRestart => ~Agreed(seen)]_vars
  <2> SUFFICES ASSUME IInv, [Next]_vars, IdleRestart, Agreed(seen)
               PROVE  FALSE
    OBVIOUS
  <2>1. PICK order \in Orders : Fingerprint(boot, order) # Fingerprint(boot, ByName)
    BY WatcherStep DEF IInv, IdleRestart
  <2>2. boot.specs = seen
    BY DEF IdleRestart, Config
  <2>3. ByName \in Orders
    BY DEF ByName, Orders
  <2> QED BY <2>1, <2>2, <2>3, OrderIrrelevant
<1>2. IInv /\ [Next]_vars => IInv'
  BY NextIInv
<1> QED
  BY <1>1, <1>2, InitIInv, PTL DEF Spec, RestartJustified

=============================================================================
