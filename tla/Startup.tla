------------------------------ MODULE Startup ------------------------------
(***************************************************************************)
(* How the operator process gets its clients and when it throws them away: *)
(* run and buildInitialRegistry in cmd/main.go, Build in                   *)
(* internal/multicluster/registry.go, InstallOrUpdate in                   *)
(* internal/crd/install.go and ChangeWatcher in                            *)
(* internal/restart/watcher.go.                                            *)
(*                                                                         *)
(* A process installs the CRD of the meshes, waits for it, lists the       *)
(* meshes, reads one kubeconfig Secret per cluster, and only then, with    *)
(* calls of their own, takes the fingerprint by which the watcher will     *)
(* tell that the configuration has changed.  From then on the watcher sees *)
(* meshes and Secrets through two informer caches.                         *)
(*                                                                         *)
(* A mesh is what it says about clusters: a function from the clusters it  *)
(* lists to the Secret (namespace and name) behind each and the key in it, *)
(* or to Local.  Nobody removes the CRD.                                   *)
(***************************************************************************)
EXTENDS Naturals, FiniteSets

CONSTANTS
    Meshes,       \* ClusterMesh resources, numbered in the order of a List call
    Clusters,     \* cluster names
    Secrets,      \* kubeconfig Secrets
    Keys,         \* keys in them
    Local,        \* the reference of an entry with local: true
    Options,      \* the specs users may write for each mesh
    Gone,         \* "no such mesh"
    None,         \* "no client", "no entry"
    MaxChanges    \* bound: user and fault events of a behaviour

Refs == (Secrets \X Keys) \cup {Local}

ASSUME ConstantsAssumption ==
    /\ Meshes \subseteq Nat /\ IsFiniteSet(Meshes)
    /\ \A m \in Meshes : \A x \in Options[m] : \E S \in SUBSET Clusters : x \in [S -> Refs]
    /\ Local \notin Secrets \cup (Secrets \X Keys) /\ None \notin Refs
    /\ \A m \in Meshes : Gone \notin Options[m]
    /\ MaxChanges \in Nat

VARIABLES
    specs,     \* the API server's ClusterMesh objects
    secrets,   \* its Secrets: resource version (0: absent), and the keys that parse
    crd,       \* its CRD: resource version (0: absent), whether it is the operator's
               \* own and whether it is established
    seen,      \* the manager's cache of the meshes
    seenSecs,  \* and of the Secrets
    pc,        \* where the process is: "get", "apply", "wait" (for the CRD), "list",
               \* "build", "read" or "run"
    found,     \* the version of the CRD it read
    entries,   \* the merged cluster entries it is building clients for
    registry,  \* its clients: <<reference, resource version>> or None
    boot,      \* what the start fingerprint was computed from
    todo,      \* entries or Secrets still to read
    due,       \* whether the watcher has a request queued
    raced,     \* history: the configuration changed, or a Secret could not be read,
               \* after this process listed the meshes and before it was running
    changes    \* user and fault events so far

api   == <<specs, secrets, crd>>
cache == <<seen, seenSecs>>
vars  == <<api, cache, pc, found, entries, registry, boot, todo, due, raced, changes>>

Exists(C) == {m \in Meshes : C[m] # Gone}
Lists(C, c) == {m \in Exists(C) : c \in DOMAIN C[m]}
Used(C) == {s \in Secrets : \E c \in Clusters : \E m \in Lists(C, c) : C[m][c] \in {s} \X Keys}

\* mergeClusterEntries: the first mesh to list a cluster decides.
Merge(C) ==
    [c \in Clusters |->
        IF Lists(C, c) = {} THEN None
        ELSE C[CHOOSE m \in Lists(C, c) : \A x \in Lists(C, c) : m <= x][c]]

\* Mutant of Client: an entry whose Secret is missing is not skipped.
ClientUnchecked(ref, S) == IF ref \in {Local, None} THEN <<Local, 0>> ELSE <<ref, S[ref[1]].rv>>

\* The client made from a key of a Secret, None if there is no such Secret or key or
\* if it does not parse.
RestConfigFromSecret(ref, S) == IF ref[2] \in S[ref[1]].usable THEN <<ref, S[ref[1]].rv>> ELSE None

\* configForEntry: the local configuration, or one from the Secret; an entry for which
\* that fails is skipped.
Client(ref, S) ==
    IF ref = Local THEN <<Local, 0>>
    ELSE IF ref = None THEN None
    ELSE RestConfigFromSecret(ref, S)

\* What the fingerprint is computed from: the meshes, and the version of every
\* Secret they use.
Config(C, S) == [specs |-> C, rvs |-> [s \in Secrets |-> IF s \in Used(C) THEN S[s].rv ELSE 0]]

\* clusterRef, for one cluster: the Secret, without the key, and its version.
ClusterRef(config, ref) == IF ref = Local THEN <<Local, 0>> ELSE <<ref[1], config.rvs[ref[1]]>>

\* The meshes come in the order of a list: m is the order[m]-th of them.  The API server
\* lists by name; a cache lists in no particular order.
Orders == {f \in [Meshes -> Meshes] : \A m, x \in Meshes : f[m] = f[x] => m = x}
ByName == [m \in Meshes |-> m]

\* Mutant of Fingerprint: the versions of the Secrets are left out.
FingerprintNames(config, order) ==
    [c \in Clusters |->
        LET listing == Lists(config.specs, c)
        IN {<<Cardinality({x \in listing : order[x] <= order[m]}),
              ClusterRef(config, config.specs[m][c])[1]>> : m \in listing}]

\* Mutant of Fingerprint: the references are hashed as listed.
FingerprintListed(config, order) ==
    {<<order[m], config.specs[m], config.rvs>> : m \in Meshes}

\* computeFingerprint (the hash is injective): the references in the order of the listing,
\* then sorted by cluster name alone; those of one cluster keep it.  The sequence of them
\* is written as the set of its pairs <<index, element>>.
Fingerprint(config, order) ==
    [c \in Clusters |->
        LET listing == Lists(config.specs, c)
        IN {<<Cardinality({x \in listing : order[x] <= order[m]}),
              ClusterRef(config, config.specs[m][c])>> : m \in listing}]

Init ==
    /\ \E f \in [Meshes -> {Gone} \cup UNION {Options[m] : m \in Meshes}] :
        (\A m \in Meshes : f[m] \in Options[m] \cup {Gone}) /\ specs = f
    /\ secrets \in [Secrets -> [rv : {0}, usable : {{}}] \cup [rv : {1}, usable : {{}, Keys}]]
    /\ crd \in [rv : {0}, ours : {FALSE}, established : {FALSE}]
                \cup [rv : {1}, ours : {FALSE}, established : {TRUE}]
    /\ Exists(specs) # {} => crd.established
    /\ seen = specs /\ seenSecs = secrets
    /\ pc = "get" /\ found = 0
    /\ entries = [c \in Clusters |-> None] /\ registry = entries
    /\ boot = Config(specs, secrets)
    /\ todo = {} /\ due = FALSE /\ raced = FALSE /\ changes = 0

-----------------------------------------------------------------------------
(* Users and faults.                                                       *)

Change == changes < MaxChanges /\ changes' = changes + 1

\* A change of the configuration.
Edit == Change /\ raced' = (raced \/ pc \in {"build", "read"})

\* A mesh is created, edited or deleted.
WriteMesh(m, x) ==
    /\ Edit
    /\ crd.established
    /\ specs[m] # x /\ specs' = [specs EXCEPT ![m] = x]
    /\ UNCHANGED <<secrets, crd, cache, pc, found, entries, registry, boot, todo, due>>

\* A Secret is created or updated under a new resource version, or deleted.
WriteSecret(s, usable) ==
    /\ Edit
    /\ secrets' = [secrets EXCEPT ![s] = [rv |-> changes + 2, usable |-> usable]]
    /\ UNCHANGED <<specs, crd, cache, pc, found, entries, registry, boot, todo, due>>

DeleteSecret(s) ==
    /\ Edit
    /\ secrets[s].rv # 0 /\ secrets' = [secrets EXCEPT ![s] = [rv |-> 0, usable |-> {}]]
    /\ UNCHANGED <<specs, crd, cache, pc, found, entries, registry, boot, todo, due>>

\* Somebody else applies the CRD: a user, or another version of the operator.
ApplyOther ==
    /\ Change
    /\ crd' = [crd EXCEPT !.rv = @ + 1, !.ours = FALSE]
    /\ UNCHANGED <<specs, secrets, cache, pc, found, entries, registry, boot, todo, due, raced>>

\* The API server serves the kind.
Establish ==
    /\ crd.rv # 0 /\ ~crd.established /\ crd' = [crd EXCEPT !.established = TRUE]
    /\ UNCHANGED <<specs, secrets, cache, pc, found, entries, registry, boot, todo, due, raced, changes>>

\* A new process begins; what the old one knew is lost.
Restarted ==
    /\ pc' = "get" /\ found' = 0
    /\ entries' = [c \in Clusters |-> None] /\ registry' = entries'
    /\ todo' = {} /\ due' = FALSE /\ raced' = FALSE

\* The process dies, or a call it cannot do without fails.
Crash ==
    /\ Change
    /\ Restarted
    /\ UNCHANGED <<api, cache, boot>>

-----------------------------------------------------------------------------
(* InstallOrUpdate.                                                        *)

GetCRD ==
    /\ pc = "get" /\ pc' = "apply" /\ found' = crd.rv
    /\ UNCHANGED <<api, cache, entries, registry, boot, todo, due, raced, changes>>

\* Create if there was none, Update the version that was read otherwise.  If it is
\* another one by now the call fails, and with it the process; if there is nothing to
\* change the version stays.
ApplyCRD ==
    /\ pc = "apply"
    /\ IF found # crd.rv THEN Restarted /\ UNCHANGED crd
       ELSE /\ crd' = IF crd.ours THEN crd ELSE [crd EXCEPT !.rv = @ + 1, !.ours = TRUE]
            /\ pc' = "wait"
            /\ UNCHANGED <<found, entries, registry, todo, due, raced>>
    /\ UNCHANGED <<specs, secrets, cache, boot, changes>>

\* waitForCRD: until it is established, or until the time is up.
WaitForCRD ==
    /\ pc = "wait"
    /\ IF crd.established
       THEN pc' = "list" /\ UNCHANGED <<found, entries, registry, todo, due, raced>>
       ELSE Restarted
    /\ UNCHANGED <<api, cache, boot, changes>>

-----------------------------------------------------------------------------
(* run: the rest of the start of a process.                                *)

\* buildInitialRegistry lists the meshes.
ListMeshes ==
    /\ pc = "list" /\ pc' = "build"
    /\ entries' = Merge(specs)
    /\ todo' = {c \in Clusters : entries'[c] # None}
    /\ UNCHANGED <<api, cache, found, registry, boot, due, raced, changes>>

\* Build, one entry; a Secret that cannot be read is as good as none.
BuildEntry(c) ==
    /\ pc = "build" /\ c \in todo
    /\ todo' = todo \ {c}
    /\ \/ registry' = [registry EXCEPT ![c] = Client(entries[c], secrets)]
          /\ UNCHANGED <<raced, changes>>
       \/ entries[c] # Local /\ Change /\ raced' = TRUE /\ UNCHANGED registry
    /\ UNCHANGED <<api, cache, pc, found, entries, boot, due>>

\* wireChangeWatcher: ComputeFingerprint lists the meshes again ...
ListAgain ==
    /\ pc = "build" /\ todo = {} /\ pc' = "read"
    /\ boot' = [specs |-> specs, rvs |-> [s \in Secrets |-> 0]]
    /\ todo' = Used(specs)
    /\ UNCHANGED <<api, cache, found, entries, registry, due, raced, changes>>

\* ... and reads the version of every Secret, "" if that fails.  (Once per reference in
\* the code; a change in between is `raced' in any case.)
ReadVersion(s) ==
    /\ pc = "read" /\ s \in todo
    /\ todo' = todo \ {s}
    /\ \/ boot' = [boot EXCEPT !.rvs[s] = secrets[s].rv] /\ UNCHANGED <<raced, changes>>
       \/ Change /\ raced' = TRUE /\ UNCHANGED boot
    /\ UNCHANGED <<api, cache, pc, found, entries, registry, due>>

\* mgr.Start: the caches are filled, and every mesh in them is an event.
StartManager ==
    /\ pc = "read" /\ todo = {} /\ pc' = "run"
    /\ seen' = specs /\ seenSecs' = secrets
    /\ due' = (Exists(specs) # {})
    /\ UNCHANGED <<api, found, entries, registry, boot, todo, raced, changes>>

-----------------------------------------------------------------------------
(* ChangeWatcher.                                                          *)

\* Mutant of DeliverMesh: deletions are filtered out, as in the other controller.
DeliverMeshFiltered(m) ==
    /\ pc = "run" /\ seen[m] # specs[m]
    /\ seen' = [seen EXCEPT ![m] = specs[m]]
    /\ due' = (due \/ specs[m] # Gone)
    /\ UNCHANGED <<api, seenSecs, pc, found, entries, registry, boot, todo, raced, changes>>

\* A mesh event, deletions included.
DeliverMesh(m) ==
    /\ pc = "run" /\ seen[m] # specs[m]
    /\ seen' = [seen EXCEPT ![m] = specs[m]]
    /\ due' = TRUE
    /\ UNCHANGED <<api, seenSecs, pc, found, entries, registry, boot, todo, raced, changes>>

\* secretToClusterMesh: the cached meshes that reference the Secret, if any.
Requests(s) == s \in Used(seen)

DeliverSecret(s) ==
    /\ pc = "run" /\ seenSecs[s] # secrets[s]
    /\ seenSecs' = [seenSecs EXCEPT ![s] = secrets[s]]
    /\ due' = (due \/ Requests(s))
    /\ UNCHANGED <<api, seen, pc, found, entries, registry, boot, todo, raced, changes>>

\* Reconcile: another fingerprint than at the start cancels the manager.
Watch ==
    /\ pc = "run" /\ due
    /\ \E order \in Orders :
        IF Fingerprint(Config(seen, seenSecs), order) # Fingerprint(boot, ByName)
        THEN Restarted
        ELSE due' = FALSE /\ UNCHANGED <<pc, found, entries, registry, todo, raced>>
    /\ UNCHANGED <<api, cache, boot, changes>>

-----------------------------------------------------------------------------
Environment ==
    \/ \E m \in Meshes : \E x \in Options[m] \cup {Gone} : WriteMesh(m, x)
    \/ \E s \in Secrets, usable \in SUBSET Keys : WriteSecret(s, usable)
    \/ \E s \in Secrets : DeleteSecret(s)
    \/ ApplyOther
    \/ Crash

Operator ==
    \/ GetCRD
    \/ ApplyCRD
    \/ WaitForCRD
    \/ ListMeshes
    \/ \E c \in Clusters : BuildEntry(c)
    \/ ListAgain
    \/ \E s \in Secrets : ReadVersion(s)
    \/ StartManager
    \/ Watch

Next ==
    \/ Environment
    \/ Establish
    \/ \E m \in Meshes : DeliverMesh(m)
    \/ \E s \in Secrets : DeliverSecret(s)
    \/ Operator

Spec == Init /\ [][Next]_vars

\* Processes start and restart, the API server does its part, watches deliver, and the
\* watcher's queue is served.
FairSpec ==
    /\ Spec
    /\ WF_vars(Operator)
    /\ WF_vars(Establish)
    /\ \A m \in Meshes : WF_vars(DeliverMesh(m))
    /\ \A s \in Secrets : WF_vars(DeliverSecret(s))

-----------------------------------------------------------------------------
(* Properties.                                                             *)

\* The types of the variables; a client was made from a Secret that was there.
TypeOK ==
    /\ \A C \in {specs, seen, boot.specs} : \A m \in Meshes : C[m] \in Options[m] \cup {Gone}
    /\ \A S \in {secrets, seenSecs} : S \in [Secrets -> [rv : 0..(MaxChanges + 1), usable : SUBSET Keys]]
    /\ boot.rvs \in [Secrets -> 0..(MaxChanges + 1)]
    /\ crd \in [rv : Nat, ours : BOOLEAN, established : BOOLEAN] /\ found \in 0..crd.rv
    /\ pc \in {"get", "apply", "wait", "list", "build", "read", "run"}
    /\ entries \in [Clusters -> Refs \cup {None}]
    /\ registry \in [Clusters -> {None, <<Local, 0>>} \cup ((Secrets \X Keys) \X (1..(MaxChanges + 1)))]
    /\ todo \subseteq Clusters \cup Secrets
    /\ due \in BOOLEAN /\ raced \in BOOLEAN /\ changes \in 0..MaxChanges

\* The registry a process started now would build.
Rebuilt == [c \in Clusters |-> Client(Merge(specs)[c], secrets)]

\* The client is the one a process started now would build, or the mesh now asks for
\* another key of the same Secret, which no fingerprint tells.
Fresh(c) ==
    \/ registry[c] = Rebuilt[c]
    \/ /\ {entries[c], Merge(specs)[c]} \subseteq Secrets \X Keys
       /\ entries[c][1] = Merge(specs)[c][1] /\ entries[c][2] # Merge(specs)[c][2]

\* The watcher has heard of everything and has nothing left to do.
Settled == pc = "run" /\ ~due /\ seen = specs /\ seenSecs = secrets

\* The meshes reach each cluster through one Secret.
Agreed(C) ==
    \A c \in Clusters : \A m, x \in Lists(C, c) :
        C[m][c] = C[x][c] \/ (Local \notin {C[m][c], C[x][c]} /\ C[m][c][1] = C[x][c][1])

\* A process that started undisturbed has, whenever its watcher is at rest and the
\* meshes agree on the Secret behind each cluster, the very clients it would build if it
\* were started now, up to the keys: no sequence of edits, rotations and late events
\* gets past the fingerprint.
SettledFresh == Settled /\ ~raced /\ Agreed(specs) => \A c \in Clusters : Fresh(c)

\* Once changes are over, and if they leave meshes that agree on the Secret behind each
\* cluster, restarts end, and the operator works with clients for the configuration as
\* it is (if nothing changed while its last process was starting): meshes created or
\* edited, Secrets that came late, were rotated or repaired, all reach it by a restart,
\* whatever becomes of the CRD meanwhile.
EventuallyFresh ==
    <>[](Agreed(specs) => pc = "run" /\ (~raced => \A c \in Clusters : Fresh(c)))

\* "the change-watcher will trigger a restart once one is created": when the watcher of a
\* process that found no mesh is at rest, either there is still none or the process has
\* the clients for it.
CreationRestarts ==
    Settled /\ entries = [c \in Clusters |-> None] =>
        \A c \in Clusters : Lists(specs, c) # {} => Fresh(c)

\* The watcher restarts the process, with the same meshes and Secrets in its caches as
\* when the fingerprint was taken.
IdleRestart == pc = "run" /\ pc' = "get" /\ changes' = changes /\ Config(seen, seenSecs) = boot

\* However the caches order what they list, the watcher restarts the process only if a
\* mesh or a Secret is not what it was when the fingerprint was taken, as long as the
\* meshes agree on the Secret behind each cluster.
RestartJustified == [][IdleRestart => ~Agreed(seen)]_vars

\* "TestFingerprint_StableUnderReordering": the same without the condition.  The
\* references of one cluster are not sorted, so meshes that disagree refute it.
RestartStable == [][~IdleRestart]_vars

=============================================================================
