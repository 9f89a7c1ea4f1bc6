------------------------- MODULE ClusterMesh_proofs -------------------------
(***************************************************************************)
(* Proofs about ClusterMesh for any number of meshes, clusters and events. *)
(*                                                                         *)
(* TypeOK and CopiesSound are inductive together: CopiesSound tells that   *)
(* the object behind an accepted update exists, TypeOK that a reconcile in *)
(* progress holds a mesh with the finalizer.  The other results are one    *)
(* step away from the two.                                                 *)
(***************************************************************************)
EXTENDS ClusterMesh, TLAPS

IInv == TypeOK /\ CopiesSound

\* A write to mesh m leaves a reconcile in progress where it is.
LEMMA WriteCRTyped ==
    ASSUME TypeOK, NEW m \in Meshes, NEW v \in CR \cup {Gone}, WriteCR(m, v, op)
    PROVE  /\ cr' \in [Meshes -> CR \cup {Gone}] /\ behind' \subseteq Meshes
           /\ op' \in OpType
           /\ op'.pc = op.pc /\ op'.mesh = op.mesh /\ op'.copy = op.copy /\ op'.src = op.src
           /\ op'.left = op.left /\ op'.todo = op.todo /\ op'.want = op.want
           /\ op'.missed = op.missed
           /\ op'.old = (op.old \/ (op.pc # "idle" /\ op.mesh = m))
           /\ \A x \in Meshes : cr'[x] = IF x = m THEN v ELSE cr[x]
    BY DEF WriteCR, TypeOK, OpType

\* A new process: nothing is in progress, the cache is the API server's state.
LEMMA StartTyped ==
    ASSUME TypeOK, Start
    PROVE  /\ registry' \subseteq Clusters /\ negative' = {} /\ queue' \subseteq Meshes
           /\ seen' = cr /\ behind' = {} /\ op' = Idle /\ op' \in OpType
           /\ queue' = {m \in Meshes : cr[m] # Gone}
    BY DEF Start, TypeOK, BuildRegistry, Exists, Idle, OpType

\* The first state has its types and the cache is right.
LEMMA InitIInv == Init => IInv
  <1> SUFFICES ASSUME Init PROVE IInv
    OBVIOUS
  <1>1. TypeOK
    BY ConstantsAssumption DEF Init, TypeOK, BuildRegistry, Exists, Idle, OpType
  <1>2. CopiesSound
    <2>1. \A m \in Meshes : cr[m] # Gone => ~cr[m].deleting /\ ~cr[m].fin
      BY DEF Init, Exists, Fresh
    <2> QED
      BY <2>1 DEF Init, CopiesSound, StillHeld, Idle
  <1> QED
    BY <1>1, <1>2 DEF IInv

\* A write that keeps the finalizer of a mesh that has it.
LEMMA WriteKeepsCopies ==
    ASSUME IInv, NEW m \in Meshes, NEW v \in CR \cup {Gone}, WriteCR(m, v, op),
           seen' = seen, forced \subseteq forced', v # Gone /\ v.deleting => v.fin,
           m \notin forced' /\ cr[m] # Gone /\ cr[m].fin => v # Gone /\ v.fin
    PROVE  CopiesSound'
  <1>1. /\ op'.pc = op.pc /\ op'.mesh = op.mesh /\ op'.copy = op.copy
        /\ op'.old = (op.old \/ (op.pc # "idle" /\ op.mesh = m))
        /\ \A x \in Meshes : cr'[x] = IF x = m THEN v ELSE cr[x]
    BY WriteCRTyped DEF IInv
  <1>2. behind' = behind \cup {m}
    BY DEF WriteCR
  <1>3. \A x \in Meshes : \A c \in CR \cup {Gone} : StillHeld(x, c) => StillHeld(x, c)'
    BY <1>1 DEF StillHeld
  <1>4. seen \in [Meshes -> CR \cup {Gone}] /\ (op.pc # "idle" => op.mesh \in Meshes /\ op.copy \in CR)
    BY DEF IInv, TypeOK
  <1>5. ASSUME NEW x \in Meshes
        PROVE  /\ x \notin behind' => seen'[x] = cr'[x]
               /\ cr'[x] # Gone /\ cr'[x].deleting => cr'[x].fin
               /\ seen'[x] # Gone /\ seen'[x].deleting => seen'[x].fin
               /\ StillHeld(x, seen[x])'
    <2>1. StillHeld(x, seen[x])'
      BY <1>3, <1>4 DEF IInv, CopiesSound, StillHeld
    <2> QED
      BY <2>1, <1>1, <1>2 DEF IInv, CopiesSound
  <1>6. op'.pc # "idle" =>
            /\ ~op'.old => seen'[op'.mesh] = op'.copy /\ cr'[op'.mesh] = op'.copy
            /\ StillHeld(op.mesh, op.copy)'
    <2> SUFFICES ASSUME op.pc # "idle"
                 PROVE  /\ ~op'.old => seen'[op'.mesh] = op'.copy /\ cr'[op'.mesh] = op'.copy
                        /\ StillHeld(op.mesh, op.copy)'
      BY <1>1
    <2>1. StillHeld(op.mesh, op.copy)'
      BY <1>1, <1>3, <1>4 DEF IInv, CopiesSound, StillHeld
    <2> QED
      BY <2>1, <1>1, <1>4 DEF IInv, CopiesSound
  <1> QED
    BY <1>1, <1>5, <1>6 DEF CopiesSound, IInv

\* Users: what they write to a mesh.
LEMMA UserStep ==
    ASSUME IInv, NEW m \in Meshes,
           \/ \E x \in Options[m] : Create(m, x)
           \/ \E x \in Options[m] : Edit(m, x)
           \/ Delete(m)
           \/ ForceRelease(m)
    PROVE  IInv'
  <1>0. cr \in [Meshes -> CR \cup {Gone}] /\ forced \subseteq Meshes /\ changes \in Nat /\ TypeOK
    BY DEF IInv, TypeOK
  <1>1. ASSUME NEW v \in CR \cup {Gone}, UserWrite(m, v), forced' \subseteq Meshes
        PROVE  TypeOK'
    <2>1. WriteCR(m, v, op) /\ changes' \in Nat
      BY <1>0, <1>1 DEF UserWrite, Change
    <2>2. /\ cr' \in [Meshes -> CR \cup {Gone}] /\ behind' \subseteq Meshes /\ op' \in OpType
          /\ op'.pc = op.pc /\ op'.mesh = op.mesh /\ op'.copy = op.copy /\ op'.src = op.src
      BY <1>0, <2>1, WriteCRTyped
    <2> QED
      BY <1>0, <1>1, <2>1, <2>2 DEF TypeOK, UserWrite, sites, process
  <1>2. ASSUME NEW v \in CR \cup {Gone}, UserWrite(m, v), forced \subseteq forced',
               v # Gone /\ v.deleting => v.fin,
               m \notin forced' /\ cr[m] # Gone /\ cr[m].fin => v # Gone /\ v.fin
        PROVE  CopiesSound'
    BY <1>2, WriteKeepsCopies DEF UserWrite
  <1>3. ASSUME NEW x \in Options[m], Create(m, x) PROVE IInv'
    <2>1. Fresh(x) \in CR /\ ~Fresh(x).deleting
      BY ConstantsAssumption DEF Fresh, CR
    <2> QED
      BY <1>0, <1>1, <1>2, <1>3, <2>1 DEF Create, IInv
  <1>4. ASSUME NEW x \in Options[m], Edit(m, x) PROVE IInv'
    <2> DEFINE v == [cr[m] EXCEPT !.spec = x.spec, !.cidr = x.cidr]
    <2>1. cr[m] \in CR /\ (cr[m].deleting => cr[m].fin)
      BY <1>0, <1>4 DEF Edit, IInv, CopiesSound
    <2>0. x \in [spec : SUBSET Clusters, cidr : Cidrs \cup {Invalid}]
      BY ConstantsAssumption
    <2>2. v \in CR /\ v.deleting = cr[m].deleting /\ v.fin = cr[m].fin
      BY <2>0, <2>1 DEF CR
    <2>3. UserWrite(m, v) /\ forced' = forced
      BY <1>4 DEF Edit
    <2>4. v # Gone
      BY <2>2, ConstantsAssumption
    <2> HIDE DEF v
    <2> QED
      BY <1>0, <1>1, <1>2, <2>1, <2>2, <2>3, <2>4 DEF IInv
  <1>5. CASE Delete(m)
    <2> DEFINE v == IF cr[m].fin THEN [cr[m] EXCEPT !.deleting = TRUE] ELSE Gone
    <2>1. cr[m] \in CR
      BY <1>0, <1>5 DEF Delete
    <2>2. v \in CR \cup {Gone} /\ (v # Gone => v.fin) /\ (cr[m].fin => v # Gone)
      BY <2>1, ConstantsAssumption DEF CR
    <2>3. UserWrite(m, v) /\ forced' = forced
      BY <1>5 DEF Delete
    <2> HIDE DEF v
    <2> QED
      BY <1>0, <1>1, <1>2, <2>1, <2>2, <2>3 DEF IInv
  <1>6. CASE ForceRelease(m)
    BY <1>0, <1>1, <1>2, <1>6 DEF ForceRelease, IInv
  <1> QED
    BY <1>3, <1>4, <1>5, <1>6

\* A step that leaves the meshes, their copies and the reconcile as they are.
LEMMA FrameKeepsCopies ==
    ASSUME CopiesSound, UNCHANGED <<cr, seen, behind, forced, op>>
    PROVE  CopiesSound'
    BY DEF CopiesSound, StillHeld

\* Nodes, Secrets, API servers, CRDs.
LEMMA SiteStep ==
    ASSUME IInv, NEW c \in Clusters,
           \/ \E noticed \in BOOLEAN : ToggleNodes(c, noticed)
           \/ ToggleSecret(c) \/ Outage(c) \/ Recover(c) \/ InstallKilo(c)
    PROVE  IInv'
  <1>1. UNCHANGED <<cr, seen, behind, forced, op, pushed, registry, negative>>
    BY DEF ToggleNodes, ToggleSecret, Outage, Recover, InstallKilo, process, users
  <1>2. CopiesSound'
    BY <1>1, FrameKeepsCopies DEF IInv
  <1>3. /\ valid' \subseteq Clusters /\ secrets' \subseteq Clusters /\ down' \subseteq Clusters
        /\ crd' \subseteq Clusters /\ changes' \in Nat /\ queue' \subseteq Meshes
    BY DEF IInv, TypeOK, ToggleNodes, ToggleSecret, Outage, Recover, InstallKilo, Change,
           process, users, Exists
  <1> QED
    BY <1>1, <1>2, <1>3 DEF IInv, TypeOK

\* The process starts again.
LEMMA RestartStep ==
    ASSUME IInv, Crash \/ WatcherRestart
    PROVE  IInv'
  <1>0. TypeOK /\ Start /\ UNCHANGED <<cr, pushed, sites, forced>> /\ changes' \in Nat
    BY DEF Crash, WatcherRestart, users, IInv, TypeOK, Change
  <1>1. /\ registry' \subseteq Clusters /\ negative' = {} /\ queue' \subseteq Meshes
        /\ seen' = cr /\ behind' = {} /\ op' = Idle /\ op' \in OpType
    BY <1>0, StartTyped
  <1>2. TypeOK'
    BY <1>0, <1>1 DEF TypeOK, sites, Idle
  <1>3. CopiesSound'
    BY <1>0, <1>1 DEF IInv, CopiesSound, StillHeld, Idle
  <1> QED
    BY <1>2, <1>3 DEF IInv

\* The cache catches up with one mesh.
LEMMA DeliverStep ==
    ASSUME IInv, NEW m \in Meshes, Deliver(m)
    PROVE  IInv'
  <1>1. TypeOK'
    BY DEF IInv, TypeOK, Deliver, sites, process, users
  <1>2. /\ seen \in [Meshes -> CR \cup {Gone}] /\ UNCHANGED <<cr, forced, op>>
        /\ seen' = [seen EXCEPT ![m] = cr[m]] /\ behind' = behind \ {m}
        /\ op.pc # "idle" => op.mesh \in Meshes
    BY DEF IInv, TypeOK, Deliver, users
  <1>3. CopiesSound'
    BY <1>2 DEF IInv, CopiesSound, StillHeld
  <1> QED
    BY <1>1, <1>3 DEF IInv

\* A reconcile that has just read its mesh.
LEMMA ReadingTyped ==
    ASSUME NEW m \in Meshes, seen[m] \in CR
    PROVE  /\ Reading(m) \in OpType /\ Reading(m).mesh = m /\ Reading(m).copy = seen[m]
           /\ Reading(m).old = (m \in behind)
  <1>1. ASSUME NEW b \in BOOLEAN
        PROVE  LET o == [Idle EXCEPT !.mesh = m, !.copy = seen[m], !.old = b]
               IN o \in OpType /\ o.mesh = m /\ o.copy = seen[m] /\ o.old = b
    BY DEF Idle, OpType
  <1>2. (m \in behind) \in BOOLEAN
    OBVIOUS
  <1> QED
    BY <1>1, <1>2, Zenon DEF Reading

\* The start of a reconcile.
LEMMA BeginStep ==
    ASSUME IInv, NEW m \in Meshes, Begin(m)
    PROVE  IInv'
  <1>0. /\ TypeOK /\ op.pc = "idle" /\ seen[m] \in CR \cup {Gone} /\ UNCHANGED <<seen, forced>>
        /\ seen \in [Meshes -> CR \cup {Gone}]
    BY DEF IInv, TypeOK, Begin, users
  <1>1. CASE UNCHANGED <<cr, behind, op>> /\ queue' \subseteq queue
    <2>1. CopiesSound'
      BY <1>0, <1>1, FrameKeepsCopies DEF IInv
    <2> QED
      BY <2>1, <1>1 DEF IInv, TypeOK, Begin, sites, process, users
  <1>2. CASE /\ seen[m] # Gone /\ ~seen[m].deleting /\ ~seen[m].fin
             /\ m \notin behind /\ WriteCR(m, [seen[m] EXCEPT !.fin = TRUE], op)
             /\ queue' = queue \ {m}
    <2> DEFINE v == [seen[m] EXCEPT !.fin = TRUE]
    <2>1. v \in CR /\ v.fin
      BY <1>0, <1>2 DEF CR
    <2>2. v # Gone
      BY <2>1, ConstantsAssumption
    <2>3. WriteCR(m, v, op)
      BY <1>2
    <2> HIDE DEF v
    <2>4. CopiesSound'
      BY <1>0, <2>1, <2>2, <2>3, WriteKeepsCopies DEF IInv
    <2>5. /\ cr' \in [Meshes -> CR \cup {Gone}] /\ behind' \subseteq Meshes /\ op' \in OpType
          /\ op'.pc = op.pc
      BY <1>0, <2>1, <2>3, WriteCRTyped
    <2>6. TypeOK'
      BY <1>0, <1>2, <2>5 DEF TypeOK, Begin, sites, process, users
    <2> QED
      BY <2>4, <2>6 DEF IInv
  <1>3. CASE /\ seen[m] # Gone /\ seen[m].fin
             /\ op' = IF seen[m].deleting
                      THEN [Reading(m) EXCEPT !.pc = "sources", !.left = seen[m].spec]
                      ELSE [Reading(m) EXCEPT !.pc = "validate"]
             /\ queue' = queue \ {m} /\ UNCHANGED <<cr, behind>>
    <2>1. seen[m] \in CR /\ seen[m].spec \subseteq Clusters
      BY <1>0, <1>3 DEF CR
    <2>2. /\ op' \in OpType /\ op'.pc \in {"sources", "validate"} /\ op'.mesh = m
          /\ op'.copy = seen[m] /\ op'.old = (m \in behind)
      <3>1. /\ Reading(m) \in OpType /\ Reading(m).mesh = m /\ Reading(m).copy = seen[m]
            /\ Reading(m).old = (m \in behind)
        BY <2>1, ReadingTyped
      <3>2. ASSUME NEW o \in OpType, NEW left \in SUBSET Clusters
            PROVE  LET n == [o EXCEPT !.pc = "sources", !.left = left]
                   IN n \in OpType /\ n.pc = "sources" /\ n.mesh = o.mesh /\ n.copy = o.copy /\ n.old = o.old
        BY DEF OpType
      <3>3. ASSUME NEW o \in OpType
            PROVE  LET n == [o EXCEPT !.pc = "validate"]
                   IN n \in OpType /\ n.pc = "validate" /\ n.mesh = o.mesh /\ n.copy = o.copy /\ n.old = o.old
        BY DEF OpType
      <3>4. CASE seen[m].deleting
        <4>1. op' = [Reading(m) EXCEPT !.pc = "sources", !.left = seen[m].spec]
          BY <1>3, <3>4, Zenon
        <4>2. seen[m].spec \in SUBSET Clusters
          BY <2>1
        <4> QED
          BY <3>1, <3>2, <4>1, <4>2, Zenon
      <3>5. CASE ~seen[m].deleting
        <4>1. op' = [Reading(m) EXCEPT !.pc = "validate"]
          BY <1>3, <3>5, Zenon
        <4> QED
          BY <3>1, <3>3, <4>1, Zenon
      <3> QED
        BY <3>4, <3>5, Zenon
    <2>3. TypeOK'
      BY <1>0, <1>3, <2>1, <2>2 DEF TypeOK, Begin, sites, process, users
    <2>4. CopiesSound'
      BY <1>0, <1>3, <2>2, ZenonT(60) DEF IInv, CopiesSound, StillHeld
    <2> QED
      BY <2>3, <2>4 DEF IInv
  <1> QED
    BY <1>1, <1>2, <1>3 DEF Begin, AddFinalizer

\* A status update that is accepted leaves the finalizer and the deletion alone.
LEMMA WriteStatusKeeps ==
    ASSUME IInv, op.pc # "idle", NEW ready \in {"True", "False"},
           WriteStatus(ready, TRUE), ~op.old
    PROVE  /\ cr' \in [Meshes -> CR \cup {Gone}]
           /\ behind' \subseteq Meshes /\ behind \subseteq behind'
           /\ op.mesh \in Meshes
           /\ cr'[op.mesh] \in CR /\ cr'[op.mesh].ready = ready
           /\ cr'[op.mesh].fin = cr[op.mesh].fin /\ cr'[op.mesh].deleting = cr[op.mesh].deleting
           /\ \A x \in Meshes : x # op.mesh => cr'[x] = cr[x]
           /\ op.mesh \in behind' \/ (behind' = behind /\ cr' = cr)
  <1>0. /\ op.mesh \in Meshes /\ op.copy \in CR /\ cr[op.mesh] = op.copy
        /\ cr \in [Meshes -> CR \cup {Gone}] /\ behind \subseteq Meshes
    BY DEF IInv, TypeOK, CopiesSound
  <1>1. /\ cr' = [cr EXCEPT ![op.mesh].ready = ready]
        /\ \/ behind' = behind \cup {op.mesh}
           \/ op.copy.ready = ready /\ behind' = behind
    BY DEF WriteStatus
  <1>2. [op.copy EXCEPT !.ready = ready] \in CR
    BY <1>0 DEF CR
  <1>3. cr' = [cr EXCEPT ![op.mesh] = [op.copy EXCEPT !.ready = ready]]
    BY <1>0, <1>1
  <1>4. op.copy.ready = ready => [op.copy EXCEPT !.ready = ready] = op.copy
    BY <1>0 DEF CR
  <1>5. op.copy.ready = ready => cr' = cr
    BY <1>0, <1>3, <1>4
  <1> QED
    BY <1>0, <1>1, <1>2, <1>3, <1>5 DEF CR

\* A reconcile ends with a status update, accepted or not.
LEMMA StatusStep ==
    ASSUME IInv, op.pc # "idle", NEW ready \in {"True", "False"},
           WriteStatus(ready, Done) \/ WriteStatus(ready, Requeue),
           UNCHANGED <<seen, pushed, sites, process, users>>
    PROVE  IInv'
  <1>0. /\ op' = Idle /\ Idle \in OpType /\ Idle.pc = "idle" /\ Idle.mesh = "none"
        /\ queue' \subseteq Meshes /\ op.mesh \in Meshes
    BY DEF IInv, TypeOK, WriteStatus, Done, Requeue, Idle, OpType
  <1>1. CASE op.old
    <2>1. UNCHANGED <<cr, behind>>
      BY <1>1 DEF WriteStatus
    <2>2. CopiesSound'
      BY <1>0, <2>1 DEF IInv, CopiesSound, StillHeld, users
    <2> QED
      BY <1>0, <2>1, <2>2 DEF IInv, TypeOK, sites, process, users
  <1>2. CASE ~op.old
    <2>1. WriteStatus(ready, TRUE)
      BY <1>2 DEF WriteStatus
    <2>2. /\ cr' \in [Meshes -> CR \cup {Gone}]
          /\ behind' \subseteq Meshes /\ behind \subseteq behind'
          /\ cr'[op.mesh] \in CR
          /\ cr'[op.mesh].fin = cr[op.mesh].fin /\ cr'[op.mesh].deleting = cr[op.mesh].deleting
          /\ \A x \in Meshes : x # op.mesh => cr'[x] = cr[x]
          /\ op.mesh \in behind' \/ (behind' = behind /\ cr' = cr)
      BY <1>2, <2>1, WriteStatusKeeps
    <2>3. cr[op.mesh] = op.copy /\ op.copy \in CR
      BY <1>2 DEF IInv, TypeOK, CopiesSound
    <2>4. CopiesSound'
      BY <1>0, <2>2, <2>3, ConstantsAssumption DEF IInv, CopiesSound, StillHeld, users
    <2> QED
      BY <1>0, <2>2, <2>4 DEF IInv, TypeOK, sites, process, users
  <1> QED
    BY <1>1, <1>2

\* A reconcile goes on with the copy it has, or ends without a write.
Advances ==
    /\ op.pc # "idle" /\ UNCHANGED <<cr, seen, behind, forced>>
    /\ op' \in OpType
    /\ \/ op' = Idle
       \/ /\ op'.pc # "idle" /\ op'.mesh = op.mesh /\ op'.copy = op.copy /\ op'.old = op.old
          /\ op'.pc = "targets" => op'.src \in Clusters

\* Such a step keeps the invariant.
LEMMA AdvancesKeeps ==
    ASSUME IInv, Advances, UNCHANGED <<valid, secrets, down, crd, registry>>,
           pushed' \subseteq Meshes \X Clusters \X Clusters, negative' \subseteq Clusters,
           queue' \subseteq Meshes, changes' \in Nat
    PROVE  IInv'
  <1>1. Idle.pc = "idle" /\ Idle.mesh = "none"
    BY DEF Idle
  <1>2. TypeOK'
    BY <1>1 DEF IInv, TypeOK, Advances
  <1>3. CopiesSound'
    BY <1>1 DEF IInv, CopiesSound, StillHeld, Advances
  <1> QED
    BY <1>2, <1>3 DEF IInv

\* Fields of the reconcile that the loops move.
LEMMA OpMoves ==
    ASSUME op \in OpType
    PROVE  /\ Idle \in OpType
           /\ \A pc \in {"sources", "orphans", "status"}, left \in SUBSET Clusters :
                /\ [op EXCEPT !.pc = pc] \in OpType
                /\ [op EXCEPT !.pc = pc, !.left = left] \in OpType
           /\ \A left \in SUBSET Clusters : [op EXCEPT !.left = left] \in OpType
           /\ \A left \in SUBSET Clusters : [op EXCEPT !.todo = left] \in OpType
           /\ [op EXCEPT !.pc = "sources", !.todo = {}, !.src = 0, !.want = FALSE] \in OpType
    BY DEF OpType, Idle

\* Validation writes a condition and stops, or goes on to the first source.
LEMMA ValidateStep ==
    ASSUME IInv, Validate
    PROVE  IInv'
  <1>0. /\ op \in OpType /\ op.pc = "validate" /\ op.copy \in CR /\ op.mesh \in Meshes /\ changes \in Nat
        /\ queue \subseteq Meshes
        /\ UNCHANGED <<seen, pushed, sites, process, forced>>
    BY DEF IInv, TypeOK, Validate
  <1>1. CASE WriteStatus("False", Done) /\ UNCHANGED changes
    BY <1>0, <1>1, StatusStep DEF users
  <1>2. CASE /\ op' = [op EXCEPT !.pc = "sources", !.left = op.copy.spec]
             /\ UNCHANGED <<cr, behind, queue>> /\ changes' \in Nat
    <2>1. op.copy.spec \in SUBSET Clusters
      BY <1>0 DEF CR
    <2>2. Advances
      BY <1>0, <1>2, <2>1 DEF Advances, OpType
    <2> QED
      BY <1>0, <1>2, <2>2, AdvancesKeeps DEF IInv, TypeOK, sites, process
  <1> QED
    BY <1>0, <1>1, <1>2 DEF Validate, Change

\* The loop over the sources takes the next one, or is over.
LEMMA NextSourceStep ==
    ASSUME IInv, NEW s \in Clusters, NextSource(s)
    PROVE  IInv'
  <1>0. /\ op \in OpType /\ op.pc = "sources" /\ op.copy \in CR /\ op.copy.spec \subseteq Clusters
        /\ changes \in Nat /\ queue \subseteq Meshes
        /\ UNCHANGED <<cr, seen, behind, pushed, sites, process, queue, users>>
    BY DEF IInv, TypeOK, NextSource, CR
  <1>2. CASE op' = [op EXCEPT !.left = @ \ {s}]
    <2>1. Advances
      BY <1>0, <1>2 DEF Advances, OpType, users
    <2> QED
      BY <1>0, <2>1, AdvancesKeeps DEF IInv, TypeOK, sites, process, users
  <1>3. CASE op' = [[op EXCEPT !.pc = "targets", !.src = s, !.left = @ \ {s},
                               !.todo = op.copy.spec \ {s}] EXCEPT !.want = FALSE]
    <2>1. Advances
      BY <1>0, <1>3 DEF Advances, OpType, users
    <2> QED
      BY <1>0, <2>1, AdvancesKeeps DEF IInv, TypeOK, sites, process, users
  <1>4. CASE op' = [[op EXCEPT !.pc = "targets", !.src = s, !.left = @ \ {s},
                               !.todo = op.copy.spec \ {s}] EXCEPT !.want = s \in valid]
    <2>1. PICK b \in BOOLEAN : op' = [[op EXCEPT !.pc = "targets", !.src = s, !.left = @ \ {s},
                               !.todo = op.copy.spec \ {s}] EXCEPT !.want = b]
      <3>1. (s \in valid) \in BOOLEAN
        OBVIOUS
      <3> QED
        BY <1>4, <3>1, Zenon
    <2>2. Advances
      BY <1>0, <2>1 DEF Advances, OpType, users
    <2> QED
      BY <1>0, <2>2, AdvancesKeeps DEF IInv, TypeOK, sites, process, users
  <1> QED
    <2>1. op' = IF op.copy.deleting
                THEN [[op EXCEPT !.pc = "targets", !.src = s, !.left = @ \ {s},
                               !.todo = op.copy.spec \ {s}] EXCEPT !.want = FALSE]
                ELSE IF s \notin registry THEN [op EXCEPT !.left = @ \ {s}]
                ELSE [[op EXCEPT !.pc = "targets", !.src = s, !.left = @ \ {s},
                               !.todo = op.copy.spec \ {s}] EXCEPT !.want = s \in valid]
      BY Zenon DEF NextSource
    <2> QED
      BY <1>2, <1>3, <1>4, <2>1, Zenon

\* The Peers a pass over target t is about, and what it wants them to be.
Cell(t) == <<op.mesh, op.src, t>>
Goal(t) == IF op.want THEN pushed \cup {Cell(t)} ELSE pushed \ {Cell(t)}

\* Reconcile n is the one in hand with target t ticked off, the last one together with
\* its source.
TickedOff(n, t) ==
    /\ n \in OpType /\ n.mesh = op.mesh /\ n.copy = op.copy /\ n.old = op.old
    /\ n.left = op.left
    /\ \/ n.pc = "targets" /\ n.src = op.src /\ n.want = op.want /\ n.todo = op.todo \ {t}
       \/ op.todo \subseteq {t} /\ n.pc = "sources" /\ n.want = FALSE

\* The ends a pass may come to: Peers as wanted; no client, so the target is skipped; an
\* error that a deletion logs; an error that ends the reconcile.
LEMMA PushEnds ==
    ASSUME TypeOK, NEW t \in Clusters, Push(t)
    PROVE  /\ t \in op.todo /\ Cell(t) \in Meshes \X Clusters \X Clusters
           /\ negative' \subseteq negative \cup {t} /\ changes' \in {changes, changes + 1}
           /\ \/ /\ TickedOff(op', t) /\ op'.missed = op.missed
                 /\ pushed' = Goal(t) /\ queue' = queue
              \/ /\ TickedOff(op', t) /\ op'.missed = op.missed
                 /\ pushed' = pushed /\ queue' = queue /\ t \notin registry
              \/ /\ TickedOff(op', t) /\ op'.missed = op.missed \cup {Cell(t)}
                 /\ pushed' = pushed /\ queue' = queue /\ op.copy.deleting
              \/ op' = Idle /\ pushed' = pushed /\ queue' = queue \cup {op.mesh}
  <1> DEFINE left == op.todo \ {t}
             o == IF left # {} THEN [op EXCEPT !.todo = left]
                  ELSE [op EXCEPT !.pc = "sources", !.todo = {}, !.src = 0, !.want = FALSE]
             logged == [o EXCEPT !.missed = @ \cup {Cell(t)}]
  <1>1. /\ op \in OpType /\ op.pc = "targets" /\ op.mesh \in Meshes /\ op.src \in Clusters
        /\ t \in op.todo
    BY DEF TypeOK, Push, First
  <1>2. Cell(t) \in Meshes \X Clusters \X Clusters
    BY <1>1 DEF Cell
  <1>3. TickedOff(o, t) /\ o.missed = op.missed
    BY <1>1 DEF OpType, TickedOff
  <1>4. \/ pushed' = Goal(t) /\ op' = o /\ UNCHANGED <<queue, negative, changes>>
        \/ t \notin registry /\ pushed' = pushed /\ op' = o /\ UNCHANGED <<queue, negative, changes>>
        \/ /\ Failed(logged) /\ UNCHANGED pushed
           /\ negative' \subseteq negative \cup {t} /\ changes' \in {changes, changes + 1}
    BY DEF Push, RefreshMapperOnNoMatch, Reset, Change, Goal, Cell
  <1> HIDE DEF o
  <1>5. TickedOff(logged, t) /\ logged.missed = op.missed \cup {Cell(t)}
    <2>1. o \in OpType
      BY <1>3 DEF TickedOff
    <2>2. /\ logged \in OpType /\ logged.missed = op.missed \cup {Cell(t)}
          /\ \A x \in {"pc", "mesh", "copy", "old", "src", "left", "todo", "want"} : logged[x] = o[x]
      BY <1>2, <1>3, <2>1 DEF OpType
    <2> QED
      BY <1>3, <2>2 DEF TickedOff
  <1> HIDE DEF logged
  <1> QED
    BY <1>1, <1>2, <1>3, <1>4, <1>5 DEF Failed, Requeue

\* A pass over one target: Peers of the mesh in hand change, or the error is taken.
LEMMA PushStep ==
    ASSUME IInv, NEW t \in Clusters, Push(t)
    PROVE  IInv'
  <1>0. /\ op \in OpType /\ op.pc = "targets" /\ op.mesh \in Meshes
        /\ op.src \in Clusters /\ changes \in Nat /\ queue \subseteq Meshes
        /\ pushed \subseteq Meshes \X Clusters \X Clusters /\ negative \subseteq Clusters
        /\ UNCHANGED <<cr, seen, behind, sites, registry, boot, forced>>
    BY DEF IInv, TypeOK, Push
  <1>1. /\ Cell(t) \in Meshes \X Clusters \X Clusters
        /\ TickedOff(op', t) \/ op' = Idle
        /\ queue' \subseteq queue \cup {op.mesh} /\ pushed' \subseteq pushed \cup {Cell(t)}
        /\ negative' \subseteq negative \cup {t} /\ changes' \in {changes, changes + 1}
    BY PushEnds DEF IInv, Goal
  <1>2. Idle \in OpType
    BY DEF Idle, OpType
  <1>3. Advances
    BY <1>0, <1>1, <1>2 DEF Advances, TickedOff
  <1> QED
    BY <1>0, <1>1, <1>3, AdvancesKeeps DEF sites

\* The finalizer goes: the mesh in hand was leaving, so no copy of it counts as held.
LEMMA DropFinalizerStep ==
    ASSUME IInv, DropFinalizer
    PROVE  IInv'
  <1>0. /\ op.pc = "sources" /\ op.copy.deleting /\ op.mesh \in Meshes /\ op.copy \in CR
        /\ Idle \in OpType /\ Idle.pc = "idle" /\ Idle.mesh = "none"
        /\ queue \subseteq Meshes /\ changes \in Nat
        /\ UNCHANGED <<seen, pushed, sites, process, users>>
    BY DEF IInv, TypeOK, DropFinalizer, Idle, OpType
  <1>1. CASE op.old
    <2>1. Advances
      BY <1>0, <1>1 DEF DropFinalizer, Requeue, Advances, users
    <2> QED
      BY <1>0, <1>1, <2>1, AdvancesKeeps DEF IInv, TypeOK, DropFinalizer, Requeue, sites, process, users
  <1>2. CASE ~op.old
    <2>1. /\ cr' = [cr EXCEPT ![op.mesh] = Gone] /\ behind' = behind \cup {op.mesh}
          /\ op' = Idle /\ queue' = queue
      BY <1>2 DEF DropFinalizer, Done
    <2>2. TypeOK'
      BY <1>0, <2>1 DEF IInv, TypeOK, sites, process, users
    <2>3. CopiesSound'
      BY <1>0, <1>2, <2>1 DEF IInv, TypeOK, CopiesSound, StillHeld, users
    <2> QED
      BY <2>2, <2>3 DEF IInv
  <1> QED
    BY <1>1, <1>2

\* The two sweeps only take Peers away.
LEMMA SweepStep ==
    ASSUME IInv, SweepStale \/ SweepOrphans
    PROVE  IInv'
  <1>0. /\ op \in OpType /\ op.pc # "idle"
        /\ pushed \subseteq Meshes \X Clusters \X Clusters /\ negative \subseteq Clusters
        /\ queue \subseteq Meshes /\ changes \in Nat /\ registry \subseteq Clusters
    BY DEF IInv, TypeOK, SweepStale, SweepOrphans
  <1>1. PICK garbage : Sweep(garbage)
    BY DEF SweepStale, SweepOrphans
  <1>2. /\ pushed' \subseteq pushed /\ negative' \subseteq Clusters /\ changes' \in Nat
        /\ UNCHANGED <<cr, seen, behind, sites, registry, queue, forced>>
    BY <1>0, <1>1 DEF Sweep, SweepAll, Change, NoKindMatch
  <1>3. \E pc \in {"orphans", "status"} : op' = [op EXCEPT !.pc = pc]
    BY DEF SweepStale, SweepOrphans
  <1>4. Advances
    BY <1>0, <1>2, <1>3 DEF Advances, OpType
  <1> QED
    BY <1>0, <1>2, <1>4, AdvancesKeeps DEF sites

\* TypeOK and CopiesSound are preserved by every step.
LEMMA NextIInv == IInv /\ [Next]_vars => IInv'
  <1> SUFFICES ASSUME IInv, [Next]_vars PROVE IInv'
    OBVIOUS
  <1>1. CASE Environment
    BY <1>1, UserStep, SiteStep, RestartStep DEF Environment
  <1>2. CASE \E m \in Meshes : Deliver(m)
    BY <1>2, DeliverStep
  <1>3. CASE \E m \in Meshes : Begin(m)
    BY <1>3, BeginStep
  <1>4. CASE WatcherRestart
    BY <1>4, RestartStep
  <1>5. CASE Step
    <2>1. CASE Finish
      BY <2>1, StatusStep DEF Finish
    <2> QED
      BY <1>5, <2>1, ValidateStep, NextSourceStep, PushStep, DropFinalizerStep, SweepStep DEF Step
  <1>6. CASE UNCHANGED vars
    <2>1. CopiesSound'
      BY <1>6, FrameKeepsCopies DEF IInv, vars, users
    <2> QED
      BY <1>6, <2>1 DEF IInv, TypeOK, vars, sites, process, users
  <1> QED
    BY <1>1, <1>2, <1>3, <1>4, <1>5, <1>6 DEF Next

-----------------------------------------------------------------------------
(* The theorems.                                                           *)

\* Every variable has its type in every reachable state; a reconcile in progress
\* has read a mesh that carried the finalizer.
THEOREM TypeCorrect == Spec => []TypeOK
  <1>1. IInv => TypeOK
    BY DEF IInv
  <1> QED
    BY <1>1, InitIInv, NextIInv, PTL DEF Spec

\* The cached copy of a mesh and the one a reconcile holds can be trusted as far as
\* CopiesSound says, however long the watch lags and whatever users write.
THEOREM CopiesAlwaysSound == Spec => []CopiesSound
  <1>1. IInv => CopiesSound
    BY DEF IInv
  <1> QED
    BY <1>1, InitIInv, NextIInv, PTL DEF Spec

-----------------------------------------------------------------------------
(* Peers are pushed under the finalizer, and the refinement.               *)

\* A reconcile that has Peers to write works on a mesh that was not being deleted.
WantsAlive == op.want => op.pc # "idle" /\ ~op.copy.deleting

\* Only NextSource sets `want', and not for a deletion.
LEMMA NextWantsAlive == IInv /\ WantsAlive /\ [Next]_vars => WantsAlive'
  <1> SUFFICES ASSUME IInv, WantsAlive, [Next]_vars PROVE WantsAlive'
    OBVIOUS
  <1>0. op \in OpType /\ Idle \in OpType /\ ~Idle.want
    BY DEF IInv, TypeOK, Idle, OpType
  <1> DEFINE Same == op'.want = op.want /\ op'.pc # "idle" /\ op'.copy = op.copy
  <1>1. ASSUME NEW m, NEW v, WriteCR(m, v, op) PROVE Same \/ op' = op
    BY <1>0, <1>1 DEF WriteCR, OpType
  <1>2. ASSUME NEW pc \in {"sources", "orphans", "status"}, NEW left \in SUBSET Clusters,
               op' \in {[op EXCEPT !.pc = pc], [op EXCEPT !.pc = pc, !.left = left]}
        PROVE  Same
    BY <1>0, <1>2 DEF OpType
  <1>3. CASE op' = op \/ op' = Idle \/ Same
    BY <1>0, <1>3 DEF WantsAlive
  <1>4. CASE Environment
    BY <1>1, <1>3, <1>4 DEF Environment, Create, Edit, Delete, ForceRelease, UserWrite, ToggleNodes,
       ToggleSecret, Outage, Recover, InstallKilo, Crash, Start
  <1>5. CASE (\E m \in Meshes : Deliver(m)) \/ WatcherRestart \/ UNCHANGED vars
    BY <1>3, <1>5 DEF Deliver, WatcherRestart, Start, vars
  <1>6. ASSUME NEW m \in Meshes, Begin(m) PROVE WantsAlive'
    <2>1. CASE seen[m] # Gone /\ seen[m].fin
      <3>1. seen[m] \in CR /\ seen[m].spec \in SUBSET Clusters
        BY <2>1 DEF IInv, TypeOK, CR
      <3>2. Reading(m) \in OpType
        BY <3>1, ReadingTyped
      <3>3. ~Reading(m).want
        BY DEF Reading, Idle
      <3>4. \/ op' = [Reading(m) EXCEPT !.pc = "sources", !.left = seen[m].spec]
            \/ op' = [Reading(m) EXCEPT !.pc = "validate"]
        BY <1>6, <2>1 DEF Begin
      <3> HIDE DEF Reading
      <3>5. ~op'.want
        BY <3>1, <3>2, <3>3, <3>4 DEF OpType
      <3> QED
        BY <3>5 DEF WantsAlive
    <2>2. CASE ~(seen[m] # Gone /\ seen[m].fin)
      <3>1. Same \/ op' = op
        BY <1>1, <1>6, <2>2 DEF Begin, AddFinalizer
      <3> QED
        BY <1>3, <3>1
    <2> QED
      BY <2>1, <2>2
  <1>7. CASE Validate
    <2>1. op' = Idle \/ op' = [op EXCEPT !.pc = "sources", !.left = op.copy.spec]
      BY <1>7 DEF Validate, WriteStatus, Done, Requeue
    <2>2. op.copy.spec \in SUBSET Clusters
      BY <1>7 DEF IInv, TypeOK, Validate, CR
    <2> QED
      BY <1>2, <1>3, <2>1, <2>2
  <1>8. ASSUME NEW s \in Clusters, NextSource(s) PROVE WantsAlive'
    <2> DEFINE pass == [op EXCEPT !.pc = "targets", !.src = s, !.left = @ \ {s},
                                  !.todo = op.copy.spec \ {s}]
    <2>0. op.pc = "sources"
      BY <1>8 DEF NextSource
    <2>1. CASE op.copy.deleting
      <3>1. op' = [pass EXCEPT !.want = FALSE]
        BY <1>8, <2>1 DEF NextSource
      <3>2. ~op'.want
        BY <1>0, <3>1 DEF OpType
      <3> QED
        BY <3>2 DEF WantsAlive
    <2>2. CASE ~op.copy.deleting /\ s \notin registry
      <3>1. op' = [op EXCEPT !.left = @ \ {s}]
        BY <1>8, <2>2 DEF NextSource
      <3>2. Same
        BY <1>0, <2>0, <3>1 DEF OpType
      <3> QED
        BY <1>3, <3>2
    <2>3. CASE ~op.copy.deleting /\ s \in registry
      <3>1. op' = [pass EXCEPT !.want = s \in valid]
        BY <1>8, <2>3, Zenon DEF NextSource
      <3>2. ASSUME NEW b \in BOOLEAN, op' = [pass EXCEPT !.want = b]
            PROVE  op'.pc # "idle" /\ op'.copy = op.copy
        BY <1>0, <3>2 DEF OpType
      <3>3. (s \in valid) \in BOOLEAN
        OBVIOUS
      <3>4. op'.pc # "idle" /\ op'.copy = op.copy
        BY <3>1, <3>2, <3>3, Zenon
      <3> QED
        BY <2>3, <3>4 DEF WantsAlive
    <2> QED
      BY <2>1, <2>2, <2>3
  <1>9. ASSUME NEW t \in Clusters, Push(t) PROVE WantsAlive'
    <2>1. op' = Idle \/ TickedOff(op', t)
      BY <1>9, PushEnds DEF IInv
    <2>2. op.pc = "targets"
      BY <1>9 DEF Push
    <2> QED
      BY <1>0, <2>1, <2>2 DEF WantsAlive, TickedOff
  <1>10. CASE DropFinalizer \/ Finish
    BY <1>3, <1>10 DEF DropFinalizer, Finish, WriteStatus, Requeue, Done
  <1>11. CASE SweepStale \/ SweepOrphans
    BY <1>2, <1>3, <1>11 DEF SweepStale, SweepOrphans
  <1>12. CASE Step
    BY <1>7, <1>8, <1>9, <1>10, <1>11, <1>12 DEF Step
  <1> QED
    BY <1>4, <1>5, <1>6, <1>12 DEF Next

\* What a step does to the Peers: a pass adds those of the mesh it has in hand, and
\* that mesh holds the finalizer unless a user tore it off; nothing else adds any.
LEMMA PushedStep ==
    ASSUME IInv, WantsAlive, Next
    PROVE  \/ pushed' \subseteq pushed
           \/ /\ UNCHANGED <<cr, forced>>
              /\ \E m \in Meshes, s, t \in Clusters :
                    /\ pushed' = pushed \cup {<<m, s, t>>}
                    /\ m \in forced \/ (cr[m] # Gone /\ cr[m].fin)
  <1>1. CASE Environment \/ (\E m \in Meshes : Deliver(m) \/ Begin(m)) \/ WatcherRestart
    BY <1>1 DEF Environment, Create, Edit, Delete, ForceRelease, UserWrite, ToggleNodes,
       ToggleSecret, Outage, Recover, InstallKilo, Crash, Deliver, Begin, WatcherRestart
  <1>2. CASE Validate \/ (\E s \in Clusters : NextSource(s)) \/ DropFinalizer \/ Finish
    BY <1>2 DEF Validate, NextSource, DropFinalizer, Finish
  <1>3. CASE SweepStale \/ SweepOrphans
    BY <1>3 DEF SweepStale, SweepOrphans, Sweep, SweepAll
  <1>4. ASSUME NEW t \in Clusters, Push(t), ~(pushed' \subseteq pushed)
        PROVE  /\ UNCHANGED <<cr, forced>>
               /\ \E m \in Meshes, s \in Clusters :
                    /\ pushed' = pushed \cup {<<m, s, t>>}
                    /\ m \in forced \/ (cr[m] # Gone /\ cr[m].fin)
    <2>1. op.mesh \in Meshes /\ op.src \in Clusters /\ op.copy \in CR /\ op.copy.fin /\ Gone \notin CR
      BY <1>4, ConstantsAssumption DEF Push, IInv, TypeOK
    <2>2. op.want /\ pushed' = pushed \cup {<<op.mesh, op.src, t>>} /\ UNCHANGED <<cr, forced>>
      BY <1>4 DEF Push
    <2>3. op.mesh \in forced \/ (cr[op.mesh] # Gone /\ cr[op.mesh].fin)
      BY <2>1, <2>2 DEF WantsAlive, IInv, CopiesSound, StillHeld
    <2> QED
      BY <2>1, <2>2, <2>3
  <1> QED
    BY <1>1, <1>2, <1>3, <1>4 DEF Next, Step

\* The inductive invariant of the remaining theorems, and its proof.
AliveInv == IInv /\ WantsAlive

\* AliveInv holds at the start and is preserved.
LEMMA AliveInductive == (Init => AliveInv) /\ (AliveInv /\ [Next]_vars => AliveInv')
  <1>1. Init => WantsAlive
    BY DEF Init, WantsAlive, Idle
  <1> QED
    BY <1>1, InitIInv, NextIInv, NextWantsAlive DEF AliveInv

\* Peers are only ever pushed for a mesh that holds the finalizer at that moment,
\* or whose finalizer a user tore off.
THEOREM PushedUnderFinalizer == Spec => PushesUnderFinalizer
  <1> DEFINE A == \A m \in Meshes \ forced :
                    (\E s, t \in Clusters : <<m, s, t>> \in pushed' \ pushed) => cr[m] # Gone /\ cr[m].fin
  <1>1. ASSUME AliveInv, Next PROVE A
    BY <1>1, PushedStep DEF AliveInv
  <1>2. AliveInv /\ [Next]_vars => [A]_vars
    BY <1>1
  <1> QED
    BY <1>2, AliveInductive, PTL DEF Spec, PushesUnderFinalizer

\* What a step does to the objects: nothing, or one of the writes to one mesh.
LEMMA ObjectStep ==
    ASSUME IInv, Next
    PROVE  \/ UNCHANGED <<cr, forced>>
           \/ /\ UNCHANGED pushed
              /\ \E m \in Meshes, v \in CR \cup {Gone} :
                    /\ cr' = [cr EXCEPT ![m] = v]
                    /\ \/ UNCHANGED forced /\ <<Phase(cr[m]), Phase(v)>> \in
                            {<<"absent", "plain">>, <<"plain", "absent">>, <<"plain", "held">>,
                             <<"held", "leaving">>, <<"leaving", "absent">>}
                       \/ UNCHANGED forced /\ Phase(cr[m]) = Phase(v)
                       \/ /\ forced' = forced \cup {m}
                          /\ Phase(cr[m]) = "leaving" /\ Phase(v) = "absent"
  <1> DEFINE W(m, v) ==
        /\ UNCHANGED pushed
        /\ cr' = [cr EXCEPT ![m] = v]
        /\ \/ UNCHANGED forced /\ <<Phase(cr[m]), Phase(v)>> \in
                {<<"absent", "plain">>, <<"plain", "absent">>, <<"plain", "held">>,
                 <<"held", "leaving">>, <<"leaving", "absent">>}
           \/ UNCHANGED forced /\ Phase(cr[m]) = Phase(v)
           \/ /\ forced' = forced \cup {m}
              /\ Phase(cr[m]) = "leaving" /\ Phase(v) = "absent"
  <1>0. /\ cr \in [Meshes -> CR \cup {Gone}] /\ Gone \notin CR
        /\ \A m \in Meshes : cr[m] # Gone => cr[m] \in CR /\ (cr[m].deleting => cr[m].fin)
        /\ \A m \in Meshes : m \notin behind => seen[m] = cr[m]
        /\ op.pc # "idle" => op.mesh \in Meshes /\ op.copy \in CR /\ op.copy.fin
                             /\ (~op.old => cr[op.mesh] = op.copy)
    BY ConstantsAssumption DEF IInv, TypeOK, CopiesSound
  <1>1. ASSUME NEW m \in Meshes, NEW x \in Options[m], Create(m, x)
        PROVE  W(m, Fresh(x)) /\ Fresh(x) \in CR
    <2>1. Fresh(x) \in CR /\ ~Fresh(x).deleting /\ ~Fresh(x).fin
      BY ConstantsAssumption DEF Fresh, CR
    <2> QED
      BY <1>0, <1>1, <2>1 DEF Create, UserWrite, WriteCR, Phase
  <1>2. ASSUME NEW m \in Meshes, NEW x \in Options[m], Edit(m, x)
        PROVE  \E v \in CR : W(m, v)
    <2> DEFINE v == [cr[m] EXCEPT !.spec = x.spec, !.cidr = x.cidr]
    <2>1. cr[m] \in CR /\ cr[m] # Gone
      BY <1>0, <1>2 DEF Edit
    <2>2. x \in [spec : SUBSET Clusters, cidr : Cidrs \cup {Invalid}]
      BY ConstantsAssumption
    <2>3. v \in CR /\ v.deleting = cr[m].deleting /\ v.fin = cr[m].fin
      BY <2>1, <2>2 DEF CR
    <2>4. cr' = [cr EXCEPT ![m] = v] /\ UNCHANGED <<pushed, forced>>
      BY <1>2 DEF Edit, UserWrite, WriteCR
    <2> HIDE DEF v
    <2>5. Phase(cr[m]) = Phase(v)
      BY <1>0, <2>1, <2>3 DEF Phase
    <2> QED
      BY <2>3, <2>4, <2>5
  <1>3. ASSUME NEW m \in Meshes, Delete(m)
        PROVE  \E v \in CR \cup {Gone} : W(m, v)
    <2> DEFINE v == IF cr[m].fin THEN [cr[m] EXCEPT !.deleting = TRUE] ELSE Gone
    <2>1. cr[m] \in CR /\ cr[m] # Gone /\ ~cr[m].deleting
      BY <1>0, <1>3 DEF Delete
    <2>2. /\ v \in CR \cup {Gone}
          /\ cr[m].fin => v # Gone /\ v.deleting
          /\ ~cr[m].fin => v = Gone
      BY <1>0, <2>1, ZenonT(60) DEF CR
    <2>4. cr' = [cr EXCEPT ![m] = v] /\ UNCHANGED <<pushed, forced>>
      BY <1>3 DEF Delete, UserWrite, WriteCR
    <2> HIDE DEF v
    <2>5. \/ Phase(cr[m]) = "held" /\ Phase(v) = "leaving"
          \/ Phase(cr[m]) = "plain" /\ Phase(v) = "absent"
      BY <1>0, <2>1, <2>2 DEF Phase
    <2> QED
      BY <2>2, <2>4, <2>5
  <1>4. ASSUME NEW m \in Meshes, ForceRelease(m) PROVE W(m, Gone)
    BY <1>0, <1>4 DEF ForceRelease, UserWrite, WriteCR, Phase
  <1>5. ASSUME NEW m \in Meshes, Begin(m), ~UNCHANGED <<cr, forced>>
        PROVE  \E v \in CR : W(m, v)
    <2> DEFINE v == [seen[m] EXCEPT !.fin = TRUE]
    <2>1. /\ seen[m] = cr[m] /\ cr[m] \in CR /\ cr[m] # Gone /\ ~cr[m].deleting /\ ~cr[m].fin
          /\ cr' = [cr EXCEPT ![m] = v] /\ UNCHANGED <<pushed, forced>>
      BY <1>0, <1>5 DEF Begin, AddFinalizer, WriteCR, users
    <2>2. v \in CR /\ v.fin /\ ~v.deleting
      BY <2>1 DEF CR
    <2> HIDE DEF v
    <2>3. Phase(cr[m]) = "plain" /\ Phase(v) = "held"
      BY <1>0, <2>1, <2>2 DEF Phase
    <2> QED
      BY <2>1, <2>2, <2>3
  <1>6. ASSUME Validate \/ Finish, ~UNCHANGED <<cr, forced>>
        PROVE  \E v \in CR : W(op.mesh, v)
    <2>1. PICK ready \in {"True", "False"} : cr' = [cr EXCEPT ![op.mesh].ready = ready]
      BY <1>6 DEF Validate, Finish, WriteStatus, users
    <2>2. ~op.old /\ op.pc # "idle" /\ UNCHANGED <<pushed, forced>>
      BY <1>6 DEF Validate, Finish, WriteStatus, users
    <2> DEFINE v == [cr[op.mesh] EXCEPT !.ready = ready]
    <2>3. /\ cr[op.mesh] \in CR /\ v \in CR /\ v.deleting = cr[op.mesh].deleting
          /\ v.fin = cr[op.mesh].fin /\ op.mesh \in Meshes
      BY <1>0, <2>2 DEF CR
    <2>4. cr' = [cr EXCEPT ![op.mesh] = v]
      BY <2>1
    <2> HIDE DEF v
    <2>5. Phase(cr[op.mesh]) = Phase(v)
      BY <1>0, <2>3 DEF Phase
    <2> QED
      BY <2>2, <2>3, <2>4, <2>5
  <1>7. ASSUME DropFinalizer, ~UNCHANGED <<cr, forced>> PROVE W(op.mesh, Gone) /\ op.mesh \in Meshes
    <2>1. /\ ~op.old /\ op.pc # "idle" /\ op.copy.deleting /\ UNCHANGED <<pushed, forced>>
          /\ cr' = [cr EXCEPT ![op.mesh] = Gone]
      BY <1>7 DEF DropFinalizer, users
    <2> QED
      BY <1>0, <2>1 DEF Phase
  <1> HIDE DEF W
  <1>8. (\E m \in Meshes, v \in CR \cup {Gone} : W(m, v)) \/ UNCHANGED <<cr, forced>>
    <2>1. CASE Environment
      BY <2>1, <1>1, <1>2, <1>3, <1>4 DEF Environment, ToggleNodes, ToggleSecret, Outage, Recover,
         InstallKilo, Crash, users
    <2>2. CASE (\E m \in Meshes : Deliver(m)) \/ WatcherRestart
      BY <2>2 DEF Deliver, WatcherRestart, users
    <2>3. CASE \E m \in Meshes : Begin(m)
      BY <2>3, <1>5
    <2>4. CASE (\E s \in Clusters : NextSource(s)) \/ (\E t \in Clusters : Push(t))
               \/ SweepStale \/ SweepOrphans
      BY <2>4 DEF NextSource, Push, SweepStale, SweepOrphans, Sweep, users
    <2>5. CASE Validate \/ Finish \/ DropFinalizer
      BY <2>5, <1>0, <1>6, <1>7 DEF Validate, Finish, DropFinalizer
    <2> QED
      BY <2>1, <2>2, <2>3, <2>4, <2>5 DEF Next, Step
  <1> QED
    BY <1>8 DEF W

\* The controller implements module MeshOwnership: with caches that lag, conflicts,
\* restarts and lost deletions, a mesh under the finalizer goes only by way of a
\* deletion, and Peers of a mesh appear only while the operator holds it.
THEOREM Refinement == Spec => ImplementsOwnership
  <1> DEFINE ph == [m \in Meshes |-> Phase(cr[m])]
             mk == {<<x[1], x[3]>> : x \in pushed}
  <1>1. Init => Ownership!Init
    <2> SUFFICES ASSUME Init PROVE Ownership!Init
      OBVIOUS
    <2>1. ASSUME NEW m \in Meshes PROVE Phase(cr[m]) \in {"absent", "plain"}
      <3>1. CASE cr[m] = Gone
        BY <3>1 DEF Phase
      <3>2. CASE cr[m] # Gone
        <4>1. PICK x \in Options[m] : cr[m] = Fresh(x)
          BY <3>2 DEF Init, Exists
        <4>2. cr[m].deleting = FALSE /\ cr[m].fin = FALSE
          BY <4>1 DEF Fresh
        <4> QED BY <3>2, <4>2 DEF Phase
      <3> QED BY <3>1, <3>2
    <2>2. mk = {}
      BY DEF Init
    <2> QED
      BY <2>1, <2>2 DEF Init, Ownership!Init
  <1>2. ASSUME AliveInv, Next PROVE [Ownership!Next]_(Ownership!vars)
    <2>0. /\ cr \in [Meshes -> CR \cup {Gone}]
          /\ pushed \subseteq Meshes \X Clusters \X Clusters
          /\ pushed' \subseteq Meshes \X Clusters \X Clusters
      BY <1>2, NextIInv DEF AliveInv, IInv, TypeOK
    <2>1. CASE UNCHANGED <<cr, forced>> /\ pushed' \subseteq pushed
      <3>1. mk' \subseteq mk /\ ph' = ph
        BY <2>1
      <3> QED
        BY <2>1, <3>1 DEF Ownership!Next, Ownership!Shrink
    <2>2. ASSUME UNCHANGED <<cr, forced>>, NEW m \in Meshes, NEW s \in Clusters, NEW t \in Clusters,
                 pushed' = pushed \cup {<<m, s, t>>}, m \in forced \/ (cr[m] # Gone /\ cr[m].fin)
          PROVE  Ownership!Spread(m, t)
      <3>1. mk' = mk \cup {<<m, t>>}
        <4> DEFINE new == <<m, s, t>>
        <4>1. pushed' = pushed \cup {new} /\ new[1] = m /\ new[3] = t
          BY <2>2
        <4> HIDE DEF new
        <4>2. mk' = {<<x[1], x[3]>> : x \in pushed \cup {new}}
          BY <4>1
        <4>3. ASSUME NEW y PROVE y \in mk' <=> y \in mk \/ y = <<new[1], new[3]>>
          BY <4>2, Zenon
        <4> QED
          BY <4>1, <4>3
      <3>2. ph[m] \in {"held", "leaving"} \/ m \in forced
        BY <2>2 DEF Phase
      <3>3. ph' = ph
        BY <2>2
      <3> QED
        BY <2>2, <3>1, <3>2, <3>3 DEF Ownership!Spread
    <2>3. ASSUME UNCHANGED pushed, NEW m \in Meshes, NEW v \in CR \cup {Gone},
                 cr' = [cr EXCEPT ![m] = v]
          PROVE  mk' = mk /\ ph' = [ph EXCEPT ![m] = Phase(v)]
      BY <2>0, <2>3 DEF Phase
    <2>4. CASE ~UNCHANGED <<cr, forced>>
      <3>1. UNCHANGED pushed
        BY <1>2, <2>4, ObjectStep DEF AliveInv
      <3>2. PICK m \in Meshes, v \in CR \cup {Gone} :
                /\ cr' = [cr EXCEPT ![m] = v]
                /\ \/ UNCHANGED forced /\ <<Phase(cr[m]), Phase(v)>> \in
                        {<<"absent", "plain">>, <<"plain", "absent">>, <<"plain", "held">>,
                         <<"held", "leaving">>, <<"leaving", "absent">>}
                   \/ UNCHANGED forced /\ Phase(cr[m]) = Phase(v)
                   \/ /\ forced' = forced \cup {m}
                      /\ Phase(cr[m]) = "leaving" /\ Phase(v) = "absent"
        BY <1>2, <2>4, ObjectStep DEF AliveInv
      <3>3. mk' = mk /\ ph' = [ph EXCEPT ![m] = Phase(v)] /\ ph[m] = Phase(cr[m])
        BY <2>3, <3>1, <3>2
      <3> HIDE DEF ph, mk
      <3>4. CASE UNCHANGED forced /\ Phase(cr[m]) = Phase(v)
        <4>1. ph' = ph
          BY <3>3, <3>4 DEF ph
        <4> QED
          BY <3>3, <3>4, <4>1 DEF Ownership!vars, ph, mk
      <3>5. CASE forced' = forced \cup {m} /\ Phase(cr[m]) = "leaving" /\ Phase(v) = "absent"
        <4>1. Ownership!Tear(m)
          BY <3>3, <3>5 DEF Ownership!Tear, Ownership!Move, ph, mk
        <4> QED
          BY <4>1 DEF Ownership!Next
      <3>6. CASE UNCHANGED forced /\ <<Phase(cr[m]), Phase(v)>> \in
                    {<<"absent", "plain">>, <<"plain", "absent">>, <<"plain", "held">>,
                     <<"held", "leaving">>, <<"leaving", "absent">>}
        <4>1. Ownership!Create(m) \/ Ownership!Withdraw(m) \/ Ownership!Hold(m) \/ Ownership!Ask(m)
              \/ Ownership!Release(m)
          BY <3>3, <3>6 DEF Ownership!Create, Ownership!Withdraw, Ownership!Hold, Ownership!Ask,
             Ownership!Release, Ownership!Move, ph, mk
        <4> QED
          BY <4>1 DEF Ownership!Next
      <3> QED
        BY <3>2, <3>4, <3>5, <3>6
    <2> QED
      BY <1>2, <2>1, <2>2, <2>4, PushedStep DEF AliveInv, Ownership!Next
  <1>3. UNCHANGED vars => UNCHANGED Ownership!vars
    BY DEF vars, users, Ownership!vars, Phase
  <1>4. AliveInv /\ [Next]_vars => [Ownership!Next]_(Ownership!vars)
    BY <1>2, <1>3
  <1> QED
    BY <1>1, <1>4, AliveInductive, PTL DEF Spec, ImplementsOwnership, Ownership!Spec

-----------------------------------------------------------------------------
(* No mesh is forgotten.                                                   *)

\* A mesh that can be forgotten: neither an event, a retry, a timer nor the worker
\* has it.
Forgotten(m) == cr[m] # Gone /\ m \notin queue \cup behind /\ op.mesh # m

\* A step loses sight of a mesh only by writing Ready=False to it.
LEMMA NextIdleBlocked == IInv /\ IdleMeshesBlocked /\ [Next]_vars => IdleMeshesBlocked'
  <1> SUFFICES ASSUME IInv, IdleMeshesBlocked, [Next]_vars, NEW m \in Meshes, Forgotten(m)'
               PROVE  cr'[m].ready = "False"
    BY DEF IdleMeshesBlocked, Forgotten
  <1>0. /\ cr \in [Meshes -> CR \cup {Gone}] /\ op \in OpType /\ Idle.mesh = "none"
        /\ m \notin behind => seen[m] = cr[m]
        /\ seen[m] # Gone /\ seen[m].deleting => seen[m].fin
        /\ op.pc # "idle" => op.mesh \in Meshes
        /\ op.pc = "idle" => op.mesh = "none"
        /\ m # "none" /\ TypeOK
    BY ConstantsAssumption DEF IInv, TypeOK, CopiesSound, Idle
  <1>1. CASE cr'[m] = cr[m] /\ Forgotten(m)
    BY <1>1 DEF IdleMeshesBlocked, Forgotten
  <1>2. ASSUME NEW x \in Meshes, NEW v \in CR \cup {Gone}, WriteCR(x, v, op), queue \subseteq queue' \cup {x}
        PROVE  cr'[m].ready = "False"
    <2>1. op'.mesh = op.mesh /\ cr'[m] = (IF m = x THEN v ELSE cr[m])
      BY <1>0, <1>2, WriteCRTyped
    <2>2. behind' = behind \cup {x}
      BY <1>2 DEF WriteCR
    <2> QED
      BY <1>1, <1>2, <2>1, <2>2 DEF Forgotten
  <1>3. CASE Environment
    <2>1. ASSUME NEW x \in Meshes, NEW v \in CR \cup {Gone}, UserWrite(x, v)
          PROVE  cr'[m].ready = "False"
      BY <1>2, <2>1 DEF UserWrite
    <2>2. ASSUME NEW x \in Meshes, NEW y \in Options[x], Create(x, y) PROVE cr'[m].ready = "False"
      <3>1. Fresh(y) \in CR
        BY ConstantsAssumption DEF Fresh, CR
      <3> QED
        BY <2>1, <2>2, <3>1 DEF Create
    <2>3. ASSUME NEW x \in Meshes, NEW y \in Options[x], Edit(x, y) PROVE cr'[m].ready = "False"
      <3>1. y \in [spec : SUBSET Clusters, cidr : Cidrs \cup {Invalid}]
        BY ConstantsAssumption
      <3>2. cr[x] \in CR
        BY <1>0, <2>3 DEF Edit
      <3>3. [cr[x] EXCEPT !.spec = y.spec, !.cidr = y.cidr] \in CR
        BY <3>1, <3>2 DEF CR
      <3> QED
        BY <2>1, <2>3, <3>3 DEF Edit
    <2>4. ASSUME NEW x \in Meshes, Delete(x) \/ ForceRelease(x) PROVE cr'[m].ready = "False"
      <3>1. cr[x] \in CR
        BY <1>0, <2>4 DEF Delete, ForceRelease
      <3>2. [cr[x] EXCEPT !.deleting = TRUE] \in CR
        BY <3>1 DEF CR
      <3>3. \E v \in CR \cup {Gone} : UserWrite(x, v)
        BY <2>4, <3>2 DEF Delete, ForceRelease
      <3> QED
        BY <2>1, <3>3
    <2>5. CASE \E c \in Clusters : \/ \E noticed \in BOOLEAN : ToggleNodes(c, noticed)
                                   \/ ToggleSecret(c) \/ Outage(c) \/ Recover(c) \/ InstallKilo(c)
      <3>1. /\ UNCHANGED <<cr, behind, op>> /\ queue \subseteq queue'
        BY <2>5 DEF ToggleNodes, ToggleSecret, Outage, Recover, InstallKilo
      <3> QED
        BY <1>1, <3>1 DEF Forgotten
    <2>6. CASE Crash
      BY <2>6 DEF Crash, Start, Exists, Forgotten
    <2> QED
      BY <1>3, <2>2, <2>3, <2>4, <2>5, <2>6 DEF Environment
  <1>4. CASE WatcherRestart
    BY <1>4 DEF WatcherRestart, Start, Exists, Forgotten
  <1>5. CASE \E x \in Meshes : Deliver(x)
    BY <1>1, <1>5 DEF Deliver, Forgotten
  <1>6. ASSUME NEW x \in Meshes, Begin(x) PROVE cr'[m].ready = "False"
    <2>0. op.pc = "idle" /\ x \in queue
      BY <1>6 DEF Begin
    <2>1. CASE (seen[x] # Gone => seen[x].deleting /\ ~seen[x].fin) /\ queue' = queue \ {x}
               /\ UNCHANGED <<cr, behind, op>>
      BY <1>0, <1>1, <2>1 DEF Forgotten
    <2>2. CASE seen[x] # Gone /\ ~seen[x].deleting /\ ~seen[x].fin /\ AddFinalizer(x)
      <3>1. seen[x] \in CR
        BY <1>0, <2>2 DEF TypeOK
      <3>2. [seen[x] EXCEPT !.fin = TRUE] \in CR
        BY <3>1 DEF CR
      <3>3. CASE x \in behind
        BY <1>1, <2>2, <3>3 DEF AddFinalizer, Forgotten
      <3>4. CASE x \notin behind
        BY <1>2, <2>2, <3>2, <3>4 DEF AddFinalizer
      <3> QED
        BY <3>3, <3>4
    <2>3. CASE seen[x] # Gone /\ seen[x].fin /\ queue' = queue \ {x} /\ UNCHANGED <<cr, behind>>
               /\ op' = IF seen[x].deleting
                        THEN [Reading(x) EXCEPT !.pc = "sources", !.left = seen[x].spec]
                        ELSE [Reading(x) EXCEPT !.pc = "validate"]
      <3>1. seen[x] \in CR /\ seen[x].spec \in SUBSET Clusters
        BY <1>0, <2>3 DEF TypeOK, CR
      <3>2. Reading(x) \in OpType /\ Reading(x).mesh = x
        BY <3>1, ReadingTyped
      <3> HIDE DEF Reading
      <3>3. op'.mesh = x
        BY <2>3, <3>1, <3>2 DEF OpType
      <3> QED
        BY <1>0, <1>1, <2>0, <2>3, <3>3 DEF Forgotten
    <2> QED
      BY <1>6, <2>1, <2>2, <2>3 DEF Begin
  <1>7. ASSUME op.pc # "idle", UNCHANGED <<cr, behind>>,
               \/ op'.mesh = op.mesh /\ queue' = queue
               \/ Requeue
        PROVE  cr'[m].ready = "False"
    BY <1>0, <1>1, <1>7 DEF Requeue, Forgotten
  <1>8. ASSUME op.pc # "idle", NEW ready, WriteStatus(ready, Requeue) \/ (WriteStatus(ready, Done) /\ ready = "False")
        PROVE  cr'[m].ready = "False"
    <2>1. CASE op.old
      BY <1>7, <1>8, <2>1 DEF WriteStatus
    <2>2. CASE ~op.old
      <3>1. /\ cr' = [cr EXCEPT ![op.mesh].ready = ready] /\ behind \subseteq behind'
            /\ queue \subseteq queue'
            /\ op.mesh \in queue' \/ ready = "False"
        BY <1>8, <2>2 DEF WriteStatus, Requeue, Done
      <3>2. CASE m = op.mesh
        <4>1. cr[m] \in CR
          BY <1>0, <1>8, <2>2, <3>2 DEF IInv, CopiesSound, TypeOK
        <4> QED
          BY <1>0, <3>1, <3>2, <4>1 DEF Forgotten, CR
      <3>3. CASE m # op.mesh
        BY <1>0, <1>1, <3>1, <3>3 DEF Forgotten
      <3> QED
        BY <3>2, <3>3
    <2> QED
      BY <2>1, <2>2
  <1>9. CASE Step
    <2>1. CASE Validate
      <3>1. op.copy.spec \in SUBSET Clusters /\ op.pc = "validate"
        BY <2>1 DEF Validate, IInv, TypeOK, CR
      <3>2. [op EXCEPT !.pc = "sources", !.left = op.copy.spec].mesh = op.mesh
        BY <1>0, <3>1 DEF OpType
      <3> QED
        BY <1>7, <1>8, <2>1, <3>1, <3>2 DEF Validate
    <2>2. CASE \E s \in Clusters : NextSource(s)
      <3>1. op.pc # "idle" /\ UNCHANGED <<cr, behind, queue>>
        BY <2>2 DEF NextSource
      <3>2. op'.mesh = op.mesh
        <4>1. PICK s \in Clusters : NextSource(s)
          BY <2>2
        <4> DEFINE pass == [op EXCEPT !.pc = "targets", !.src = s, !.left = @ \ {s},
                                      !.todo = op.copy.spec \ {s}]
        <4>2. ASSUME NEW b \in BOOLEAN, op' = [pass EXCEPT !.want = b] PROVE op'.mesh = op.mesh
          BY <1>0, <4>2 DEF OpType
        <4>3. CASE op' = [op EXCEPT !.left = @ \ {s}]
          BY <1>0, <4>3 DEF OpType
        <4>4. \/ op' = [pass EXCEPT !.want = FALSE]
              \/ op' = [op EXCEPT !.left = @ \ {s}]
              \/ op' = [pass EXCEPT !.want = s \in valid]
          BY <4>1, Zenon DEF NextSource
        <4>5. (s \in valid) \in BOOLEAN /\ FALSE \in BOOLEAN
          OBVIOUS
        <4> QED
          BY <4>2, <4>3, <4>4, <4>5, Zenon
      <3> QED
        BY <1>7, <3>1, <3>2
    <2>3. ASSUME NEW t \in Clusters, Push(t) PROVE cr'[m].ready = "False"
      <3>1. op.pc # "idle" /\ UNCHANGED <<cr, behind>>
        BY <2>3 DEF Push
      <3>2. Requeue \/ (queue' = queue /\ op'.mesh = op.mesh)
        BY <1>0, <2>3, PushEnds DEF TickedOff, Requeue
      <3> QED
        BY <1>7, <3>1, <3>2
    <2>4. CASE DropFinalizer
      <3>1. CASE op.old
        BY <1>7, <2>4, <3>1 DEF DropFinalizer
      <3>2. CASE ~op.old
        <4>1. /\ cr' = [cr EXCEPT ![op.mesh] = Gone] /\ behind \subseteq behind'
              /\ queue = queue' /\ op.pc # "idle"
          BY <2>4, <3>2 DEF DropFinalizer, Done
        <4> QED
          BY <1>0, <1>1, <4>1 DEF Forgotten
      <3> QED
        BY <3>1, <3>2
    <2>5. CASE SweepStale \/ SweepOrphans
      <3>1. /\ op.pc # "idle" /\ UNCHANGED <<cr, behind, queue>>
            /\ \E pc \in {"orphans", "status"} : op' = [op EXCEPT !.pc = pc]
        BY <2>5 DEF SweepStale, SweepOrphans, Sweep
      <3>2. op'.mesh = op.mesh
        BY <1>0, <3>1 DEF OpType
      <3> QED
        BY <1>7, <3>1, <3>2
    <2>6. CASE Finish
      BY <1>8, <2>6 DEF Finish
    <2> QED
      BY <1>9, <2>1, <2>2, <2>3, <2>4, <2>5, <2>6 DEF Step
  <1>10. CASE UNCHANGED vars
    BY <1>1, <1>10 DEF vars, Forgotten
  <1> QED
    BY <1>3, <1>4, <1>5, <1>6, <1>9, <1>10 DEF Next

\* No mesh is forgotten: one that neither an event, a retry nor a timer will bring
\* back to the worker is one that validation stopped, and its status says so.
THEOREM NoMeshForgotten == Spec => []IdleMeshesBlocked
  <1>1. Init => IdleMeshesBlocked
    BY DEF Init, IdleMeshesBlocked, Exists
  <1> QED
    BY <1>1, InitIInv, NextIInv, NextIdleBlocked, PTL DEF Spec

-----------------------------------------------------------------------------
(* What the loops over sources and targets have achieved.                  *)

\* A deletion: of the pairs it has been through, those with Peers left have no client
\* for the target, or the error was logged.
Cleared(o, P, R) ==
    o.pc \in {"sources", "targets"} /\ o.copy.deleting =>
        \A s, t \in o.copy.spec :
            /\ s \notin o.left /\ t \in R /\ <<o.mesh, s, t>> \in P
            /\ o.pc = "targets" /\ s = o.src => t \notin o.todo
            => <<o.mesh, s, t>> \in o.missed

\* The source in hand has Peers, or none, in the targets that were visited.
Spread(o, P, R) ==
    o.pc = "targets" /\ ~o.copy.deleting =>
        \A t \in (o.copy.spec \cap R) \ (o.todo \cup {o.src}) :
            (<<o.mesh, o.src, t>> \in P) = o.want

\* The sources that are done have Peers in all targets or in none.
Alike(o, P, R) ==
    o.pc \in {"sources", "targets", "orphans"} /\ ~o.copy.deleting =>
        \A s \in (o.copy.spec \cap R) \ o.left : \A t, u \in (o.copy.spec \cap R) \ {s} :
            ~(o.pc = "targets" /\ s = o.src) /\ <<o.mesh, s, t>> \in P => <<o.mesh, s, u>> \in P

\* No cluster has Peers of its own, and the loops are where they should be.
LoopsSound(o, P, R) ==
    /\ \A m \in Meshes, c \in Clusters : <<m, c, c>> \notin P
    /\ o.pc = "targets" => o.src \notin o.todo
    /\ o.pc = "orphans" => o.left = {} /\ ~o.copy.deleting
    /\ Cleared(o, P, R) /\ Spread(o, P, R) /\ Alike(o, P, R)

LoopsInv == AliveInv /\ LoopsSound(op, pushed, registry)

\* Only these fields of a reconcile matter.
LEMMA SameLoops ==
    ASSUME NEW o, NEW n, NEW P, NEW R, LoopsSound(o, P, R),
           n.pc = o.pc, n.mesh = o.mesh, n.copy = o.copy, n.src = o.src, n.left = o.left,
           n.todo = o.todo, n.want = o.want, n.missed = o.missed
    PROVE  LoopsSound(n, P, R)
    BY DEF LoopsSound, Cleared, Spread, Alike

\* A reconcile that is not in the loops has achieved nothing yet, and one that is at the
\* start of them has no source behind it.
LEMMA NoLoops ==
    ASSUME NEW o, NEW P, NEW R, \A m \in Meshes, c \in Clusters : <<m, c, c>> \notin P,
           o.pc \in {"idle", "validate", "status"} \/ (o.pc = "sources" /\ o.left = o.copy.spec)
    PROVE  LoopsSound(o, P, R)
    BY DEF LoopsSound, Cleared, Spread, Alike

\* The next source is taken, or passed over for want of a client.
LEMMA NextSourceLoops ==
    ASSUME LoopsInv, NEW s \in Clusters, NextSource(s)
    PROVE  LoopsSound(op', pushed, registry)
  <1> DEFINE pass == [op EXCEPT !.pc = "targets", !.src = s, !.left = @ \ {s},
                                !.todo = op.copy.spec \ {s}]
  <1>0. op \in OpType /\ op.pc = "sources" /\ op.copy \in CR /\ op.mesh \in Meshes
    BY DEF LoopsInv, AliveInv, IInv, TypeOK, NextSource
  <1>1. ASSUME NEW b \in BOOLEAN, op' = [pass EXCEPT !.want = b]
        PROVE  LoopsSound(op', pushed, registry)
    <2>1. /\ op'.pc = "targets" /\ op'.mesh = op.mesh /\ op'.copy = op.copy /\ op'.src = s
          /\ op'.left = op.left \ {s} /\ op'.todo = op.copy.spec \ {s} /\ op'.missed = op.missed
      BY <1>0, <1>1 DEF OpType
    <2>2. Cleared(op', pushed, registry)
      BY <1>0, <2>1 DEF LoopsInv, LoopsSound, Cleared, CR
    <2>3. Spread(op', pushed, registry)
      BY <2>1 DEF Spread
    <2>4. Alike(op', pushed, registry)
      BY <1>0, <2>1 DEF LoopsInv, LoopsSound, Alike
    <2> QED
      BY <2>1, <2>2, <2>3, <2>4 DEF LoopsInv, LoopsSound
  <1>2. CASE ~op.copy.deleting /\ s \notin registry /\ op' = [op EXCEPT !.left = @ \ {s}]
    <2>1. /\ op'.pc = "sources" /\ op'.mesh = op.mesh /\ op'.copy = op.copy
          /\ op'.left = op.left \ {s}
      BY <1>0, <1>2 DEF OpType
    <2> QED
      BY <1>0, <1>2, <2>1 DEF LoopsInv, LoopsSound, Cleared, Spread, Alike
  <1>3. \/ op' = [pass EXCEPT !.want = FALSE]
        \/ ~op.copy.deleting /\ s \notin registry /\ op' = [op EXCEPT !.left = @ \ {s}]
        \/ op' = [pass EXCEPT !.want = s \in valid]
    BY Zenon DEF NextSource
  <1>4. (s \in valid) \in BOOLEAN /\ FALSE \in BOOLEAN
    OBVIOUS
  <1> QED
    BY <1>1, <1>2, <1>3, <1>4, Zenon

\* A target is visited.
LEMMA PushLoops ==
    ASSUME LoopsInv, NEW t \in Clusters, Push(t)
    PROVE  LoopsSound(op', pushed', registry)
  <1>0. /\ op \in OpType /\ op.pc = "targets" /\ op.copy \in CR /\ op.mesh \in Meshes
        /\ op.src \in Clusters /\ TypeOK /\ op.want \in BOOLEAN
        /\ pushed \subseteq Meshes \X Clusters \X Clusters
    BY DEF LoopsInv, AliveInv, IInv, TypeOK, Push, OpType
  <1>1. LoopsSound(op, pushed, registry) /\ (op.copy.deleting => ~op.want)
    BY DEF LoopsInv, AliveInv, WantsAlive
  <1>2. /\ t \in op.todo /\ op.src # t
        /\ pushed' = pushed \/ pushed' = Goal(t)
    BY <1>0, <1>1, PushEnds DEF LoopsSound
  <1>3. \A m \in Meshes, c \in Clusters : <<m, c, c>> \notin pushed'
    <2> SUFFICES ASSUME NEW m \in Meshes, NEW c \in Clusters PROVE <<m, c, c>> \notin pushed'
      OBVIOUS
    <2>1. <<m, c, c>> \notin pushed
      BY <1>1 DEF LoopsSound
    <2>2. <<m, c, c>> # Cell(t)
      BY <1>2 DEF Cell
    <2> QED
      BY <1>2, <2>1, <2>2 DEF Goal
  <1>4. CASE op' = Idle
    BY <1>3, <1>4, NoLoops DEF Idle
  <1>5. CASE TickedOff(op', t)
    <2>0. \/ pushed' = Goal(t) /\ op'.missed = op.missed
          \/ pushed' = pushed /\ op'.missed = op.missed /\ t \notin registry
          \/ /\ pushed' = pushed /\ op'.missed = op.missed \cup {Cell(t)}
             /\ op.copy.deleting
      <3>1. op' # Idle
        BY <1>5 DEF TickedOff, Idle
      <3> QED
        BY <1>0, <3>1, PushEnds
    <2>1. Cleared(op', pushed', registry)
      <3> SUFFICES ASSUME op.copy.deleting, NEW x \in op.copy.spec, NEW y \in op.copy.spec,
                          x \notin op'.left, y \in registry, <<op.mesh, x, y>> \in pushed',
                          op'.pc = "targets" /\ x = op'.src => y \notin op'.todo
                   PROVE  <<op.mesh, x, y>> \in op'.missed
        BY <1>5 DEF Cleared, TickedOff
      <3>1. pushed' \subseteq pushed /\ x \notin op.left /\ op.missed \subseteq op'.missed
        BY <1>1, <1>5, <2>0 DEF Goal, TickedOff
      <3>2. CASE x = op.src /\ y = t
        <4>1. <<op.mesh, x, y>> = Cell(t)
          BY <3>2 DEF Cell
        <4>2. pushed' # Goal(t)
          BY <1>1, <4>1 DEF Goal
        <4> QED
          BY <2>0, <3>2, <4>1, <4>2
      <3>3. CASE ~(x = op.src /\ y = t)
        <4>1. x = op.src => y \notin op.todo
          BY <1>5, <3>3 DEF TickedOff
        <4> QED
          BY <1>0, <1>1, <3>1, <4>1 DEF LoopsSound, Cleared
      <3> QED
        BY <3>2, <3>3
    <2>2. ASSUME ~op.copy.deleting, NEW x \in (op.copy.spec \cap registry) \ {op.src},
                 x \notin op.todo \/ x = t
          PROVE  (<<op.mesh, op.src, x>> \in pushed') = op.want
      <3>1. x \notin op.todo => (<<op.mesh, op.src, x>> \in pushed) = op.want
        BY <1>0, <1>1, <2>2 DEF LoopsSound, Spread
      <3>2. CASE x = t
        <4>1. pushed' = Goal(t)
          BY <2>0, <2>2, <3>2
        <4> QED
          BY <1>0, <3>2, <4>1 DEF Goal, Cell
      <3>3. CASE x # t
        BY <1>0, <1>2, <2>2, <3>1, <3>3 DEF Goal, Cell
      <3> QED
        BY <3>2, <3>3
    <2>3. Spread(op', pushed', registry)
      BY <1>5, <2>2 DEF Spread, TickedOff
    <2>4. Alike(op', pushed', registry)
      <3> SUFFICES ASSUME ~op.copy.deleting, NEW x \in (op.copy.spec \cap registry) \ op.left,
                          NEW y \in (op.copy.spec \cap registry) \ {x},
                          NEW z \in (op.copy.spec \cap registry) \ {x},
                          ~(op'.pc = "targets" /\ x = op'.src), <<op.mesh, x, y>> \in pushed'
                   PROVE  <<op.mesh, x, z>> \in pushed'
        BY <1>5 DEF Alike, TickedOff
      <3>1. CASE x = op.src
        <4>1. op.todo \subseteq {t}
          BY <1>5, <3>1 DEF TickedOff
        <4> QED
          BY <2>2, <3>1, <4>1
      <3>2. CASE x # op.src
        <4>1. \A c \in {y, z} : <<op.mesh, x, c>> \in pushed' <=> <<op.mesh, x, c>> \in pushed
          BY <1>2, <3>2 DEF Goal, Cell
        <4> QED
          BY <1>0, <1>1, <3>2, <4>1 DEF LoopsSound, Alike
      <3> QED
        BY <3>1, <3>2
    <2>5. op'.pc # "orphans" /\ (op'.pc = "targets" => op'.src \notin op'.todo)
      BY <1>0, <1>1, <1>5 DEF LoopsSound, TickedOff
    <2> QED
      BY <1>3, <2>1, <2>3, <2>4, <2>5 DEF LoopsSound
  <1> QED
    BY <1>0, <1>4, <1>5, PushEnds

\* The sweep for stale sources takes no Peers of pairs that the spec lists.
LEMMA SweepStaleLoops ==
    ASSUME LoopsInv, SweepStale
    PROVE  LoopsSound(op', pushed', registry)
  <1>0. /\ op \in OpType /\ op.pc = "sources" /\ op.left = {} /\ ~op.copy.deleting
        /\ op.copy \in CR /\ op' = [op EXCEPT !.pc = "orphans"]
    BY DEF LoopsInv, AliveInv, IInv, TypeOK, SweepStale
  <1>1. /\ op'.pc = "orphans" /\ op'.mesh = op.mesh /\ op'.copy = op.copy /\ op'.left = {}
    BY <1>0 DEF OpType
  <1>2. pushed' \subseteq pushed /\ pushed \ pushed' \subseteq Stale
    BY DEF SweepStale, Sweep, SweepAll
  <1>3. \A s, t \in op.copy.spec : <<op.mesh, s, t>> \in pushed' <=> <<op.mesh, s, t>> \in pushed
    <2> SUFFICES ASSUME NEW s \in op.copy.spec, NEW t \in op.copy.spec
                 PROVE  <<op.mesh, s, t>> \notin Stale
      BY <1>2
    <2>1. {s, t} \cap op.copy.spec = {s, t}
      OBVIOUS
    <2> QED
      BY <2>1 DEF Stale
  <1>4. Alike(op', pushed', registry)
    BY <1>0, <1>1, <1>3 DEF LoopsInv, LoopsSound, Alike
  <1>5. Cleared(op', pushed', registry) /\ Spread(op', pushed', registry)
    BY <1>1 DEF Cleared, Spread
  <1>6. \A m \in Meshes, c \in Clusters : <<m, c, c>> \notin pushed'
    BY <1>2 DEF LoopsInv, LoopsSound
  <1> QED
    BY <1>0, <1>1, <1>4, <1>5, <1>6 DEF LoopsSound

\* The start of a reconcile, and its validation.
LEMMA BeginLoops ==
    ASSUME LoopsInv, (\E m \in Meshes : Begin(m)) \/ Validate
    PROVE  LoopsSound(op', pushed', registry')
  <1>0. /\ op \in OpType /\ UNCHANGED <<pushed, registry>> /\ LoopsSound(op, pushed, registry)
        /\ \A m \in Meshes, c \in Clusters : <<m, c, c>> \notin pushed
    BY DEF LoopsInv, AliveInv, IInv, TypeOK, LoopsSound, Begin, Validate, process
  <1>1. CASE op' = op
    BY <1>0, <1>1
  <1>2. CASE \/ op'.pc \in {"idle", "validate"}
             \/ op'.pc = "sources" /\ op'.left = op'.copy.spec
    BY <1>0, <1>2, NoLoops
  <1>3. ASSUME NEW m \in Meshes, Begin(m) PROVE LoopsSound(op', pushed', registry')
    <2>1. CASE seen[m] # Gone /\ seen[m].fin
      <3>1. seen[m] \in CR /\ seen[m].spec \in SUBSET Clusters
        BY <2>1 DEF LoopsInv, AliveInv, IInv, TypeOK, CR
      <3>2. Reading(m) \in OpType /\ Reading(m).copy = seen[m]
        BY <3>1, ReadingTyped
      <3>3. \/ op' = [Reading(m) EXCEPT !.pc = "sources", !.left = seen[m].spec]
            \/ op' = [Reading(m) EXCEPT !.pc = "validate"]
        BY <1>3, <2>1 DEF Begin
      <3> HIDE DEF Reading
      <3>4. \/ op'.pc = "validate"
            \/ op'.pc = "sources" /\ op'.left = seen[m].spec /\ op'.copy = seen[m]
        BY <3>1, <3>2, <3>3 DEF OpType
      <3> QED
        BY <1>2, <3>4
    <2>2. CASE ~(seen[m] # Gone /\ seen[m].fin)
      <3>1. op' = op
        BY <1>3, <2>2 DEF Begin, AddFinalizer, WriteCR
      <3> QED
        BY <1>1, <3>1
    <2> QED
      BY <2>1, <2>2
  <1>4. CASE Validate
    <2>1. op' = Idle \/ op' = [op EXCEPT !.pc = "sources", !.left = op.copy.spec]
      BY <1>4 DEF Validate, WriteStatus, Done, Requeue
    <2>2. CASE op' = Idle
      BY <1>2, <2>2 DEF Idle
    <2>3. CASE op' = [op EXCEPT !.pc = "sources", !.left = op.copy.spec]
      <3>1. op'.pc = "sources" /\ op'.left = op.copy.spec /\ op'.copy = op.copy
        BY <1>0, <2>3 DEF OpType
      <3> QED
        BY <1>2, <3>1
    <2> QED
      BY <2>1, <2>2, <2>3
  <1> QED
    BY <1>3, <1>4

\* Every step keeps LoopsInv.
LEMMA LoopsInductive == (Init => LoopsInv) /\ (LoopsInv /\ [Next]_vars => LoopsInv')
  <1>1. ASSUME Init PROVE LoopsSound(op, pushed, registry)
    BY <1>1, NoLoops DEF Init, Idle
  <1>2. ASSUME LoopsInv, [Next]_vars PROVE LoopsSound(op', pushed', registry')
    <2>0. /\ LoopsSound(op, pushed, registry) /\ TypeOK
          /\ \A m \in Meshes, c \in Clusters : <<m, c, c>> \notin pushed
      BY <1>2 DEF LoopsInv, AliveInv, IInv, LoopsSound
    <2>1. CASE UNCHANGED <<op, pushed, registry>>
      BY <2>0, <2>1
    <2>2. CASE op'.pc \in {"idle", "status"} /\ pushed' \subseteq pushed
      BY <2>0, <2>2, NoLoops
    <2>3. ASSUME NEW m \in Meshes, NEW v \in CR \cup {Gone}, UserWrite(m, v)
          PROVE  LoopsSound(op', pushed', registry')
      <3>1. WriteCR(m, v, op) /\ UNCHANGED <<pushed, registry>>
        BY <2>3 DEF UserWrite, process
      <3>2. /\ op'.pc = op.pc /\ op'.mesh = op.mesh /\ op'.copy = op.copy /\ op'.src = op.src
            /\ op'.left = op.left /\ op'.todo = op.todo /\ op'.want = op.want
            /\ op'.missed = op.missed
        BY <2>0, <3>1, WriteCRTyped
      <3> QED
        BY <2>0, <3>1, <3>2, SameLoops
    <2>4. CASE Environment
      <3>1. ASSUME NEW m \in Meshes, NEW x \in Options[m], Create(m, x) \/ Edit(m, x)
            PROVE  LoopsSound(op', pushed', registry')
        <4>1. x \in [spec : SUBSET Clusters, cidr : Cidrs \cup {Invalid}]
          BY ConstantsAssumption
        <4>2. Fresh(x) \in CR
          BY <4>1 DEF Fresh, CR
        <4>3. cr[m] # Gone => [cr[m] EXCEPT !.spec = x.spec, !.cidr = x.cidr] \in CR
          <5>1. cr[m] \in CR \cup {Gone}
            BY <2>0 DEF TypeOK
          <5>2. x.spec \subseteq Clusters /\ x.cidr \in Cidrs \cup {Invalid}
            BY <4>1
          <5> QED
            BY <5>1, <5>2 DEF CR
        <4> QED
          BY <2>3, <3>1, <4>2, <4>3 DEF Create, Edit
      <3>2. ASSUME NEW m \in Meshes, Delete(m) \/ ForceRelease(m)
            PROVE  LoopsSound(op', pushed', registry')
        <4>0. cr[m] \in CR \cup {Gone}
          BY <2>0 DEF TypeOK
        <4>1. cr[m] # Gone => [cr[m] EXCEPT !.deleting = TRUE] \in CR
          BY <4>0 DEF CR
        <4> QED
          BY <2>3, <3>2, <4>1 DEF Delete, ForceRelease
      <3>3. CASE Crash
        BY <2>2, <3>3 DEF Crash, Start, Idle
      <3> QED
        BY <2>1, <2>4, <3>1, <3>2, <3>3 DEF Environment, ToggleNodes, ToggleSecret, Outage,
           Recover, InstallKilo, process
    <2>5. CASE (\E m \in Meshes : Deliver(m)) \/ UNCHANGED vars
      BY <2>1, <2>5 DEF Deliver, vars, process
    <2>6. CASE WatcherRestart \/ DropFinalizer \/ Finish
      BY <2>2, <2>6 DEF WatcherRestart, Start, DropFinalizer, Finish, WriteStatus, Done, Requeue, Idle
    <2>7. CASE (\E m \in Meshes : Begin(m)) \/ Validate
      BY <1>2, <2>7, BeginLoops
    <2>8. CASE \E s \in Clusters : NextSource(s)
      <3>1. UNCHANGED <<pushed, registry>>
        BY <2>8 DEF NextSource, process
      <3> QED
        BY <1>2, <2>8, <3>1, NextSourceLoops
    <2>9. CASE \E t \in Clusters : Push(t)
      <3>1. UNCHANGED registry
        BY <2>9 DEF Push
      <3> QED
        BY <1>2, <2>9, <3>1, PushLoops
    <2>10. CASE SweepStale
      <3>1. UNCHANGED registry
        BY <2>10 DEF SweepStale, Sweep
      <3> QED
        BY <1>2, <2>10, <3>1, SweepStaleLoops
    <2>11. CASE SweepOrphans
      <3>1. op'.pc = "status" /\ pushed' \subseteq pushed
        BY <2>0, <2>11 DEF SweepOrphans, Sweep, SweepAll, TypeOK, OpType
      <3> QED
        BY <2>2, <3>1
    <2> QED
      BY <1>2, <2>4, <2>5, <2>6, <2>7, <2>8, <2>9, <2>10, <2>11 DEF Next, Step
  <1>3. ASSUME LoopsInv, [Next]_vars PROVE AliveInv'
    BY <1>3, AliveInductive DEF LoopsInv
  <1> QED
    BY <1>1, <1>2, <1>3, AliveInductive DEF LoopsInv

\* A reconcile that gets past its passes has given each source with a client Peers in all
\* targets with a client, or in none.
THEOREM TargetsAlike == Spec => []AllTargetsAlike
  <1>1. LoopsInv => AllTargetsAlike
    BY DEF LoopsInv, LoopsSound, Alike, AllTargetsAlike
  <1> QED
    BY <1>1, LoopsInductive, PTL DEF Spec

\* When the operator lets go of a mesh, what is left of it is of clusters the spec no
\* longer lists, in clusters without a client, or where an error was logged.
THEOREM LeftoversExplained == Spec => ReleasedExplained
  <1> DEFINE A == \A m \in Meshes : cr[m] # Gone /\ cr'[m] = Gone /\ changes' = changes =>
                    \A s, t \in Clusters : <<m, s, t>> \in pushed' =>
                        \/ ~({s, t} \subseteq cr[m].spec)
                        \/ t \notin registry
                        \/ <<m, s, t>> \in op.missed
  <1>1. ASSUME LoopsInv, Next PROVE A
    <2> SUFFICES ASSUME NEW m \in Meshes, cr[m] # Gone, cr'[m] = Gone, changes' = changes,
                        NEW s \in Clusters, NEW t \in Clusters, <<m, s, t>> \in pushed',
                        s \in cr[m].spec, t \in cr[m].spec, t \in registry
                 PROVE  <<m, s, t>> \in op.missed
      OBVIOUS
    <2>1. /\ cr \in [Meshes -> CR \cup {Gone}] /\ Gone \notin CR
          /\ changes \in Nat /\ IInv
      BY <1>1, ConstantsAssumption DEF LoopsInv, AliveInv, IInv, TypeOK
    <2>2. cr' # cr /\ changes' # changes + 1
      <3>1. cr' # cr
        OBVIOUS
      <3>2. \A n \in Nat : n # n + 1
        OBVIOUS
      <3> QED
        BY <2>1, <3>1, <3>2
    <2>3. ~Environment /\ ~WatcherRestart /\ ~Deliver(m)
      BY <2>2 DEF Environment, Create, Edit, Delete, ForceRelease, UserWrite, ToggleNodes,
         ToggleSecret, Outage, Recover, InstallKilo, Crash, Change, WatcherRestart, Deliver
    <2>4. ASSUME NEW x \in Meshes, Begin(x) PROVE FALSE
      <3>1. x \notin behind /\ seen[x] # Gone /\ WriteCR(x, [seen[x] EXCEPT !.fin = TRUE], op)
        BY <2>2, <2>4 DEF Begin, AddFinalizer
      <3>2. seen[x] \in CR
        BY <2>1, <3>1 DEF IInv, TypeOK
      <3>3. [seen[x] EXCEPT !.fin = TRUE] \in CR
        BY <3>2 DEF CR
      <3> QED
        BY <2>1, <3>1, <3>3 DEF WriteCR
    <2>5. ASSUME Validate \/ Finish PROVE FALSE
      <3>1. PICK ready \in {"True", "False"} : ~op.old /\ WriteStatus(ready, TRUE)
        BY <2>2, <2>5 DEF Validate, Finish, WriteStatus
      <3>2. op.pc # "idle"
        BY <2>5 DEF Validate, Finish
      <3> QED
        BY <2>1, <3>1, <3>2, WriteStatusKeeps
    <2>6. DropFinalizer
      BY <1>1, <2>2, <2>3, <2>4, <2>5 DEF Next, Step, Deliver, NextSource, Push, SweepStale,
         SweepOrphans, Sweep
    <2>7. /\ m = op.mesh /\ cr[m] = op.copy /\ pushed' = pushed
          /\ op.pc = "sources" /\ op.left = {} /\ op.copy.deleting
      BY <2>1, <2>2, <2>6 DEF DropFinalizer, IInv, TypeOK, CopiesSound
    <2> QED
      BY <1>1, <2>7 DEF LoopsInv, LoopsSound, Cleared
  <1>2. LoopsInv /\ [Next]_vars => [A]_vars
    BY <1>1
  <1> QED
    BY <1>2, LoopsInductive, PTL DEF Spec, ReleasedExplained

=============================================================================
