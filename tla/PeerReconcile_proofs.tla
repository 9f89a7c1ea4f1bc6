------------------------ MODULE PeerReconcile_proofs ------------------------
(***************************************************************************)
(* Theorems about PeerReconcile for every set of meshes, sources, nodes,   *)
(* keys and names, every cache lag and every number of outside changes.    *)
(***************************************************************************)
EXTENDS PeerReconcile, SequenceTheorems, TLAPS

-----------------------------------------------------------------------------
(* What the helpers return.                                                *)

\* The empty listing is a map of peers.
LEMMA EmptyType == Empty \in PeerMap /\ \A n \in Names : Empty[n] = NoPeer
BY DEF Empty, PeerMap

\* A worker between two reconciles has the type of one in a reconcile.
LEMMA IdleType == Idle \in OpType /\ Idle.pc = "idle"
BY EmptyType DEF Idle, OpType

\* buildDesiredPeers yields well-formed peers that carry the labels of the mesh
\* and the source, each under a name generated from them.
LEMMA DesiredType ==
    ASSUME NEW m \in Meshes, NEW s \in Sources,
           nodes \in [Sources \X Nodes -> Keys \cup {NoKey}]
    PROVE  /\ Desired(m, s) \in PeerMap
           /\ \A n \in Present(Desired(m, s)) :
                /\ Desired(m, s)[n].mesh = MeshLabel[m]
                /\ Desired(m, s)[n].src = s
                /\ NamedFor(n, MeshLabel[m], s)
<1> DEFINE Fit(n, x) == n = PeerName[<<MeshLabel[m], s, x>>] /\ nodes[<<s, x>>] # NoKey
           Of(x) == [mesh |-> MeshLabel[m], src |-> s,
                     key |-> nodes[<<s, x>>], ips |-> NodeIPs[<<m, s, x>>]]
           Pick(n) == CHOOSE y \in Nodes : Fit(n, y)
<1>1. Desired(m, s) = [n \in Names |-> IF \E x \in Nodes : Fit(n, x) THEN Of(Pick(n)) ELSE NoPeer]
  BY DEF Desired
<1>2. ASSUME NEW n \in Names, \E x \in Nodes : Fit(n, x)
      PROVE  Pick(n) \in Nodes /\ Fit(n, Pick(n))
  BY <1>2
<1>3. ASSUME NEW x \in Nodes, nodes[<<s, x>>] # NoKey
      PROVE  Of(x) \in Peer /\ Of(x).mesh = MeshLabel[m] /\ Of(x).src = s
  BY <1>3, ConstantsAssumption DEF Peer
<1> HIDE DEF Fit, Of, Pick
<1>4. ASSUME NEW n \in Names, \E x \in Nodes : Fit(n, x)
      PROVE  Of(Pick(n)) \in Peer /\ Of(Pick(n)).mesh = MeshLabel[m] /\ Of(Pick(n)).src = s
             /\ NamedFor(n, MeshLabel[m], s)
  BY <1>2, <1>3, <1>4 DEF Fit, NamedFor
<1>5. Desired(m, s) \in PeerMap
  BY <1>1, <1>4 DEF PeerMap
<1>6. QED
  BY <1>1, <1>4, <1>5 DEF Present

\* The label selector returns well-formed peers that carry both labels.
LEMMA MineType ==
    ASSUME NEW list \in PeerMap, NEW l, NEW s
    PROVE  /\ Mine(list, l, s) \in PeerMap
           /\ \A n \in Names : Mine(list, l, s)[n] # NoPeer =>
                /\ Mine(list, l, s)[n] = list[n]
                /\ list[n].mesh = l /\ list[n].src = s
BY DEF Mine, PeerMap

-----------------------------------------------------------------------------
(* Type correctness.                                                       *)

\* The names with an undelivered event are names.
LEMMA PendingType ==
    ASSUME TypeOK
    PROVE  Pending \in SUBSET Names
<1>1. ASSUME NEW i \in 1..Len(watch)
      PROVE  watch[i] \in [name : Names, peer : Peer \cup {NoPeer}]
  BY ElementOfSeq DEF TypeOK
<1>2. QED
  BY <1>1 DEF Pending

\* An accepted write keeps every variable it touches in its type.
LEMMA CommitType ==
    ASSUME TypeOK, NEW n \in Names, NEW p \in Peer \cup {NoPeer}, NEW o \in OpType, Commit(n, p, o)
    PROVE  /\ peers' \in PeerMap /\ view' \in PeerMap
           /\ watch' \in Seq([name : Names, peer : Peer \cup {NoPeer}])
           /\ op' \in OpType /\ op'.pc = o.pc /\ op'.mesh = o.mesh /\ op'.src = o.src
<1>1. peers' \in PeerMap /\ view' \in PeerMap
  BY DEF TypeOK, Commit, PeerMap
<1>2. watch' \in Seq([name : Names, peer : Peer \cup {NoPeer}])
  BY DEF TypeOK, Commit
<1>3. op' \in OpType /\ op'.pc = o.pc /\ op'.mesh = o.mesh /\ op'.src = o.src
  <2>1. o.allOld \cup {n} \in SUBSET Names /\ o.mineOld \cup {n} \in SUBSET Names
    BY DEF OpType
  <2>2. QED
    BY <2>1 DEF Commit, OpType
<1>4. QED
  BY <1>1, <1>2, <1>3

\* So does a refused one.
LEMMA RefusedType ==
    ASSUME TypeOK, NEW o \in OpType, Refused(o)
    PROVE  /\ peers' \in PeerMap /\ view' \in PeerMap
           /\ watch' \in Seq([name : Names, peer : Peer \cup {NoPeer}])
           /\ op' \in OpType /\ op'.pc = o.pc /\ op'.mesh = o.mesh /\ op'.src = o.src
BY DEF Refused, TypeOK, OpType, store

\* Removing a name from the worklist changes nothing else.
LEMMA TodoType ==
    ASSUME NEW o \in OpType, NEW n
    PROVE  LET q == [o EXCEPT !.todo = @ \ {n}]
           IN /\ q \in OpType /\ q.todo = o.todo \ {n} /\ q.pc = o.pc /\ q.mesh = o.mesh
              /\ q.src = o.src /\ q.spec = o.spec /\ q.living = o.living
              /\ q.want = o.want /\ q.all = o.all /\ q.mine = o.mine
              /\ q.allOld = o.allOld /\ q.mineOld = o.mineOld
BY DEF OpType

\* What a single step of reconcileDesired may do: nothing, be refused, or have
\* one write accepted, of the peer it is about or of the canonical one.
LEMMA WriteCases ==
    ASSUME TypeOK, NEW n \in Names, Write(n)
    PROVE  LET o == [op EXCEPT !.todo = @ \ {n}]
           IN /\ op.pc = "write" /\ n \in op.todo /\ op.want[n] # NoPeer
              /\ UNCHANGED <<nodes, phase, sources>> /\ changes' \in Nat
              /\ \/ op' = o /\ UNCHANGED store
                 \/ Refused(o)
                 \/ /\ op.mine[n] = NoPeer /\ peers[n] = NoPeer
                    /\ Commit(n, op.want[n], o)
                 \/ \E c \in Names :
                        /\ op.all[c] # NoPeer /\ c \notin op.allOld
                        /\ Commit(c, [op.all[c] EXCEPT !.ips = @ \cup op.want[n].ips], o)
                 \/ /\ op.mine[n] # NoPeer /\ n \notin op.mineOld
                    /\ Commit(n, [op.mine[n] EXCEPT !.key = op.want[n].key,
                                                    !.ips = op.want[n].ips], o)
<1> DEFINE o == [op EXCEPT !.todo = @ \ {n}]
<1>1. op.pc = "write" /\ n \in op.todo /\ op.want[n] # NoPeer
  BY DEF Write
<1>2. UNCHANGED <<nodes, phase, sources>> /\ changes' \in Nat
  BY DEF Write, TypeOK, world, Change
<1>3. \/ Refused(o)
      \/ op.mine[n] = NoPeer /\ CreateOrMerge(n, o)
      \/ op' = o /\ UNCHANGED store
      \/ op.mine[n] # NoPeer /\ Update(n, [op.mine[n] EXCEPT !.key = op.want[n].key,
                                               !.ips = op.want[n].ips], op.mineOld, o)
  BY DEF Write
<1> HIDE DEF o
<1>4. ASSUME op.mine[n] = NoPeer, CreateOrMerge(n, o)
      PROVE  \/ op' = o /\ UNCHANGED store
             \/ Refused(o)
             \/ peers[n] = NoPeer /\ Commit(n, op.want[n], o)
             \/ \E d \in Names :
                    /\ op.all[d] # NoPeer /\ d \notin op.allOld
                    /\ Commit(d, [op.all[d] EXCEPT !.ips = @ \cup op.want[n].ips], o)
  <2>1. ASSUME NEW c \in Canonical(op.all, op.want[n].key) \ {n}, Merge(c, n, o)
        PROVE  \/ op' = o /\ UNCHANGED store
               \/ Refused(o)
               \/ /\ c \in Names /\ op.all[c] # NoPeer /\ c \notin op.allOld
                  /\ Commit(c, [op.all[c] EXCEPT !.ips = @ \cup op.want[n].ips], o)
    <3>1. c \in Names /\ op.all[c] # NoPeer
      BY DEF Canonical, Holders, Present
    <3>2. QED
      BY <2>1, <3>1 DEF Merge, Update
  <2>2. QED
    BY <1>4, <2>1 DEF CreateOrMerge
<1>5. QED
  BY <1>1, <1>2, <1>3, <1>4 DEF Update, o

\* Every variable keeps its type: the listings and the desired peers a reconcile
\* holds are always maps of well-formed peers, and a reconcile in progress always
\* has a mesh and, inside a pass, a source.
THEOREM TypeCorrect == Spec => []TypeOK
<1>1. Init => TypeOK
  BY IdleType, ConstantsAssumption DEF Init, TypeOK, PeerMap, OpType
<1>2. TypeOK /\ [Next]_vars => TypeOK'
  <2> SUFFICES ASSUME TypeOK, [Next]_vars PROVE TypeOK'
    OBVIOUS
  <2>1. CASE Deliver
    <3>1. Head(watch) \in [name : Names, peer : Peer \cup {NoPeer}]
          /\ Tail(watch) \in Seq([name : Names, peer : Peer \cup {NoPeer}])
      BY <2>1, HeadTailProperties DEF Deliver, TypeOK
    <3>2. view' \in PeerMap
      BY <2>1, <3>1 DEF Deliver, TypeOK, PeerMap
    <3>3. QED
      BY <2>1, <3>1, <3>2 DEF Deliver, TypeOK, world
  <2>2. ASSUME NEW s \in Sources, NEW n \in Nodes, NEW k \in Keys \cup {NoKey}, SetNode(s, n, k)
        PROVE  TypeOK'
    BY <2>2 DEF SetNode, Change, TypeOK, store
  <2>3. ASSUME NEW m \in Meshes, TouchMesh(m)
        PROVE  op' \in OpType /\ op'.pc = op.pc /\ op'.mesh = op.mesh /\ op'.src = op.src
    BY <2>3 DEF TouchMesh, TypeOK, OpType
  <2>4. ASSUME NEW m \in Meshes, NEW S \in SUBSET Sources, EditSpec(m, S)
        PROVE  TypeOK'
    BY <2>3, <2>4 DEF EditSpec, Change, TypeOK, store
  <2>5. ASSUME NEW m \in Meshes, DeleteMesh(m) \/ ForceRelease(m) \/ CreateMesh(m)
        PROVE  TypeOK'
    BY <2>3, <2>5 DEF DeleteMesh, ForceRelease, CreateMesh, Change, TypeOK, store
  <2>6. ASSUME NEW n \in Names, UserDelete(n)
        PROVE  TypeOK'
    <3>1. Commit(n, NoPeer, op) /\ op \in OpType
      BY <2>6 DEF UserDelete, TypeOK
    <3>2. /\ peers' \in PeerMap /\ view' \in PeerMap
          /\ watch' \in Seq([name : Names, peer : Peer \cup {NoPeer}])
          /\ op' \in OpType /\ op'.pc = op.pc /\ op'.mesh = op.mesh /\ op'.src = op.src
      BY <3>1, CommitType
    <3>3. QED
      BY <2>6, <3>2 DEF UserDelete, Change, TypeOK
  <2>7. CASE Restart
    BY <2>7, IdleType DEF Restart, Change, TypeOK
  <2>8. ASSUME NEW m \in Meshes, StartReconcile(m)
        PROVE  TypeOK'
    <3> DEFINE mode == IF phase[m] = "deleting" THEN "delete" ELSE "sync"
    <3>1. mode \in {"sync", "delete"} /\ sources[m] \in SUBSET Sources
      BY DEF TypeOK
    <3>2. op' = [Idle EXCEPT !.pc = "pick", !.mesh = m, !.mode = mode,
                             !.spec = sources[m], !.left = sources[m]]
      BY <2>8 DEF StartReconcile
    <3> HIDE DEF mode
    <3>3. op' \in OpType /\ op'.pc = "pick" /\ op'.mesh = m
      BY <3>1, <3>2, IdleType DEF OpType
    <3>4. QED
      BY <2>8, <3>3 DEF StartReconcile, TypeOK, store, world
  <2>9. ASSUME NEW s \in Sources, ListAll(s)
        PROVE  TypeOK'
    <3>1. (IF op.mode = "sync" THEN Desired(op.mesh, s) ELSE Empty) \in PeerMap
      BY <2>9, DesiredType, EmptyType DEF ListAll, TypeOK
    <3>2. Pending \in SUBSET Names
      BY PendingType
    <3>3. op' \in OpType /\ op'.pc = "list" /\ op'.mesh = op.mesh /\ op'.src = s
      BY <2>9, <3>1, <3>2 DEF ListAll, TypeOK, OpType
    <3>4. QED
      BY <2>9, <3>3 DEF ListAll, TypeOK, store, world
  <2>10. CASE ListMine
    <3> DEFINE mine == Mine(view, MeshLabel[op.mesh], op.src)
    <3>1. mine \in PeerMap
      BY MineType DEF TypeOK
    <3>2. Pending \in SUBSET Names /\ Present(op.want) \cup Present(mine) \in SUBSET Names
      BY PendingType DEF Present
    <3>3. op' \in OpType /\ op'.pc = "write" /\ op'.mesh = op.mesh /\ op'.src = op.src
      BY <2>10, <3>1, <3>2 DEF ListMine, TypeOK, OpType
    <3>4. QED
      BY <2>10, <3>3 DEF ListMine, TypeOK, store, world
  <2>11. ASSUME NEW n \in Names, Write(n)
         PROVE  TypeOK'
    <3> DEFINE o == [op EXCEPT !.todo = @ \ {n}]
    <3>1. o \in OpType /\ o.pc = op.pc /\ o.mesh = op.mesh /\ o.src = op.src
      BY TodoType DEF TypeOK
    <3>2. op.want[n] \in Peer
      BY <2>11, WriteCases, ZenonT(60) DEF TypeOK, OpType, PeerMap
    <3>3. ASSUME NEW c \in Names, op.all[c] # NoPeer
          PROVE  [op.all[c] EXCEPT !.ips = @ \cup op.want[n].ips] \in Peer
      <4>1. op.all[c] \in Peer
        BY <3>3 DEF TypeOK, OpType, PeerMap
      <4>2. QED
        BY <4>1, <3>2 DEF Peer
    <3>4. ASSUME op.mine[n] # NoPeer
          PROVE  [op.mine[n] EXCEPT !.key = op.want[n].key, !.ips = op.want[n].ips] \in Peer
      <4>1. op.mine[n] \in Peer
        BY <3>4 DEF TypeOK, OpType, PeerMap
      <4>2. QED
        BY <4>1, <3>2 DEF Peer
    <3> HIDE DEF o
    <3>5. /\ peers' \in PeerMap /\ view' \in PeerMap
          /\ watch' \in Seq([name : Names, peer : Peer \cup {NoPeer}])
          /\ op' \in OpType /\ op'.pc = op.pc /\ op'.mesh = op.mesh /\ op'.src = op.src
      <4>1. CASE op' = o /\ UNCHANGED store
        BY <4>1, <3>1 DEF TypeOK, store
      <4>2. CASE Refused(o)
        BY <4>2, <3>1, RefusedType
      <4>3. CASE Commit(n, op.want[n], o)
        BY <4>3, <3>1, <3>2, CommitType
      <4>4. ASSUME NEW c \in Names, op.all[c] # NoPeer,
                   Commit(c, [op.all[c] EXCEPT !.ips = @ \cup op.want[n].ips], o)
            PROVE  <3>5!:
        BY <4>4, <3>1, <3>3, CommitType
      <4>5. ASSUME op.mine[n] # NoPeer,
                   Commit(n, [op.mine[n] EXCEPT !.key = op.want[n].key,
                                                !.ips = op.want[n].ips], o)
            PROVE  <3>5!:
        BY <4>5, <3>1, <3>4, CommitType
      <4>6. QED
        BY <2>11, <4>1, <4>2, <4>3, <4>4, <4>5, WriteCases DEF o
    <3>6. QED
      BY <2>11, <3>5, WriteCases DEF TypeOK
  <2>12. ASSUME NEW n \in Names, DeleteOrphan(n) \/ SweepDelete(n)
         PROVE  TypeOK'
    <3> DEFINE o == [op EXCEPT !.todo = @ \ {n}]
    <3>1. o \in OpType /\ o.pc = op.pc /\ o.mesh = op.mesh /\ o.src = op.src
      BY TodoType DEF TypeOK
    <3>2. \/ op' = o /\ UNCHANGED store
          \/ Refused(o)
          \/ Commit(n, NoPeer, o)
      BY <2>12 DEF DeleteOrphan, SweepDelete
    <3>3. UNCHANGED <<nodes, phase, sources>> /\ changes' \in Nat
      BY <2>12 DEF DeleteOrphan, SweepDelete, Change, TypeOK, world
    <3> HIDE DEF o
    <3>4. /\ peers' \in PeerMap /\ view' \in PeerMap
          /\ watch' \in Seq([name : Names, peer : Peer \cup {NoPeer}])
          /\ op' \in OpType /\ op'.pc = op.pc /\ op'.mesh = op.mesh /\ op'.src = op.src
      <4>1. CASE op' = o /\ UNCHANGED store
        BY <4>1, <3>1 DEF TypeOK, store
      <4>2. CASE Refused(o)
        BY <4>2, <3>1, RefusedType
      <4>3. CASE Commit(n, NoPeer, o)
        BY <4>3, <3>1, CommitType
      <4>4. QED
        BY <3>2, <4>1, <4>2, <4>3
    <3>5. QED
      BY <3>3, <3>4 DEF TypeOK
  <2>13. CASE EndPass
    <3>1. \/ op' = Idle
          \/ op' \in OpType /\ op'.pc = "pick" /\ op'.mesh = op.mesh
      BY <2>13, EmptyType, ZenonT(60) DEF EndPass, TypeOK, OpType
    <3>2. op' \in OpType /\ (op'.pc # "idle" => op'.mesh \in Meshes) /\ op'.pc \notin {"list", "write"}
      BY <2>13, <3>1, IdleType DEF EndPass, TypeOK
    <3>3. QED
      BY <2>13, <3>2 DEF EndPass, TypeOK, store, world
  <2>14. CASE DropFinalizer \/ EndReconcile
    BY <2>14, IdleType DEF DropFinalizer, EndReconcile, TypeOK, store, world
  <2>15. CASE ListStale
    <3>1. op' \in OpType /\ op'.pc = "stale" /\ op'.mesh = op.mesh
      BY <2>15 DEF ListStale, StaleNames, Present, TypeOK, OpType
    <3>2. QED
      BY <2>15, <3>1 DEF ListStale, TypeOK, store, world
  <2>16. CASE ListOrphans
    <3>1. Living \in SUBSET Labels
      BY ConstantsAssumption DEF Living
    <3>2. op' \in OpType /\ op'.pc = "orphans" /\ op'.mesh = op.mesh
      BY <2>16, <3>1 DEF ListOrphans, OrphanNames, Present, TypeOK, OpType
    <3>3. QED
      BY <2>16, <3>2 DEF ListOrphans, TypeOK, store, world
  <2>17. CASE UNCHANGED vars
    BY <2>17 DEF vars, store, world, TypeOK
  <2>18. QED
    BY <2>1, <2>2, <2>4, <2>5, <2>6, <2>7, <2>8, <2>9, <2>10, <2>11, <2>12, <2>13,
       <2>14, <2>15, <2>16, <2>17 DEF Next, Environment, Step
<1>3. QED
  BY <1>1, <1>2, PTL DEF Spec

-----------------------------------------------------------------------------
(* The cache and the listings.                                             *)

\* An accepted write of an object whose labels match its name keeps the cache
\* behind the API server by exactly the undelivered events.
LEMMA CommitCache ==
    ASSUME TypeOK, CacheSound, NEW n \in Names, NEW p \in Peer \cup {NoPeer}, NEW o,
           Owned(n, p), Commit(n, p, o)
    PROVE  CacheSound'
<1> DEFINE e == [name |-> n, peer |-> p]
<1>1. /\ peers' = [peers EXCEPT ![n] = p] /\ view' = view
      /\ watch' = Append(watch, e)
  BY DEF Commit
<1>2. /\ Len(watch) \in Nat /\ Len(watch') = Len(watch) + 1
      /\ \A i \in 1..Len(watch) : watch'[i] = watch[i]
      /\ watch'[Len(watch) + 1] = e
  BY <1>1, AppendProperties DEF TypeOK
<1>3. /\ peers'[n] = p
      /\ \A x \in Names \ {n} : peers'[x] = peers[x]
  BY <1>1 DEF TypeOK, PeerMap
<1>4. \A x \in Names : Owned(x, peers'[x]) /\ Owned(x, view'[x])
  BY <1>1, <1>3 DEF CacheSound
<1>5. ASSUME NEW i \in 1..Len(watch')
      PROVE  /\ Owned(watch'[i].name, watch'[i].peer)
             /\ (\A j \in 1..Len(watch') : i < j => watch'[j].name # watch'[i].name)
                 => watch'[i].peer = peers'[watch'[i].name]
  <2>1. CASE i = Len(watch) + 1
    BY <2>1, <1>2, <1>3
  <2>2. CASE i \in 1..Len(watch)
    <3>1. watch'[i] = watch[i] /\ Owned(watch[i].name, watch[i].peer) /\ watch[i].name \in Names
      <4>1. watch[i] \in [name : Names, peer : Peer \cup {NoPeer}]
        BY <2>2, ElementOfSeq DEF TypeOK
      <4>2. QED
        BY <2>2, <1>2, <4>1 DEF CacheSound
    <3>2. ASSUME \A j \in 1..Len(watch') : i < j => watch'[j].name # watch'[i].name
          PROVE  watch[i].peer = peers'[watch[i].name]
      <4>1. watch[i].name # n
        BY <3>2, <3>1, <2>2, <1>2
      <4>2. \A j \in 1..Len(watch) : i < j => watch[j].name # watch[i].name
        BY <3>2, <3>1, <2>2, <1>2
      <4>3. QED
        BY <4>1, <4>2, <3>1, <2>2, <1>3 DEF CacheSound
    <3>3. QED
      BY <3>1, <3>2
  <2>3. QED
    BY <1>2, <2>1, <2>2
<1>6. ASSUME NEW x \in Names, x \notin Pending'
      PROVE  view'[x] = peers'[x]
  <2>1. \A i \in 1..Len(watch') : watch'[i].name # x
    BY <1>6 DEF Pending
  <2>2. x # n
    BY <2>1, <1>2
  <2>3. \A i \in 1..Len(watch) : watch[i].name # x
    BY <2>1, <1>2
  <2>4. x \notin Pending
    BY <2>3 DEF Pending
  <2>5. QED
    BY <2>2, <2>4, <1>1, <1>3 DEF CacheSound
<1>7. QED
  BY <1>4, <1>5, <1>6 DEF CacheSound

\* So does the delivery of an event.
LEMMA DeliverCache ==
    ASSUME TypeOK, CacheSound, Deliver
    PROVE  CacheSound'
<1> DEFINE h == Head(watch)
<1>1. /\ watch # <<>> /\ peers' = peers
      /\ view' = [view EXCEPT ![h.name] = h.peer] /\ watch' = Tail(watch)
  BY DEF Deliver
<1>2. /\ Len(watch) \in Nat \ {0} /\ Len(watch') = Len(watch) - 1
      /\ \A i \in 1..Len(watch') : watch'[i] = watch[i + 1]
      /\ h = watch[1] /\ h.name \in Names
  <2>1. /\ h \in [name : Names, peer : Peer \cup {NoPeer}]
        /\ Len(watch') = Len(watch) - 1
        /\ \A i \in 1..Len(watch') : watch'[i] = watch[i + 1]
    BY <1>1, HeadTailProperties DEF TypeOK
  <2>2. Len(watch) \in Nat \ {0}
    BY <1>1, EmptySeq DEF TypeOK
  <2>3. h = watch[1]
    BY <1>1 DEF TypeOK
  <2>4. QED
    BY <2>1, <2>2, <2>3
<1>3. /\ view'[h.name] = h.peer
      /\ \A x \in Names \ {h.name} : view'[x] = view[x]
  BY <1>1, <1>2 DEF TypeOK, PeerMap
<1> HIDE DEF h
<1>4. Owned(h.name, h.peer)
  BY <1>2 DEF CacheSound
<1>5. \A x \in Names : Owned(x, peers'[x]) /\ Owned(x, view'[x])
  BY <1>1, <1>3, <1>4 DEF CacheSound
<1>6. ASSUME NEW i \in 1..Len(watch')
      PROVE  /\ Owned(watch'[i].name, watch'[i].peer)
             /\ (\A j \in 1..Len(watch') : i < j => watch'[j].name # watch'[i].name)
                 => watch'[i].peer = peers'[watch'[i].name]
  <2>1. i + 1 \in 1..Len(watch) /\ watch'[i] = watch[i + 1]
    BY <1>2
  <2>2. ASSUME \A j \in 1..Len(watch') : i < j => watch'[j].name # watch'[i].name
        PROVE  \A j \in 1..Len(watch) : i + 1 < j => watch[j].name # watch[i + 1].name
    <3> TAKE j \in 1..Len(watch)
    <3> HAVE i + 1 < j
    <3>1. j - 1 \in 1..Len(watch') /\ i < j - 1 /\ (j - 1) + 1 = j
      BY <1>2
    <3>2. watch'[j - 1] = watch[j]
      BY <3>1, <1>2
    <3>3. QED
      BY <2>1, <2>2, <3>1, <3>2
  <2>3. QED
    BY <2>1, <2>2, <1>1 DEF CacheSound
<1>7. ASSUME NEW x \in Names, x \notin Pending'
      PROVE  view'[x] = peers'[x]
  <2>1. \A i \in 1..Len(watch') : watch'[i].name # x
    BY <1>7 DEF Pending
  <2>2. \A j \in 1..Len(watch) : 1 < j => watch[j].name # x
    <3> TAKE j \in 1..Len(watch)
    <3> HAVE 1 < j
    <3>1. j - 1 \in 1..Len(watch') /\ (j - 1) + 1 = j
      BY <1>2
    <3>2. watch'[j - 1] = watch[j]
      BY <3>1, <1>2
    <3>3. QED
      BY <2>1, <3>1, <3>2
  <2>3. CASE x = h.name
    BY <2>2, <2>3, <1>1, <1>2, <1>3 DEF CacheSound
  <2>4. CASE x # h.name
    <3>1. x \notin Pending
      BY <2>2, <2>4, <1>2 DEF Pending
    <3>2. QED
      BY <3>1, <2>4, <1>1, <1>3 DEF CacheSound
  <2>5. QED
    BY <2>3, <2>4
<1>8. QED
  BY <1>5, <1>6, <1>7 DEF CacheSound

\* A reconcile that holds no listing has nothing that could be out of date.
LEMMA EmptySound ==
    ASSUME NEW o, NEW P, o.want = Empty, o.all = Empty, o.mine = Empty, o.pc \in {"idle", "pick"}
    PROVE  OpSound(o, P)
BY EmptyType DEF OpSound, Owned

\* Nor has a worker between two reconciles.
LEMMA IdleSound == \A P : OpSound(Idle, P)
<1>1. Idle.want = Empty /\ Idle.all = Empty /\ Idle.mine = Empty /\ Idle.pc = "idle"
  BY DEF Idle
<1>2. QED
  BY <1>1, EmptySound

\* Listings stay sound when names leave the worklist and more names count as
\* written, as long as the objects under the other names stay the same.
LEMMA SameListings ==
    ASSUME NEW o, NEW q, NEW P, NEW Q, OpSound(o, P),
           q.pc = o.pc, q.mesh = o.mesh, q.src = o.src, q.spec = o.spec, q.living = o.living,
           q.want = o.want, q.all = o.all, q.mine = o.mine,
           q.todo \subseteq o.todo, o.allOld \subseteq q.allOld, o.mineOld \subseteq q.mineOld,
           o.pc \in {"list", "write"} =>
               \A n \in Names : n \notin q.allOld \/ n \notin q.mineOld => Q[n] = P[n]
    PROVE  OpSound(q, Q)
<1>1. \A n \in Names : Owned(n, q.all[n]) /\ Owned(n, q.mine[n]) /\ Owned(n, q.want[n])
  BY DEF OpSound
<1>2. ASSUME q.pc \in {"list", "write"}
      PROVE  /\ \A n \in Names : n \notin q.allOld => q.all[n] = Q[n]
             /\ \A n \in Names : q.want[n] # NoPeer =>
                    q.want[n].mesh = MeshLabel[q.mesh] /\ q.want[n].src = q.src
  BY <1>2 DEF OpSound
<1>3. ASSUME q.pc = "write"
      PROVE  /\ \A n \in Names : q.mine[n] # NoPeer =>
                    /\ q.mine[n].mesh = MeshLabel[q.mesh] /\ q.mine[n].src = q.src
                    /\ n \notin q.mineOld => q.mine[n] = Q[n]
             /\ \A n \in q.todo : q.want[n] # NoPeer \/ q.mine[n] # NoPeer
  BY <1>3 DEF OpSound
<1>4. /\ q.pc = "stale" =>
            \A n \in q.todo : \E s \in Sources \ q.spec : NamedFor(n, MeshLabel[q.mesh], s)
      /\ q.pc = "orphans" =>
            \A n \in q.todo : \E l \in Labels \ q.living, s \in Sources : NamedFor(n, l, s)
  BY DEF OpSound
<1>5. QED
  BY <1>1, <1>2, <1>3, <1>4 DEF OpSound

\* An accepted write counts as newer than the listings, so they stay sound.
LEMMA CommitListings ==
    ASSUME TypeOK, NEW n \in Names, NEW p, NEW o \in OpType, OpSound(o, peers), Commit(n, p, o)
    PROVE  OpSound(op', peers')
<1>1. /\ op'.pc = o.pc /\ op'.mesh = o.mesh /\ op'.src = o.src /\ op'.spec = o.spec
      /\ op'.living = o.living /\ op'.want = o.want /\ op'.all = o.all /\ op'.mine = o.mine
      /\ op'.todo = o.todo
  BY DEF Commit, OpType
<1>2. o.allOld \subseteq op'.allOld /\ o.mineOld \subseteq op'.mineOld
  BY DEF Commit, OpType
<1>3. o.pc \in {"list", "write"} => n \in op'.allOld /\ n \in op'.mineOld
  BY DEF Commit, OpType
<1>4. \A x \in Names \ {n} : peers'[x] = peers[x]
  BY DEF Commit, TypeOK, PeerMap
<1>5. o.pc \in {"list", "write"} =>
        \A x \in Names : x \notin op'.allOld \/ x \notin op'.mineOld => peers'[x] = peers[x]
  BY <1>3, <1>4
<1>6. QED
  BY <1>1, <1>2, <1>5, SameListings

\* So do the listings of a reconcile whose call was refused.
LEMMA RefusedListings ==
    ASSUME NEW o \in OpType, OpSound(o, peers), Refused(o)
    PROVE  OpSound(op', peers')
<1>1. /\ op'.pc = o.pc /\ op'.mesh = o.mesh /\ op'.src = o.src /\ op'.spec = o.spec
      /\ op'.living = o.living /\ op'.want = o.want /\ op'.all = o.all /\ op'.mine = o.mine
      /\ op'.todo = o.todo /\ op'.allOld = o.allOld /\ op'.mineOld = o.mineOld
      /\ peers' = peers
  BY DEF Refused, OpType, store
<1>2. QED
  BY <1>1, SameListings

\* Taking a name off the worklist keeps them sound.
LEMMA TodoListings ==
    ASSUME NEW o \in OpType, NEW n, OpSound(o, peers)
    PROVE  OpSound([o EXCEPT !.todo = @ \ {n}], peers)
<1> DEFINE q == [o EXCEPT !.todo = @ \ {n}]
<1>1. /\ q.todo \subseteq o.todo /\ q.pc = o.pc /\ q.mesh = o.mesh
      /\ q.src = o.src /\ q.spec = o.spec /\ q.living = o.living
      /\ q.want = o.want /\ q.all = o.all /\ q.mine = o.mine
      /\ q.allOld = o.allOld /\ q.mineOld = o.mineOld
  BY TodoType
<1> HIDE DEF q
<1>2. OpSound(q, peers)
  BY <1>1, SameListings
<1>3. QED
  BY <1>2 DEF q

\* An object that keeps its labels keeps matching its name.
LEMMA SameLabels ==
    ASSUME NEW n, NEW p \in Peer, NEW q \in Peer, Owned(n, p), q.mesh = p.mesh, q.src = p.src
    PROVE  Owned(n, q)
BY ConstantsAssumption DEF Owned

\* Every write of reconcileDesired keeps both.
LEMMA WriteSound ==
    ASSUME TypeOK, ListingsSound, NEW n \in Names, Write(n)
    PROVE  ListingsSound'
<1> DEFINE o == [op EXCEPT !.todo = @ \ {n}]
           merged(c) == [op.all[c] EXCEPT !.ips = @ \cup op.want[n].ips]
           updated == [op.mine[n] EXCEPT !.key = op.want[n].key, !.ips = op.want[n].ips]
<1>1. o \in OpType /\ OpSound(o, peers)
  BY TodoType, TodoListings DEF TypeOK, ListingsSound
<1>2. op.want[n] \in Peer
  BY WriteCases, ZenonT(60) DEF TypeOK, OpType, PeerMap
<1>3. ASSUME NEW c \in Names, op.all[c] # NoPeer
      PROVE  merged(c) \in Peer /\ Owned(c, merged(c))
  <2>1. op.all[c] \in Peer /\ Owned(c, op.all[c])
    BY <1>3 DEF TypeOK, OpType, PeerMap, ListingsSound, OpSound
  <2>2. merged(c) \in Peer /\ merged(c).mesh = op.all[c].mesh /\ merged(c).src = op.all[c].src
    BY <2>1, <1>2 DEF Peer
  <2>3. QED
    BY <2>1, <2>2, SameLabels
<1>4. ASSUME op.mine[n] # NoPeer
      PROVE  updated \in Peer /\ Owned(n, updated)
  <2>1. op.mine[n] \in Peer /\ Owned(n, op.mine[n])
    BY <1>4 DEF TypeOK, OpType, PeerMap, ListingsSound, OpSound
  <2>2. updated \in Peer /\ updated.mesh = op.mine[n].mesh /\ updated.src = op.mine[n].src
    BY <2>1, <1>2 DEF Peer
  <2>3. QED
    BY <2>1, <2>2, SameLabels
<1>5. Owned(n, op.want[n])
  BY DEF ListingsSound, OpSound
<1>6. ASSUME NEW c \in Names, NEW p \in Peer, Owned(c, p), Commit(c, p, o)
      PROVE  ListingsSound'
  BY <1>1, <1>6, CommitCache, CommitListings DEF ListingsSound
<1> HIDE DEF o, merged, updated
<1>7. CASE op' = o /\ UNCHANGED store
  BY <1>1, <1>7 DEF ListingsSound, CacheSound, Pending, store
<1>8. CASE Refused(o)
  <2>1. CacheSound'
    BY <1>8 DEF Refused, ListingsSound, CacheSound, Pending, store
  <2>2. QED
    BY <1>1, <1>8, <2>1, RefusedListings DEF ListingsSound
<1>9. QED
  <2>1. \/ op' = o /\ UNCHANGED store
        \/ Refused(o)
        \/ Commit(n, op.want[n], o)
        \/ \E c \in Names : op.all[c] # NoPeer /\ Commit(c, merged(c), o)
        \/ op.mine[n] # NoPeer /\ Commit(n, updated, o)
    BY WriteCases DEF o, merged, updated
  <2>2. QED
    BY <2>1, <1>2, <1>3, <1>4, <1>5, <1>6, <1>7, <1>8

\* A delete, in a pass or in a sweep, keeps both.
LEMMA DeleteSound ==
    ASSUME TypeOK, ListingsSound, NEW n \in Names, DeleteOrphan(n) \/ SweepDelete(n)
    PROVE  ListingsSound'
<1> DEFINE o == [op EXCEPT !.todo = @ \ {n}]
<1>1. o \in OpType /\ OpSound(o, peers)
  BY TodoType, TodoListings DEF TypeOK, ListingsSound
<1>2. \/ op' = o /\ UNCHANGED store
      \/ Refused(o)
      \/ Commit(n, NoPeer, o)
  BY DEF DeleteOrphan, SweepDelete
<1> HIDE DEF o
<1>3. CASE op' = o /\ UNCHANGED store
  BY <1>1, <1>3 DEF ListingsSound, CacheSound, Pending, store
<1>4. CASE Refused(o)
  <2>1. CacheSound'
    BY <1>4 DEF Refused, ListingsSound, CacheSound, Pending, store
  <2>2. QED
    BY <1>1, <1>4, <2>1, RefusedListings DEF ListingsSound
<1>5. CASE Commit(n, NoPeer, o)
  <2>1. Owned(n, NoPeer)
    BY DEF Owned
  <2>2. QED
    BY <1>1, <1>5, <2>1, CommitCache, CommitListings DEF ListingsSound
<1>6. QED
  BY <1>2, <1>3, <1>4, <1>5

\* The first listing of a pass, and the desired peers.
LEMMA ListAllSound ==
    ASSUME TypeOK, ListingsSound, NEW s \in Sources, ListAll(s)
    PROVE  OpSound(op', peers')
<1> DEFINE want == IF op.mode = "sync" THEN Desired(op.mesh, s) ELSE Empty
<1>1. op.mesh \in Meshes /\ peers' = peers
  BY DEF ListAll, TypeOK, store
<1>2. /\ op'.pc = "list" /\ op'.src = s /\ op'.mesh = op.mesh /\ op'.want = want
      /\ op'.all = view /\ op'.allOld = Pending /\ op'.mine = op.mine
  BY DEF ListAll, TypeOK, OpType
<1>3. ASSUME NEW n \in Names, want[n] # NoPeer
      PROVE  want[n].mesh = MeshLabel[op.mesh] /\ want[n].src = s /\ NamedFor(n, MeshLabel[op.mesh], s)
  <2>1. want = Desired(op.mesh, s)
    BY <1>3, EmptyType
  <2>2. n \in Present(Desired(op.mesh, s))
    BY <1>3, <2>1 DEF Present
  <2>3. nodes \in [Sources \X Nodes -> Keys \cup {NoKey}]
    BY DEF TypeOK
  <2>4. /\ Desired(op.mesh, s)[n].mesh = MeshLabel[op.mesh] /\ Desired(op.mesh, s)[n].src = s
        /\ NamedFor(n, MeshLabel[op.mesh], s)
    BY <1>1, <2>2, <2>3, DesiredType
  <2> HIDE DEF want
  <2>5. QED
    BY <2>1, <2>4
<1> HIDE DEF want
<1>4. \A n \in Names : Owned(n, want[n])
  BY <1>1, <1>3, ConstantsAssumption DEF Owned
<1>5. QED
  BY <1>1, <1>2, <1>3, <1>4 DEF ListingsSound, CacheSound, OpSound

\* The second listing of a pass, and its worklist.
LEMMA ListMineSound ==
    ASSUME TypeOK, ListingsSound, ListMine
    PROVE  OpSound(op', peers')
<1> DEFINE mine == Mine(view, MeshLabel[op.mesh], op.src)
<1>1. /\ op.pc = "list" /\ peers' = peers
      /\ op'.pc = "write" /\ op'.src = op.src /\ op'.mesh = op.mesh /\ op'.want = op.want
      /\ op'.all = op.all /\ op'.allOld = op.allOld /\ op'.mine = mine /\ op'.mineOld = Pending
      /\ op'.todo = Present(op.want) \cup Present(mine)
  BY DEF ListMine, TypeOK, OpType, store
<1>2. \A n \in Names : mine[n] # NoPeer =>
          mine[n] = view[n] /\ mine[n].mesh = MeshLabel[op.mesh] /\ mine[n].src = op.src
  BY MineType DEF TypeOK
<1> HIDE DEF mine
<1>3. \A n \in Names : Owned(n, mine[n])
  BY <1>2 DEF ListingsSound, CacheSound, Owned
<1>4. \A n \in Names : mine[n] # NoPeer /\ n \notin Pending => mine[n] = peers[n]
  BY <1>2 DEF ListingsSound, CacheSound
<1>5. \A n \in op'.todo : op'.want[n] # NoPeer \/ op'.mine[n] # NoPeer
  BY <1>1 DEF Present
<1>6. \A n \in Names :
        /\ Owned(n, op.all[n]) /\ Owned(n, op.want[n])
        /\ n \notin op.allOld => op.all[n] = peers[n]
        /\ op.want[n] # NoPeer => op.want[n].mesh = MeshLabel[op.mesh] /\ op.want[n].src = op.src
  BY <1>1 DEF ListingsSound, OpSound
<1>7. QED
  BY <1>1, <1>2, <1>3, <1>4, <1>5, <1>6 DEF OpSound

\* The worklists of the two sweeps.
LEMMA SweepListsSound ==
    ASSUME TypeOK, ListingsSound, ListStale \/ ListOrphans
    PROVE  OpSound(op', peers')
<1>1. /\ op.mesh \in Meshes /\ MeshLabel[op.mesh] \in Labels /\ peers' = peers
      /\ op'.mesh = op.mesh /\ op'.spec = op.spec
      /\ op'.want = op.want /\ op'.all = op.all /\ op'.mine = op.mine
  <2>1. op.pc # "idle" /\ peers' = peers
    BY DEF ListStale, ListOrphans, store
  <2>2. op.mesh \in Meshes /\ MeshLabel[op.mesh] \in Labels
    BY <2>1, ConstantsAssumption DEF TypeOK
  <2>3. /\ op'.mesh = op.mesh /\ op'.spec = op.spec
        /\ op'.want = op.want /\ op'.all = op.all /\ op'.mine = op.mine
    <3>1. CASE ListStale
      BY <3>1 DEF ListStale, TypeOK, OpType
    <3>2. CASE ListOrphans
      BY <3>2 DEF ListOrphans, TypeOK, OpType
    <3>3. QED
      BY <3>1, <3>2
  <2>4. QED
    BY <2>1, <2>2, <2>3
<1>2. \A n \in Names : Owned(n, view[n])
  BY DEF ListingsSound, CacheSound
<1>3. CASE ListStale
  <2>1. op'.pc = "stale" /\ op'.todo = StaleNames(view)
    BY <1>3 DEF ListStale, TypeOK, OpType
  <2>2. \A n \in StaleNames(view) : \E s \in Sources \ op.spec : NamedFor(n, MeshLabel[op.mesh], s)
    BY <1>1, <1>2, ConstantsAssumption DEF StaleNames, Present, Owned
  <2>3. QED
    BY <1>1, <2>1, <2>2 DEF ListingsSound, OpSound
<1>4. CASE ListOrphans
  <2>1. op'.pc = "orphans" /\ op'.todo = OrphanNames(view, Living) /\ op'.living = Living
    BY <1>4 DEF ListOrphans, TypeOK, OpType
  <2>2. \A n \in OrphanNames(view, Living) : \E l \in Labels \ Living, s \in Sources : NamedFor(n, l, s)
    BY <1>2 DEF OrphanNames, Present, Owned
  <2>3. QED
    BY <1>1, <2>1, <2>2 DEF ListingsSound, OpSound
<1>5. QED
  BY <1>3, <1>4

\* One step of the system keeps the cache and the listings sound.
LEMMA ListingsStep ==
    ASSUME TypeOK, ListingsSound, [Next]_vars
    PROVE  ListingsSound'
<1>1. ASSUME UNCHANGED store
      PROVE  CacheSound' /\ peers' = peers
  BY <1>1 DEF ListingsSound, CacheSound, Pending, store
<1>2. CASE Deliver
  BY <1>2, DeliverCache DEF ListingsSound, Deliver
<1>3. ASSUME UNCHANGED store, op' = op
      PROVE  ListingsSound'
  BY <1>1, <1>3 DEF ListingsSound
<1>4. ASSUME NEW m \in Meshes, TouchMesh(m), UNCHANGED store
      PROVE  ListingsSound'
  <2>1. /\ op'.pc = op.pc /\ op'.mesh = op.mesh /\ op'.src = op.src /\ op'.spec = op.spec
        /\ op'.living = op.living /\ op'.want = op.want /\ op'.all = op.all /\ op'.mine = op.mine
        /\ op'.todo = op.todo /\ op'.allOld = op.allOld /\ op'.mineOld = op.mineOld
    BY <1>4 DEF TouchMesh, TypeOK, OpType
  <2>2. OpSound(op', peers')
    BY <1>1, <1>4, <2>1, SameListings DEF ListingsSound
  <2>3. QED
    BY <1>1, <1>4, <2>2 DEF ListingsSound
<1>5. ASSUME NEW n \in Names, UserDelete(n)
      PROVE  ListingsSound'
  <2>1. Commit(n, NoPeer, op) /\ op \in OpType /\ Owned(n, NoPeer)
    BY <1>5 DEF UserDelete, TypeOK, Owned
  <2>2. QED
    BY <2>1, CommitCache, CommitListings DEF ListingsSound
<1>6. CASE Restart
  <2>1. op' = Idle /\ view' = peers /\ watch' = <<>> /\ peers' = peers
    BY <1>6 DEF Restart
  <2>2. OpSound(op', peers')
    BY <2>1, IdleSound
  <2>3. CacheSound'
    <3>1. 1..Len(watch') = {}
      BY <2>1
    <3>2. \A n \in Names : Owned(n, peers[n])
      BY DEF ListingsSound, CacheSound
    <3>3. QED
      BY <2>1, <3>1, <3>2 DEF CacheSound
  <2>4. QED
    BY <2>2, <2>3 DEF ListingsSound
<1>7. ASSUME NEW m \in Meshes, StartReconcile(m)
      PROVE  ListingsSound'
  <2>1. /\ op'.want = Empty /\ op'.all = Empty /\ op'.mine = Empty /\ op'.pc = "pick"
        /\ UNCHANGED store
    BY <1>7 DEF StartReconcile, Idle
  <2>2. QED
    BY <1>1, <2>1, EmptySound DEF ListingsSound
<1>8. CASE EndPass
  <2>1. /\ op'.want = Empty /\ op'.all = Empty /\ op'.mine = Empty /\ op'.pc \in {"idle", "pick"}
        /\ UNCHANGED store
    <3>1. CASE op' = Idle
      BY <1>8, <3>1 DEF EndPass, Idle
    <3>2. CASE op' # Idle
      BY <1>8, <3>2 DEF EndPass, TypeOK, OpType
    <3>3. QED
      BY <3>1, <3>2
  <2>2. QED
    BY <1>1, <2>1, EmptySound DEF ListingsSound
<1>9. CASE DropFinalizer \/ EndReconcile
  <2>1. op' = Idle /\ UNCHANGED store
    BY <1>9 DEF DropFinalizer, EndReconcile
  <2>2. OpSound(op', peers')
    BY <2>1, IdleSound
  <2>3. QED
    BY <1>1, <2>1, <2>2 DEF ListingsSound
<1>10. ASSUME NEW s \in Sources, ListAll(s)
       PROVE  ListingsSound'
  BY <1>1, <1>10, ListAllSound DEF ListAll, ListingsSound
<1>11. CASE ListMine
  BY <1>1, <1>11, ListMineSound DEF ListMine, ListingsSound
<1>12. CASE ListStale \/ ListOrphans
  BY <1>1, <1>12, SweepListsSound DEF ListStale, ListOrphans, ListingsSound
<1>13. CASE Environment
  BY <1>3, <1>4, <1>5, <1>6, <1>13
     DEF Environment, SetNode, EditSpec, DeleteMesh, ForceRelease, CreateMesh
<1>14. CASE Step
  BY <1>8, <1>9, <1>10, <1>11, <1>12, <1>14, WriteSound, DeleteSound DEF Step
<1>15. CASE UNCHANGED vars
  BY <1>3, <1>15 DEF vars
<1>16. QED
  BY <1>2, <1>7, <1>13, <1>14, <1>15 DEF Next

\* Whatever users, nodes, the cache, faults and restarts do between its API calls,
\* a reconcile acts on listings whose every object is either current or known to
\* be out of date (so that its Update is refused), and marks for deletion only
\* names that belong to the mesh, source or dead label the deletion is meant for.
THEOREM ListingsAlwaysSound == Spec => []ListingsSound
<1>1. Init => ListingsSound
  <2> SUFFICES ASSUME Init PROVE ListingsSound
    OBVIOUS
  <2>1. \A n \in Names : Owned(n, UserPeers[n])
    BY UserPeersAssumption DEF Owned, NamedFor
  <2>2. CacheSound
    <3>1. peers = UserPeers /\ view = UserPeers /\ 1..Len(watch) = {}
      BY DEF Init
    <3>2. QED
      BY <2>1, <3>1 DEF CacheSound
  <2>3. OpSound(op, peers)
    BY IdleSound DEF Init
  <2>4. QED
    BY <2>2, <2>3 DEF ListingsSound
<1>2. TypeOK /\ ListingsSound /\ [Next]_vars => ListingsSound'
  BY ListingsStep
<1>3. QED
  BY <1>1, <1>2, TypeCorrect, PTL DEF Spec

-----------------------------------------------------------------------------
(* What a reconcile may do to a Peer.                                      *)

\* A name tells the mesh label and the source of the object under it.
LEMMA OwnerUnique ==
    ASSUME NamesUnique, NEW n \in Names, NEW p \in Peer, Owned(n, p),
           NEW l \in Labels, NEW s \in Sources, NamedFor(n, l, s)
    PROVE  p.mesh = l /\ p.src = s
<1>1. p.mesh \in Labels /\ p.src \in Sources /\ NamedFor(n, p.mesh, p.src)
  BY ConstantsAssumption DEF Owned
<1>2. PICK x \in Nodes : n = PeerName[<<p.mesh, p.src, x>>]
  BY <1>1 DEF NamedFor
<1>3. PICK y \in Nodes : n = PeerName[<<l, s, y>>]
  BY DEF NamedFor
<1>4. /\ <<p.mesh, p.src, x>> \in Labels \X Sources \X Nodes
      /\ <<l, s, y>> \in Labels \X Sources \X Nodes
      /\ PeerName[<<p.mesh, p.src, x>>] = PeerName[<<l, s, y>>]
  BY <1>1, <1>2, <1>3
<1>5. <<p.mesh, p.src, x>> = <<l, s, y>>
  BY <1>4, Zenon DEF NamesUnique
<1>6. QED
  BY <1>5

\* A step that leaves the API server's Peers alone has nothing to answer for.
LEMMA NoWrite ==
    ASSUME peers' = peers, NEW n \in Names
    PROVE  LeavesAlone(n) /\ DeletesUnwanted(n)
BY DEF LeavesAlone, DeletesUnwanted

\* What a delete of a pass or a sweep finds under the name it was given.
LEMMA DeleteTarget ==
    ASSUME NamesUnique, TypeOK, ListingsSound, NEW n \in Names, n \in op.todo, peers[n] # NoPeer,
           \/ op.pc = "write" /\ op.want[n] = NoPeer
           \/ op.pc \in {"stale", "orphans"}
    PROVE  \/ /\ op.pc = "write" /\ peers[n].mesh = MeshLabel[op.mesh] /\ peers[n].src = op.src
           \/ /\ op.pc = "stale" /\ peers[n].mesh = MeshLabel[op.mesh]
              /\ peers[n].src \notin op.spec
           \/ /\ op.pc = "orphans" /\ peers[n].mesh \notin op.living \cup {Unlabelled}
<1>1. peers[n] \in Peer /\ Owned(n, peers[n])
  BY DEF TypeOK, PeerMap, ListingsSound, CacheSound
<1>2. op.mesh \in Meshes /\ MeshLabel[op.mesh] \in Labels
  BY ConstantsAssumption DEF TypeOK
<1>3. CASE op.pc = "write" /\ op.want[n] = NoPeer
  <2>1. /\ op.mine[n] # NoPeer /\ Owned(n, op.mine[n]) /\ op.src \in Sources
        /\ op.mine[n].mesh = MeshLabel[op.mesh] /\ op.mine[n].src = op.src
    BY <1>3 DEF TypeOK, ListingsSound, OpSound
  <2>2. NamedFor(n, MeshLabel[op.mesh], op.src)
    BY <1>2, <2>1, ConstantsAssumption DEF Owned
  <2>3. QED
    BY <1>1, <1>2, <1>3, <2>1, <2>2, OwnerUnique
<1>4. CASE op.pc = "stale"
  <2>1. PICK s \in Sources \ op.spec : NamedFor(n, MeshLabel[op.mesh], s)
    BY <1>4 DEF ListingsSound, OpSound
  <2>2. QED
    BY <1>1, <1>2, <1>4, <2>1, OwnerUnique
<1>5. CASE op.pc = "orphans"
  <2>1. PICK l \in Labels \ op.living, s \in Sources : NamedFor(n, l, s)
    BY <1>5 DEF ListingsSound, OpSound
  <2>2. peers[n].mesh = l
    BY <1>1, <2>1, OwnerUnique
  <2>3. QED
    BY <1>5, <2>1, <2>2, ConstantsAssumption
<1>6. QED
  BY <1>3, <1>4, <1>5

\* The deletes of passes and sweeps hit only what they are meant for.
LEMMA DeleteIsolated ==
    ASSUME NamesUnique, TypeOK, ListingsSound, NEW x \in Names, DeleteOrphan(x) \/ SweepDelete(x),
           NEW n \in Names
    PROVE  LeavesAlone(n) /\ DeletesUnwanted(n)
<1>1. /\ x \in op.todo
      /\ \/ op.pc = "write" /\ op.want[x] = NoPeer
         \/ op.pc \in {"stale", "orphans"}
  BY DEF DeleteOrphan, SweepDelete
<1>2. peers' = peers \/ peers' = [peers EXCEPT ![x] = NoPeer]
  BY DEF DeleteOrphan, SweepDelete, Commit, Refused, store
<1>3. CASE peers'[n] = peers[n]
  BY <1>3 DEF LeavesAlone, DeletesUnwanted
<1>4. CASE peers'[n] # peers[n]
  <2>1. n = x /\ peers'[n] = NoPeer /\ peers[n] # NoPeer
    BY <1>2, <1>4 DEF TypeOK, PeerMap
  <2>2. \/ /\ op.pc = "write" /\ peers[n].mesh = MeshLabel[op.mesh] /\ peers[n].src = op.src
        \/ /\ op.pc = "stale" /\ peers[n].mesh = MeshLabel[op.mesh]
           /\ peers[n].src \notin op.spec
        \/ /\ op.pc = "orphans" /\ peers[n].mesh \notin op.living \cup {Unlabelled}
    BY <1>1, <2>1, DeleteTarget
  <2>3. QED
    BY <1>1, <2>1, <2>2 DEF LeavesAlone, DeletesUnwanted
<1>5. QED
  BY <1>3, <1>4

\* The writes of reconcileDesired delete nothing; a merge keeps what is there.
LEMMA WriteIsolated ==
    ASSUME TypeOK, ListingsSound, NEW x \in Names, Write(x), NEW n \in Names
    PROVE  LeavesAlone(n) /\ DeletesUnwanted(n)
<1> DEFINE o == [op EXCEPT !.todo = @ \ {x}]
           merged(c) == [op.all[c] EXCEPT !.ips = @ \cup op.want[x].ips]
           updated == [op.mine[x] EXCEPT !.key = op.want[x].key, !.ips = op.want[x].ips]
<1>1. /\ op.pc = "write" /\ op.want[x] \in Peer
      /\ \/ op' = o /\ UNCHANGED store
         \/ Refused(o)
         \/ peers[x] = NoPeer /\ Commit(x, op.want[x], o)
         \/ \E c \in Names : op.all[c] # NoPeer /\ c \notin op.allOld /\ Commit(c, merged(c), o)
         \/ op.mine[x] # NoPeer /\ x \notin op.mineOld /\ Commit(x, updated, o)
  BY WriteCases DEF TypeOK, OpType, PeerMap
<1>2. CASE peers' = peers
  BY <1>2, NoWrite
<1>3. ASSUME peers[x] = NoPeer, peers' = [peers EXCEPT ![x] = op.want[x]]
      PROVE  LeavesAlone(n) /\ DeletesUnwanted(n)
  BY <1>1, <1>3 DEF LeavesAlone, DeletesUnwanted, TypeOK, PeerMap
<1>4. ASSUME NEW c \in Names, op.all[c] # NoPeer, c \notin op.allOld,
             peers' = [peers EXCEPT ![c] = merged(c)]
      PROVE  LeavesAlone(n) /\ DeletesUnwanted(n)
  <2>1. op.all[c] = peers[c] /\ peers[c] \in Peer
    BY <1>1, <1>4 DEF ListingsSound, OpSound, TypeOK, PeerMap
  <2>2. /\ merged(c) \in Peer /\ merged(c).ips = peers[c].ips \cup op.want[x].ips
        /\ merged(c) = [peers[c] EXCEPT !.ips = merged(c).ips]
    BY <1>1, <2>1 DEF Peer
  <2> HIDE DEF merged
  <2>3. CASE n = c
    <3>1. peers'[n] = merged(c) /\ peers'[n] # NoPeer
      BY <1>4, <2>2, <2>3, ConstantsAssumption DEF TypeOK, PeerMap
    <3>2. QED
      BY <1>1, <2>2, <2>3, <3>1 DEF LeavesAlone, DeletesUnwanted
  <2>4. CASE n # c
    BY <1>4, <2>4 DEF LeavesAlone, DeletesUnwanted, TypeOK, PeerMap
  <2>5. QED
    BY <2>3, <2>4
<1>5. ASSUME op.mine[x] # NoPeer, x \notin op.mineOld, peers' = [peers EXCEPT ![x] = updated]
      PROVE  LeavesAlone(n) /\ DeletesUnwanted(n)
  <2>1. op.mine[x] = peers[x] /\ peers[x] \in Peer /\ peers[x].mesh = MeshLabel[op.mesh]
    BY <1>1, <1>5 DEF ListingsSound, OpSound, TypeOK, PeerMap
  <2>2. updated \in Peer
    BY <1>1, <2>1 DEF Peer
  <2> HIDE DEF updated
  <2>3. QED
    BY <1>5, <2>1, <2>2, ConstantsAssumption DEF LeavesAlone, DeletesUnwanted, TypeOK, PeerMap
<1>6. QED
  BY <1>1, <1>2, <1>3, <1>4, <1>5 DEF Commit, Refused, store

\* Both hold of every step.
LEMMA IsolationStep ==
    ASSUME NamesUnique, TypeOK, ListingsSound, [Next]_vars, Acting
    PROVE  \A n \in Names : LeavesAlone(n) /\ DeletesUnwanted(n)
<1>1. ASSUME Environment PROVE FALSE
  <2>1. changes' = changes + 1 /\ changes \in Nat
    BY <1>1 DEF Environment, SetNode, EditSpec, DeleteMesh, ForceRelease, CreateMesh,
                UserDelete, Restart, Change, TypeOK
  <2>2. QED
    BY <2>1 DEF Acting
<1>2. ASSUME UNCHANGED peers PROVE \A n \in Names : LeavesAlone(n) /\ DeletesUnwanted(n)
  BY <1>2, NoWrite
<1>3. CASE Deliver \/ (\E m \in Meshes : StartReconcile(m)) \/ UNCHANGED vars
  BY <1>2, <1>3 DEF Deliver, StartReconcile, vars, store
<1>4. CASE Step
  <2>1. CASE \E x \in Names : Write(x) \/ DeleteOrphan(x) \/ SweepDelete(x)
    BY <2>1, WriteIsolated, DeleteIsolated
  <2>2. CASE \/ \E s \in Sources : ListAll(s)
             \/ ListMine \/ EndPass \/ DropFinalizer \/ ListStale \/ ListOrphans \/ EndReconcile
    BY <1>2, <2>2 DEF ListAll, ListMine, EndPass, DropFinalizer, ListStale, ListOrphans,
                      EndReconcile, store
  <2>3. QED
    BY <1>4, <2>1, <2>2 DEF Step
<1>5. QED
  BY <1>1, <1>3, <1>4 DEF Next

\* Where generated names are unique, the reconcile of one mesh never harms a Peer
\* of another mesh that exists, nor one made by hand.
THEOREM MeshesIsolated ==
    ASSUME NamesUnique
    PROVE  Spec => Isolation
<1>1. TypeOK /\ ListingsSound /\ [Next]_vars => [Acting => \A n \in Names : LeavesAlone(n)]_vars
  BY IsolationStep
<1>2. QED
  BY <1>1, TypeCorrect, ListingsAlwaysSound, PTL DEF Spec, Isolation

\* Where generated names are unique, a reconcile deletes a Peer of its own mesh only
\* for one of the three reasons the code has for it, however old its listings are.
THEOREM OnlyUnwantedDeleted ==
    ASSUME NamesUnique
    PROVE  Spec => DeletesUnwantedOnly
<1>1. TypeOK /\ ListingsSound /\ [Next]_vars => [Acting => \A n \in Names : DeletesUnwanted(n)]_vars
  BY IsolationStep
<1>2. QED
  BY <1>1, TypeCorrect, ListingsAlwaysSound, PTL DEF Spec, DeletesUnwantedOnly

=============================================================================
