-------------------------- MODULE PeerPass_proofs --------------------------
(***************************************************************************)
(* What one pass of ReconcilePeers achieves, and how a key comes to have   *)
(* two Peers, for every set of meshes, sources, nodes, keys and names.     *)
(*                                                                         *)
(* PassExact is not inductive: a merge may change a Peer that the pass is  *)
(* done with.  It does not, because no two desired peers have one key      *)
(* (WantApart), which in turn holds because no two nodes do (KeysApart);   *)
(* and a Peer of the pair that is not in the listing by labels is one that *)
(* was written since (Missed).                                             *)
(***************************************************************************)
EXTENDS PeerReconcile_proofs, NaturalsInduction, WellFoundedInduction

\* A WireGuard key belongs to one node.
KeysApart ==
    \A x, y \in Sources \X Nodes : nodes[x] = nodes[y] /\ nodes[x] # NoKey => x = y

WantApart(want) ==
    \A n, c \in Names :
        want[n] # NoPeer /\ want[c] # NoPeer /\ want[n].key = want[c].key => n = c

Pair(o, p) == Labelled(p, MeshLabel[o.mesh], o.src)

Missed(o, P) ==
    o.pc = "write" =>
        \A n \in Names : o.mine[n] = NoPeer /\ Pair(o, P[n]) => n \in o.mineOld

\* The pass has nothing left to do for a name, for an object p under it.
Done(o, n, p) ==
    Pair(o, p) =>
        \/ p = o.want[n]
        \/ n \in o.mineOld /\ o.mine[n] \in {NoPeer, o.want[n]}

Exact(o, P) == o.pc = "write" /\ ~o.failed => \A n \in Names \ o.todo : Done(o, n, P[n])

PassOK(o, P) == WantApart(o.want) /\ Missed(o, P) /\ Exact(o, P)

-----------------------------------------------------------------------------
(* What the operators give.                                                *)

\* buildDesiredPeers asks for at most one Peer with a key.
LEMMA DesiredApart ==
    ASSUME TypeOK, KeysApart, NEW m \in Meshes, NEW s \in Sources
    PROVE  WantApart(Desired(m, s))
<1> DEFINE Fit(n, x) == n = PeerName[<<MeshLabel[m], s, x>>] /\ nodes[<<s, x>>] # NoKey
           Of(x) == [mesh |-> MeshLabel[m], src |-> s,
                     key |-> nodes[<<s, x>>], ips |-> NodeIPs[<<m, s, x>>]]
           Pick(n) == CHOOSE y \in Nodes : Fit(n, y)
<1>1. Desired(m, s) = [n \in Names |-> IF \E x \in Nodes : Fit(n, x) THEN Of(Pick(n)) ELSE NoPeer]
  BY DEF Desired
<1>2. ASSUME NEW n \in Names, \E x \in Nodes : Fit(n, x)
      PROVE  Pick(n) \in Nodes /\ Fit(n, Pick(n))
  BY <1>2
<1>3. \A x, y \in Nodes : nodes[<<s, x>>] = nodes[<<s, y>>] /\ nodes[<<s, x>>] # NoKey => x = y
  BY DEF KeysApart
<1>4. ASSUME NEW x, NEW y, Of(x).key = Of(y).key
      PROVE  nodes[<<s, x>>] = nodes[<<s, y>>]
  BY <1>4
<1> HIDE DEF Of, Pick
<1>5. ASSUME NEW n \in Names, NEW c \in Names, Desired(m, s)[n] # NoPeer, Desired(m, s)[c] # NoPeer,
             Desired(m, s)[n].key = Desired(m, s)[c].key
      PROVE  n = c
  <2>1. /\ \E x \in Nodes : Fit(n, x)
        /\ \E x \in Nodes : Fit(c, x)
    BY <1>1, <1>5
  <2>2. Of(Pick(n)).key = Of(Pick(c)).key
    BY <1>1, <1>5, <2>1
  <2>3. /\ Pick(n) \in Nodes /\ Fit(n, Pick(n))
        /\ Pick(c) \in Nodes /\ Fit(c, Pick(c))
    BY <1>2, <2>1
  <2>4. Pick(n) = Pick(c)
    BY <1>3, <1>4, <2>2, <2>3
  <2>5. QED
    BY <2>3, <2>4
<1>6. QED
  BY <1>5 DEF WantApart

\* If a listing has a Peer with a key, it has a canonical one.
LEMMA CanonicalExists ==
    ASSUME NEW list, NEW k, NEW x \in Holders(list, k)
    PROVE  Canonical(list, k) # {}
<1> DEFINE H == Holders(list, k)
<1>1. H \in SUBSET Nat /\ H # {}
  BY ConstantsAssumption DEF Holders, Present
<1>2. \E n \in H : \A y \in H : <<y, n>> \notin OpToRel(<, Nat)
  BY <1>1, NatLessThanWellFounded, WFMin
<1>3. \A n, y \in H : <<y, n>> \notin OpToRel(<, Nat) => n <= y
  BY <1>1 DEF OpToRel
<1>4. \E n \in H : \A y \in H : n <= y
  BY <1>2, <1>3
<1>5. QED
  BY <1>4 DEF Canonical

\* The outcomes of one step of reconcileDesired, with what led to each.
LEMMA WriteOutcomes ==
    ASSUME TypeOK, NEW n \in Names, Write(n)
    PROVE  LET o == [op EXCEPT !.todo = @ \ {n}]
           IN /\ op.pc = "write" /\ n \in op.todo /\ op.want[n] # NoPeer
              /\ UNCHANGED nodes
              /\ \/ op' = o /\ UNCHANGED store /\ op.mine[n] \in {NoPeer, op.want[n]}
                 \/ Refused(o)
                 \/ /\ op.mine[n] = NoPeer /\ peers[n] = NoPeer
                    /\ Canonical(op.all, op.want[n].key) \subseteq {n}
                    /\ Commit(n, op.want[n], o)
                 \/ \E c \in Names \ {n} :
                        /\ op.all[c] # NoPeer /\ c \notin op.allOld
                        /\ op.mine[n] = NoPeer /\ op.all[c].key = op.want[n].key
                        /\ Commit(c, [op.all[c] EXCEPT !.ips = @ \cup op.want[n].ips], o)
                 \/ /\ op.mine[n] # NoPeer /\ n \notin op.mineOld
                    /\ Commit(n, [op.mine[n] EXCEPT !.key = op.want[n].key,
                                                    !.ips = op.want[n].ips], o)
<1> DEFINE o == [op EXCEPT !.todo = @ \ {n}]
           updated == [op.mine[n] EXCEPT !.key = op.want[n].key, !.ips = op.want[n].ips]
           merged(c) == [op.all[c] EXCEPT !.ips = @ \cup op.want[n].ips]
<1>1. op.pc = "write" /\ n \in op.todo /\ op.want[n] # NoPeer /\ UNCHANGED nodes
  BY DEF Write, world
<1>2. \/ Refused(o)
      \/ op.mine[n] = NoPeer /\ CreateOrMerge(n, o)
      \/ op' = o /\ UNCHANGED store /\ op.mine[n] = op.want[n]
      \/ op.mine[n] # NoPeer /\ Update(n, updated, op.mineOld, o)
  BY DEF Write
<1> HIDE DEF o, updated
<1>3. ASSUME NEW c \in Canonical(op.all, op.want[n].key) \ {n}, Merge(c, n, o)
      PROVE  \/ op' = o /\ UNCHANGED store
             \/ Refused(o)
             \/ /\ c \in Names \ {n} /\ op.all[c] # NoPeer /\ c \notin op.allOld
                /\ op.all[c].key = op.want[n].key /\ Commit(c, merged(c), o)
  <2>1. c \in Names \ {n} /\ op.all[c] # NoPeer /\ op.all[c].key = op.want[n].key
    BY DEF Canonical, Holders, Present
  <2>2. QED
    BY <1>3, <2>1 DEF Merge, Update
<1> HIDE DEF merged
<1>4. ASSUME op.mine[n] = NoPeer, CreateOrMerge(n, o)
      PROVE  \/ op' = o /\ UNCHANGED store
             \/ Refused(o)
             \/ /\ peers[n] = NoPeer /\ Canonical(op.all, op.want[n].key) \subseteq {n}
                /\ Commit(n, op.want[n], o)
             \/ \E c \in Names \ {n} :
                    /\ op.all[c] # NoPeer /\ c \notin op.allOld
                    /\ op.all[c].key = op.want[n].key /\ Commit(c, merged(c), o)
  BY <1>3, <1>4 DEF CreateOrMerge
<1>5. Update(n, updated, op.mineOld, o) =>
          Refused(o) \/ (n \notin op.mineOld /\ Commit(n, updated, o))
  BY DEF Update
<1>6. \/ op' = o /\ UNCHANGED store /\ op.mine[n] \in {NoPeer, op.want[n]}
      \/ Refused(o)
      \/ /\ op.mine[n] = NoPeer /\ peers[n] = NoPeer
         /\ Canonical(op.all, op.want[n].key) \subseteq {n}
         /\ Commit(n, op.want[n], o)
      \/ \E c \in Names \ {n} :
             /\ op.all[c] # NoPeer /\ c \notin op.allOld
             /\ op.mine[n] = NoPeer /\ op.all[c].key = op.want[n].key
             /\ Commit(c, merged(c), o)
      \/ op.mine[n] # NoPeer /\ n \notin op.mineOld /\ Commit(n, updated, o)
  BY <1>2, <1>4, <1>5
<1>7. QED
  BY <1>1, <1>6 DEF o, updated, merged

-----------------------------------------------------------------------------
(* The invariant of a pass.                                                *)

\* What happens outside the pass: Peers may go, and names that change count as old.
LEMMA SamePass ==
    ASSUME NEW o, NEW q, NEW P, NEW Q, PassOK(o, P),
           q.pc = o.pc, q.mesh = o.mesh, q.src = o.src, q.want = o.want, q.mine = o.mine,
           q.todo = o.todo, q.failed = o.failed, o.mineOld \subseteq q.mineOld,
           \A n \in Names : Q[n] = P[n] \/ Q[n] = NoPeer
    PROVE  PassOK(q, Q)
<1>1. \A n \in Names : Pair(q, Q[n]) => Pair(o, P[n]) /\ Q[n] = P[n]
  BY DEF Pair, Labelled
<1>2. WantApart(q.want)
  BY DEF PassOK
<1>3. Missed(q, Q)
  BY <1>1 DEF PassOK, Missed
<1>4. Exact(q, Q)
  BY <1>1 DEF PassOK, Exact, Done
<1>5. QED
  BY <1>2, <1>3, <1>4 DEF PassOK

\* Outside the writes of a pass there is only the desired set to keep.
LEMMA NotWriting ==
    ASSUME NEW o, NEW P, o.pc # "write", WantApart(o.want)
    PROVE  PassOK(o, P)
BY DEF PassOK, Missed, Exact

\* Nothing desired, no two with one key.
LEMMA EmptyApart == WantApart(Empty)
BY EmptyType DEF WantApart

\* An accepted write, as far as the pass is concerned.
LEMMA CommitPass ==
    ASSUME TypeOK, op.pc = "write", NEW n \in Names, NEW c \in Names, NEW p,
           Commit(c, p, [op EXCEPT !.todo = @ \ {n}])
    PROVE  /\ op'.pc = "write" /\ op'.mesh = op.mesh /\ op'.src = op.src /\ op'.want = op.want
           /\ op'.mine = op.mine /\ op'.todo = op.todo \ {n} /\ op'.failed = op.failed
           /\ op'.mineOld = op.mineOld \cup {c}
           /\ peers'[c] = p /\ \A x \in Names \ {c} : peers'[x] = peers[x]
<1> DEFINE o == [op EXCEPT !.todo = @ \ {n}]
<1>1. /\ o.pc = "write" /\ o.mesh = op.mesh /\ o.src = op.src /\ o.want = op.want
      /\ o.mine = op.mine /\ o.todo = op.todo \ {n} /\ o.failed = op.failed
      /\ o.mineOld = op.mineOld /\ o \in OpType
  BY DEF TypeOK, OpType
<1> HIDE DEF o
<1>2. op' = [o EXCEPT !.allOld = @ \cup {c}, !.mineOld = @ \cup {c}]
  BY <1>1 DEF Commit, o
<1>3. /\ op'.pc = o.pc /\ op'.mesh = o.mesh /\ op'.src = o.src /\ op'.want = o.want
      /\ op'.mine = o.mine /\ op'.todo = o.todo /\ op'.failed = o.failed
      /\ op'.mineOld = o.mineOld \cup {c}
  BY <1>1, <1>2 DEF OpType
<1>4. peers' = [peers EXCEPT ![c] = p]
  BY DEF Commit, o
<1>5. peers'[c] = p /\ \A x \in Names \ {c} : peers'[x] = peers[x]
  BY <1>4 DEF TypeOK, PeerMap
<1>6. QED
  BY <1>1, <1>3, <1>5

\* One accepted write of a pass: it is enough to look at the name that leaves the
\* worklist and at the one that was written.
LEMMA WrittenPass ==
    ASSUME TypeOK, PassOK(op, peers), op.pc = "write", NEW n \in Names, NEW c \in Names, NEW p,
           Commit(c, p, [op EXCEPT !.todo = @ \ {n}]),
           ~op.failed =>
               /\ c # n => Done(op', n, peers[n])
               /\ c \notin op.todo \ {n} => Done(op', c, p)
    PROVE  PassOK(op', peers')
<1>1. /\ op'.pc = "write" /\ op'.mesh = op.mesh /\ op'.src = op.src /\ op'.want = op.want
      /\ op'.mine = op.mine /\ op'.todo = op.todo \ {n} /\ op'.failed = op.failed
      /\ op'.mineOld = op.mineOld \cup {c}
      /\ peers'[c] = p /\ \A x \in Names \ {c} : peers'[x] = peers[x]
  BY CommitPass
<1>2. \A x : Pair(op', x) <=> Pair(op, x)
  BY <1>1 DEF Pair
<1>3. WantApart(op'.want)
  BY <1>1 DEF PassOK
<1>4. Missed(op', peers')
  BY <1>1, <1>2 DEF PassOK, Missed
<1>5. ASSUME ~op'.failed, NEW x \in Names \ op'.todo
      PROVE  Done(op', x, peers'[x])
  <2>1. ~op.failed
    BY <1>1, <1>5
  <2>2. CASE x = c
    BY <1>1, <1>5, <2>1, <2>2
  <2>3. CASE x # c /\ x = n
    BY <1>1, <2>1, <2>3
  <2>4. CASE x # c /\ x # n
    <3>1. x \notin op.todo /\ peers'[x] = peers[x]
      BY <1>1, <1>5, <2>4
    <3>2. Done(op, x, peers[x])
      BY <2>1, <3>1 DEF PassOK, Exact
    <3>3. QED
      BY <1>1, <1>2, <3>1, <3>2 DEF Done
  <2>5. QED
    BY <2>2, <2>3, <2>4
<1>6. QED
  BY <1>3, <1>4, <1>5 DEF PassOK, Exact

\* A call that fails leaves nothing to be exact about.
LEMMA RefusedPass ==
    ASSUME TypeOK, PassOK(op, peers), NEW n, Refused([op EXCEPT !.todo = @ \ {n}])
    PROVE  PassOK(op', peers')
<1>1. /\ op'.pc = op.pc /\ op'.mesh = op.mesh /\ op'.src = op.src /\ op'.want = op.want
      /\ op'.mine = op.mine /\ op'.mineOld = op.mineOld /\ op'.failed = TRUE /\ peers' = peers
  BY DEF Refused, TypeOK, OpType, store
<1>2. WantApart(op'.want) /\ Missed(op', peers')
  BY <1>1 DEF PassOK, Missed, Pair
<1>3. Exact(op', peers')
  BY <1>1 DEF Exact
<1>4. QED
  BY <1>2, <1>3 DEF PassOK

\* reconcileDesired, one desired peer.
LEMMA WritePass ==
    ASSUME TypeOK, ListingsSound, PassOK(op, peers), NEW n \in Names, Write(n)
    PROVE  PassOK(op', peers')
<1> DEFINE o == [op EXCEPT !.todo = @ \ {n}]
           merged(c) == [op.all[c] EXCEPT !.ips = @ \cup op.want[n].ips]
           updated == [op.mine[n] EXCEPT !.key = op.want[n].key, !.ips = op.want[n].ips]
<1>1. /\ op.pc = "write" /\ op.want[n] # NoPeer
      /\ \/ op' = o /\ UNCHANGED store /\ op.mine[n] \in {NoPeer, op.want[n]}
         \/ Refused(o)
         \/ op.mine[n] = NoPeer /\ Commit(n, op.want[n], o)
         \/ \E c \in Names \ {n} :
                /\ op.all[c] # NoPeer /\ c \notin op.allOld
                /\ op.mine[n] = NoPeer /\ op.all[c].key = op.want[n].key
                /\ Commit(c, merged(c), o)
         \/ op.mine[n] # NoPeer /\ n \notin op.mineOld /\ Commit(n, updated, o)
  BY WriteOutcomes
<1>2. \A x \in Names : /\ op.mine[x] = NoPeer /\ Pair(op, peers[x]) => x \in op.mineOld
                       /\ op.mine[x] # NoPeer /\ x \notin op.mineOld => op.mine[x] = peers[x]
  BY <1>1 DEF PassOK, Missed, ListingsSound, OpSound
<1> HIDE DEF o, merged, updated
<1>3. CASE op' = o /\ UNCHANGED store /\ op.mine[n] \in {NoPeer, op.want[n]}
  <2>1. /\ op'.pc = op.pc /\ op'.mesh = op.mesh /\ op'.src = op.src /\ op'.want = op.want
        /\ op'.mine = op.mine /\ op'.mineOld = op.mineOld /\ op'.failed = op.failed
        /\ op'.todo = op.todo \ {n} /\ peers' = peers
    BY <1>3 DEF TypeOK, OpType, store, o
  <2>2. \A x, p : Done(op', x, p) <=> Done(op, x, p)
    BY <2>1 DEF Done, Pair
  <2>3. Done(op, n, peers[n])
    BY <1>2, <1>3 DEF Done
  <2>4. WantApart(op'.want) /\ Missed(op', peers')
    BY <2>1 DEF PassOK, Missed, Pair
  <2>5. Exact(op', peers')
    BY <2>1, <2>2, <2>3 DEF PassOK, Exact
  <2>6. QED
    BY <2>4, <2>5 DEF PassOK
<1>4. CASE Refused(o)
  BY <1>4, RefusedPass DEF o
<1>5. CASE op.mine[n] = NoPeer /\ Commit(n, op.want[n], o)
  <2>1. op'.want = op.want
    BY <1>1, <1>5, CommitPass DEF o
  <2>2. Done(op', n, op.want[n])
    BY <2>1 DEF Done
  <2>3. QED
    BY <1>1, <1>5, <2>2, WrittenPass DEF o
<1>6. ASSUME NEW c \in Names \ {n}, op.all[c] # NoPeer, c \notin op.allOld, op.mine[n] = NoPeer,
             op.all[c].key = op.want[n].key, Commit(c, merged(c), o)
      PROVE  PassOK(op', peers')
  <2>1. /\ op'.mesh = op.mesh /\ op'.src = op.src /\ op'.want = op.want
        /\ op'.mine = op.mine /\ op'.mineOld = op.mineOld \cup {c}
    BY <1>1, <1>6, CommitPass DEF o
  <2>2. op.all[c] = peers[c] /\ peers[c] \in Peer
    BY <1>1, <1>6 DEF ListingsSound, OpSound, TypeOK, PeerMap
  <2>3. merged(c).mesh = peers[c].mesh /\ merged(c).src = peers[c].src
    BY <2>2 DEF merged, Peer
  <2>4. Done(op', n, peers[n])
    BY <1>2, <1>6, <2>1 DEF Done, Pair
  <2>5. ASSUME ~op.failed, c \notin op.todo
        PROVE  Done(op', c, merged(c))
    <3>1. Pair(op', merged(c)) => Pair(op, peers[c])
      BY <1>6, <2>1, <2>2, <2>3 DEF Pair, Labelled
    <3>2. Done(op, c, peers[c])
      BY <1>1, <2>5 DEF PassOK, Exact
    <3>3. peers[c] # op.want[c]
      BY <1>1, <1>6, <2>2 DEF PassOK, WantApart
    <3>4. QED
      BY <2>1, <3>1, <3>2, <3>3 DEF Done
  <2>6. QED
    BY <1>1, <1>6, <2>4, <2>5, WrittenPass DEF o
<1>7. CASE op.mine[n] # NoPeer /\ n \notin op.mineOld /\ Commit(n, updated, o)
  <2>1. op'.want = op.want
    BY <1>1, <1>7, CommitPass DEF o
  <2>2. op.want[n] \in Peer /\ op.mine[n] \in Peer
    BY <1>1, <1>7 DEF TypeOK, OpType, PeerMap
  <2>3. op.mine[n].mesh = op.want[n].mesh /\ op.mine[n].src = op.want[n].src
    BY <1>1, <1>7 DEF ListingsSound, OpSound
  <2>4. updated = op.want[n]
    BY <2>2, <2>3 DEF updated, Peer
  <2>5. Done(op', n, updated)
    BY <2>1, <2>4 DEF Done
  <2>6. QED
    BY <1>1, <1>7, <2>5, WrittenPass DEF o
<1>8. QED
  BY <1>1, <1>3, <1>4, <1>5, <1>6, <1>7

\* deleteOrphans, one peer.
LEMMA DeletePass ==
    ASSUME TypeOK, PassOK(op, peers), NEW n \in Names, DeleteOrphan(n)
    PROVE  PassOK(op', peers')
<1> DEFINE o == [op EXCEPT !.todo = @ \ {n}]
<1>1. op.pc = "write" /\ (Refused(o) \/ Commit(n, NoPeer, o))
  BY DEF DeleteOrphan
<1>2. Done(op', n, NoPeer)
  BY DEF Done, Pair, Labelled
<1>3. QED
  BY <1>1, <1>2, RefusedPass, WrittenPass

\* The second listing of a pass: a Peer of the pair that is not in it has an event that
\* the cache has not seen.
LEMMA ListMinePass ==
    ASSUME TypeOK, ListingsSound, PassOK(op, peers), ListMine
    PROVE  PassOK(op', peers')
<1> DEFINE mine == Mine(view, MeshLabel[op.mesh], op.src)
<1>1. /\ peers' = peers /\ op'.src = op.src /\ op'.mesh = op.mesh /\ op'.want = op.want
      /\ op'.mine = mine /\ op'.mineOld = Pending
      /\ op'.todo = Present(op.want) \cup Present(mine)
  BY DEF ListMine, TypeOK, OpType, store
<1>2. ASSUME NEW n \in Names, mine[n] = NoPeer, Pair(op, peers[n])
      PROVE  n \in Pending
  <2>1. view[n] # peers[n]
    BY <1>2 DEF Mine, Pair, Labelled
  <2>2. QED
    BY <2>1 DEF ListingsSound, CacheSound
<1> HIDE DEF mine
<1>3. Missed(op', peers')
  BY <1>1, <1>2 DEF Missed, Pair
<1>4. ASSUME NEW n \in Names \ op'.todo
      PROVE  Done(op', n, peers'[n])
  <2>1. mine[n] = NoPeer
    BY <1>1, <1>4 DEF Present
  <2>2. QED
    BY <1>1, <1>2, <2>1 DEF Done, Pair
<1>5. QED
  BY <1>1, <1>3, <1>4 DEF PassOK, Exact

\* Every step keeps the invariant.
LEMMA PassStep ==
    ASSUME TypeOK, ListingsSound, KeysApart, PassOK(op, peers), [Next]_vars
    PROVE  KeysApart' /\ PassOK(op', peers')
<1>1. KeysApart'
  <2>1. CASE UNCHANGED nodes
    BY <2>1 DEF KeysApart
  <2>2. ASSUME NEW s \in Sources, NEW n \in Nodes, NEW k \in Keys \cup {NoKey}, SetNode(s, n, k)
        PROVE  KeysApart'
    <3>1. nodes' = [nodes EXCEPT ![<<s, n>>] = k] /\ <<s, n>> \in Sources \X Nodes
      BY <2>2 DEF SetNode
    <3>2. k # NoKey => \A x \in Sources \X Nodes : nodes[x] # k
      BY <2>2 DEF SetNode
    <3>3. \A x \in Sources \X Nodes : nodes'[x] = IF x = <<s, n>> THEN k ELSE nodes[x]
      BY <3>1 DEF TypeOK
    <3>4. QED
      BY <3>2, <3>3 DEF KeysApart
  <2>3. QED
    BY <2>1, <2>2 DEF Next, Environment, Step, EditSpec, DeleteMesh, ForceRelease, CreateMesh,
        UserDelete, Restart, Deliver, StartReconcile, ListAll, ListMine, Write, DeleteOrphan, EndPass,
        DropFinalizer, ListStale, ListOrphans, SweepDelete, EndReconcile, vars, world
<1> SUFFICES PassOK(op', peers')
  BY <1>1
<1>2. ASSUME op' = op, peers' = peers
      PROVE  PassOK(op', peers')
  BY <1>2
<1>3. ASSUME NEW m \in Meshes, TouchMesh(m), peers' = peers
      PROVE  PassOK(op', peers')
  <2>1. /\ op'.pc = op.pc /\ op'.mesh = op.mesh /\ op'.src = op.src /\ op'.want = op.want
        /\ op'.mine = op.mine /\ op'.todo = op.todo /\ op'.failed = op.failed
        /\ op'.mineOld = op.mineOld
    BY <1>3 DEF TouchMesh, TypeOK, OpType
  <2>2. QED
    BY <1>3, <2>1, SamePass
<1>4. ASSUME NEW n \in Names, UserDelete(n)
      PROVE  PassOK(op', peers')
  <2>1. /\ op'.pc = op.pc /\ op'.mesh = op.mesh /\ op'.src = op.src /\ op'.want = op.want
        /\ op'.mine = op.mine /\ op'.todo = op.todo /\ op'.failed = op.failed
        /\ op.mineOld \subseteq op'.mineOld
    BY <1>4 DEF UserDelete, Commit, TypeOK, OpType
  <2>2. \A x \in Names : peers'[x] = peers[x] \/ peers'[x] = NoPeer
    BY <1>4 DEF UserDelete, Commit, TypeOK, PeerMap
  <2>3. QED
    BY <2>1, <2>2, SamePass
<1>5. ASSUME op'.pc # "write", op'.want \in {op.want, Empty}
      PROVE  PassOK(op', peers')
  BY <1>5, NotWriting, EmptyApart DEF PassOK
<1>6. ASSUME op' = Idle
      PROVE  PassOK(op', peers')
  <2>1. op'.pc # "write" /\ op'.want = Empty
    BY <1>6 DEF Idle
  <2>2. QED
    BY <1>5, <2>1
<1>7. ASSUME NEW m \in Meshes, StartReconcile(m)
      PROVE  PassOK(op', peers')
  <2>1. op'.pc # "write" /\ op'.want = Empty
    BY <1>7 DEF StartReconcile, Idle
  <2>2. QED
    BY <1>5, <2>1
<1>8. ASSUME NEW s \in Sources, ListAll(s)
      PROVE  PassOK(op', peers')
  <2>1. /\ op'.pc # "write" /\ op.mesh \in Meshes
        /\ op'.want = IF op.mode = "sync" THEN Desired(op.mesh, s) ELSE Empty
    BY <1>8 DEF ListAll, TypeOK, OpType
  <2>2. WantApart(op'.want)
    BY <2>1, DesiredApart, EmptyApart
  <2>3. QED
    BY <2>1, <2>2, NotWriting
<1>9. CASE EndPass
  <2>1. CASE op' = Idle
    BY <1>6, <2>1
  <2>2. CASE op' # Idle
    <3>1. op'.pc # "write" /\ op'.want = Empty
      BY <1>9, <2>2 DEF EndPass, TypeOK, OpType
    <3>2. QED
      BY <1>5, <3>1
  <2>3. QED
    BY <2>1, <2>2
<1>10. CASE ListStale \/ ListOrphans
  <2>1. op'.pc # "write" /\ op'.want = op.want
    BY <1>10 DEF ListStale, ListOrphans, TypeOK, OpType
  <2>2. QED
    BY <1>5, <2>1
<1>11. ASSUME NEW n \in Names, SweepDelete(n)
       PROVE  PassOK(op', peers')
  <2> DEFINE o == [op EXCEPT !.todo = @ \ {n}]
  <2>1. o.pc \in {"stale", "orphans"} /\ o.want = op.want
    BY <1>11 DEF SweepDelete, TypeOK, OpType
  <2>2. op' = o
    <3>1. op' = o \/ Commit(n, NoPeer, o)
      BY <1>11 DEF SweepDelete
    <3> HIDE DEF o
    <3>2. QED
      BY <2>1, <3>1 DEF Commit
  <2> HIDE DEF o
  <2>3. QED
    BY <1>5, <2>1, <2>2
<1>12. CASE Environment
  BY <1>2, <1>3, <1>4, <1>6, <1>12
     DEF Environment, SetNode, EditSpec, DeleteMesh, ForceRelease, CreateMesh, Restart, store
<1>13. CASE Step
  BY <1>6, <1>8, <1>9, <1>10, <1>11, <1>13, ListMinePass, WritePass, DeletePass
     DEF Step, DropFinalizer, EndReconcile
<1>14. CASE Deliver \/ UNCHANGED vars
  BY <1>2, <1>14 DEF Deliver, vars, store
<1>15. QED
  BY <1>7, <1>12, <1>13, <1>14 DEF Next

\* As long as no call of a pass of ReconcilePeers failed, every Peer of its mesh and
\* source that it is done with is the desired one under its name, or was written after
\* the version in the listing and that one gave no cause to write, whatever users, nodes,
\* the cache and restarts do meanwhile.
THEOREM PassesExact == Spec => []PassExact
<1>1. Init => KeysApart /\ PassOK(op, peers)
  <2> SUFFICES ASSUME Init PROVE KeysApart /\ PassOK(op, peers)
    OBVIOUS
  <2>1. op.pc # "write" /\ op.want = Empty
    BY DEF Init, Idle
  <2>2. PassOK(op, peers)
    BY <2>1, NotWriting, EmptyApart
  <2>3. KeysApart
    BY DEF Init, KeysApart
  <2>4. QED
    BY <2>2, <2>3
<1>2. TypeOK /\ ListingsSound /\ (KeysApart /\ PassOK(op, peers)) /\ [Next]_vars
          => (KeysApart /\ PassOK(op, peers))'
  BY PassStep
<1>3. KeysApart /\ PassOK(op, peers) => PassExact
  BY DEF PassOK, Exact, Done, Pair, PassExact
<1>4. QED
  BY <1>1, <1>2, <1>3, TypeCorrect, ListingsAlwaysSound, PTL DEF Spec

-----------------------------------------------------------------------------
(* How a key comes to have two Peers.                                      *)

\* One step of reconcileDesired.
LEMMA WriteTwins ==
    ASSUME TypeOK, ListingsSound, NEW y \in Names, Write(y), NEW n \in Names, NEW x \in Names,
           Twins(n, x)
    PROVE  TwinExplained(n, x)
<1> DEFINE o == [op EXCEPT !.todo = @ \ {y}]
           merged(c) == [op.all[c] EXCEPT !.ips = @ \cup op.want[y].ips]
           updated == [op.mine[y] EXCEPT !.key = op.want[y].key, !.ips = op.want[y].ips]
<1>1. /\ op.pc = "write" /\ op.want[y] # NoPeer
      /\ \/ op' = o /\ UNCHANGED store
         \/ Refused(o)
         \/ /\ peers[y] = NoPeer /\ Canonical(op.all, op.want[y].key) \subseteq {y}
            /\ Commit(y, op.want[y], o)
         \/ \E c \in Names : op.all[c] # NoPeer /\ c \notin op.allOld /\ Commit(c, merged(c), o)
         \/ op.mine[y] # NoPeer /\ y \notin op.mineOld /\ Commit(y, updated, o)
  BY WriteOutcomes
<1>2. peers'[n] # peers[n] /\ n # x /\ peers[x] # NoPeer /\ peers'[n].key = peers[x].key
  BY DEF Twins
<1> HIDE DEF o, merged, updated
<1>3. ASSUME NEW c \in Names, NEW p, Commit(c, p, o)
      PROVE  n = c /\ peers'[n] = p
  BY <1>2, <1>3 DEF Commit, TypeOK, PeerMap
<1>4. CASE peers[y] = NoPeer /\ Canonical(op.all, op.want[y].key) \subseteq {y} /\ Commit(y, op.want[y], o)
  <2>1. n = y /\ peers'[n] = op.want[n]
    BY <1>3, <1>4
  <2>2. ASSUME x \notin op.allOld
        PROVE  op.all[n] # NoPeer /\ op.all[n].key = peers[x].key
    <3>1. op.all[x] = peers[x]
      BY <1>1, <2>2 DEF ListingsSound, OpSound
    <3>2. x \in Holders(op.all, op.want[n].key)
      BY <1>2, <2>1, <3>1 DEF Holders, Present
    <3>3. Canonical(op.all, op.want[n].key) # {}
      BY <3>2, CanonicalExists
    <3>4. n \in Canonical(op.all, op.want[n].key)
      BY <1>4, <2>1, <3>3
    <3>5. n \in Holders(op.all, op.want[n].key)
      BY <3>4 DEF Canonical
    <3>6. QED
      BY <1>2, <2>1, <3>5 DEF Holders, Present
  <2>3. QED
    BY <1>4, <2>1, <2>2 DEF TwinExplained
<1>5. ASSUME NEW c \in Names, op.all[c] # NoPeer, c \notin op.allOld, Commit(c, merged(c), o)
      PROVE  FALSE
  <2>1. n = c /\ peers'[n] = merged(n)
    BY <1>3, <1>5
  <2>2. op.all[n] = peers[n] /\ peers[n] # NoPeer /\ peers[n] \in Peer
    BY <1>1, <1>5, <2>1 DEF ListingsSound, OpSound, TypeOK, PeerMap
  <2>3. merged(n).key = peers[n].key
    BY <2>2 DEF merged, Peer
  <2>4. QED
    BY <2>1, <2>2, <2>3 DEF Twins
<1>6. CASE op.mine[y] # NoPeer /\ y \notin op.mineOld /\ Commit(y, updated, o)
  <2>1. n = y /\ peers'[n] = updated
    BY <1>3, <1>6
  <2>2. /\ op.mine[n] = peers[n] /\ peers[n] \in Peer /\ peers[n] # NoPeer
        /\ Labelled(peers[n], MeshLabel[op.mesh], op.src)
    BY <1>1, <1>6, <2>1 DEF ListingsSound, OpSound, TypeOK, PeerMap, Labelled
  <2>3. updated.key = op.want[n].key
    BY <2>1, <2>2 DEF updated, Peer
  <2>4. QED
    BY <1>2, <2>1, <2>2, <2>3 DEF TwinExplained
<1>7. CASE (op' = o /\ UNCHANGED store) \/ Refused(o)
  BY <1>2, <1>7 DEF Refused, store
<1>8. QED
  BY <1>1, <1>4, <1>5, <1>6, <1>7

\* ReconcilePeers gives a key a second Peer only by creating one while the Peer that
\* holds the key, or an earlier second one, escapes the lookup of createOrMerge, or by
\* an Update in place of a Peer of its own whose node changed its key.
THEOREM DuplicateCauses == Spec => DuplicatesExplained
<1>1. TypeOK /\ ListingsSound /\ [Next]_vars
          => [Acting => \A n, x \in Names : Twins(n, x) => TwinExplained(n, x)]_vars
  <2> SUFFICES ASSUME TypeOK, ListingsSound, [Next]_vars, Acting,
                      NEW n \in Names, NEW x \in Names, Twins(n, x)
               PROVE  TwinExplained(n, x)
    OBVIOUS
  <2>1. peers'[n] # peers[n] /\ peers'[n] # NoPeer
    BY DEF Twins
  <2>2. ~Environment
    <3>1. Environment => changes' = changes + 1 /\ changes \in Nat
      BY DEF Environment, SetNode, EditSpec, DeleteMesh, ForceRelease, CreateMesh,
             UserDelete, Restart, Change, TypeOK
    <3>2. QED
      BY <3>1 DEF Acting
  <2>3. ASSUME NEW y \in Names, DeleteOrphan(y) \/ SweepDelete(y)
        PROVE  FALSE
    <3>1. peers' = peers \/ peers' = [peers EXCEPT ![y] = NoPeer]
      BY <2>3 DEF DeleteOrphan, SweepDelete, Commit, Refused, store
    <3>2. QED
      BY <2>1, <3>1 DEF TypeOK, PeerMap
  <2>4. peers' # peers
    BY <2>1
  <2>5. \E y \in Names : Write(y)
    BY <2>2, <2>3, <2>4 DEF Next, Step, Deliver, StartReconcile, ListAll, ListMine, EndPass,
        DropFinalizer, ListStale, ListOrphans, EndReconcile, vars, store
  <2>6. QED
    BY <2>5, WriteTwins
<1>2. QED
  BY <1>1, TypeCorrect, ListingsAlwaysSound, PTL DEF Spec, DuplicatesExplained

=============================================================================
