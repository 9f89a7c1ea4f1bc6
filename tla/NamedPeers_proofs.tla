------------------------- MODULE NamedPeers_proofs -------------------------
(***************************************************************************)
(* PeerReconcile with the names that naming.go makes.  There a name is a   *)
(* number, its rank in string order, and its uniqueness an hypothesis;     *)
(* here the hypothesis follows from what mesh, cluster and node names look *)
(* like, and the isolation of meshes with it.                              *)
(***************************************************************************)
EXTENDS PeerNames_proofs, PeerPass_proofs

Owners == Labels \X Sources \X Nodes

\* The texts of an owner: mesh name, cluster name and node name.
Text(t) == Raw(t[1], t[2], t[3])

\* Mesh, cluster and node names are as Kubernetes lets them be, and the separator is not
\* in those of meshes and clusters.
NamesClean ==
    \A t \in Owners : /\ DNSName(t[1]) /\ DNSName(t[2]) /\ DNSName(t[3])
                      /\ Single(t[1]) /\ Single(t[2])

\* Names that had to be shortened stay apart from each other and from the rest.
HashesApart == \A t, u \in Owners : HashApart(Text(t), Text(u))

\* The name of a Peer is what Name returns, by its rank among the names.
Generated(rank) ==
    /\ \A t \in Owners : PeerName[t] = rank[Name(t[1], t[2], t[3])]
    /\ \A t, u \in Owners : rank[Name(t[1], t[2], t[3])] = rank[Name(u[1], u[2], u[3])]
                                => Name(t[1], t[2], t[3]) = Name(u[1], u[2], u[3])

\* What naming.go makes is unique.
LEMMA GeneratedUnique ==
    ASSUME Alphabet, HashFits, NamesClean, HashesApart, NEW rank, Generated(rank)
    PROVE  NamesUnique
<1> SUFFICES ASSUME NEW t \in Owners, NEW u \in Owners, PeerName[t] = PeerName[u]
             PROVE  t = u
  BY DEF NamesUnique, Owners
<1>1. Name(t[1], t[2], t[3]) = Name(u[1], u[2], u[3])
  BY DEF Generated
<1>2. /\ DNSName(t[1]) /\ DNSName(t[2]) /\ DNSName(t[3]) /\ Single(t[1]) /\ Single(t[2])
      /\ DNSName(u[1]) /\ DNSName(u[2]) /\ DNSName(u[3]) /\ Single(u[1]) /\ Single(u[2])
  BY DEF NamesClean
<1>3. HashApart(Raw(t[1], t[2], t[3]), Raw(u[1], u[2], u[3]))
  BY DEF HashesApart, Text
<1>4. t[1] = u[1] /\ t[2] = u[2] /\ t[3] = u[3]
  BY <1>1, <1>2, <1>3, NameUnique
<1>5. t = <<t[1], t[2], t[3]>> /\ u = <<u[1], u[2], u[3]>>
  BY DEF Owners
<1>6. QED
  BY <1>4, <1>5

\* With the names of naming.go, for mesh and cluster names without the separator and
\* as long as shortened names stay apart, the reconcile of one mesh never harms a Peer of
\* another mesh that exists, nor one made by hand, and deletes its own only for a reason.
THEOREM NamesIsolate ==
    ASSUME Alphabet, HashFits, NamesClean, HashesApart, NEW rank, Generated(rank)
    PROVE  Spec => Isolation /\ DeletesUnwantedOnly
<1>1. NamesUnique
  BY GeneratedUnique
<1>2. Spec => Isolation
  BY <1>1, MeshesIsolated
<1>3. Spec => DeletesUnwantedOnly
  BY <1>1, OnlyUnwantedDeleted
<1>4. QED
  BY <1>2, <1>3

=============================================================================
