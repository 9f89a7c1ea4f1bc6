------------------------------ MODULE Networks ------------------------------
(***************************************************************************)
(* IP networks: internal/netutil/cidr.go, and the check of the networks    *)
(* that ClusterMesh resources declare, internal/validation/mesh.go.        *)
(*                                                                         *)
(* An address is its sequence of bits, and its family the length of that   *)
(* sequence.  The text of a CIDR is an address with any bits and a prefix  *)
(* length, or Bad if it does not parse; a network is a CIDR whose bits     *)
(* after the prefix are 0.  IPv4 addresses written as IPv6 are left out.   *)
(***************************************************************************)
EXTENDS Naturals, Sequences

CONSTANT
    Bad     \* a text that does not parse

Address == Seq({0, 1})
CIDR == {c \in [ip : Address, len : Nat] : c.len <= Len(c.ip)}

\* net.ParseCIDR clears the bits after the prefix.
ParseCIDR(text) ==
    [ip |-> [i \in 1..Len(text.ip) |-> IF i <= text.len THEN text.ip[i] ELSE 0], len |-> text.len]

Network == {ParseCIDR(c) : c \in CIDR}

\* net.IPNet.Contains: the same family and the same prefix.
NetContains(n, a) == Len(n.ip) = Len(a) /\ \A i \in 1..n.len : n.ip[i] = a[i]

\* The addresses of a network.
Addresses(n) == {a \in Address : NetContains(n, a)}

lastAddr(n) == [i \in 1..Len(n.ip) |-> IF i <= n.len THEN n.ip[i] ELSE 1]

CIDRContains(outer, inner) == NetContains(outer, inner.ip) /\ NetContains(outer, lastAddr(inner))

CIDROverlaps(a, b) == NetContains(a, b.ip) \/ NetContains(b, a.ip)

\* Mutant of HostRoute: always the prefix length of the shorter family.
HostRouteShort(ip) == [ip |-> ip, len |-> 4]

\* The /32 or /128 of an address.
HostRoute(ip) == [ip |-> ip, len |-> Len(ip)]

-----------------------------------------------------------------------------
(* The networks of a mesh.  A mesh is the sequence of its cluster entries, *)
(* and an entry has a name and a sequence of networks: a network that is   *)
(* listed twice is there twice.                                            *)

\* Where the networks of a mesh are: entry and index.
Positions(mesh) == UNION {{c} \X DOMAIN mesh[c].networks : c \in DOMAIN mesh}
Text(mesh, p) == mesh[p[1]].networks[p[2]]
Overlap(meshA, p, meshB, q) ==
    CIDROverlaps(ParseCIDR(Text(meshA, p)), ParseCIDR(Text(meshB, q)))

parseClusters(mesh) == \A p \in Positions(mesh) : Text(mesh, p) # Bad

\* Mutant of ValidateClusterNetworks: the networks of one entry are not compared.
ValidateClusterNetworksApart(mesh) ==
    /\ parseClusters(mesh)
    /\ \A p, q \in Positions(mesh) : p[1] # q[1] => ~Overlap(mesh, p, mesh, q)

\* checkOverlaps within one mesh: any two of its networks, those of one entry too.
ValidateClusterNetworks(mesh) ==
    /\ parseClusters(mesh)
    /\ \A p, q \in Positions(mesh) : p # q => ~Overlap(mesh, p, mesh, q)

\* checkOverlaps across two meshes.  A cluster may be in both, so networks of equally
\* named entries are let through.
ApartMeshes(meshA, meshB) ==
    \A p \in Positions(meshA), q \in Positions(meshB) :
        meshA[p[1]].name # meshB[q[1]].name => ~Overlap(meshA, p, meshB, q)

\* Every mesh by itself, then every two.
ValidateMeshNetworks(meshes) ==
    /\ \A i \in DOMAIN meshes : ValidateClusterNetworks(meshes[i])
    /\ \A i, j \in DOMAIN meshes : i < j => ApartMeshes(meshes[i], meshes[j])

=============================================================================
