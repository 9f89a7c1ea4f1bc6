-------------------------- MODULE Networks_proofs --------------------------
(***************************************************************************)
(* What the tests on networks mean in terms of addresses, for addresses of *)
(* every length, and what the validation of meshes guarantees.             *)
(***************************************************************************)
EXTENDS Networks, TLAPS

\* ParseCIDR returns a CIDR of the same family and length, with its bits cleared.
LEMMA ParseTyped ==
    ASSUME NEW c \in CIDR
    PROVE  /\ ParseCIDR(c) \in CIDR
           /\ ParseCIDR(c).len = c.len /\ Len(ParseCIDR(c).ip) = Len(c.ip)
           /\ \A i \in 1..Len(c.ip) : ParseCIDR(c).ip[i] = IF i <= c.len THEN c.ip[i] ELSE 0
    BY DEF CIDR, Address, ParseCIDR

\* lastAddr returns an address of the family, with the bits after the prefix set.
LEMMA LastTyped ==
    ASSUME NEW n \in CIDR
    PROVE  /\ lastAddr(n) \in Address /\ Len(lastAddr(n)) = Len(n.ip)
           /\ \A i \in 1..Len(n.ip) : lastAddr(n)[i] = IF i <= n.len THEN n.ip[i] ELSE 1
    BY DEF CIDR, Address, lastAddr

\* The route that HostRoute makes of an address is a CIDR that parses to itself and
\* holds nothing else.
LEMMA HostRouteTyped ==
    ASSUME NEW a \in Address
    PROVE  /\ HostRoute(a) \in CIDR /\ HostRoute(a).ip = a
           /\ ParseCIDR(HostRoute(a)) = HostRoute(a)
           /\ lastAddr(HostRoute(a)) = a
           /\ \A x \in Address : NetContains(HostRoute(a), x) => x = a
  <1>1. HostRoute(a) \in CIDR /\ HostRoute(a).ip = a /\ HostRoute(a).len = Len(a)
    BY DEF HostRoute, CIDR, Address
  <1>2. ParseCIDR(HostRoute(a)).ip = a /\ lastAddr(HostRoute(a)) = a
    BY <1>1 DEF Address, ParseCIDR, lastAddr
  <1>3. ParseCIDR(HostRoute(a)) = HostRoute(a)
    BY <1>1, <1>2 DEF ParseCIDR, HostRoute
  <1>4. ASSUME NEW x \in Address, NetContains(HostRoute(a), x) PROVE x = a
    BY <1>1, <1>4 DEF NetContains, Address
  <1> QED BY <1>1, <1>2, <1>3, <1>4

\* The test on two network addresses in CIDROverlaps is the real thing: it says whether
\* some address is in both networks.
THEOREM OverlapsShare ==
    ASSUME NEW a \in CIDR, NEW b \in CIDR
    PROVE  CIDROverlaps(a, b) <=> Addresses(a) \cap Addresses(b) # {}
  <1>1. NetContains(a, a.ip) /\ NetContains(b, b.ip)
    BY DEF CIDR, Address, NetContains
  <1>2. ASSUME NEW x \in Address, NetContains(a, x), NetContains(b, x)
        PROVE  CIDROverlaps(a, b)
    BY <1>2 DEF CIDR, Address, NetContains, CIDROverlaps
  <1> QED BY <1>1, <1>2 DEF CIDROverlaps, CIDR, Addresses

\* The first and the last address, which are all that CIDRContains looks at, stand for
\* the whole network: it says whether every address of the inner one is in the outer.
THEOREM ContainsSubset ==
    ASSUME NEW n \in CIDR, NEW c \in CIDR
    PROVE  CIDRContains(n, ParseCIDR(c)) <=> Addresses(ParseCIDR(c)) \subseteq Addresses(n)
  <1> DEFINE p == ParseCIDR(c)
  <1>1. p \in CIDR /\ \A i \in 1..Len(p.ip) : i > p.len => p.ip[i] = 0
    BY ParseTyped DEF CIDR
  <1>2. lastAddr(p) \in Address /\ Len(lastAddr(p)) = Len(p.ip)
        /\ \A i \in 1..Len(p.ip) : lastAddr(p)[i] = IF i <= p.len THEN p.ip[i] ELSE 1
    BY <1>1, LastTyped
  <1> HIDE DEF p
  <1>3. p.ip \in Addresses(p) /\ lastAddr(p) \in Addresses(p)
    BY <1>1, <1>2 DEF Addresses, NetContains, CIDR, Address
  <1>4. ASSUME CIDRContains(n, p), NEW x \in Addresses(p) PROVE x \in Addresses(n)
    <2>1. n.len <= p.len
      <3>1. SUFFICES ASSUME n.len > p.len PROVE FALSE
        BY <1>1 DEF CIDR
      <3>2. p.len + 1 \in 1..Len(p.ip) /\ p.len + 1 \in 1..n.len
        BY <1>1, <1>4, <3>1 DEF CIDR, Address, CIDRContains, NetContains
      <3>3. n.ip[p.len + 1] = 0
        BY <1>1, <1>4, <3>2 DEF CIDR, CIDRContains, NetContains
      <3>4. n.ip[p.len + 1] = 1
        BY <1>1, <1>2, <1>4, <3>2 DEF CIDR, CIDRContains, NetContains
      <3> QED BY <3>3, <3>4
    <2> QED BY <1>1, <1>4, <2>1 DEF CIDRContains, NetContains, Addresses, CIDR, Address
  <1>5. ASSUME Addresses(p) \subseteq Addresses(n) PROVE CIDRContains(n, p)
    BY <1>3, <1>5 DEF CIDRContains, Addresses
  <1> QED BY <1>4, <1>5 DEF p

-----------------------------------------------------------------------------
\* A mesh whose networks are CIDRs or do not parse.
MeshTyped(mesh) == \A p \in Positions(mesh) : Text(mesh, p) \in CIDR \cup {Bad}

\* The addresses of the network at a position.
Within(mesh, p) == Addresses(ParseCIDR(Text(mesh, p)))

\* What validation guarantees: no address is in two networks of one mesh, be they of one
\* cluster or of two, nor in networks of two clusters of different meshes.
THEOREM ValidMeshesApart ==
    ASSUME NEW meshes, \A i \in DOMAIN meshes : MeshTyped(meshes[i]),
           DOMAIN meshes \subseteq Nat, ValidateMeshNetworks(meshes)
    PROVE  /\ \A i \in DOMAIN meshes : \A p, q \in Positions(meshes[i]) :
                p # q => Within(meshes[i], p) \cap Within(meshes[i], q) = {}
           /\ \A i, j \in DOMAIN meshes :
                \A p \in Positions(meshes[i]), q \in Positions(meshes[j]) :
                    i # j /\ meshes[i][p[1]].name # meshes[j][q[1]].name =>
                        Within(meshes[i], p) \cap Within(meshes[j], q) = {}
  <1>1. ASSUME NEW i \in DOMAIN meshes, NEW p \in Positions(meshes[i])
        PROVE  ParseCIDR(Text(meshes[i], p)) \in CIDR
    BY <1>1, ParseTyped DEF ValidateMeshNetworks, ValidateClusterNetworks, parseClusters, MeshTyped
  <1>2. ASSUME NEW i \in DOMAIN meshes, NEW p \in Positions(meshes[i]),
               NEW j \in DOMAIN meshes, NEW q \in Positions(meshes[j]),
               ~Overlap(meshes[i], p, meshes[j], q)
        PROVE  Within(meshes[i], p) \cap Within(meshes[j], q) = {}
    BY <1>1, <1>2, OverlapsShare DEF Overlap, Within
  <1>3. ASSUME NEW i \in DOMAIN meshes, NEW p \in Positions(meshes[i]),
               NEW q \in Positions(meshes[i]), p # q
        PROVE  Within(meshes[i], p) \cap Within(meshes[i], q) = {}
    BY <1>2, <1>3 DEF ValidateMeshNetworks, ValidateClusterNetworks
  <1>4. ASSUME NEW i \in DOMAIN meshes, NEW p \in Positions(meshes[i]),
               NEW j \in DOMAIN meshes, NEW q \in Positions(meshes[j]),
               i # j, meshes[i][p[1]].name # meshes[j][q[1]].name
        PROVE  Within(meshes[i], p) \cap Within(meshes[j], q) = {}
    <2>1. CASE i < j
      BY <1>2, <1>4, <2>1 DEF ValidateMeshNetworks, ApartMeshes
    <2>2. CASE j < i
      BY <1>2, <1>4, <2>2 DEF ValidateMeshNetworks, ApartMeshes
    <2> QED BY <1>4, <2>1, <2>2
  <1> QED BY <1>3, <1>4

=============================================================================
