-------------------------- MODULE NodePeers_proofs --------------------------
(***************************************************************************)
(* The invariants of NodePeers and the order of its writes, for every set  *)
(* of nodes, every networks, addresses of every length, and any number of  *)
(* changes.                                                                *)
(***************************************************************************)
EXTENDS NodePeers, Networks_proofs, FiniteSetTheorems, NaturalsInduction

\* The nodes are what ConstantsAssumption says.
NodesTyped ==
    /\ meshes \in Specs
    /\ DOMAIN nodes = Nodes /\ \A n \in Nodes : nodes[n] \in NodeOptions[n] \cup {Started[n]}

entry == meshes[1][1]

\* The routes of a node's own, and those it has in a listing.
Own(n) == {nodes[n].podCIDR, HostRoute(nodes[n].wg.ip)} \cup nodeOwnInternalIPHostRoutes(nodes[n])
Extras(list) == CollectAnchorCIDRs(entry, nodes, Valid(list))
Routes(list, n) == Own(n) \cup (IF n = FirstValid(list, Valid(list)) THEN Extras(list) ELSE {})

-----------------------------------------------------------------------------
(* filterNodes and buildDesiredPeers.                                      *)

\* What filterNodes let through has all that BuildPeer asks for, and the PodCIDR is in
\* one of the networks of the entry.
LEMMA ValidFacts ==
    ASSUME NodesTyped, NEW list \in Orders(Present), NEW n \in Valid(list)
    PROVE  /\ n \in Nodes /\ nodes[n] # None
           /\ \E i \in DOMAIN list : list[i] = n
           /\ NodeType(nodes[n])
           /\ nodes[n].key \in Keys /\ nodes[n].wg \in CIDR /\ nodes[n].podCIDR \in CIDR
           /\ ResolveEndpoint(nodes[n], entry.port) # Bad
           /\ \E net \in Allowed(entry) : CIDRContains(net, ParseCIDR(nodes[n].podCIDR))
  <1>1. list \in [1..Cardinality(Present) -> Present]
    BY DEF Orders
  <1>2. /\ \E i \in DOMAIN list : list[i] = n
        /\ ValidateNode(nodes[n], entry) = ""
    BY Zenon DEF Valid, filterNodes, entry
  <1>3. n \in Nodes /\ nodes[n] # None
    BY <1>1, <1>2, Zenon DEF Present
  <1>4. NodeType(nodes[n])
    BY <1>3, ConstantsAssumption DEF NodesTyped
  <1>5. /\ validatePodCIDR(nodes[n], entry) = "" /\ validateWireguardIP(nodes[n], entry) = ""
        /\ validatePublicKey(nodes[n]) = "" /\ validateEndpoint(nodes[n], entry) = ""
    BY <1>2, Zenon DEF ValidateNode
  <1>6. /\ nodes[n].podCIDR \notin {None, Bad}
        /\ \E net \in Allowed(entry) : CIDRContains(net, ParseCIDR(nodes[n].podCIDR))
    BY <1>5, Zenon DEF validatePodCIDR
  <1>7. nodes[n].wg \notin {None, Bad}
    BY <1>5, Zenon DEF validateWireguardIP
  <1>8. nodes[n].key # None
    BY <1>5, Zenon DEF validatePublicKey
  <1>9. ResolveEndpoint(nodes[n], entry.port) # Bad
    BY <1>5, Zenon DEF validateEndpoint
  <1> QED BY <1>2, <1>3, <1>4, <1>6, <1>7, <1>8, <1>9, Zenon DEF NodeType

\* FindDuplicateWGIPs leaves no two nodes with one WireGuard address.
LEMMA ValidDistinct ==
    ASSUME NodesTyped, NEW list \in Orders(Present),
           NEW n \in Valid(list), NEW m \in Valid(list), n # m
    PROVE  nodes[n].wg.ip # nodes[m].wg.ip
  <1>1. PICK i \in DOMAIN list : list[i] = n
    BY ValidFacts
  <1>2. PICK j \in DOMAIN list : list[j] = m
    BY ValidFacts
  <1>3. DOMAIN list = 1..Cardinality(Present)
    BY DEF Orders
  <1>4. /\ nodes[n].wg \notin {None, Bad} /\ nodes[m].wg \notin {None, Bad}
    BY ValidFacts, ConstantsAssumption
  <1>5. n \notin FindDuplicateWGIPs(nodes, list) /\ m \notin FindDuplicateWGIPs(nodes, list)
    BY Zenon DEF Valid, filterNodes
  <1>6. CASE i < j
    <2>1. i \in 1..j-1
      BY <1>3, <1>6
    <2> QED BY <1>1, <1>2, <1>4, <1>5, <2>1 DEF FindDuplicateWGIPs, normalizeWGIPKey
  <1>7. CASE j < i
    <2>1. j \in 1..i-1
      BY <1>3, <1>7
    <2> QED BY <1>1, <1>2, <1>4, <1>5, <2>1 DEF FindDuplicateWGIPs, normalizeWGIPKey
  <1> QED BY <1>1, <1>2, <1>3, <1>6, <1>7

\* BuildPeer fails for none of them, and buildDesiredPeers gives each its routes.
LEMMA DesiredFacts ==
    ASSUME NodesTyped, NEW list \in Orders(Present)
    PROVE  /\ ~BuildFails(Valid(list))
           /\ DOMAIN Desired(list) = Valid(list)
           /\ \A n \in Valid(list) :
                /\ PeerType(Desired(list)[n])
                /\ Desired(list)[n].key = nodes[n].key
                /\ Desired(list)[n].routes = Routes(list, n)
  <1>1. ~BuildFails(Valid(list))
    BY ValidFacts, ConstantsAssumption DEF BuildFails, Unfit, entry
  <1>2. DOMAIN Desired(list) = Valid(list)
    BY DEF Desired, buildDesiredPeers
  <1>3. ASSUME NEW n \in Valid(list)
        PROVE  /\ PeerType(Desired(list)[n])
               /\ Desired(list)[n].key = nodes[n].key
               /\ Desired(list)[n].routes = Routes(list, n)
    <2> DEFINE keep == meshPersistentKeepalive(meshes[1])
               extra == IF n = FirstValid(list, Valid(list)) THEN Extras(list) ELSE {}
    <2>1. Desired(list)[n] = BuildPeer(entry, nodes[n], extra, keep)
      BY DEF Desired, buildDesiredPeers, entry, Extras
    <2>2. Extras(list) \subseteq CIDR \cup {Bad}
      BY ConstantsAssumption DEF NodesTyped, Extras, CollectAnchorCIDRs, entry
    <2>3. Own(n) \subseteq CIDR \cup {Bad}
      <3>1. nodes[n].wg.ip \in Address /\ nodes[n].internal \subseteq Address /\ nodes[n].podCIDR \in CIDR
        BY ValidFacts DEF NodeType, CIDR
      <3> QED BY <3>1, HostRouteTyped DEF Own, nodeOwnInternalIPHostRoutes
    <2>4. nodes[n].key \in Keys
      BY ValidFacts
    <2> HIDE DEF keep
    <2>5. BuildPeer(entry, nodes[n], extra, keep) =
            [key |-> nodes[n].key, routes |-> Own(n) \cup extra,
             endpoint |-> ResolveEndpoint(nodes[n], entry.port),
             keepalive |-> IF entry.keepalive < keep THEN keep ELSE entry.keepalive]
      BY DEF BuildPeer, Own
    <2> QED BY <2>1, <2>2, <2>3, <2>4, <2>5 DEF Routes, PeerType
  <1> QED BY <1>1, <1>2, <1>3

\* The Peers that are pushed: those of the valid nodes, with their routes.  The
\* enrichment of endpoints touches nothing else.
LEMMA PushedFacts ==
    ASSUME NodesTyped, NEW list \in Orders(Present),
           NEW w \in Enriched(Desired(list)) \cup {Desired(list)}
    PROVE  /\ DOMAIN w = Valid(list) /\ PeersType(w)
           /\ \A n \in Valid(list) : w[n].routes = Routes(list, n)
  <1> DEFINE D == Desired(list)
  <1>1. /\ DOMAIN D = Valid(list) /\ Valid(list) \subseteq Nodes
        /\ \A n \in Valid(list) : PeerType(D[n]) /\ D[n].routes = Routes(list, n)
    BY DesiredFacts, ValidFacts
  <1> HIDE DEF D
  <1>2. CASE w = D
    BY <1>1, <1>2 DEF PeersType
  <1>3. CASE w \in Enriched(D)
    <2>1. PICK l : w = enrichEndpointsFromDiscovered(D, observed, l)
      BY <1>3 DEF Enriched
    <2>2. DOMAIN w = Valid(list)
      BY <1>1, <2>1 DEF enrichEndpointsFromDiscovered
    <2>3. ASSUME NEW n \in Valid(list) PROVE PeerType(w[n]) /\ w[n].routes = Routes(list, n)
      <3>1. \/ w[n] = D[n]
            \/ \E x : w[n] = [D[n] EXCEPT !.endpoint = x]
        BY <1>1, <2>1 DEF enrichEndpointsFromDiscovered
      <3> QED BY <1>1, <3>1, Zenon DEF PeerType
    <2> QED BY <1>1, <2>2, <2>3 DEF PeersType
  <1> QED BY <1>2, <1>3 DEF D

\* A set of natural numbers has a smallest one.
LEMMA NatMin ==
    ASSUME NEW T, T \subseteq Nat, T # {}
    PROVE  \E x \in T : \A y \in T : x <= y
  <1> DEFINE R == OpToRel(<, Nat)
  <1>1. IsWellFoundedOn(R, Nat)
    BY NatLessThanWellFounded, Zenon
  <1>2. \A a, b \in Nat : a < b => <<a, b>> \in R
    BY DEF OpToRel
  <1> HIDE DEF R
  <1>3. PICK x \in T : \A y \in T : ~(<<y, x>> \in R)
    BY <1>1, WFMin, Zenon
  <1>4. \A y \in T : ~(y < x)
    BY <1>2, <1>3, Zenon
  <1> QED BY <1>4

\* The first valid node is one of them, if there is any.
LEMMA FirstIsValid ==
    ASSUME NodesTyped, NEW list \in Orders(Present), Valid(list) # {}
    PROVE  FirstValid(list, Valid(list)) \in Valid(list)
  <1> DEFINE I == {i \in DOMAIN list : list[i] \in Valid(list)}
  <1>1. DOMAIN list = 1..Cardinality(Present) /\ Cardinality(Present) \in Nat
    BY ConstantsAssumption, FS_Subset, FS_CardinalityType DEF Orders, Present
  <1>2. I # {}
    <2>1. PICK n : n \in Valid(list)
      OBVIOUS
    <2>2. \E i \in DOMAIN list : list[i] = n
      BY <2>1, ValidFacts
    <2> QED BY <2>1, <2>2
  <1>3. I \subseteq Nat
    BY <1>1
  <1>4. PICK i \in I : \A j \in I : i <= j
    <2> HIDE DEF I
    <2> QED BY <1>2, <1>3, NatMin, Zenon
  <1>5. ASSUME NEW j \in 1..i-1 PROVE list[j] \notin Valid(list)
    <2>1. j \in DOMAIN list /\ ~(i <= j)
      BY <1>1, <1>3, <1>4
    <2> QED BY <1>4, <2>1
  <1> QED BY <1>4, <1>5 DEF FirstValid

-----------------------------------------------------------------------------
(* The routes of a pass.                                                   *)

\* Every network of X is carried by exactly one of the Peers w and overlaps no other
\* route; every network of e is carried, or a part of it.
Exclusive(w, X) ==
    \A t \in X :
        /\ \E n \in DOMAIN w : /\ t \in w[n].routes
                               /\ \A m \in DOMAIN w : t \in w[m].routes => m = n
        /\ \A n \in DOMAIN w : \A r \in w[n].routes : r # t => ~CIDROverlaps(ParseCIDR(t), ParseCIDR(r))
Routed(w, e) ==
    \A i \in DOMAIN e.networks : \E n \in DOMAIN w : \E r \in w[n].routes :
        CIDRContains(ParseCIDR(e.networks[i]), ParseCIDR(r))

\* The networks of an entry that was validated are CIDRs and do not overlap.
LEMMA EntryApart ==
    ASSUME NodesTyped, ValidateMeshNetworks(meshes)
    PROVE  /\ \A i \in DOMAIN entry.networks : entry.networks[i] \in CIDR
           /\ \A i, j \in DOMAIN entry.networks : i # j =>
                ~CIDROverlaps(ParseCIDR(entry.networks[i]), ParseCIDR(entry.networks[j]))
  <1>1. ValidateClusterNetworks(meshes[1]) /\ 1 \in DOMAIN meshes[1]
    BY ConstantsAssumption DEF ValidateMeshNetworks, NodesTyped
  <1>2. ASSUME NEW i \in DOMAIN entry.networks
        PROVE  <<1, i>> \in Positions(meshes[1]) /\ Text(meshes[1], <<1, i>>) = entry.networks[i]
    BY <1>1, <1>2 DEF Positions, Text, entry
  <1>3. ASSUME NEW i \in DOMAIN entry.networks PROVE entry.networks[i] \in CIDR
    <2>1. entry.networks[i] # Bad
      BY <1>1, <1>2, Zenon DEF ValidateClusterNetworks, parseClusters
    <2> QED BY <2>1, ConstantsAssumption DEF NodesTyped, entry
  <1>4. ASSUME NEW i \in DOMAIN entry.networks, NEW j \in DOMAIN entry.networks, i # j
        PROVE  ~CIDROverlaps(ParseCIDR(entry.networks[i]), ParseCIDR(entry.networks[j]))
    <2>1. <<1, i>> # <<1, j>>
      BY <1>4
    <2>2. ~Overlap(meshes[1], <<1, i>>, meshes[1], <<1, j>>)
      BY <1>1, <1>2, <2>1 DEF ValidateClusterNetworks
    <2> QED BY <1>2, <2>2 DEF Overlap
  <1> QED BY <1>3, <1>4

\* A host route overlaps a network only if its address is in it.
LEMMA HostOverlap ==
    ASSUME NEW t \in CIDR, NEW a \in Address, ~NetContains(t, a)
    PROVE  ~CIDROverlaps(t, ParseCIDR(HostRoute(a)))
  <1>1. NetContains(t, t.ip) /\ t.ip \in Address
    BY DEF NetContains, CIDR, Address
  <1>2. /\ ParseCIDR(HostRoute(a)) = HostRoute(a) /\ HostRoute(a).ip = a
        /\ \A x \in Address : NetContains(HostRoute(a), x) => x = a
    BY HostRouteTyped
  <1> QED BY <1>1, <1>2 DEF CIDROverlaps

\* None of the routes of a valid node's own overlaps a network that nobody carries a
\* part of: not even its PodCIDR, though that could be the wider of the two, because it
\* is in a network of the entry that does not overlap.
LEMMA OwnApart ==
    ASSUME NodesTyped, ValidateMeshNetworks(meshes), NEW list \in Orders(Present),
           NEW t \in Extras(list), NEW n \in Valid(list), NEW r \in Own(n)
    PROVE  ~CIDROverlaps(ParseCIDR(t), ParseCIDR(r))
  <1>1. PICK i \in DOMAIN entry.networks :
            t = entry.networks[i] /\ t \in CIDR /\ ~nodeCoversNetwork(ParseCIDR(t), nodes[n])
    BY EntryApart, ConstantsAssumption DEF Extras, CollectAnchorCIDRs
  <1>2. ParseCIDR(t) \in CIDR
    BY <1>1, ParseTyped
  <1>3. /\ nodes[n].podCIDR \in CIDR \ {None, Bad} /\ nodes[n].wg \in CIDR \ {None, Bad}
        /\ nodes[n].internal \subseteq Address /\ nodes[n].wg.ip \in Address
    <2>1. nodes[n].podCIDR \in CIDR /\ nodes[n].wg \in CIDR /\ NodeType(nodes[n])
      BY ValidFacts
    <2>2. None \notin CIDR /\ Bad \notin CIDR
      BY ConstantsAssumption
    <2>3. nodes[n].internal \subseteq Address
      BY <2>1 DEF NodeType
    <2>4. nodes[n].wg.ip \in Address
      BY <2>1 DEF CIDR
    <2> QED BY <2>1, <2>2, <2>3, <2>4
  <1>4. CASE r = nodes[n].podCIDR
    <2>1. PICK net \in Allowed(entry) : CIDRContains(net, ParseCIDR(r))
      BY <1>4, ValidFacts
    <2>2. PICK j \in DOMAIN entry.networks : net = ParseCIDR(entry.networks[j])
      BY <2>1 DEF Allowed
    <2>3. net \in CIDR /\ ParseCIDR(r) \in CIDR
      BY <1>3, <1>4, <2>2, EntryApart, ParseTyped
    <2>4. i # j
      BY <1>1, <1>3, <1>4, <2>1, <2>2 DEF nodeCoversNetwork
    <2>5. Addresses(ParseCIDR(t)) \cap Addresses(net) = {}
      BY <1>1, <1>2, <2>2, <2>3, <2>4, EntryApart, OverlapsShare
    <2>6. Addresses(ParseCIDR(r)) \subseteq Addresses(net)
      BY <1>3, <1>4, <2>1, <2>3, ContainsSubset
    <2> QED BY <1>2, <2>3, <2>5, <2>6, OverlapsShare
  <1>5. CASE r = HostRoute(nodes[n].wg.ip)
    BY <1>1, <1>2, <1>3, <1>5, HostOverlap DEF nodeCoversNetwork
  <1>6. CASE r \in nodeOwnInternalIPHostRoutes(nodes[n])
    BY <1>1, <1>2, <1>3, <1>6, HostOverlap DEF nodeCoversNetwork, nodeOwnInternalIPHostRoutes
  <1> QED BY <1>4, <1>5, <1>6 DEF Own

\* The Peers of a pass over validated networks have the anchor's networks exclusively.
LEMMA PassExclusive ==
    ASSUME NodesTyped, ValidateMeshNetworks(meshes), NEW list \in Orders(Present), Valid(list) # {},
           NEW w, DOMAIN w = Valid(list), \A n \in Valid(list) : w[n].routes = Routes(list, n)
    PROVE  Exclusive(w, Extras(list))
  <1> DEFINE f == FirstValid(list, Valid(list))
  <1> SUFFICES ASSUME NEW t \in Extras(list)
               PROVE  /\ \E n \in DOMAIN w : /\ t \in w[n].routes
                                             /\ \A m \in DOMAIN w : t \in w[m].routes => m = n
                      /\ \A n \in DOMAIN w : \A r \in w[n].routes :
                            r # t => ~CIDROverlaps(ParseCIDR(t), ParseCIDR(r))
    BY DEF Exclusive
  <1>1. f \in Valid(list)
    BY FirstIsValid
  <1> HIDE DEF f
  <1>2. PICK i \in DOMAIN entry.networks : t = entry.networks[i]
    BY DEF Extras, CollectAnchorCIDRs
  <1>3. \A n \in Valid(list) : w[n].routes = Own(n) \cup (IF n = f THEN Extras(list) ELSE {})
    BY DEF Routes, f
  <1>4. ASSUME NEW n \in Valid(list), t \in Own(n) PROVE FALSE
    <2>1. ~CIDROverlaps(ParseCIDR(t), ParseCIDR(t))
      BY <1>4, OwnApart
    <2>2. ParseCIDR(t) \in CIDR
      BY <1>2, EntryApart, ParseTyped
    <2> QED BY <2>1, <2>2 DEF CIDROverlaps, NetContains, CIDR, Address
  <1>5. t \in w[f].routes /\ \A m \in Valid(list) : t \in w[m].routes => m = f
    BY <1>1, <1>3, <1>4
  <1>6. ASSUME NEW n \in Valid(list), NEW r \in w[n].routes, r # t
        PROVE  ~CIDROverlaps(ParseCIDR(t), ParseCIDR(r))
    <2>1. CASE r \in Own(n)
      BY <2>1, OwnApart
    <2>2. CASE r \in Extras(list)
      <3>1. PICK j \in DOMAIN entry.networks : r = entry.networks[j]
        BY <2>2 DEF Extras, CollectAnchorCIDRs
      <3> QED BY <1>2, <1>6, <3>1, EntryApart
    <2> QED BY <1>3, <1>6, <2>1, <2>2
  <1> QED BY <1>1, <1>5, <1>6

\* They also carry every network of the entry, or a part of it.
LEMMA PassRouted ==
    ASSUME NodesTyped, ValidateMeshNetworks(meshes), NEW list \in Orders(Present), Valid(list) # {},
           NEW w, DOMAIN w = Valid(list), \A n \in Valid(list) : w[n].routes = Routes(list, n)
    PROVE  Routed(w, entry)
  <1> SUFFICES ASSUME NEW i \in DOMAIN entry.networks
               PROVE  \E n \in Valid(list) : \E r \in Routes(list, n) :
                        CIDRContains(ParseCIDR(entry.networks[i]), ParseCIDR(r))
    BY DEF Routed
  <1> DEFINE t == entry.networks[i]
             net == ParseCIDR(t)
  <1>1. t \in CIDR /\ net \in CIDR
    BY EntryApart, ParseTyped
  <1>2. CASE t \in Extras(list)
    <2>1. CIDRContains(net, net)
      BY <1>1, ContainsSubset
    <2>2. t \in Routes(list, FirstValid(list, Valid(list)))
      BY <1>2 DEF Routes
    <2> QED BY <2>1, <2>2, FirstIsValid
  <1>3. CASE t \notin Extras(list)
    <2>1. PICK n \in Valid(list) : nodeCoversNetwork(net, nodes[n])
      BY <1>3 DEF Extras, CollectAnchorCIDRs
    <2>2. /\ nodes[n].podCIDR \in CIDR /\ nodes[n].internal \subseteq Address /\ nodes[n].wg.ip \in Address
      BY ValidFacts DEF NodeType, CIDR
    <2>3. ASSUME NEW a \in Address, NetContains(net, a)
          PROVE  CIDRContains(net, ParseCIDR(HostRoute(a)))
      BY <2>3, HostRouteTyped DEF CIDRContains
    <2>4. Own(n) \subseteq Routes(list, n)
      BY DEF Routes
    <2>5. \E r \in Own(n) : CIDRContains(net, ParseCIDR(r))
      <3> HIDE DEF net
      <3>1. CASE CIDRContains(net, ParseCIDR(nodes[n].podCIDR))
        BY <3>1 DEF Own
      <3>2. CASE \E a \in nodes[n].internal : NetContains(net, a)
        BY <2>2, <2>3, <3>2 DEF Own, nodeOwnInternalIPHostRoutes
      <3>3. CASE NetContains(net, nodes[n].wg.ip)
        BY <2>2, <2>3, <3>3 DEF Own
      <3> QED BY <2>1, <3>1, <3>2, <3>3 DEF nodeCoversNetwork
    <2> QED BY <2>1, <2>4, <2>5
  <1> QED BY <1>2, <1>3

-----------------------------------------------------------------------------
(* The inductive invariant.  What a pass holds was computed from nodes and *)
(* networks that may have changed since: only its own fields tell.         *)

\* The routes of a wanted Peer were added to this one.
Touched(n) == \E m \in DOMAIN op.want : Merged(m) /\ Home(m) = n /\ peers[n] = Result(m)

\* A Peer is as the pass wants it, but for such routes.
Done(n) ==
    /\ n \in DOMAIN peers
    /\ peers[n] = op.want[n] \/ (n \in DOMAIN op.listed /\ op.listed[n] = op.want[n] /\ Touched(n))

OpTyped ==
    op \in [loop : 0..3, entry : {op.entry}, extras : {op.extras}, want : {op.want}, listed : {op.listed},
            todo : SUBSET Nodes, failed : BOOLEAN, checked : BOOLEAN]

\* The nodes that the pass gives a Peer of their own.
Direct == {n \in DOMAIN op.want : ~Merged(n)}

\* While the first loop runs, and once it is over, without a failed call.
Writing ==
    /\ DOMAIN op.listed \subseteq DOMAIN peers
    /\ DOMAIN peers \subseteq DOMAIN op.listed \cup (Direct \ op.todo)
    /\ \A n \in DOMAIN op.listed : n \in op.todo \/ n \notin DOMAIN op.want =>
            peers[n] = op.listed[n] \/ Touched(n)
    /\ \A n \in Direct \ op.todo : Done(n)
Deleting ==
    /\ DOMAIN peers \subseteq Direct \cup op.todo
    /\ \A n \in Direct : Done(n)

IInv ==
    /\ NodesTyped /\ changes \in 0..MaxChanges /\ queued \in BOOLEAN
    /\ PeersType(peers) /\ PeersType(op.want) /\ PeersType(op.listed)
    /\ OpTyped
    /\ op # Idle => op.entry # None
    /\ op.loop # 0 => op # Idle
    /\ op.loop = 0 => op.todo = {} /\ ~op.failed /\ (op # Idle => op.listed = peers)
    /\ op.checked /\ op.want # NoPeers => Exclusive(op.want, op.extras) /\ Routed(op.want, op.entry)
    /\ op.loop = 1 => op.todo \subseteq DOMAIN op.want
    /\ op.loop = 2 => op.todo \cap DOMAIN op.want = {}
    /\ op.loop = 3 => op.todo = {}
    /\ ~op.failed => (op.loop = 1 => Writing) /\ (op.loop \in {2, 3} => Deleting)

\* Peers are merged into a listed one, under another name.
LEMMA HomeListed ==
    ASSUME PeersType(op.listed), NEW n \in DOMAIN op.want, Merged(n)
    PROVE  Home(n) \in DOMAIN op.listed /\ Home(n) # n
  <1>1. Holders(n) \subseteq DOMAIN op.listed /\ Holders(n) # {} /\ n \notin DOMAIN op.listed
    BY DEF Merged, Holders
  <1>2. Holders(n) \subseteq Nat
    BY <1>1, ConstantsAssumption, Zenon DEF PeersType
  <1>3. \E c \in Holders(n) : \A d \in Holders(n) : c <= d
    BY <1>1, <1>2, NatMin
  <1>4. Lowest(Holders(n)) \in Holders(n)
    BY <1>3 DEF Lowest
  <1> QED BY <1>1, <1>4 DEF Home

\* What is merged where does not change during a pass.
LEMMA SameMerges ==
    ASSUME op'.want = op.want, op'.listed = op.listed
    PROVE  /\ \A n : (Merged(n)' <=> Merged(n)) /\ Home(n)' = Home(n) /\ Result(n)' = Result(n)
           /\ Direct' = Direct
  <1>1. ASSUME NEW n PROVE Holders(n)' = Holders(n)
    BY DEF Holders
  <1>2. ASSUME NEW n PROVE Merged(n)' <=> Merged(n)
    BY <1>1 DEF Merged
  <1>3. ASSUME NEW n PROVE Home(n)' = Home(n)
    BY <1>1, <1>2 DEF Home
  <1>4. ASSUME NEW n PROVE Result(n)' = Result(n)
    BY <1>2, <1>3 DEF Result
  <1> QED BY <1>2, <1>3, <1>4 DEF Direct

\* A loop that goes on to the next Peer changes nothing else about the pass.
LEMMA VisitedFacts ==
    ASSUME OpTyped, NEW n, NEW b \in BOOLEAN, Visited(n, b)
    PROVE  /\ op'.todo = op.todo \ {n} /\ op'.loop = op.loop /\ op'.entry = op.entry
           /\ op'.extras = op.extras /\ op'.want = op.want /\ op'.listed = op.listed
           /\ op'.checked = op.checked /\ op'.failed = (op.failed \/ b) /\ OpTyped'
  <1>1. /\ op'.todo = op.todo \ {n} /\ op'.loop = op.loop /\ op'.entry = op.entry
        /\ op'.extras = op.extras /\ op'.want = op.want /\ op'.listed = op.listed
        /\ op'.checked = op.checked
    BY DEF OpTyped, Visited
  <1>2. op'.failed = (op.failed \/ b)
    BY DEF OpTyped, Visited
  <1>3. OpTyped'
    BY <1>1, <1>2, Zenon DEF OpTyped, Visited
  <1> QED BY <1>1, <1>2, <1>3

\* A write without an error leaves the Peer as wanted, or merges it, and does not
\* undo what was done for another: a merge into a Peer that the pass has already
\* written is refused.
LEMMA WriteKeeps ==
    ASSUME IInv, Writing, op.loop = 1, NEW n \in op.todo, Visited(n, FALSE),
           \/ AsListed(n) /\ peers' = peers
           \/ ~AsListed(n) /\ Current(n) /\ Put(Home(n), Result(n))
    PROVE  Writing'
  <1>1. /\ op'.todo = op.todo \ {n} /\ op'.want = op.want /\ op'.listed = op.listed
        /\ n \in DOMAIN op.want /\ PeersType(op.listed)
    BY VisitedFacts, Zenon DEF IInv
  <1>2. /\ \A m : (Merged(m)' <=> Merged(m)) /\ Home(m)' = Home(m) /\ Result(m)' = Result(m)
        /\ Direct' = Direct
    BY <1>1, SameMerges
  <1>3. \A m : peers'[m] = peers[m] => (Touched(m)' <=> Touched(m))
    BY <1>1, <1>2 DEF Touched
  <1>4. \A m : m \in DOMAIN peers' /\ peers'[m] = peers[m] => (Done(m) => Done(m)')
    BY <1>1, <1>3 DEF Done
  <1>5. Direct \subseteq DOMAIN op.want /\ (n \in Direct <=> ~Merged(n))
    BY <1>1 DEF Direct
  <1>6. CASE AsListed(n) /\ peers' = peers
    <2>1. ASSUME n \in Direct PROVE Done(n)
      <3>1. Home(n) = n /\ Result(n) = op.want[n]
        BY <1>5, <2>1 DEF Home, Result
      <3>2. n \in DOMAIN op.listed /\ op.listed[n] = op.want[n]
        BY <1>6, <3>1 DEF AsListed
      <3>3. n \in DOMAIN peers /\ (peers[n] = op.listed[n] \/ Touched(n))
        BY <3>2 DEF Writing
      <3> QED BY <3>2, <3>3 DEF Done
    <2>2. \A m \in Direct \ op'.todo : Done(m)
      BY <1>1, <2>1 DEF Writing
    <2>3. \A m \in DOMAIN op.listed : m \in op'.todo \/ m \notin DOMAIN op.want =>
            peers[m] = op.listed[m] \/ Touched(m)
      BY <1>1 DEF Writing
    <2>4. DOMAIN peers \subseteq DOMAIN op.listed \cup (Direct \ op'.todo)
      BY <1>1 DEF Writing
    <2>5. \A m \in Direct' \ op'.todo : Done(m)'
      BY <1>2, <1>4, <1>6, <2>2 DEF Done
    <2>6. \A m \in DOMAIN op'.listed : m \in op'.todo \/ m \notin DOMAIN op'.want =>
            peers'[m] = op'.listed[m] \/ Touched(m)'
      BY <1>1, <1>3, <1>6, <2>3
    <2>7. /\ DOMAIN op'.listed \subseteq DOMAIN peers'
          /\ DOMAIN peers' \subseteq DOMAIN op'.listed \cup (Direct' \ op'.todo)
      BY <1>1, <1>2, <1>6, <2>4 DEF Writing
    <2> QED BY <2>5, <2>6, <2>7 DEF Writing
  <1>7. CASE Current(n) /\ Put(Home(n), Result(n)) /\ Merged(n)
    <2>0. PICK c : c = Home(n)
      OBVIOUS
    <2>1. c \in DOMAIN op.listed /\ c # n /\ c \in DOMAIN peers /\ n \notin Direct
      BY <1>1, <1>5, <1>7, <2>0, HomeListed DEF Writing
    <2>2. /\ DOMAIN peers' = DOMAIN peers /\ peers'[c] = Result(n)
          /\ \A m \in DOMAIN peers : m # c => peers'[m] = peers[m]
      BY <1>7, <2>0, <2>1 DEF Put
    <2>3. peers[c] = op.listed[c]
      BY <1>7, <2>0, <2>1 DEF Current
    <2>4. Touched(c)'
      BY <1>1, <1>2, <1>7, <2>0, <2>2 DEF Touched
    <2>5. ASSUME NEW m \in Direct \ op'.todo PROVE Done(m)'
      <3>1. Done(m) /\ m \in DOMAIN peers
        BY <1>1, <2>1, <2>5 DEF Writing, Done
      <3>2. CASE m # c
        BY <1>4, <2>2, <3>1, <3>2
      <3>3. CASE m = c
        <4>1. op.listed[c] = op.want[c]
          BY <2>3, <3>1, <3>3 DEF Done
        <4> QED BY <1>1, <2>1, <2>2, <2>4, <3>3, <4>1 DEF Done
      <3> QED BY <3>2, <3>3
    <2>6. ASSUME NEW m \in DOMAIN op.listed, m \in op'.todo \/ m \notin DOMAIN op.want
          PROVE  peers'[m] = op.listed[m] \/ Touched(m)'
      <3>1. m \in DOMAIN peers /\ (peers[m] = op.listed[m] \/ Touched(m))
        BY <1>1, <2>6 DEF Writing
      <3>2. CASE m # c
        BY <1>3, <2>2, <3>1, <3>2
      <3> QED BY <2>4, <3>2
    <2>7. /\ DOMAIN op'.listed \subseteq DOMAIN peers'
          /\ DOMAIN peers' \subseteq DOMAIN op'.listed \cup (Direct' \ op'.todo)
      BY <1>1, <1>2, <2>2 DEF Writing
    <2> QED BY <1>1, <1>2, <2>5, <2>6, <2>7 DEF Writing
  <1>8. CASE Current(n) /\ Put(Home(n), Result(n)) /\ ~Merged(n)
    <2>1. Home(n) = n /\ Result(n) = op.want[n] /\ n \in Direct
      BY <1>5, <1>8 DEF Home, Result
    <2>2. /\ DOMAIN peers' = DOMAIN peers \cup {n} /\ peers'[n] = op.want[n]
          /\ \A m \in DOMAIN peers : m # n => peers'[m] = peers[m]
      BY <1>8, <2>1 DEF Put
    <2>3. Done(n)'
      BY <1>1, <2>2 DEF Done
    <2>4. ASSUME NEW m \in Direct \ op'.todo PROVE Done(m)'
      <3>1. CASE m # n
        <4>1. Done(m) /\ m \in DOMAIN peers
          BY <1>1, <2>4, <3>1 DEF Writing, Done
        <4> QED BY <1>4, <2>2, <3>1, <4>1
      <3> QED BY <2>3, <3>1
    <2>5. ASSUME NEW m \in DOMAIN op.listed, m \in op'.todo \/ m \notin DOMAIN op.want
          PROVE  peers'[m] = op.listed[m] \/ Touched(m)'
      <3>1. m \in DOMAIN peers /\ m # n /\ (peers[m] = op.listed[m] \/ Touched(m))
        BY <1>1, <2>5 DEF Writing
      <3> QED BY <1>3, <2>2, <3>1
    <2>6. /\ DOMAIN op'.listed \subseteq DOMAIN peers'
          /\ DOMAIN peers' \subseteq DOMAIN op'.listed \cup (Direct' \ op'.todo)
      BY <1>1, <1>2, <2>1, <2>2 DEF Writing
    <2> QED BY <1>1, <1>2, <2>4, <2>5, <2>6 DEF Writing
  <1> QED BY <1>6, <1>7, <1>8

\* Deleting an orphan touches no Peer that the pass wants.
LEMMA DeleteKeeps ==
    ASSUME IInv, Deleting, op.loop = 2, NEW n \in op.todo, Visited(n, FALSE), Remove(n)
    PROVE  Deleting'
  <1>1. /\ op'.todo = op.todo \ {n} /\ op'.want = op.want /\ op'.listed = op.listed
        /\ n \notin DOMAIN op.want
    BY VisitedFacts, Zenon DEF IInv
  <1>2. /\ \A m : (Merged(m)' <=> Merged(m)) /\ Home(m)' = Home(m) /\ Result(m)' = Result(m)
        /\ Direct' = Direct /\ Direct \subseteq DOMAIN op.want
    BY <1>1, SameMerges DEF Direct
  <1>3. DOMAIN peers' = DOMAIN peers \ {n} /\ \A m \in DOMAIN peers' : peers'[m] = peers[m]
    BY DEF Remove
  <1>4. ASSUME NEW m \in Direct PROVE Done(m)'
    <2>1. Done(m) /\ m \in DOMAIN peers'
      BY <1>1, <1>2, <1>3 DEF Deleting, Done
    <2>2. Touched(m) => Touched(m)'
      BY <1>1, <1>2, <1>3, <2>1 DEF Touched
    <2> QED BY <1>1, <1>3, <2>1, <2>2 DEF Done
  <1> QED BY <1>1, <1>2, <1>3, <1>4 DEF Deleting

\* It holds before the operator has done anything.
LEMMA InitIInv == Init => IInv
  <1> SUFFICES ASSUME Init PROVE IInv
    OBVIOUS
  <1>1. NodesTyped /\ changes \in 0..MaxChanges
    BY ConstantsAssumption DEF Init, NodesTyped
  <1>2. PeersType(NoPeers)
    BY DEF PeersType, NoPeers
  <1>3. op = Idle /\ peers = NoPeers /\ queued = TRUE
    BY DEF Init
  <1>4. op.want = NoPeers /\ op.listed = NoPeers /\ op.loop = 0 /\ op.todo = {} /\ op.failed = FALSE
    BY <1>3 DEF Idle
  <1>5. OpTyped
    BY <1>3 DEF OpTyped, Idle
  <1>6. op.loop # 1 /\ op.loop # 2 /\ op.loop # 3 /\ op.loop \notin {2, 3}
    BY <1>4
  <1> QED BY <1>1, <1>2, <1>3, <1>4, <1>5, <1>6, Zenon DEF IInv

\* What is said of the progress of a pass depends on the Peers and the pass alone.
LEMMA SameProgress ==
    ASSUME peers' = peers, op'.want = op.want, op'.listed = op.listed
    PROVE  /\ \A n : Done(n)' <=> Done(n)
           /\ op'.todo = op.todo => (Writing' <=> Writing) /\ (Deleting' <=> Deleting)
  <1>1. /\ \A m : (Merged(m)' <=> Merged(m)) /\ Home(m)' = Home(m) /\ Result(m)' = Result(m)
        /\ Direct' = Direct
    BY SameMerges
  <1>2. \A m : Touched(m)' <=> Touched(m)
    BY <1>1 DEF Touched
  <1>3. \A m : Done(m)' <=> Done(m)
    BY <1>2 DEF Done
  <1> QED BY <1>1, <1>2, <1>3 DEF Writing, Deleting

\* A step that goes on in a loop has to look after the Peers and the progress only.
LEMMA LoopKeeps ==
    ASSUME IInv, NEW n \in op.todo, NEW b \in BOOLEAN, Visited(n, b),
           op.loop \in {1, 2}, UNCHANGED <<meshes, nodes, queued>>,
           (changes \in 0..MaxChanges)', PeersType(peers)',
           ~op.failed /\ ~b => (op.loop = 1 => Writing') /\ (op.loop = 2 => Deleting')
    PROVE  IInv'
  <1>1. /\ op'.todo = op.todo \ {n} /\ op'.loop = op.loop /\ op'.entry = op.entry
        /\ op'.extras = op.extras /\ op'.want = op.want /\ op'.listed = op.listed
        /\ op'.checked = op.checked /\ op'.failed = (op.failed \/ b) /\ OpTyped'
    BY VisitedFacts DEF IInv
  <1>2. NodesTyped' /\ queued' \in BOOLEAN /\ PeersType(op.want)' /\ PeersType(op.listed)'
    BY <1>1 DEF IInv, NodesTyped, PeersType
  <1>3. (op.checked /\ op.want # NoPeers => Exclusive(op.want, op.extras) /\ Routed(op.want, op.entry))'
    BY <1>1 DEF IInv, Exclusive, Routed, NoPeers
  <1>4. op' # Idle
    <2>1. Idle.loop = 0
      BY DEF Idle
    <2>2. op'.loop # 0
      BY <1>1
    <2> QED BY <2>1, <2>2, Zenon
  <1>5. op'.entry # None
    BY <1>1, Zenon DEF IInv
  <1>6. /\ op'.loop = 1 => op'.todo \subseteq DOMAIN op'.want
        /\ op'.loop = 2 => op'.todo \cap DOMAIN op'.want = {}
        /\ op'.loop # 0 /\ op'.loop # 3
    BY <1>1 DEF IInv
  <1>7. ASSUME ~op'.failed PROVE (op'.loop = 1 => Writing') /\ (op'.loop \in {2, 3} => Deleting')
    <2>1. ~op.failed /\ ~b
      BY <1>1, <1>7, Zenon
    <2> QED BY <1>1, <2>1
  <1> QED BY <1>1, <1>2, <1>3, <1>4, <1>5, <1>6, <1>7 DEF IInv

\* No step breaks it.
LEMMA NextIInv == IInv /\ [Next]_vars => IInv'
  <1> SUFFICES ASSUME IInv, [Next]_vars PROVE IInv'
    OBVIOUS
  <1>1. ASSUME UNCHANGED <<peers, op>>, NodesTyped', (changes \in 0..MaxChanges)', queued' \in BOOLEAN
        PROVE  IInv'
    <2>1. (Writing' <=> Writing) /\ (Deleting' <=> Deleting)
      BY <1>1, SameProgress
    <2>2. /\ PeersType(peers)' /\ PeersType(op.want)' /\ PeersType(op.listed)' /\ OpTyped'
          /\ (op.checked /\ op.want # NoPeers => Exclusive(op.want, op.extras) /\ Routed(op.want, op.entry))'
      BY <1>1 DEF IInv, PeersType, OpTyped, Exclusive, Routed, NoPeers
    <2> QED BY <1>1, <2>1, <2>2, Zenon DEF IInv, Idle, NoPeers
  <1>2. ASSUME Change PROVE (changes \in 0..MaxChanges)'
    BY <1>2, ConstantsAssumption DEF Change, IInv
  <1>0. queued \in BOOLEAN /\ NodesTyped /\ changes \in 0..MaxChanges
    BY DEF IInv
  <1>3. ASSUME NEW n \in Nodes, NEW x \in NodeOptions[n], ChangeNode(n, x) PROVE IInv'
    <2>1. NodesTyped'
      BY <1>0, <1>3 DEF ChangeNode, NodesTyped
    <2>2. queued' \in BOOLEAN
      BY <1>0, <1>3 DEF ChangeNode
    <2> QED BY <1>1, <1>2, <1>3, <2>1, <2>2 DEF ChangeNode
  <1>4. ASSUME NEW s \in Specs, EditSpec(s) PROVE IInv'
    <2>1. NodesTyped'
      BY <1>0, <1>4 DEF EditSpec, NodesTyped
    <2>2. queued' \in BOOLEAN
      BY <1>0, <1>4 DEF EditSpec
    <2> QED BY <1>1, <1>2, <1>4, <2>1, <2>2 DEF EditSpec
  <1>5. ASSUME NEW n \in Nodes, NEW w \in Watchers, Handshake(n, w) PROVE IInv'
    <2>1. NodesTyped' /\ (changes \in 0..MaxChanges)' /\ queued' \in BOOLEAN
      BY <1>0, <1>5 DEF Handshake, NodesTyped
    <2> QED BY <1>1, <1>5, <2>1 DEF Handshake
  <1>6. ASSUME NEW w \in Watchers, NEW k \in Keys, NEW x \in Misreports, Misreport(w, k, x) PROVE IInv'
    <2>1. NodesTyped' /\ queued' \in BOOLEAN
      BY <1>0, <1>6 DEF Misreport, NodesTyped
    <2> QED BY <1>1, <1>2, <1>6, <2>1 DEF Misreport
  <1>7. ASSUME Begin PROVE IInv'
    <2>1. UNCHANGED <<meshes, nodes, peers, observed, queued>> /\ (changes \in 0..MaxChanges)'
      BY <1>0, <1>2, <1>7, Zenon DEF Begin
    <2>0. PICK list \in Orders(Present) :
            \E w \in Enriched(Desired(list)) \cup {Desired(list)}, c \in BOOLEAN :
                Pass(Desired(list), w, c) /\ (c => meshes \in Validated)
      BY <1>7, Zenon DEF Begin
    <2>2. PICK w \in Enriched(Desired(list)) \cup {Desired(list)}, c \in BOOLEAN :
            Pass(Desired(list), w, c) /\ (c => meshes \in Validated)
      BY <2>0
    <2>3. op' = [loop |-> 0, entry |-> entry, extras |-> Extras(list), want |-> w, listed |-> peers,
                 todo |-> {}, failed |-> FALSE, checked |-> c]
      BY <1>0, <2>2, DesiredFacts, Zenon DEF Pass, Extras, entry
    <2>4. /\ DOMAIN w = Valid(list) /\ PeersType(w)
          /\ \A n \in Valid(list) : w[n].routes = Routes(list, n)
      BY <1>0, PushedFacts
    <2>5. entry # None
      BY <1>0, ConstantsAssumption DEF NodesTyped, entry
    <2>6. ASSUME c, w # NoPeers PROVE Exclusive(w, Extras(list)) /\ Routed(w, entry)
      <3>1. ValidateMeshNetworks(meshes)
        BY <2>2, <2>6 DEF Validated
      <3>2. Valid(list) # {}
        <4>1. w = [n \in Valid(list) |-> w[n]]
          BY <2>2 DEF Enriched, enrichEndpointsFromDiscovered, Desired, buildDesiredPeers
        <4> QED BY <2>6, <4>1 DEF NoPeers
      <3> QED BY <1>0, <2>4, <3>1, <3>2, PassExclusive, PassRouted
    <2>7. NodesTyped' /\ PeersType(peers)' /\ PeersType(peers) /\ queued' \in BOOLEAN
      BY <1>0, <2>1 DEF IInv, NodesTyped, PeersType
    <2>9. /\ op'.entry = entry /\ op'.extras = Extras(list) /\ op'.want = w /\ op'.checked = c
          /\ op'.loop = 0 /\ op'.todo = {} /\ op'.failed = FALSE /\ op'.listed = peers'
      BY <2>1, <2>3
    <2>8. PeersType(op.want)' /\ PeersType(op.listed)' /\ OpTyped'
      <3>1. PeersType(op.want)'
        BY <2>4, <2>9 DEF PeersType
      <3>2. PeersType(op.listed)'
        BY <2>7, <2>9 DEF PeersType
      <3>3. OpTyped'
        BY <2>3 DEF OpTyped
      <3> QED BY <3>1, <3>2, <3>3
    <2>10. (op.checked /\ op.want # NoPeers => Exclusive(op.want, op.extras) /\ Routed(op.want, op.entry))'
      BY <2>6, <2>9
    <2>11. op'.entry # None /\ op'.loop = 0 /\ op'.todo = {} /\ ~op'.failed /\ op'.listed = peers'
      BY <2>5, <2>9
    <2>12. op'.loop # 1 /\ op'.loop # 2 /\ op'.loop # 3
      BY <2>11
    <2>13. (changes \in 0..MaxChanges)'
      BY <2>1
    <2>14. op'.loop \notin {2, 3}
      BY <2>12
    <2> QED BY <2>7, <2>8, <2>10, <2>11, <2>12, <2>13, <2>14, ZenonT(60) DEF IInv
  <1>8. ASSUME NextLoop PROVE IInv'
    <2>1. /\ op # Idle /\ op.loop \in 0..2 /\ op.todo = {}
          /\ op' = [op EXCEPT !.loop = @ + 1, !.todo = Visits(op.loop + 1)]
          /\ UNCHANGED <<meshes, nodes, peers, observed, queued, changes>>
      BY <1>8 DEF NextLoop, IInv, OpTyped
    <2>2. /\ op'.loop = op.loop + 1 /\ op'.todo = Visits(op.loop + 1)
          /\ op'.entry = op.entry /\ op'.extras = op.extras /\ op'.want = op.want
          /\ op'.listed = op.listed /\ op'.failed = op.failed /\ op'.checked = op.checked
      BY <2>1 DEF IInv, OpTyped
    <2>3. /\ op.loop = 0 => op'.todo = DOMAIN op.want
          /\ op.loop = 1 => op'.todo = DOMAIN op.listed \ DOMAIN op.want
          /\ op.loop = 2 => op'.todo = {}
      BY <2>1, <2>2 DEF Visits, Loops
    <2>4. OpTyped'
      <3>1. op'.todo \subseteq Nodes /\ op'.loop \in 0..3
        BY <2>1, <2>2, <2>3 DEF IInv, PeersType
      <3> QED BY <2>1, <3>1, Zenon DEF IInv, OpTyped
    <2>5. NodesTyped' /\ PeersType(peers)' /\ PeersType(op.want)' /\ PeersType(op.listed)'
      BY <2>1, <2>2 DEF IInv, NodesTyped, PeersType
    <2>6. /\ \A n : Done(n)' <=> Done(n)
          /\ Direct' = Direct /\ Direct \subseteq DOMAIN op.want
      BY <2>1, <2>2, SameProgress, SameMerges DEF Direct
    <2>8. ASSUME op.loop = 1, ~op.failed PROVE Deleting'
      <3>1. Writing
        BY <2>8 DEF IInv
      <3>2. DOMAIN peers \subseteq Direct \cup op'.todo
        <4>1. \A n \in DOMAIN op.want : n \in DOMAIN op.listed => n \in Direct
          BY DEF Direct, Merged
        <4> QED BY <2>3, <2>8, <3>1, <4>1 DEF Writing
      <3> QED BY <2>1, <2>6, <3>1, <3>2 DEF Writing, Deleting
    <2>9. ASSUME op.loop = 2, ~op.failed PROVE Deleting'
      <3>1. Deleting
        BY <2>9 DEF IInv
      <3> QED BY <2>1, <2>3, <2>6, <2>9, <3>1 DEF Deleting
    <2>10. (op.checked /\ op.want # NoPeers => Exclusive(op.want, op.extras) /\ Routed(op.want, op.entry))'
      BY <2>2, Zenon DEF IInv, Exclusive, Routed, NoPeers
    <2>11. op' # Idle /\ op'.entry # None
      <3>1. op.entry # None
        BY <2>1 DEF IInv
      <3>2. Idle.loop = 0 /\ op'.loop # 0
        BY <2>1, <2>2 DEF Idle
      <3> QED BY <2>2, <3>1, <3>2
    <2>12. ~op'.failed => (op'.loop = 1 => Writing') /\ (op'.loop \in {2, 3} => Deleting')
      <3>1. CASE op.loop = 0
        <4>1. op.listed = peers /\ Direct \ op'.todo = {}
          BY <2>1, <2>3, <2>6, <3>1 DEF IInv
        <4>2. Writing'
          BY <2>1, <2>2, <2>6, <4>1 DEF Writing
        <4> QED BY <2>2, <3>1, <4>2
      <3> QED BY <2>1, <2>2, <2>8, <2>9, <3>1
    <2>13. /\ op'.loop = 1 => op'.todo \subseteq DOMAIN op'.want
           /\ op'.loop = 2 => op'.todo \cap DOMAIN op'.want = {}
           /\ op'.loop = 3 => op'.todo = {}
           /\ op'.loop # 0
      BY <2>1, <2>2, <2>3
    <2>14. (changes \in 0..MaxChanges)' /\ queued' \in BOOLEAN
      BY <1>0, <2>1
    <2> QED BY <2>4, <2>5, <2>10, <2>11, <2>12, <2>13, <2>14 DEF IInv
  <1>9. ASSUME NEW n \in Nodes, Write(n) PROVE IInv'
    <2>0. n \in op.todo /\ UNCHANGED <<meshes, nodes, queued>> /\ (changes \in 0..MaxChanges)'
      BY <1>0, <1>2, <1>9, Zenon DEF Write
    <2>1. op.loop = 1 /\ n \in DOMAIN op.want
      <3>1. op.loop \in {1, 2}
        <4>1. op.loop \in 0..3
          BY DEF IInv, OpTyped
        <4>2. op.loop # 0 /\ op.loop # 3
          BY <2>0, Zenon DEF IInv
        <4> QED BY <4>1, <4>2
      <3>2. Loops[op.loop] = "write"
        BY <1>9 DEF Write
      <3>3. op.loop = 1
        BY <3>1, <3>2 DEF Loops
      <3> QED BY <2>0, <3>3 DEF IInv
    <2>2. CASE \/ AsListed(n) /\ Visited(n, FALSE) /\ peers' = peers
               \/ ~AsListed(n) /\ Current(n) /\ Put(Home(n), Result(n)) /\ Visited(n, FALSE)
      <3>1. PeersType(peers)'
        <4>1. PeerType(Result(n)) /\ Home(n) \in Nodes
          BY <2>1, HomeListed DEF IInv, Home, Result, PeersType, PeerType
        <4>2. CASE Put(Home(n), Result(n))
          BY <4>1, <4>2 DEF IInv, Put, PeersType
        <4> QED BY <2>2, <4>2, Zenon DEF IInv, PeersType
      <3>2. ASSUME ~op.failed PROVE Writing'
        <4>1. Writing
          BY <2>1, <3>2 DEF IInv
        <4> QED BY <2>0, <2>1, <2>2, <4>1, WriteKeeps, Zenon
      <3>3. op.loop \in {1, 2} /\ op.loop # 2
        BY <2>1
      <3>4. Visited(n, FALSE)
        BY <2>2, Zenon
      <3> QED BY <2>0, <3>1, <3>2, <3>3, <3>4, LoopKeeps, Zenon
    <2>3. CASE Visited(n, TRUE) /\ peers' = peers
      <3>1. PeersType(peers)'
        BY <2>3 DEF IInv, PeersType
      <3> QED BY <2>0, <2>1, <2>3, <3>1, LoopKeeps, Zenon
    <2> QED BY <1>9, <2>2, <2>3, Zenon DEF Write
  <1>10. ASSUME NEW n \in Nodes, DeleteOrphan(n) PROVE IInv'
    <2>0. n \in op.todo /\ UNCHANGED <<meshes, nodes, queued>> /\ (changes \in 0..MaxChanges)'
      BY <1>0, <1>2, <1>10, Zenon DEF DeleteOrphan
    <2>1. op.loop = 2
      <3>1. op.loop \in {1, 2}
        <4>1. op.loop \in 0..3
          BY DEF IInv, OpTyped
        <4>2. op.loop # 0 /\ op.loop # 3
          BY <2>0, Zenon DEF IInv
        <4> QED BY <4>1, <4>2
      <3>2. Loops[op.loop] = "delete"
        BY <1>10 DEF DeleteOrphan
      <3>3. op.loop = 2
        BY <3>1, <3>2 DEF Loops
      <3> QED BY <2>0, <3>3 DEF IInv
    <2>2. CASE Visited(n, FALSE) /\ Remove(n)
      <3>1. PeersType(peers)'
        BY <2>2 DEF IInv, Remove, PeersType
      <3>2. ASSUME ~op.failed PROVE Deleting'
        <4>1. Deleting
          BY <2>1, <3>2 DEF IInv
        <4> QED BY <2>0, <2>1, <2>2, <4>1, DeleteKeeps, Zenon
      <3>3. op.loop \in {1, 2} /\ op.loop # 1
        BY <2>1
      <3>4. Visited(n, FALSE)
        BY <2>2, Zenon
      <3> QED BY <2>0, <3>1, <3>2, <3>3, <3>4, LoopKeeps, Zenon
    <2>3. CASE Visited(n, TRUE) /\ peers' = peers
      <3>1. PeersType(peers)'
        BY <2>3 DEF IInv, PeersType
      <3> QED BY <2>0, <2>1, <2>3, <3>1, LoopKeeps, Zenon
    <2> QED BY <1>10, <2>2, <2>3, Zenon DEF DeleteOrphan
  <1>11. ASSUME End PROVE IInv'
    <2>1. PeersType(NoPeers)
      BY DEF PeersType, NoPeers
    <2>2. op' = Idle /\ UNCHANGED <<meshes, nodes, peers, observed, queued, changes>>
      BY <1>11 DEF End
    <2>3. NodesTyped' /\ PeersType(peers)' /\ queued' \in BOOLEAN /\ (changes \in 0..MaxChanges)'
      BY <1>0, <2>2, Zenon DEF IInv, NodesTyped, PeersType
    <2>4. /\ op'.want = NoPeers /\ op'.listed = NoPeers /\ op'.loop = 0 /\ op'.todo = {}
          /\ op'.failed = FALSE /\ op'.checked = FALSE
      BY <2>2 DEF Idle
    <2>5. OpTyped'
      BY <2>2 DEF OpTyped, Idle
    <2>6. PeersType(op.want)' /\ PeersType(op.listed)'
      BY <2>1, <2>4 DEF PeersType
    <2>7. op'.loop # 1 /\ op'.loop # 2 /\ op'.loop # 3 /\ op'.loop \notin {2, 3}
      BY <2>4
    <2> QED BY <2>2, <2>3, <2>4, <2>5, <2>6, <2>7, Zenon DEF IInv
  <1>12. ASSUME Stop PROVE IInv'
    <2>1. UNCHANGED <<meshes, nodes, peers, changes, op>> /\ queued' \in BOOLEAN
      BY <1>12 DEF Stop
    <2> QED BY <1>0, <1>1, <2>1 DEF NodesTyped
  <1>13. CASE UNCHANGED vars
    BY <1>0, <1>1, <1>13 DEF vars, NodesTyped
  <1> QED BY <1>3, <1>4, <1>5, <1>6, <1>7, <1>8, <1>9, <1>10, <1>11, <1>12, <1>13 DEF Next, Step, GoOn

\* The invariant holds in every reachable state.
THEOREM Invariance == Spec => []IInv
  BY InitIInv, NextIInv, PTL DEF Spec

-----------------------------------------------------------------------------
(* The properties.                                                         *)

\* Peers, pushed or being pushed, have a key and routes that are CIDRs or texts a user
\* wrote, and a pass knows its entry.
THEOREM TypeCorrect == Spec => []TypeOK
  <1>1. IInv => TypeOK
    BY DEF IInv, TypeOK, NodesTyped, OpTyped
  <1> QED BY <1>1, Invariance, PTL

\* The checks of filterNodes are enough for BuildPeer, in whatever order the nodes are
\* listed, and leave no two nodes with one WireGuard address.
THEOREM ValidationSound == Spec => []ValidNodesSound
  <1>1. ASSUME IInv PROVE ValidNodesSound
    <2>1. NodesTyped
      BY <1>1 DEF IInv
    <2>2. ASSUME NEW list \in Orders(Present)
          PROVE  /\ ~BuildFails(Valid(list))
                 /\ \A n, m \in Valid(list) : n # m => nodes[n].wg.ip # nodes[m].wg.ip
      BY <2>1, DesiredFacts, ValidDistinct
    <2> QED BY <2>2 DEF ValidNodesSound
  <1> QED BY <1>1, Invariance, PTL

\* A Peer that is as the pass wants it has the routes of its node, and only such as the
\* pass wants: for its node, or for one that was merged into it.
LEMMA DoneRoutes ==
    ASSUME NEW n \in Direct, Done(n),
           NEW r \in peers[n].routes
    PROVE  \/ r \in op.want[n].routes
           \/ \E m \in DOMAIN op.want : Merged(m) /\ Home(m) = n /\ r \in op.want[m].routes
  <1>1. CASE peers[n] = op.want[n]
    BY <1>1
  <1>2. CASE op.listed[n] = op.want[n] /\ Touched(n)
    <2>1. PICK m \in DOMAIN op.want : Merged(m) /\ Home(m) = n /\ peers[n] = Result(m)
      BY <1>2 DEF Touched
    <2>2. peers[n].routes \subseteq op.listed[n].routes \cup op.want[m].routes
      BY <2>1 DEF Result
    <2> QED BY <1>2, <2>1, <2>2
  <1> QED BY <1>1, <1>2 DEF Done

\* And the Peer has all the routes of its node.
LEMMA DoneCovers ==
    ASSUME PeersType(op.listed), PeersType(op.want), NEW n \in Direct, Done(n)
    PROVE  n \in DOMAIN peers /\ op.want[n].routes \subseteq peers[n].routes
  <1>1. CASE op.listed[n] = op.want[n] /\ n \in DOMAIN op.listed /\ Touched(n)
    <2>1. PICK m \in DOMAIN op.want : Merged(m) /\ Home(m) = n /\ peers[n] = Result(m)
      BY <1>1 DEF Touched
    <2>2. "routes" \in DOMAIN op.listed[n]
      BY <1>1 DEF PeersType, PeerType
    <2>3. peers[n].routes = op.listed[n].routes \cup op.want[m].routes
      BY <2>1, <2>2 DEF Result
    <2> QED BY <1>1, <2>3 DEF Done
  <1> QED BY <1>1 DEF Done

\* At the end of a clean pass there is a Peer for each node that was not merged, with
\* the node's routes and those of nodes merged into it.
LEMMA CleanPeers ==
    ASSUME IInv, CleanEnd
    PROVE  /\ DOMAIN peers = Direct
           /\ \A n \in Direct : op.want[n].routes \subseteq peers[n].routes
           /\ \A n \in Direct : \A r \in peers[n].routes :
                \/ r \in op.want[n].routes
                \/ \E m \in DOMAIN op.want : Merged(m) /\ Home(m) = n /\ r \in op.want[m].routes
  <1>1. Deleting /\ op.todo = {} /\ PeersType(op.listed) /\ PeersType(op.want)
    BY DEF IInv, CleanEnd
  <1>2. \A n \in Direct : Done(n)
    BY <1>1 DEF Deleting
  <1>3. \A n \in Direct : n \in DOMAIN peers /\ op.want[n].routes \subseteq peers[n].routes
    BY <1>1, <1>2, DoneCovers
  <1>4. DOMAIN peers = Direct
    BY <1>1, <1>3 DEF Deleting
  <1> QED BY <1>2, <1>3, <1>4, DoneRoutes

\* After a clean pass the networks nobody carries a part of have one carrier each,
\* unless their node was merged into the Peer of another and that is gone, and nothing
\* overlaps them.
THEOREM AnchorsExclusive == Spec => []RoutesExclusive
  <1>1. ASSUME IInv PROVE RoutesExclusive
    <2> SUFFICES ASSUME CleanEnd, op.want # NoPeers, NEW t \in op.extras
                 PROVE  /\ \/ Cardinality(Carriers(t)) = 1
                           \/ /\ Carriers(t) = {}
                              /\ \E n \in DOMAIN op.want : t \in op.want[n].routes /\ Merged(n)
                        /\ \A n \in DOMAIN peers : \A r \in peers[n].routes :
                            r # t => ~CIDROverlaps(ParseCIDR(t), ParseCIDR(r))
      BY DEF RoutesExclusive
    <2>1. Exclusive(op.want, op.extras)
      BY <1>1 DEF IInv, CleanEnd
    <2>2. /\ DOMAIN peers = Direct /\ Direct \subseteq DOMAIN op.want
          /\ \A n \in Direct : op.want[n].routes \subseteq peers[n].routes
          /\ \A n \in Direct : \A r \in peers[n].routes :
                \/ r \in op.want[n].routes
                \/ \E m \in DOMAIN op.want : Merged(m) /\ Home(m) = n /\ r \in op.want[m].routes
      BY <1>1, CleanPeers DEF Direct
    <2>3. PICK f \in DOMAIN op.want : /\ t \in op.want[f].routes
                                      /\ \A m \in DOMAIN op.want : t \in op.want[m].routes => m = f
      BY <2>1 DEF Exclusive
    <2>4. ASSUME NEW n \in Carriers(t), n # f PROVE Merged(f) /\ n = Home(f)
      <3>1. n \in Direct /\ t \in peers[n].routes
        BY <2>2 DEF Carriers
      <3> QED BY <2>2, <2>3, <2>4, <3>1
    <2>5. Carriers(t) \subseteq Direct
      BY <2>2 DEF Carriers
    <2>6. \/ Cardinality(Carriers(t)) = 1
          \/ /\ Carriers(t) = {}
             /\ \E n \in DOMAIN op.want : t \in op.want[n].routes /\ Merged(n)
      <3>1. CASE Merged(f)
        <4>1. f \notin Direct
          BY <3>1 DEF Direct
        <4>2. CASE Carriers(t) = {Home(f)}
          BY <4>2, FS_Singleton
        <4>3. Carriers(t) = {} \/ Carriers(t) = {Home(f)}
          BY <2>4, <2>5, <4>1
        <4> QED BY <2>3, <3>1, <4>2, <4>3
      <3>2. CASE ~Merged(f)
        <4>1. f \in Carriers(t)
          BY <2>2, <2>3, <3>2 DEF Carriers, Direct
        <4>2. Carriers(t) = {f}
          BY <2>4, <3>2, <4>1
        <4> QED BY <4>2, FS_Singleton, Zenon
      <3> QED BY <3>1, <3>2
    <2>7. \A n \in DOMAIN peers : \A r \in peers[n].routes :
            r # t => ~CIDROverlaps(ParseCIDR(t), ParseCIDR(r))
      <3>1. \A m \in DOMAIN op.want : \A r \in op.want[m].routes :
                r # t => ~CIDROverlaps(ParseCIDR(t), ParseCIDR(r))
        BY <2>1 DEF Exclusive
      <3> QED BY <2>2, <3>1
    <2> QED BY <2>6, <2>7
  <1> QED BY <1>1, Invariance, PTL

\* After a clean pass with a valid node every network of the entry, or a part of it, was
\* wanted in some Peer, and is there unless all those nodes were merged.
THEOREM NetworksRouted == Spec => []EveryNetworkRouted
  <1>1. ASSUME IInv PROVE EveryNetworkRouted
    <2> SUFFICES ASSUME CleanEnd, op.want # NoPeers, NEW i \in DOMAIN op.entry.networks
                 PROVE  LET chosen == Routing(op.want, op.entry.networks[i])
                        IN /\ chosen # {}
                           /\ Routing(peers, op.entry.networks[i]) # {} \/ \A n \in chosen : Merged(n)
      BY DEF EveryNetworkRouted
    <2>1. Routed(op.want, op.entry)
      BY <1>1 DEF IInv, CleanEnd
    <2>2. /\ DOMAIN peers = Direct
          /\ \A n \in Direct : op.want[n].routes \subseteq peers[n].routes
      BY <1>1, CleanPeers
    <2>3. Routing(op.want, op.entry.networks[i]) # {}
      BY <2>1 DEF Routed, Routing
    <2>4. ASSUME NEW n \in Routing(op.want, op.entry.networks[i]), ~Merged(n)
          PROVE  n \in Routing(peers, op.entry.networks[i])
      <3>1. n \in Direct
        BY <2>4 DEF Routing, Direct
      <3> QED BY <2>2, <3>1 DEF Routing
    <2> QED BY <2>3, <2>4
  <1> QED BY <1>1, Invariance, PTL

\* Only the second loop of ReconcilePeers takes Peers away, and by then the first has
\* given every node that it did not merge into the Peer of another its own, with all its
\* routes.
THEOREM Handover == Spec => HandoverBeforeDelete
  <1> DEFINE Lost == DOMAIN peers \ DOMAIN peers'
             Kept == \A m \in DOMAIN op.want : ~Merged(m) =>
                        m \in DOMAIN peers' /\ op.want[m].routes \subseteq peers'[m].routes
  <1>1. ASSUME IInv, [Next]_vars, Lost # {}, ~op.failed PROVE Kept
    <2>1. peers' # peers
      BY <1>1
    <2>2. PICK n \in Nodes : Write(n) \/ DeleteOrphan(n)
      BY <1>1, <2>1, Zenon DEF Next, Step, GoOn, ChangeNode, EditSpec, Handshake, Misreport, Begin, Stop,
                        NextLoop, End, vars
    <2>3. ~Write(n)
      BY <1>1, <2>1, Zenon DEF Write, Put
    <2>4. Remove(n) /\ n \in op.todo /\ op.loop = 2
      <3>1. Remove(n) /\ n \in op.todo /\ Loops[op.loop] = "delete"
        BY <2>1, <2>2, <2>3, Zenon DEF DeleteOrphan
      <3>2. op.loop \in {1, 2}
        BY <1>1, <3>1 DEF IInv, OpTyped
      <3> QED BY <3>1, <3>2 DEF Loops
    <2>5. Deleting /\ n \notin DOMAIN op.want /\ PeersType(op.listed) /\ PeersType(op.want)
      BY <1>1, <2>4 DEF IInv
    <2>6. \A m \in Direct : m \in DOMAIN peers /\ op.want[m].routes \subseteq peers[m].routes
      BY <2>5, DoneCovers DEF Deleting
    <2>7. \A m \in DOMAIN peers : m # n => m \in DOMAIN peers' /\ peers'[m] = peers[m]
      BY <2>4 DEF Remove
    <2> QED BY <2>5, <2>6, <2>7 DEF Direct
  <1>2. IInv /\ [Next]_vars => (Lost # {} /\ ~op.failed => Kept)
    BY <1>1
  <1> QED BY <1>2, Invariance, PTL DEF Spec, HandoverBeforeDelete

=============================================================================
