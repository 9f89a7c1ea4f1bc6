---------------------------- MODULE MCNodePeers ----------------------------
(***************************************************************************)
(* NodePeers for TLC: IPv4 addresses of four bits, IPv6 ones of two, three *)
(* node names in the source and one node in the target.                    *)
(***************************************************************************)
EXTENDS NodePeers, TLC

CONSTANTS n1, n2, n3, w1, k1, k2, dns, nat1, nat2

Net(ip, len) == [ip |-> ip, len |-> len]
Pods == Net(<<0, 0, 0, 0>>, 1)
Wg   == Net(<<1, 0, 0, 0>>, 2)
Svc  == Net(<<1, 1, 0, 0>>, 4)
Six  == Net(<<0, 0>>, 0)

\* n1 behind NAT, with Kilo's subnet mask on the WireGuard address and an address
\* outside the networks; and what it lacks while it starts or is set up wrong.
Node1 == [podCIDR |-> Net(<<0, 0, 0, 0>>, 2), wg |-> Net(<<1, 0, 0, 1>>, 2), key |-> k1,
          clustermesh |-> None, force |-> None, internal |-> {<<1, 1, 1, 1>>}, external |-> <<>>]
\* n2 with addresses of both families, an internal one among the services.
Node2 == [podCIDR |-> Net(<<0, 1, 0, 0>>, 3), wg |-> Net(<<1, 0, 1, 0>>, 4), key |-> k2,
          clustermesh |-> None, force |-> None, internal |-> {<<1, 1, 0, 0>>, <<1, 0>>},
          external |-> <<<<0, 1>>, <<1, 1, 1, 0>>>>]

\* The machine of n2 after it joined again as n3: with its key, without its addresses.
Node3 == [Node2 EXCEPT !.podCIDR = Net(<<0, 1, 1, 0>>, 3), !.wg = Net(<<1, 0, 1, 1>>, 4),
                       !.internal = {}, !.external = <<>>]

MCStarted == (n1 :> Node1) @@ (n2 :> Node2) @@ (n3 :> None)
MCNodeOptions ==
    (n1 :> {None, Node1,
            [Node1 EXCEPT !.podCIDR = Pods, !.force = At(dns, 1)],
            [Node1 EXCEPT !.key = None],
            [Node1 EXCEPT !.wg = Bad],
            [Node1 EXCEPT !.clustermesh = Bad, !.force = At(dns, 1)]})
    @@
    (n2 :> {None, Node2,
            [Node2 EXCEPT !.wg = Net(<<1, 0, 0, 1>>, 4), !.internal = {}],
            [Node2 EXCEPT !.wg = None]})
    @@
    (n3 :> {Node3})

Entry(cluster, networks, keepalive) ==
    [name |-> cluster, networks |-> networks, port |-> 0, keepalive |-> keepalive]
Ours(networks) == <<Entry("src", networks, 0), Entry("tgt", <<Net(<<1, 1, 1, 0>>, 3)>>, 25)>>
Theirs(network) == <<Entry("src", <<Pods, Wg, Svc>>, 0), Entry("other", <<network>>, 0)>>

\* Our mesh alone, with a second one that shares the source, with IPv6; and networks
\* that overlap within an entry, across meshes, or do not parse and leave out PodCIDRs.
MCSpecs ==
    {<<Ours(<<Pods, Wg, Svc>>), Theirs(Net(<<1, 1, 0, 1>>, 4))>>,
     <<Ours(<<Pods, Wg, Six>>)>>,
     <<Ours(<<Pods, Net(<<0, 1, 1, 0>>, 3), Wg>>)>>,
     <<Ours(<<Pods, Wg, Svc>>), Theirs(Net(<<1, 1, 1, 0>>, 4))>>,
     <<Ours(<<Net(<<0, 0, 0, 0>>, 2), Wg, Bad>>)>>}

MCEgress == (n1 :> At(nat1, 2)) @@ (n2 :> At(nat2, 2)) @@ (n3 :> At(nat2, 2))
MCMisreports == {None, Bad, At(nat1, MaxPort + 1)}

=============================================================================
