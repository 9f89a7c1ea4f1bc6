-------------------------- MODULE MCPeerReconcile --------------------------
(* Small instances of PeerReconcile for TLC.                               *)
EXTENDS PeerReconcile

\* Meshes with labels of their own.
MCMeshLabel == [m \in Meshes |-> m]

\* Two meshes of one name, in two namespaces.
MCSharedLabel == [m \in Meshes |-> "m1"]

\* The rank of a generated name: by mesh, then source, then node.  Rank 0 is a
\* Peer made by hand.
Rank(S, x) == Cardinality({y \in S : y = x \/ y \in {"m1", "s1", "n1"}}) - 1
MCPeerName ==
    [t \in Labels \X Sources \X Nodes |->
        1 + Rank(Labels, t[1]) * Cardinality(Sources) * Cardinality(Nodes)
          + Rank(Sources, t[2]) * Cardinality(Nodes) + Rank(Nodes, t[3])]
MCNames == 0..(Cardinality(Labels) * Cardinality(Sources) * Cardinality(Nodes))

\* The routes to a node depend on the mesh that asks for it.
MCNodeIPs == [t \in Meshes \X Sources \X Nodes |-> {t[1]}]
MCIPs == Meshes \cup {"by-hand"}

\* One Peer made by hand, holding the key of a machine that may join a source.
MCUserPeers ==
    [n \in Names |-> IF n = 0
                     THEN [mesh |-> Unlabelled, src |-> Unlabelled, key |-> "k1", ips |-> {"by-hand"}]
                     ELSE NoPeer]
MCNoUserPeers == [n \in Names |-> NoPeer]

-----------------------------------------------------------------------------
(* Names as module PeerNames makes them, of at most 11 characters, with a  *)
(* hash of two.                                                            *)

Lower(c) == IF c = "A" THEN "a" ELSE c
Digest(text) == <<"f", IF Len(text) % 2 = 0 THEN "a" ELSE "b">>
Naming ==
    INSTANCE PeerNames WITH Plain <- {"a", "b", "f"}, Dash <- "-", Dot <- ".",
        ToLower <- Lower, Hash <- Digest, HashLength <- 2, maxNameLength <- 11

MCTexts == {<<"a">>, <<"b">>, <<"a", "-", "b">>, <<"a", ".", "b">>}
MCTriples == MCTexts \X MCTexts \X MCTexts
MCName(t) == Naming!Name(t[1], t[2], t[3])

\* The examples of naming_test.go in small; names fit, and those that need no hash are
\* unique unless the separator is in a name.
ASSUME NamesAssumption ==
    /\ MCName(<<<<"A">>, <<"b", "_", "a">>, <<"b">>>>) =
            <<"a", "-", "-", "b", "-", "a", "-", "-", "b">>
    /\ MCName(<<<<".", "a">>, <<"b">>, <<"b", ".", "_">>>>) = <<"a", "-", "-", "b", "-", "-", "b">>
    /\ \A t \in MCTriples : Len(MCName(t)) <= 11
    /\ \A t, u \in MCTriples :
        t # u /\ Len(Naming!Raw(t[1], t[2], t[3])) <= 11 => MCName(t) # MCName(u)
    /\ MCName(<<<<"a">>, <<"a", "-", "-", "b">>, <<"b">>>>) =
            MCName(<<<<"a", "-", "-", "a">>, <<"b">>, <<"b">>>>)

=============================================================================
