--------------------------- MODULE MCClusterMesh ---------------------------
(* Small instances of ClusterMesh for TLC.                                 *)
EXTENDS ClusterMesh

\* Both meshes join all clusters and never overlap.
MCDisjoint == [m \in Meshes |-> {[spec |-> Clusters, cidr |-> m]}]

\* A mesh of the first two clusters or of all of them, or with invalid networks.
MCGrow ==
    [m \in Meshes |-> {[spec |-> S, cidr |-> m] : S \in {{1, 2}, Clusters}}
                      \cup {[spec |-> {1, 2}, cidr |-> Invalid]}]
=============================================================================
