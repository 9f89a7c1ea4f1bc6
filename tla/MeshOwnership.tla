--------------------------- MODULE MeshOwnership ---------------------------
(***************************************************************************)
(* What the finalizer is for: the promise behind handleDeletion and the    *)
(* finalizer step of reconcile in                                          *)
(* internal/controller/clustermesh_controller.go, without caches, queues,  *)
(* passes or restarts.                                                     *)
(*                                                                         *)
(* A ClusterMesh that the operator has put its finalizer on (`held') can   *)
(* only go by being asked to leave and then let go of, and Peers of a mesh *)
(* appear in a cluster only while the operator holds the mesh.  Module     *)
(* ClusterMesh implements this specification.                              *)
(***************************************************************************)
CONSTANTS
    Meshes,    \* names of ClusterMesh resources
    Clusters   \* clusters that hold Peers

VARIABLES
    phase,     \* each mesh: "absent", "plain", "held" or "leaving"
    marked,    \* <<mesh, cluster>>: the cluster holds Peers of the mesh
    torn       \* meshes whose finalizer a user removed by hand, at any time

vars == <<phase, marked, torn>>

Init ==
    /\ phase \in [Meshes -> {"absent", "plain"}]
    /\ marked = {}
    /\ torn = {}

Move(m, from, to) ==
    /\ phase[m] = from
    /\ phase' = [phase EXCEPT ![m] = to]
    /\ UNCHANGED marked

\* Users create a mesh, and delete one the operator has not yet got hold of.
Create(m)   == Move(m, "absent", "plain") /\ UNCHANGED torn
Withdraw(m) == Move(m, "plain", "absent") /\ UNCHANGED torn

\* The operator adds its finalizer.
Hold(m) == Move(m, "plain", "held") /\ UNCHANGED torn

\* A user asks for the deletion; the operator lets go, or the user takes the
\* finalizer off.
Ask(m)     == Move(m, "held", "leaving") /\ UNCHANGED torn
Release(m) == Move(m, "leaving", "absent") /\ UNCHANGED torn
Tear(m)    == Move(m, "leaving", "absent") /\ torn' = torn \cup {m}

\* Peers of a mesh appear in a cluster.
Spread(m, c) ==
    /\ phase[m] \in {"held", "leaving"} \/ m \in torn
    /\ marked' = marked \cup {<<m, c>>}
    /\ UNCHANGED <<phase, torn>>

\* Peers go, whoever they belong to.
Shrink ==
    /\ marked' \subseteq marked
    /\ UNCHANGED <<phase, torn>>

Next ==
    \/ \E m \in Meshes :
        \/ Create(m) \/ Withdraw(m) \/ Hold(m) \/ Ask(m) \/ Release(m) \/ Tear(m)
        \/ \E c \in Clusters : Spread(m, c)
    \/ Shrink

Spec == Init /\ [][Next]_vars

=============================================================================
