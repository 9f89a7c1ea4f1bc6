----------------------------- MODULE MCStartup -----------------------------
(* A small instance of Startup for TLC.                                     *)
EXTENDS Startup

\* Mesh 1 joins the local cluster and a; mesh 2 also lists a, with the same Secret and
\* the same key or another, and may add b, or reaches a through a Secret of its own.
MCShared ==
    [m \in Meshes |->
        IF m = 1 THEN {[l |-> Local, a |-> <<"s1", "k">>]}
        ELSE {[l |-> Local, a |-> <<"s1", "k">>], [a |-> <<"s1", "v">>, b |-> <<"s2", "k">>],
              [a |-> <<"s2", "k">>]}]

\* Meshes of two namespaces reach cluster a through Secrets of their own.
MCSplit == [m \in Meshes |-> IF m = 1 THEN {[a |-> <<"s1", "k">>]} ELSE {[a |-> <<"s2", "k">>]}]
=============================================================================
