----------------------------- MODULE PeerNames -----------------------------
(***************************************************************************)
(* The names of Peers: internal/peer/naming.go.  A name is a sequence of   *)
(* characters.                                                             *)
(***************************************************************************)
EXTENDS Naturals, Sequences

CONSTANTS
    Plain,           \* the characters a-z and 0-9
    Dash, Dot,       \* the other two that a resource name may have
    ToLower(_),      \* strings.ToLower of a character
    Hash(_),         \* the first bytes of the SHA-256 of a text, in hexadecimal
    HashLength,      \* how many characters that is, 16
    maxNameLength    \* 253

\* What the loop of sanitizeDNS writes for a character.
Written(c) == IF ToLower(c) \in Plain \cup {Dash, Dot} THEN ToLower(c) ELSE Dash

\* The positions that strings.TrimLeft and TrimRight with "-." do not cut off by themselves.
Solid(s) == {i \in DOMAIN s : s[i] \notin {Dash, Dot}}
TrimLeft(s) ==
    IF Solid(s) = {} THEN <<>>
    ELSE SubSeq(s, CHOOSE i \in Solid(s) : \A j \in Solid(s) : i <= j, Len(s))
TrimRight(s) ==
    IF Solid(s) = {} THEN <<>>
    ELSE SubSeq(s, 1, CHOOSE i \in Solid(s) : \A j \in Solid(s) : j <= i)

sanitizeDNS(input) == TrimRight(TrimLeft([i \in 1..Len(input) |-> Written(input[i])]))

\* <mesh>--<sourceCluster>--<nodeName>
Join(x, y) == x \o <<Dash, Dash>> \o y
Raw(meshName, sourceCluster, nodeName) == Join(meshName, Join(sourceCluster, nodeName))

\* The name, cut and with a hash of the original at its end if it is too long.
Name(meshName, sourceCluster, nodeName) ==
    LET raw == Raw(meshName, sourceCluster, nodeName)
        sanitized == sanitizeDNS(raw)
    IN IF Len(sanitized) <= maxNameLength THEN sanitized
       ELSE TrimRight(SubSeq(sanitized, 1, maxNameLength - (HashLength + 1))) \o <<Dash>> \o Hash(raw)

=============================================================================
