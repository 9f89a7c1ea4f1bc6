--------------------------- MODULE NodeValidation ---------------------------
(***************************************************************************)
(* Which nodes of a cluster are peered: internal/validation/node.go,       *)
(* internal/kilonode/endpoint.go, and filterNodes of                       *)
(* internal/controller/clustermesh_controller.go.                          *)
(*                                                                         *)
(* A node has, each possibly None: podCIDR, the text of its first PodCIDR; *)
(* wg, the text of kilo.squat.ai/wireguard-ip; key, its public key;        *)
(* clustermesh and force, the two endpoint annotations (an endpoint, or    *)
(* Bad).  Of its addresses it has the set of internal and the sequence of  *)
(* external ones that parse.  An entry has networks, port and keepalive.   *)
(***************************************************************************)
EXTENDS Networks

CONSTANTS
    None,                   \* absent, or empty
    V4,                     \* the length of an IPv4 address
    DefaultWireguardPort    \* 51820

\* An endpoint: a host, of whatever form, and a port.
At(host, port) == [host |-> host, port |-> port]

\* The first IPv4 address, or else the first address.
resolveFromExternalIPs(external, port) ==
    IF external = <<>> THEN None
    ELSE LET i == CHOOSE k \in DOMAIN external :
                    /\ Len(external[k]) = V4 \/ \A j \in DOMAIN external : Len(external[j]) # V4
                    /\ \A j \in 1..k-1 : Len(external[j]) # Len(external[k])
         IN At(external[i], port)

\* The first source that is there: the operator's annotation, Kilo's, the addresses.
\* Bad stands for the error that a malformed annotation is, None for no source.
ResolveEndpoint(node, fallbackPort) ==
    IF node.clustermesh # None THEN node.clustermesh
    ELSE IF node.force # None THEN node.force
    ELSE resolveFromExternalIPs(node.external, IF fallbackPort = 0 THEN DefaultWireguardPort ELSE fallbackPort)

\* The networks of an entry that parse; the others are passed over.
Allowed(entry) ==
    {ParseCIDR(entry.networks[i]) : i \in {k \in DOMAIN entry.networks : entry.networks[k] # Bad}}

validatePodCIDR(node, entry) ==
    IF node.podCIDR \in {None, Bad} THEN "NodeNoPodCIDR"
    ELSE IF \E n \in Allowed(entry) : CIDRContains(n, ParseCIDR(node.podCIDR)) THEN ""
    ELSE "NodePodCIDROutOfRange"

\* Any prefix length will do: only the host's address is looked at.
validateWireguardIP(node, entry) ==
    IF node.wg = None THEN "NodeNoWireguardIP"
    ELSE IF node.wg = Bad THEN "WGIPInvalid"
    ELSE IF \E n \in Allowed(entry) : NetContains(n, node.wg.ip) THEN ""
    ELSE "WGIPOutOfRange"

validatePublicKey(node) == IF node.key = None THEN "NodeNoPublicKey" ELSE ""

\* Mutant of validateEndpoint: a node without any endpoint is skipped.
validateEndpointStrict(node, entry) ==
    IF ResolveEndpoint(node, entry.port) \in {None, Bad} THEN "NodeNoEndpoint" ELSE ""

\* A node without any endpoint passes: it becomes a roaming peer.
validateEndpoint(node, entry) ==
    IF ResolveEndpoint(node, entry.port) = Bad THEN "NodeEndpointInvalid" ELSE ""

\* The first reason to skip the node, "" if it is valid.
ValidateNode(node, entry) ==
    IF validatePodCIDR(node, entry) # "" THEN validatePodCIDR(node, entry)
    ELSE IF validateWireguardIP(node, entry) # "" THEN validateWireguardIP(node, entry)
    ELSE IF validatePublicKey(node) # "" THEN validatePublicKey(node)
    ELSE validateEndpoint(node, entry)

\* The host's address, whatever the prefix length; a malformed text is its own key.
normalizeWGIPKey(wg) == IF wg = Bad THEN Bad ELSE wg.ip

\* Mutant of FindDuplicateWGIPs: annotations are compared as they are written.
FindDuplicateWGIPsRaw(nodes, list) ==
    {list[i] : i \in {k \in DOMAIN list : \E j \in 1..k-1 :
        nodes[list[j]].wg # None /\ nodes[list[j]].wg = nodes[list[k]].wg}}

\* The nodes whose WireGuard address an earlier one of the list has, valid or not.
FindDuplicateWGIPs(nodes, list) ==
    {list[i] : i \in {k \in DOMAIN list : \E j \in 1..k-1 :
        /\ nodes[list[j]].wg # None /\ nodes[list[k]].wg # None
        /\ normalizeWGIPKey(nodes[list[j]].wg) = normalizeWGIPKey(nodes[list[k]].wg)}}

\* The names of the valid nodes of a list.
filterNodes(nodes, list, entry) ==
    {n \in {list[i] : i \in DOMAIN list} \ FindDuplicateWGIPs(nodes, list) :
        ValidateNode(nodes[n], entry) = ""}

=============================================================================
