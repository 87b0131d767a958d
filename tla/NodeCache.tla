------------------------------ MODULE NodeCache ------------------------------
(***************************************************************************)
(* The nodes of the cluster as the controller remembers them (internal/k8s) *)
(* and the members of a pool that follow from them.  A node is a record     *)
(*   [unreachable, cni, data, ip]                                           *)
(* with its taint, the CNI its conditions tell, what its annotations or     *)
(* addresses are like, and the address they give.  A cache maps names to    *)
(* addresses, NoAddress for a node that has none.  An Endpoints object      *)
(* is a set of addresses [ip, node].                                        *)
(***************************************************************************)
CONSTANT None    \* no node

\* A condition reason that detectCNIType does not know is no CNI.
KnownCNI(n) == n.cni \in {"cilium", "flannel", "calico"}

\* Set returns an error, which its callers drop, and keeps what it has.
SetFails(n) ==
  ~n.unreachable /\ (~KnownCNI(n) \/ (n.cni = "flannel" /\ n.data = "malformed"))

\* backend-data without a VtepMAC: the type assertion panics.
SetPanics(n) == ~n.unreachable /\ n.cni = "flannel" /\ n.data = "nomac"

\* The address of a node without one: the empty string.
NoAddress == ""

IpAddr(n) == IF n.data = "missing" THEN NoAddress ELSE n.ip

\* The entry of a node after Set(n), or Unset when there is no node.
SetNode(old, n) ==
  IF n = None \/ n.unreachable THEN None
  ELSE IF SetFails(n) THEN old ELSE IpAddr(n)

All(nodes) == {nodes[k] : k \in {j \in DOMAIN nodes : nodes[j] # None}}

\* One node without an address, or one address without a cached node.
FormatFails(nodes, type, eps) ==
  \/ type = "NodePort" /\ NoAddress \in All(nodes)
  \/ type = "ClusterIP" /\ \E a \in eps : a.node = None \/ nodes[a.node] = None
  \/ type \notin {"NodePort", "ClusterIP"}

\* FormatMembersFromServiceEndpoints: every node, or every address.
Format(nodes, type, eps) ==
  IF type = "NodePort" THEN All(nodes) ELSE {a.ip : a \in eps}

=============================================================================
