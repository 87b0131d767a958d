---------------------------- MODULE MCStartupSync ----------------------------
(***************************************************************************)
(* A small cluster for StartupSync: Gateway web, route r1, service tea and  *)
(* namespace app, all there at the start or not, with the addresses of tea  *)
(* on node n1.                                                              *)
(***************************************************************************)
EXTENDS StartupSync, TLC

MCNsOf == [k \in {"web", "r1", "tea"} |-> "app"]
MCTenants == {"bigip", "app"}

Node(cni, data) == [unreachable |-> FALSE, cni |-> cni, data |-> data, ip |-> "10"]
Pods == {[ip |-> "pod", node |-> "n1"]}

Http == [from |-> "Same", selector |-> {}, kinds |-> <<>>, protocol |-> "HTTP", certs |-> {}]
Cluster ==
  [GatewayClass |-> [c \in {"bigip"} |-> "own"],
   Namespace |-> [n \in {"app"} |-> "blue"],
   Gateway |-> [g \in {"web"} |-> [class |-> "bigip", addresses |-> {"vip"},
                                  listeners |-> [l \in {"http"} |-> Http]]],
   HTTPRoute |-> [r \in {"r1"} |-> [parents |-> {[gw |-> "web", section |-> "http"]},
                                    backends |-> {"tea"}, extensions |-> {}, refused |-> FALSE]],
   Service |-> [v \in {"tea"} |-> "ClusterIP"],
   Endpoints |-> [v \in {"tea"} |-> Pods],
   Node |-> [n \in {"n1"} |-> Node("flannel", "ok")],
   Secret |-> [x \in {} |-> None],
   ReferenceGrant |-> [k \in {} |-> None]]

\* The class and the namespace stay; nodes also become unreachable, lose their
\* annotations or get broken ones.
MCUniverse ==
  [kind \in DOMAIN Cluster |->
     [k \in DOMAIN Cluster[kind] |->
        {Cluster[kind][k]} \cup
        CASE kind \in {"GatewayClass", "Namespace"} -> {}
          [] kind = "Node" -> {None, Node("flannel", "nomac"), Node("unknown", "ok"),
                               [Node("flannel", "ok") EXCEPT !.unreachable = TRUE]}
          [] kind = "Service" -> {None, "NodePort"}
          [] OTHER -> {None}]]

\* An earlier process left the pool with members that are gone, and not the class.
Before ==
  [t \in MCTenants |->
     IF t = "app" THEN [NoConfig EXCEPT !.pools = {[service |-> "tea", members |-> {"oldpod"}]}]
     ELSE NoConfig]
MCPrevious == {Before}

\* The informers of the ungated kinds fill on their own.
MCGroups == {{"Service"}, {"Endpoints"}, {Order[i] : i \in 3..9}}

\* The cluster is one of those the theorem about pools is about.
ASSUME ClusterIsServed == OneOwnClass /\ R!NamesApart

\* With nodes that stay it is one of those the theorem about classes is about;
\* the objects that come and go are the same.
SteadyUniverse ==
  [MCUniverse EXCEPT !.Node =
     [n \in DOMAIN @ |-> {Node("flannel", "ok"), [Node("flannel", "ok") EXCEPT !.ip = "11"]}]]

StayingNodes == INSTANCE StartupSync WITH Universe <- SteadyUniverse

ASSUME SomeClusterIsSteady ==
  StayingNodes!WorldAssumption /\ StayingNodes!ReferencesAssumption /\ StayingNodes!Steady

=============================================================================
