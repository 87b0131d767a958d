---------------------------- MODULE MCReconcilers ----------------------------
(***************************************************************************)
(* Small worlds for Reconcilers.  In all of them the Gateways web and edge  *)
(* are in namespace infra, the routes in app, the services, grant and       *)
(* certificate in shared.  A world says which objects users may store, and  *)
(* everything else is there from the start.                                 *)
(***************************************************************************)
EXTENDS Reconcilers, TLC

MCNsOf ==
  [k \in {"web", "edge"} |-> "infra"] @@ [k \in {"r1", "r2", "r3"} |-> "app"]
  @@ [k \in {"tea", "milk", "grant", "cert"} |-> "shared"]

Listener(from, protocol, certs) ==
  [from |-> from, selector |-> {"blue"}, kinds |-> <<>>, protocol |-> protocol,
   certs |-> certs]
Http(from) == [l \in {"http"} |-> Listener(from, "HTTP", {})]
Https == [l \in {"https"} |-> Listener("All", "HTTPS", {"cert"})]

Gateway(class, listeners) ==
  [class |-> class, addresses |-> {"vip"}, listeners |-> listeners]
Route(gws, services) ==
  [parents |-> {[gw |-> g, section |-> "http"] : g \in gws}, backends |-> services,
   extensions |-> {}, refused |-> FALSE]
Nameless == [Route({}, {"tea"}) EXCEPT !.parents = {[gw |-> "web", section |-> None]}]
Mirror == [Route({"web"}, {"tea"}) EXCEPT !.refused = TRUE]

GrantTo(names) == [from |-> {<<"HTTPRoute", "app">>}, to |-> {<<"Service", n>> : n \in names}]
GrantBoth == [from |-> {<<"HTTPRoute", "app">>, <<"Gateway", "infra">>},
              to |-> {<<"Service", "tea">>, <<"Secret", "*">>}]

\* What does not change unless a world says so.
Fixed ==
  [GatewayClass |-> [c \in {"bigip"} |-> "own"],
   Namespace |-> [n \in {"app"} |-> "blue"],
   Gateway |-> [g \in {"web"} |-> Gateway("bigip", Http("All"))],
   HTTPRoute |-> [r \in {"r1"} |-> Route({"web"}, {"tea"})],
   Service |-> [v \in {"tea"} |-> "ClusterIP"],
   Endpoints |-> [v \in {"tea"} |-> "pods"],
   Secret |-> [x \in {} |-> None],
   ReferenceGrant |-> [k \in {"grant"} |-> GrantTo({"tea"})]]

\* The world in which the objects of w may change and the rest is fixed.
World(fixed, w) ==
  [kind \in DOMAIN fixed |->
     [k \in DOMAIN fixed[kind] |->
        IF kind \in DOMAIN w /\ k \in DOMAIN w[kind] THEN w[kind][k] ELSE {fixed[kind][k]}]]

\* Everything that may be absent is absent at first.
Absent(fixed, w) ==
  [kind \in DOMAIN fixed |->
     [k \in DOMAIN fixed[kind] |->
        IF kind \in DOMAIN w /\ k \in DOMAIN w[kind] /\ None \in w[kind][k]
          THEN None ELSE fixed[kind][k]]]

MCTenants == {"bigip", "bigip2", "infra", "app", "shared"}

---------------------------------------------------------------------------
(* One thing at a time: classes, labels, routes, grants, services and their *)
(* members change under a Gateway that admits routes by the labels of their *)
(* namespace.  The class bigip2 and its Gateway edge, which the route joins and *)
(* leaves, belong to another controller.                                    *)
CalmFixed ==
  [Fixed EXCEPT
     !.GatewayClass = [c \in {"bigip", "bigip2"} |-> IF c = "bigip" THEN "own" ELSE Foreign],
     !.Gateway = [g \in {"web", "edge"} |->
                    Gateway(IF g = "web" THEN "bigip" ELSE "bigip2", Http("Selector"))],
     !.HTTPRoute = [r \in {"r1"} |-> Route({"web"}, {"tea", "milk"})],
     !.Service = [v \in {"tea", "milk"} |-> "ClusterIP"],
     !.Endpoints = [v \in {"tea", "milk"} |-> IF v = "tea" THEN "pods" ELSE None],
     !.ReferenceGrant = [k \in {"grant"} |-> GrantTo({"tea"})]]
CalmChange ==
  [GatewayClass |-> [c \in {"bigip"} |-> {"own", None}],
   Namespace |-> [n \in {"app"} |-> {"blue", "red"}],
   Gateway |-> [g \in {"web"} |-> {Gateway("bigip", Http("Selector")), Gateway("bigip", Http("All"))}],
   HTTPRoute |-> [r \in {"r1"} |->
                    {Route({"web", "edge"}, {"tea"}), Route({"web"}, {"tea", "milk"}), None}],
   Service |-> [v \in {"tea"} |-> {"ClusterIP", None}],
   Endpoints |-> [v \in {"tea"} |-> {"pods", "newpods"}],
   ReferenceGrant |-> [k \in {"grant"} |-> {GrantTo({"*"}), GrantTo({"tea"})}]]
CalmUniverse == World(CalmFixed, CalmChange)
CalmStart == CalmFixed

\* Calm is one of the worlds the theorems are about.
ASSUME CalmIsOrderly == Universe = CalmUniverse => Orderly /\ OneClass

---------------------------------------------------------------------------
(* Everything happens at once: Gateways, routes, certificates, services and *)
(* grants come and go while two workers run.                                *)
BusyFixed ==
  [Fixed EXCEPT !.Gateway = [g \in {"web"} |-> Gateway("bigip", Https)],
                !.Secret = [x \in {"cert"} |-> "pem"],
                !.ReferenceGrant = [k \in {"grant"} |-> GrantBoth]]
BusyChange ==
  [Gateway |-> [g \in {"web"} |-> {Gateway("bigip", Https), Gateway("bigip", Http("All")), None}],
   HTTPRoute |-> [r \in {"r1"} |-> {Route({"web"}, {"tea"}), Nameless, Mirror, None}],
   Service |-> [v \in {"tea"} |-> {"ClusterIP", "Unsupported", None}],
   Secret |-> [x \in {"cert"} |-> {"pem", None}],
   ReferenceGrant |-> [k \in {"grant"} |-> {GrantBoth, GrantTo({"tea"}), None}]]
BusyUniverse == World(BusyFixed, BusyChange)
BusyStart == Absent(BusyFixed, BusyChange)

---------------------------------------------------------------------------
(* The worlds of the runs that end in a violation.                          *)

\* A Gateway and its route are created while other events of their class,
\* or each other's, are handled.
RaceChange ==
  [Gateway |-> [g \in {"web"} |-> {Fixed.Gateway["web"], None}],
   HTTPRoute |-> [r \in {"r1"} |-> {Fixed.HTTPRoute["r1"], None}]]
RaceUniverse == World(Fixed, RaceChange)
RaceStart == Absent(Fixed, RaceChange)

\* Two classes of this controller, a Gateway each; routes of both refer to tea,
\* and the route of the second class that does may be deleted.
TwoFixed ==
  [Fixed EXCEPT
     !.GatewayClass = [c \in {"bigip", "bigip2"} |-> "own"],
     !.Gateway = [g \in {"web", "edge"} |->
                    Gateway(IF g = "web" THEN "bigip" ELSE "bigip2", Http("All"))],
     !.HTTPRoute = [r \in {"r1", "r2", "r3"} |->
                      CASE r = "r1" -> Route({"web"}, {"tea"})
                        [] r = "r2" -> Route({"edge"}, {"tea"})
                        [] r = "r3" -> Route({"edge"}, {"milk"})],
     !.Service = [v \in {"tea", "milk"} |-> "ClusterIP"],
     !.Endpoints = [v \in {"tea", "milk"} |-> "pods"],
     !.ReferenceGrant = [k \in {"grant"} |-> GrantTo({"*"})]]
SharedChange == [HTTPRoute |-> [r \in {"r2"} |-> {TwoFixed.HTTPRoute["r2"], None}]]
SharedUniverse == World(TwoFixed, SharedChange)
SharedStart == TwoFixed

\* The Gateway web moves to the other class.
MigrationChange ==
  [Gateway |-> [g \in {"web"} |-> {Gateway(c, Http("All")) : c \in {"bigip", "bigip2"}}]]
MigrationFixed ==
  [Fixed EXCEPT !.GatewayClass = [c \in {"bigip", "bigip2"} |-> "own"]]
MigrationUniverse == World(MigrationFixed, MigrationChange)
MigrationStart == MigrationFixed

=============================================================================
