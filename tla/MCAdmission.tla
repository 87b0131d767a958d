----------------------------- MODULE MCAdmission -----------------------------
(***************************************************************************)
(* A small world for Admission: Gateways web and edge in namespace infra,   *)
(* route r1 and service auth in app, service tea and certificate cert in    *)
(* shared.                                                                  *)
(***************************************************************************)
EXTENDS Admission, TLC

MCNsOf ==
  [k \in {"web", "edge", "sidegrant"} |-> "infra"] @@ [k \in {"r1", "auth"} |-> "app"]
  @@ [k \in {"tea", "cert", "grant"} |-> "shared"]

Listener(from, protocol, certs) ==
  [from |-> from, selector |-> {}, kinds |-> <<"HTTPRoute">>, protocol |-> protocol,
   certs |-> certs]
Gateway(listener) ==
  [class |-> "bigip", addresses |-> {"vip"}, listeners |-> [l \in {"main"} |-> listener]]
Http == Gateway(Listener("All", "HTTP", {}))
Https == Gateway(Listener("Same", "HTTPS", {"cert"}))
Tcp == Gateway(Listener("All", "TCP", {}))

Route(section, services, extensions) ==
  [parents |-> {[gw |-> "web", section |-> section]}, backends |-> services,
   extensions |-> extensions, refused |-> FALSE, otherKinds |-> {}]
Near == Route("main", {"auth"}, {})
Far == Route("main", {"tea"}, {"auth"})

GrantBoth ==
  [from |-> {<<"HTTPRoute", "app">>, <<"Gateway", "infra">>},
   to |-> {<<"Service", "*">>, <<"Secret", "*">>}]

Initial ==
  [GatewayClass |-> [c \in {"bigip", "other"} |-> IF c = "bigip" THEN "own" ELSE Foreign],
   Namespace |-> [n \in {"app", "infra"} |-> n],
   Gateway |-> [g \in {"web", "edge"} |-> IF g = "web" THEN Http ELSE None],
   HTTPRoute |-> [r \in {"r1"} |-> None],
   Service |-> [v \in {"tea", "auth"} |-> "ClusterIP"],
   Secret |-> [x \in {"cert"} |-> "pem"],
   ReferenceGrant |-> [k \in {"grant", "sidegrant"} |-> IF k = "grant" THEN GrantBoth ELSE None]]

World(fixed, w) ==
  [kind \in DOMAIN fixed |->
     [k \in DOMAIN fixed[kind] |->
        IF kind \in DOMAIN w /\ k \in DOMAIN w[kind] THEN w[kind][k] ELSE {fixed[kind][k]}]]

\* Everything the validators look at comes, changes and goes.
ReviewChange ==
  [GatewayClass |-> [c \in {"bigip"} |-> {"own", None}],
   Gateway |-> [g \in {"web"} |-> {Http, Https, Tcp, [Http EXCEPT !.class = "other"], None}]
               @@ [g \in {"edge"} |-> {[Http EXCEPT !.addresses = {"hostname"}], None}],
   HTTPRoute |-> [r \in {"r1"} |->
     {Far, Near, [Near EXCEPT !.refused = TRUE], Route("other", {"auth"}, {}),
      Route(None, {}, {}), [Near EXCEPT !.otherKinds = {"parents", "backends"}], None}],
   Service |-> [v \in {"tea"} |-> {"ClusterIP", "Unsupported", None}],
   Secret |-> [x \in {"cert"} |-> {"pem", Opaque, None}],
   ReferenceGrant |-> [k \in {"grant", "sidegrant"} |-> {GrantBoth, None}]]
ReviewUniverse == World(Initial, ReviewChange)
ReviewStart == Initial

AllKeys == SupportedValidatingKeys

=============================================================================
