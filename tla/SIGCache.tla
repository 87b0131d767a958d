------------------------------ MODULE SIGCache ------------------------------
(***************************************************************************)
(* The cached resources and what is computed from them (internal/pkg:       *)
(* cache.go, utils.go, parser.go, iruletmpl_parser.go).  A cache s is a     *)
(* record with one map per kind, from the key of an object to the object or *)
(* to None.  An object is the part of it the computations look at:          *)
(*   GatewayClass    any value: only classes of this controller are cached  *)
(*   Namespace       its labels                                             *)
(*   Gateway         [class, addresses, listeners], addresses a set with    *)
(*                   "hostname" for one that is no IPAddress, listeners     *)
(*                   from names to [from, selector, kinds, protocol, certs] *)
(*   HTTPRoute       [parents, backends, extensions, refused], parents a    *)
(*                   set of [gw, section], backends and extensions sets of  *)
(*                   services, refused TRUE when it has a filter that no    *)
(*                   iRule is made of: a mirror, or a redirect with a       *)
(*                   status other than 301 and 302                          *)
(*   Service         "Unsupported" when its type has no pool members        *)
(*   Endpoints       any value: the addresses of the members                *)
(*   Secret          any value: the certificate                             *)
(*   ReferenceGrant  [from, to], sets of <<kind, namespace>> and            *)
(*                   <<kind, name>>, name "*" for every object of the kind  *)
(* References are keys, a missing namespace already resolved to the         *)
(* referrer's; a certificate or an extension of another kind or group is a  *)
(* key under which nothing is ever stored.  Listeners for HTTPS have tls.   *)
(***************************************************************************)
EXTENDS Naturals, Sequences, FiniteSets

CONSTANTS NsOf,   \* namespace of every namespaced key
          None    \* no object, no section name

Cached(map) == {k \in DOMAIN map : map[k] # None}

---------------------------------------------------------------------------
(* Which references hold.                                                  *)

\* A listener without explicit kinds admits routes by its protocol; with
\* kinds, a kind of another group ends the search.
AdmitsHTTPRoute(listener) ==
  IF listener.kinds = <<>>
    THEN listener.protocol \in {"HTTP", "HTTPS"}
    ELSE \E i \in DOMAIN listener.kinds :
           /\ listener.kinds[i] = "HTTPRoute"
           /\ \A j \in 1..i : listener.kinds[j] # "foreign"

AdmitsNamespace(s, gwNs, listener, ns) ==
  \/ listener.from = "All"
  \/ listener.from = "Same" /\ gwNs = ns
  \/ listener.from = "Selector" /\ s.Namespace[ns] \in listener.selector

\* A route whose namespace is not cached matches no listener.
RouteMatches(s, gwNs, listener, ns) ==
  /\ s.Namespace[ns] # None
  /\ AdmitsNamespace(s, gwNs, listener, ns)
  /\ AdmitsHTTPRoute(listener)

\* CanRefer: same namespace, or a grant there for this kind and namespace,
\* that names the object or every object of its kind.
CanRefer(s, fromKind, from, toKind, to) ==
  \/ NsOf[from] = NsOf[to]
  \/ \E k \in Cached(s.ReferenceGrant) :
       /\ NsOf[k] = NsOf[to]
       /\ <<fromKind, NsOf[from]>> \in s.ReferenceGrant[k].from
       /\ {<<toKind, to>>, <<toKind, "*">>} \cap s.ReferenceGrant[k].to # {}

\* The parentRef pr of route r names a listener that takes the route.
ParentMatches(s, r, pr) ==
  /\ s.Gateway[pr.gw] # None
  /\ pr.section \in DOMAIN s.Gateway[pr.gw].listeners
  /\ RouteMatches(s, NsOf[pr.gw], s.Gateway[pr.gw].listeners[pr.section], NsOf[r])

\* The object hr under the key r; hr need not be the cached one.
GatewayRefsOfHR(s, r, hr) ==
  IF hr = None THEN {}
  ELSE {pr.gw : pr \in {p \in hr.parents : ParentMatches(s, r, p)}}

\* GatewayRefsOfHR dereferences a nil sectionName once it meets a listener.
RefPanics(s, hr) ==
  /\ hr # None
  /\ \E pr \in hr.parents :
       /\ pr.section = None
       /\ s.Gateway[pr.gw] # None
       /\ DOMAIN s.Gateway[pr.gw].listeners # {}

AttachedGateways(s, c) == {g \in Cached(s.Gateway) : s.Gateway[g].class = c}

AttachedHTTPRoutes(s, g) ==
  {r \in Cached(s.HTTPRoute) :
     \E pr \in s.HTTPRoute[r].parents : pr.gw = g /\ ParentMatches(s, r, pr)}

AttachedServices(s, r) ==
  {v \in s.HTTPRoute[r].backends \cup s.HTTPRoute[r].extensions :
     s.Service[v] # None /\ CanRefer(s, "HTTPRoute", r, "Service", v)}

RelatedServices(s, c) ==
  IF s.GatewayClass[c] = None THEN {}
  ELSE UNION {AttachedServices(s, r) :
                r \in UNION {AttachedHTTPRoutes(s, g) : g \in AttachedGateways(s, c)}}

HTTPRoutesRefsOf(s, v) ==
  {r \in Cached(s.HTTPRoute) : v \in AttachedServices(s, r)}

GetRootGateways(s, v) ==
  UNION {GatewayRefsOfHR(s, r, s.HTTPRoute[r]) : r \in HTTPRoutesRefsOf(s, v)}

\* The certificates of a listener count when it terminates TLS.
Certs(listener) == IF listener.protocol = "HTTPS" THEN listener.certs ELSE {}

UsesSecret(s, g, x) ==
  \E l \in DOMAIN s.Gateway[g].listeners : x \in Certs(s.Gateway[g].listeners[l])

GatewayRefsOfSecret(s, x) == {g \in Cached(s.Gateway) : UsesSecret(s, g, x)}

\* One Gateway that may not refer to the secret fails the whole lookup.
SecretRefsFail(s, x) ==
  \E g \in GatewayRefsOfSecret(s, x) : ~CanRefer(s, "Gateway", g, "Secret", x)

AttachedSecretsFail(s, g) ==
  \E l \in DOMAIN s.Gateway[g].listeners :
    \E x \in Certs(s.Gateway[g].listeners[l]) :
       s.Secret[x] = None \/ ~CanRefer(s, "Gateway", g, "Secret", x)

---------------------------------------------------------------------------
(* Which classes an event concerns.                                        *)

\* Mutant of ClassNamesOf: the Gateways, not their classes.
ClassNamesOfGateways(s, gws) == gws

ClassNamesOf(s, gws) == {s.Gateway[g].class : g \in gws}

RGImpactedHTTPRoutes(s, rg) ==
  {r \in Cached(s.HTTPRoute) : rg # None /\ <<"HTTPRoute", NsOf[r]>> \in rg.from}

RGImpactedGateways(s, rg) ==
  {g \in Cached(s.Gateway) : rg # None /\ <<"Gateway", NsOf[g]>> \in rg.from}

\* Mutant of RGImpactedGatewayClasses: grants matter to Gateways only.
RGImpactedByGateways(s, rg) == ClassNamesOf(s, RGImpactedGateways(s, rg))

RGImpactedGatewayClasses(s, rg) ==
  ClassNamesOf(s, RGImpactedGateways(s, rg) \cup
    UNION {GatewayRefsOfHR(s, r, s.HTTPRoute[r]) : r \in RGImpactedHTTPRoutes(s, rg)})

\* Every Gateway a route of the namespace names, whether it takes it or not.
NSImpactedGatewayClasses(s, ns) ==
  ClassNamesOf(s,
    {g \in Cached(s.Gateway) :
       \E r \in Cached(s.HTTPRoute) :
          NsOf[r] = ns /\ \E pr \in s.HTTPRoute[r].parents : pr.gw = g})

---------------------------------------------------------------------------
(* What is deployed: a tenant holds virtual servers, iRules and pools.     *)

NoConfig == [virtuals |-> {}, rules |-> {}, pools |-> {}]

\* The pools a rule selects from: a service that is missing is listed all the
\* same, one that the route may not refer to is left out.
PoolsOf(s, r) ==
  {v \in s.HTTPRoute[r].backends :
     s.Service[v] = None \/ CanRefer(s, "HTTPRoute", r, "Service", v)}

Rule(s, r) ==
  [route |-> r, pools |-> PoolsOf(s, r), filters |-> s.HTTPRoute[r].extensions]

Virtual(s, g, l, a) ==
  [gateway |-> g, listener |-> l, address |-> a, of |-> s.Gateway[g].listeners[l],
   certs |-> {s.Secret[x] : x \in Certs(s.Gateway[g].listeners[l])},
   iRules |-> {r \in Cached(s.HTTPRoute) :
                 \E pr \in s.HTTPRoute[r].parents :
                    pr.gw = g /\ pr.section = l /\ ParentMatches(s, r, pr)}]

\* An address that is no IP address; with addresses, a protocol without a
\* profile as well.
AddressesFail(gw) ==
  \/ "hostname" \in gw.addresses
  \/ /\ gw.addresses # {}
     /\ \E l \in DOMAIN gw.listeners : gw.listeners[l].protocol \in {"TCP", "UDP", "TLS"}

\* So do a nil sectionName and a secret out of reach.
ParseGatewayFails(s, g) ==
  \/ \E r \in AttachedHTTPRoutes(s, g) :
       \E pr \in s.HTTPRoute[r].parents : pr.section = None
  \/ AttachedSecretsFail(s, g)
  \/ AddressesFail(s.Gateway[g])

\* A class that is not cached has no content, and no error either.
ParseClassFails(s, c) ==
  /\ s.GatewayClass[c] # None
  /\ \E g \in AttachedGateways(s, c) :
       \/ ParseGatewayFails(s, g)
       \/ \E r \in AttachedHTTPRoutes(s, g) : s.HTTPRoute[r].refused

ParseAllForClass(s, c) ==
  IF s.GatewayClass[c] = None THEN NoConfig
  ELSE LET gws == AttachedGateways(s, c) IN
    [NoConfig EXCEPT
       !.virtuals = UNION {{Virtual(s, g, l, a) : l \in DOMAIN s.Gateway[g].listeners,
                                                  a \in s.Gateway[g].addresses} : g \in gws},
       !.rules = {Rule(s, r) : r \in UNION {AttachedHTTPRoutes(s, g) : g \in gws}}]

\* A pool without Endpoints has no members.
Pool(s, v) ==
  [service |-> v,
   members |-> IF s.Service[v] # None /\ s.Endpoints[v] # None
               THEN {s.Endpoints[v]} ELSE {}]

MembersFail(s, v) == s.Service[v] = "Unsupported" /\ s.Endpoints[v] # None

ParseServicesFail(s, vs) == \E v \in vs : MembersFail(s, v)

\* One tenant per namespace of the services, holding those services only.
ParseServices(s, vs) ==
  [ns \in {NsOf[v] : v \in vs} |->
     [NoConfig EXCEPT !.pools = {Pool(s, v) : v \in {w \in vs : NsOf[w] = ns}}]]

\* The services of a namespace that some Gateway of a cached class refers to.
BackendsOf(s, ns) ==
  {v \in Cached(s.Service) :
     /\ NsOf[v] = ns
     /\ \E g \in GetRootGateways(s, v) : s.GatewayClass[s.Gateway[g].class] # None}

=============================================================================
