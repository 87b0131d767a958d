------------------------------ MODULE Admission ------------------------------
(***************************************************************************)
(* The validating webhook (internal/webhooks, cmd/webhook) between users    *)
(* and the API server.  The API server has a request reviewed and stores    *)
(* the object later, unless the object has changed meanwhile.  The webhook  *)
(* reviews against its informers' cache, which lags behind: every kind has  *)
(* a watch of its own.  Objects are those of SIGCache, with classes of      *)
(* other controllers, and otherKinds in a route: which of "parents" and     *)
(* "backends" are given a kind or group that is not Gateway or Service.     *)
(***************************************************************************)
EXTENDS SIGCache

CONSTANTS Universe,     \* kind -> key -> the objects (or None) users ask for
          Start,        \* the objects at the start
          Validates,    \* the keys given with --validates
          Opaque,       \* a secret that is not of type kubernetes.io/tls
          MaxEdits,     \* bound: requests admitted
          MaxAdmitted   \* bound: requests admitted and not stored yet

VARIABLES api,        \* objects at the API server, a map per kind
          watch,      \* kind -> events on their way to the webhook
          seen,       \* WebhookManager.GetCache()
          admitted,   \* requests that passed the review
          stale,      \* history: what the review of the last change of an
                      \* object saw that was outdated when it was stored
          freed,      \* history: the routes, as they still are, that used no
                      \* open listener of a Gateway when it was deleted
          edits       \* history: requests admitted so far

vars == <<api, watch, seen, admitted, stale, freed, edits>>

Kinds == DOMAIN Universe

SupportedValidatingKeys ==
  {"gateway.gatewayClassName", "gateway.listeners.tls.certificateRefs",
   "httproute.parentRefs", "httproute.rules.backendRefs"}

ASSUME WorldAssumption ==
  /\ Kinds = {"GatewayClass", "Namespace", "Gateway", "HTTPRoute", "Service",
              "Secret", "ReferenceGrant"}
  /\ DOMAIN Start = Kinds
  /\ \A kind \in Kinds :
       /\ DOMAIN Start[kind] = DOMAIN Universe[kind]
       /\ \A k \in DOMAIN Start[kind] : Start[kind][k] \in Universe[kind][k]

Classes == DOMAIN Universe["GatewayClass"]

\* A class of another controller.
Foreign == "foreign"

\* Everything referred to has a key; it may well never exist.
ASSUME ReferencesAssumption ==
  /\ \A g \in DOMAIN Universe["Gateway"] : \A gw \in Universe["Gateway"][g] :
       gw # None =>
         /\ gw.class \in Classes
         /\ \A l \in DOMAIN gw.listeners : gw.listeners[l].certs \subseteq DOMAIN Universe["Secret"]
  /\ \A r \in DOMAIN Universe["HTTPRoute"] : \A hr \in Universe["HTTPRoute"][r] :
       hr # None =>
         /\ NsOf[r] \in DOMAIN Universe["Namespace"]
         /\ \A pr \in hr.parents : pr.gw \in DOMAIN Universe["Gateway"]
         /\ hr.backends \cup hr.extensions \subseteq DOMAIN Universe["Service"]
         /\ \A v \in hr.extensions : NsOf[v] = NsOf[r]

\* At the start every Gateway has its class and every route its Gateways, whose
\* listeners it names.
ASSUME StartAssumption ==
  /\ \A g \in Cached(Start["Gateway"]) :
       Start["GatewayClass"][Start["Gateway"][g].class] # None
  /\ \A r \in Cached(Start["HTTPRoute"]) : \A pr \in Start["HTTPRoute"][r].parents :
       Start["Gateway"][pr.gw] # None /\ pr.section # None

\* An unknown key ends the webhook before it starts.
ASSUME ValidatesAssumption == Validates \subseteq SupportedValidatingKeys

---------------------------------------------------------------------------
(* The validators, on a cache s.                                           *)

Lists(s, k, fromKind, from, toKind, to) ==
  /\ <<fromKind, NsOf[from]>> \in s.ReferenceGrant[k].from
  /\ {<<toKind, to>>, <<toKind, "*">>} \cap s.ReferenceGrant[k].to # {}

\* Mutant of MayRefer: references of the same namespace need a grant, too.
MayReferByGrant(s, fromKind, from, toKind, to) ==
  \E k \in Cached(s.ReferenceGrant) : Lists(s, k, fromKind, from, toKind, to)

\* canRefer of the webhook: the grant may be in any namespace.
MayRefer(s, fromKind, from, toKind, to) ==
  \/ NsOf[from] = NsOf[to]
  \/ \E k \in Cached(s.ReferenceGrant) : Lists(s, k, fromKind, from, toKind, to)

ClassExists(s, gw) == s.GatewayClass[gw.class] # None

CertificateRefsValid(s, g, gw) ==
  \A l \in DOMAIN gw.listeners : \A x \in Certs(gw.listeners[l]) :
     s.Secret[x] \notin {None, Opaque} /\ MayRefer(s, "Gateway", g, "Secret", x)

\* A Gateway without a listener of that name is good enough.
ParentRefsValid(s, r, hr) ==
  /\ "parents" \notin hr.otherKinds
  /\ \A pr \in hr.parents :
       /\ pr.section # None
       /\ s.Gateway[pr.gw] # None
       /\ pr.section \in DOMAIN s.Gateway[pr.gw].listeners =>
            RouteMatches(s, NsOf[pr.gw], s.Gateway[pr.gw].listeners[pr.section], NsOf[r])

\* Mutant of BackendRefsValid: backends are taken for local.
BackendsExist(s, r, hr) == \A v \in hr.backends \cup hr.extensions : s.Service[v] # None

BackendRefsValid(s, r, hr) ==
  /\ "backends" \notin hr.otherKinds
  /\ \A v \in hr.backends : s.Service[v] # None /\ MayRefer(s, "HTTPRoute", r, "Service", v)
  /\ \A v \in hr.extensions : s.Service[v] # None

ClassIsReferred(s, c) == \E g \in Cached(s.Gateway) : s.Gateway[g].class = c

\* Route r names a listener of the Gateway that takes routes of namespace ns.
Uses(s, r, g, gw, ns) ==
  \E pr \in s.HTTPRoute[r].parents :
    /\ pr.gw = g
    /\ pr.section \in DOMAIN gw.listeners
    /\ RouteMatches(s, NsOf[g], gw.listeners[pr.section], ns)

\* Mutant of GatewayIsReferred: it looks at the routes of its own namespace.
ReferredFromOwnNamespace(s, g, gw, last) ==
  \E r \in Cached(s.HTTPRoute) : NsOf[r] = NsOf[g] /\ Uses(s, r, g, gw, last)

\* The map of namespaces points from each cached name to the last of the list.
GatewayIsReferred(s, g, gw, last) ==
  \E r \in Cached(s.HTTPRoute) : s.Namespace[NsOf[r]] # None /\ Uses(s, r, g, gw, last)

GatewayDenied(s, g, gw) ==
  \/ "gateway.gatewayClassName" \in Validates /\ ~ClassExists(s, gw)
  \/ "gateway.listeners.tls.certificateRefs" \in Validates /\ ~CertificateRefsValid(s, g, gw)

RouteDenied(s, r, hr) ==
  \/ "httproute.parentRefs" \in Validates /\ ~ParentRefsValid(s, r, hr)
  \/ "httproute.rules.backendRefs" \in Validates /\ ~BackendRefsValid(s, r, hr)

\* Mutant of DeletionDenied: deletions of classes are not reviewed.
DeletionDeniedForGateways(s, kind, k, old, last) ==
  /\ kind = "Gateway"
  /\ "httproute.parentRefs" \in Validates
  /\ GatewayIsReferred(s, k, old, last)

DeletionDenied(s, kind, k, old, last) ==
  \/ /\ kind = "GatewayClass"
     /\ "gateway.gatewayClassName" \in Validates
     /\ ClassIsReferred(s, k)
  \/ /\ kind = "Gateway"
     /\ "httproute.parentRefs" \in Validates
     /\ GatewayIsReferred(s, k, old, last)

\* Routes may always be deleted; grants, services and the like are not reviewed.
Denied(s, kind, k, old, obj, last) ==
  IF obj = None THEN DeletionDenied(s, kind, k, old, last)
  ELSE \/ kind = "Gateway" /\ GatewayDenied(s, k, obj)
       \/ kind = "HTTPRoute" /\ RouteDenied(s, k, obj)

---------------------------------------------------------------------------
(* What users, the API server, the watches and the webhook do.             *)

Init ==
  /\ api = Start
  /\ watch = [kind \in Kinds |-> <<>>]
  /\ seen = Start
  /\ admitted = {}
  /\ stale = [kind \in Kinds |-> [k \in DOMAIN Universe[kind] |-> {}]]
  /\ freed = [g \in DOMAIN Universe["Gateway"] |-> {}]
  /\ edits = 0

\* Caches list in no order: any namespace may come last.
Lasts(s) == IF Cached(s.Namespace) = {} THEN {None} ELSE Cached(s.Namespace)

\* A request is reviewed and admitted.
Admit(kind, k, obj) ==
  /\ edits < MaxEdits
  /\ Cardinality(admitted) < MaxAdmitted
  /\ obj # api[kind][k]
  /\ \E last \in Lasts(seen) : ~Denied(seen, kind, k, api[kind][k], obj, last)
  /\ admitted' = admitted \cup {[kind |-> kind, key |-> k, obj |-> obj, basis |-> seen]}
  /\ edits' = edits + 1
  /\ UNCHANGED <<api, watch, seen, stale, freed>>

Outdated(basis) ==
  UNION {{<<kind, k>> : k \in {x \in DOMAIN Universe[kind] : basis[kind][x] # api[kind][x]}} :
           kind \in Kinds}

\* Route r uses a listener of g that is open to all namespaces.
UsesOpenly(r, g) ==
  /\ api.HTTPRoute[r] # None
  /\ \E pr \in api.HTTPRoute[r].parents :
       /\ pr.gw = g
       /\ pr.section \in DOMAIN api.Gateway[g].listeners
       /\ api.Gateway[g].listeners[pr.section].from = "All"
       /\ RouteMatches(api, NsOf[g], api.Gateway[g].listeners[pr.section], NsOf[r])

Freed(q) ==
  CASE q.kind = "Gateway" /\ q.obj = None ->
         [freed EXCEPT ![q.key] = {r \in DOMAIN Universe["HTTPRoute"] : ~UsesOpenly(r, q.key)}]
    [] q.kind = "HTTPRoute" -> [g \in DOMAIN freed |-> freed[g] \ {q.key}]
    [] OTHER -> freed

\* The object is stored; what else was admitted for it has to be reviewed anew.
Commit(q) ==
  /\ q \in admitted
  /\ admitted' = {p \in admitted : p.kind # q.kind \/ p.key # q.key}
  /\ stale' = [stale EXCEPT ![q.kind][q.key] = Outdated(q.basis)]
  /\ freed' = Freed(q)
  /\ api' = [api EXCEPT ![q.kind][q.key] = q.obj]
  /\ watch' = [watch EXCEPT ![q.kind] = Append(@, <<q.key, q.obj>>)]
  /\ UNCHANGED <<seen, edits>>

\* Mutant of Deliver: the object is all that the cache then holds of its kind.
DeliverReplacing(kind) ==
  /\ watch[kind] # <<>>
  /\ LET e == Head(watch[kind]) IN seen' = [seen EXCEPT ![kind] = [k \in {e[1]} |-> e[2]]]
  /\ watch' = [watch EXCEPT ![kind] = Tail(@)]
  /\ UNCHANGED <<api, admitted, stale, freed, edits>>

\* The watch of a kind delivers its next event.
Deliver(kind) ==
  /\ watch[kind] # <<>>
  /\ seen' = [seen EXCEPT ![kind][Head(watch[kind])[1]] = Head(watch[kind])[2]]
  /\ watch' = [watch EXCEPT ![kind] = Tail(@)]
  /\ UNCHANGED <<api, admitted, stale, freed, edits>>

Next ==
  \/ \E kind \in Kinds : \E k \in DOMAIN Universe[kind] :
        \E obj \in Universe[kind][k] : Admit(kind, k, obj)
  \/ \E q \in admitted : Commit(q)
  \/ \E kind \in Kinds : Deliver(kind)

Spec == Init /\ [][Next]_vars

---------------------------------------------------------------------------
Objects(map) ==
  /\ DOMAIN map = Kinds
  /\ \A kind \in Kinds :
       /\ DOMAIN map[kind] = DOMAIN Universe[kind]
       /\ \A k \in DOMAIN Universe[kind] : map[kind][k] \in Universe[kind][k]

Events(kind) == UNION {{k} \X Universe[kind][k] : k \in DOMAIN Universe[kind]}

TypeOK ==
  /\ Objects(api) /\ Objects(seen)
  /\ DOMAIN watch = Kinds /\ \A kind \in Kinds : watch[kind] \in Seq(Events(kind))
  /\ \A q \in admitted :
       /\ q.kind \in Kinds /\ q.key \in DOMAIN Universe[q.kind]
       /\ q.obj \in Universe[q.kind][q.key] /\ Objects(q.basis)

\* A Gateway whose class is gone takes two changes that overlap: one of them
\* was reviewed before the webhook saw the other
\* (webhook_utils.go:195-221, 298-307).
ClassesHeld ==
  "gateway.gatewayClassName" \in Validates =>
    \A g \in Cached(api.Gateway) :
      LET c == api.Gateway[g].class IN
        api.GatewayClass[c] # None
          \/ <<"GatewayClass", c>> \in stale.Gateway[g]
          \/ <<"Gateway", g>> \in stale.GatewayClass[c]

\* So does a route whose Gateway is gone, if it used a listener open to all
\* namespaces; of the others the webhook loses sight (webhook_utils.go:264).
GatewaysHeld ==
  "httproute.parentRefs" \in Validates =>
    \A r \in Cached(api.HTTPRoute) : \A pr \in api.HTTPRoute[r].parents :
      \/ api.Gateway[pr.gw] # None
      \/ <<"Gateway", pr.gw>> \in stale.HTTPRoute[r]
      \/ {<<"HTTPRoute", r>>, <<"Namespace", NsOf[r]>>} \cap stale.Gateway[pr.gw] # {}
      \/ r \in freed[pr.gw]

---------------------------------------------------------------------------
(* What the controller does of it (the other end of SIGCache).             *)

\* Its cache when it has caught up with the API server, with obj stored: no
\* classes of other controllers (gatewayclass_controller.go:74-79), and kinds
\* and groups of parents and backends make no difference.
With(kind, k, obj) ==
  [[api EXCEPT ![kind][k] = obj] EXCEPT
     !.GatewayClass = [c \in Classes |-> IF @[c] = Foreign THEN None ELSE @[c]]]

\* It makes a declaration of class c, with members for all its services; what
\* the members' nodes do to that is in StartupSync.
Declares(s, c) ==
  /\ s.GatewayClass[c] # None
  /\ ~ParseClassFails(s, c)
  /\ \A v \in RelatedServices(s, c) : s.Service[v] # "Unsupported"

\* It deploys route r as a whole ...
RouteServed(s, r) ==
  /\ ~RefPanics(s, s.HTTPRoute[r])
  /\ \A pr \in s.HTTPRoute[r].parents :
       ParentMatches(s, r, pr) /\ Declares(s, s.Gateway[pr.gw].class)
  /\ \A v \in s.HTTPRoute[r].backends \cup s.HTTPRoute[r].extensions :
       v \in AttachedServices(s, r)

\* ... and Gateway g, with all its certificates.
GatewayServed(s, g) == Declares(s, s.Gateway[g].class)

---------------------------------------------------------------------------
Routes(r) == Universe.HTTPRoute[r] \ {None}
Gateways(g) == Universe.Gateway[g] \ {None}

\* The controller never looks at the type of a secret (cache.go:337-378).
HasOpaqueCert(gw) ==
  \E l \in DOMAIN gw.listeners : \E x \in Certs(gw.listeners[l]) : api.Secret[x] = Opaque

\* The webhook denies nothing that the controller, which decides by rules of
\* its own, would deploy as a whole, except for what the controller never
\* checks: the type of a secret (webhook_utils.go:94) and the kind and group
\* of parents and backends (webhook_utils.go:115, 152).
DeniedIsUnserved ==
  /\ \A r \in DOMAIN Universe.HTTPRoute : \A hr \in Routes(r) :
       RouteDenied(api, r, hr) =>
         ~RouteServed(With("HTTPRoute", r, hr), r) \/ hr.otherKinds # {}
  /\ \A g \in DOMAIN Universe.Gateway : \A gw \in Gateways(g) :
       GatewayDenied(api, g, gw) =>
         ~GatewayServed(With("Gateway", g, gw), g) \/ HasOpaqueCert(gw)

\* A grant in another namespace than the object it names.
StrayGrant(fromKind, from, toKind, to) ==
  \E k \in Cached(api.ReferenceGrant) :
    Lists(api, k, fromKind, from, toKind, to) /\ NsOf[k] # NsOf[to]

\* What the webhook does not look at in a route: sections that are no listener
\* (webhook_utils.go:126), filters (iruletmpl_parser.go:117, 144), the
\* namespace of grants (webhook_utils.go:424) and the types of services
\* (k8s/utils.go:63-69).
RouteOverlooked(r, hr) ==
  \/ \E pr \in hr.parents : pr.section \notin DOMAIN api.Gateway[pr.gw].listeners
  \/ hr.refused
  \/ \E v \in hr.backends : StrayGrant("HTTPRoute", r, "Service", v)
  \/ \E v \in hr.backends \cup hr.extensions : api.Service[v] = "Unsupported"

\* And in a Gateway: addresses and protocols (parser.go:219-254), the namespace
\* of grants, and the stored routes that are going to be attached to it.
GatewayOverlooked(g, gw) ==
  LET s == With("Gateway", g, gw) IN
  \/ AddressesFail(gw)
  \/ \E l \in DOMAIN gw.listeners : \E x \in Certs(gw.listeners[l]) :
       StrayGrant("Gateway", g, "Secret", x)
  \/ \E r \in AttachedHTTPRoutes(s, g) :
       \/ s.HTTPRoute[r].refused
       \/ \E v \in AttachedServices(s, r) : s.Service[v] = "Unsupported"

\* With all validations on, the controller deploys what the webhook lets pass,
\* if only its class is declared without it, so that no object that passes
\* spoils a class.  Left out are what is overlooked above and classes that are
\* not declared anyway: those of another controller, which the webhook does
\* not tell from its own (webhook_utils.go:298-307, parser.go:50), and those with
\* another object that is refused.
PassedIsServed ==
  Validates = SupportedValidatingKeys =>
    /\ \A r \in DOMAIN Universe.HTTPRoute : \A hr \in Routes(r) :
         (/\ ~RouteDenied(api, r, hr)
          /\ ~RouteOverlooked(r, hr)
          /\ \A pr \in hr.parents :
               Declares(With("HTTPRoute", r, None), api.Gateway[pr.gw].class))
         => RouteServed(With("HTTPRoute", r, hr), r)
    /\ \A g \in DOMAIN Universe.Gateway : \A gw \in Gateways(g) :
         (/\ ~GatewayDenied(api, g, gw)
          /\ ~GatewayOverlooked(g, gw)
          /\ Declares(With("Gateway", g, None), gw.class))
         => GatewayServed(With("Gateway", g, gw), g)

=============================================================================
