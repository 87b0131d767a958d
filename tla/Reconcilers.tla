----------------------------- MODULE Reconcilers -----------------------------
(***************************************************************************)
(* The reconcilers (internal/controllers) between the API server and the    *)
(* deployer.  Each kind has a work queue of keys and one worker, and the    *)
(* workers run concurrently on the shared cache: a worker reads the object, *)
(* finds the classes the event concerns, stores the object, parses those    *)
(* classes one by one and then the services they refer to, and submits the  *)
(* declaration.  Every step is one critical section of the cache, or some   *)
(* that nothing another worker writes in between can tell apart.  A nil     *)
(* dereference ends the process; the next one starts from a synced cache.   *)
(* The deployer is the store it implements, with every request installed:   *)
(* a declaration submitted overwrites the tenants it names.                 *)
(***************************************************************************)
EXTENDS SIGCache

CONSTANTS Universe,   \* kind -> key -> the objects (or None) a user may store
          Start,      \* the objects at the start, a member of the universe
          Tenants,    \* names of classes and of namespaces
          MaxEdits,   \* bound: changes users make
          MaxBusy     \* bound: workers that run at the same time

VARIABLES api,        \* objects at the API server, a map per kind
          cache,      \* ActiveSIGs
          queue,      \* kind -> keys in its work queue
          worker,     \* kind -> what its worker is doing
          deployed,   \* tenant -> the last configuration submitted
          edits       \* history: changes made so far

vars == <<api, cache, queue, worker, deployed, edits>>

Kinds == DOMAIN Universe

ASSUME WorldAssumption ==
  /\ Kinds = {"GatewayClass", "Namespace", "Gateway", "HTTPRoute", "Service",
              "Endpoints", "Secret", "ReferenceGrant"}
  /\ DOMAIN Start = Kinds
  /\ \A kind \in Kinds :
       /\ DOMAIN Start[kind] = DOMAIN Universe[kind]
       /\ \A k \in DOMAIN Start[kind] : Start[kind][k] \in Universe[kind][k]

Classes == DOMAIN Universe["GatewayClass"]

\* Everything referred to has a key; it may well never exist.
ASSUME ReferencesAssumption ==
  /\ Classes \subseteq Tenants
  /\ DOMAIN Universe["Service"] \subseteq DOMAIN Universe["Endpoints"]
  /\ \A r \in DOMAIN Universe["HTTPRoute"] : NsOf[r] \in DOMAIN Universe["Namespace"]
  /\ \A v \in DOMAIN Universe["Service"] \cup DOMAIN Universe["Endpoints"] : NsOf[v] \in Tenants
  /\ \A g \in DOMAIN Universe["Gateway"] : \A gw \in Universe["Gateway"][g] :
       gw # None => gw.class \in Classes
  /\ \A r \in DOMAIN Universe["HTTPRoute"] : \A hr \in Universe["HTTPRoute"][r] :
       hr # None => /\ \A pr \in hr.parents : pr.gw \in DOMAIN Universe["Gateway"]
                    /\ hr.backends \cup hr.extensions \subseteq DOMAIN Universe["Service"]

NoTenants == [t \in {} |-> None]
Idle == [pc |-> "idle", key |-> None, obj |-> None, todo |-> {}, classes |-> {},
         retry |-> FALSE, as3 |-> NoTenants]

Foreign == "foreign"

\* Mutant of Visible: the controllerName is not looked at.
VisibleToAll(kind, obj) == obj

\* Classes of other controllers never enter the cache.
Visible(kind, obj) == IF kind = "GatewayClass" /\ obj = Foreign THEN None ELSE obj

\* SyncAllResources: the cache of a process that has just started.
Synced(objects) ==
  [kind \in Kinds |-> [k \in DOMAIN objects[kind] |-> Visible(kind, objects[kind][k])]]

\* The events an informer delivers first: one for every object there is.
Everything(objects) == [kind \in Kinds |-> Cached(objects[kind])]

Init ==
  /\ api = Start
  /\ cache = Synced(Start)
  /\ queue = Everything(Start)
  /\ worker = [kind \in Kinds |-> Idle]
  /\ deployed = [t \in Tenants |-> NoConfig]
  /\ edits = 0

---------------------------------------------------------------------------
\* A user creates, changes or deletes an object; its controller gets the key.
Edit(kind, k, obj) ==
  /\ edits < MaxEdits
  /\ obj # api[kind][k]
  /\ api' = [api EXCEPT ![kind][k] = obj]
  /\ queue' = [queue EXCEPT ![kind] = @ \cup {k}]
  /\ edits' = edits + 1
  /\ UNCHANGED <<cache, worker, deployed>>

Busy == {kind \in Kinds : worker[kind].pc # "idle"}

\* The worker takes a key and reads the object (r.Client.Get).
Take(kind, k) ==
  /\ worker[kind].pc = "idle"
  /\ Cardinality(Busy) < MaxBusy
  /\ k \in queue[kind]
  /\ queue' = [queue EXCEPT ![kind] = @ \ {k}]
  /\ worker' = [worker EXCEPT ![kind] =
                  [Idle EXCEPT !.pc = "impact", !.key = k, !.obj = api[kind][k]]]
  /\ UNCHANGED <<api, cache, deployed, edits>>

\* Mutant of RouteClasses: the Gateways the route leaves are not looked at.
RouteClassesOfNew(k, old, obj) == ClassNamesOf(cache, GatewayRefsOfHR(cache, k, obj))

\* The classes of the Gateways a route leaves, keeps and joins.
RouteClasses(k, old, obj) ==
  ClassNamesOf(cache, GatewayRefsOfHR(cache, k, old) \cup GatewayRefsOfHR(cache, k, obj))

\* SetGateway comes first: what is read as the old Gateway is the new one.
GatewayClasses(old, obj) == IF obj # None THEN {obj.class} ELSE {old.class}

GrantClasses(old, obj) ==
  RGImpactedGatewayClasses(cache, old) \cup RGImpactedGatewayClasses(cache, obj)

\* A deleted certificate deploys nothing.
SecretClasses(k, obj) ==
  IF obj = None \/ SecretRefsFail(cache, k) THEN {}
  ELSE ClassNamesOf(cache, GatewayRefsOfSecret(cache, k))

\* Only a change of labels does; a new namespace does not.
NamespaceClasses(k, old, obj) ==
  IF obj # None /\ old # None /\ old # obj THEN NSImpactedGatewayClasses(cache, k) ELSE {}

\* The classes the event concerns, found before the object is stored.
ImpactOf(kind, k, obj) ==
  LET old == cache[kind][k] IN
  CASE kind = "GatewayClass" -> {k}
    [] kind = "Gateway" -> GatewayClasses(old, obj)
    [] kind = "HTTPRoute" -> RouteClasses(k, old, obj)
    [] kind = "ReferenceGrant" -> GrantClasses(old, obj)
    [] kind = "Secret" -> SecretClasses(k, obj)
    [] kind = "Namespace" -> NamespaceClasses(k, old, obj)
    [] OTHER -> {}

\* A class of another controller, or one that is gone and never was cached.
Ignored(kind, k, obj) ==
  kind = "GatewayClass" /\ (obj = Foreign \/ (obj = None /\ cache[kind][k] = None))

\* A Gateway is deleted that never was cached.
GatewayPanics(old, obj) == obj = None /\ old = None

RoutePanics(old, obj) == RefPanics(cache, old) \/ RefPanics(cache, obj)

GrantPanics(old, obj) ==
  \E r \in RGImpactedHTTPRoutes(cache, old) \cup RGImpactedHTTPRoutes(cache, obj) :
    RefPanics(cache, cache.HTTPRoute[r])

\* GetRootGateways meets a route without sectionName.
BackendsPanic(ns) ==
  \E v \in {x \in Cached(cache.Service) : NsOf[x] = ns} :
    \E r \in HTTPRoutesRefsOf(cache, v) : RefPanics(cache, cache.HTTPRoute[r])

\* The worker runs into a nil dereference.
Panics(kind) ==
  LET w == worker[kind]
      old == cache[kind][w.key] IN
  \/ /\ w.pc = "impact"
     /\ \/ kind = "Gateway" /\ GatewayPanics(old, w.obj)
        \/ kind = "HTTPRoute" /\ RoutePanics(old, w.obj)
        \/ kind = "ReferenceGrant" /\ GrantPanics(old, w.obj)
  \/ w.pc = "backends" /\ BackendsPanic(NsOf[w.key])

\* A Secret that some Gateway may not refer to is stored, and tried again.
Retries(kind, k, obj) ==
  /\ kind = "Secret"
  /\ obj # None \/ cache[kind][k] # None
  /\ SecretRefsFail(cache, k)

Impact(kind) ==
  LET w == worker[kind] IN
  /\ w.pc = "impact"
  /\ ~Panics(kind)
  /\ worker' = [worker EXCEPT ![kind] =
       IF Ignored(kind, w.key, w.obj) THEN Idle
       ELSE LET cls == ImpactOf(kind, w.key, w.obj) IN
              [w EXCEPT !.pc = "store", !.todo = cls, !.classes = cls,
                        !.retry = Retries(kind, w.key, w.obj)]]
  /\ UNCHANGED <<api, cache, queue, deployed, edits>>

\* Mutant of Panic: the panic is caught and its event dropped.
PanicCaught(kind) ==
  /\ worker[kind].pc \in {"impact", "backends"}
  /\ Panics(kind)
  /\ worker' = [worker EXCEPT ![kind] = Idle]
  /\ UNCHANGED <<api, cache, queue, deployed, edits>>

\* The dereference of nil ends the process and a new one takes over.
Panic(kind) ==
  /\ worker[kind].pc \in {"impact", "backends"}
  /\ Panics(kind)
  /\ cache' = Synced(api)
  /\ queue' = Everything(api)
  /\ worker' = [j \in Kinds |-> Idle]
  /\ UNCHANGED <<api, deployed, edits>>

HasBackends(kind) == kind \in {"Service", "Endpoints"}

\* Mutant of Store: Unset is missing.
StoreKeepsDeleted(kind) ==
  LET w == worker[kind] IN
  /\ w.pc = "store"
  /\ cache' = IF w.obj = None THEN cache
              ELSE [cache EXCEPT ![kind][w.key] = Visible(kind, w.obj)]
  /\ worker' = [worker EXCEPT ![kind] =
       IF HasBackends(kind) THEN [w EXCEPT !.pc = "backends"]
       ELSE IF w.classes = {} THEN Idle ELSE [w EXCEPT !.pc = "parse"]]
  /\ queue' = IF w.retry THEN [queue EXCEPT ![kind] = @ \cup {w.key}] ELSE queue
  /\ UNCHANGED <<api, deployed, edits>>

\* Set or Unset; without a class to deploy the event ends here.
Store(kind) ==
  LET w == worker[kind] IN
  /\ w.pc = "store"
  /\ cache' = [cache EXCEPT ![kind][w.key] = Visible(kind, w.obj)]
  /\ worker' = [worker EXCEPT ![kind] =
       IF HasBackends(kind) THEN [w EXCEPT !.pc = "backends"]
       ELSE IF w.classes = {} THEN Idle ELSE [w EXCEPT !.pc = "parse"]]
  /\ queue' = IF w.retry THEN [queue EXCEPT ![kind] = @ \cup {w.key}] ELSE queue
  /\ UNCHANGED <<api, deployed, edits>>

\* An error of the parser: the key is queued again, except that the
\* ReferenceGrant reconciler swallows it when it stored an object.
Fail(kind) ==
  LET w == worker[kind] IN
  /\ worker' = [worker EXCEPT ![kind] = Idle]
  /\ queue' = IF kind = "ReferenceGrant" /\ w.obj # None THEN queue
              ELSE [queue EXCEPT ![kind] = @ \cup {w.key}]
  /\ UNCHANGED <<api, cache, deployed, edits>>

\* The tenants of `later` written over those of `as3`.
Over(as3, later) ==
  [t \in DOMAIN as3 \cup DOMAIN later |-> IF t \in DOMAIN later THEN later[t] ELSE as3[t]]

Continue(kind, w) ==
  /\ worker' = [worker EXCEPT ![kind] = w]
  /\ UNCHANGED <<api, cache, queue, deployed, edits>>

\* DeployForEvent parses the classes one by one ...
ParseClass(kind, c) ==
  LET w == worker[kind] IN
  /\ w.pc = "parse"
  /\ c \in w.todo
  /\ IF ParseClassFails(cache, c) THEN Fail(kind)
     ELSE Continue(kind, [w EXCEPT !.todo = @ \ {c},
                                   !.as3 = Over(@, [t \in {c} |-> ParseAllForClass(cache, c)])])

\* ... and then the services they refer to, whose tenants win.
ParseRelated(kind) ==
  LET w == worker[kind]
      svcs == UNION {RelatedServices(cache, c) : c \in w.classes} IN
  /\ w.pc = "parse"
  /\ w.todo = {}
  /\ IF ParseServicesFail(cache, svcs) THEN Fail(kind)
     ELSE Continue(kind, [w EXCEPT !.pc = "add", !.as3 = Over(@, ParseServices(cache, svcs))])

\* HandleBackends: the namespace's services that are in use, or none.
HandleBackends(kind) ==
  LET w == worker[kind]
      ns == NsOf[w.key]
      svcs == BackendsOf(cache, ns) IN
  /\ w.pc = "backends"
  /\ ~Panics(kind)
  /\ IF ParseServicesFail(cache, svcs) THEN Fail(kind)
     ELSE Continue(kind, [w EXCEPT !.pc = "add",
            !.as3 = IF svcs = {} THEN [t \in {ns} |-> NoConfig] ELSE ParseServices(cache, svcs)])

\* Mutant of Add: the key is queued again after a success.
AddAndRequeue(kind) ==
  LET w == worker[kind] IN
  /\ w.pc = "add"
  /\ deployed' = [t \in Tenants |-> IF t \in DOMAIN w.as3 THEN w.as3[t] ELSE deployed[t]]
  /\ worker' = [worker EXCEPT ![kind] = Idle]
  /\ queue' = [queue EXCEPT ![kind] = @ \cup {w.key}]
  /\ UNCHANGED <<api, cache, edits>>

\* PendingDeploys.Add: the declaration reaches the BIG-IPs in this order.
Add(kind) ==
  LET w == worker[kind] IN
  /\ w.pc = "add"
  /\ deployed' = [t \in Tenants |-> IF t \in DOMAIN w.as3 THEN w.as3[t] ELSE deployed[t]]
  /\ worker' = [worker EXCEPT ![kind] = Idle]
  /\ UNCHANGED <<api, cache, queue, edits>>

Work(kind) ==
  \/ \E k \in DOMAIN Universe[kind] : Take(kind, k)
  \/ Impact(kind)
  \/ Panic(kind)
  \/ Store(kind)
  \/ \E c \in Classes : ParseClass(kind, c)
  \/ ParseRelated(kind)
  \/ HandleBackends(kind)
  \/ Add(kind)

Next ==
  \/ \E kind \in Kinds : \E k \in DOMAIN Universe[kind] :
        \E obj \in Universe[kind][k] : Edit(kind, k, obj)
  \/ \E kind \in Kinds : Work(kind)

Spec == Init /\ [][Next]_vars

\* Every worker is a goroutine that gets to run whatever the others do; the
\* bound MaxBusy is no part of the code, and strong fairness makes up for it.
Fairness == \A kind \in Kinds : SF_vars(Work(kind))

FairSpec == Spec /\ Fairness

---------------------------------------------------------------------------
(* Worlds that lack a hazard: what the theorems suppose, each of them the   *)
(* least that keeps one known way to go wrong out.                          *)

\* A class of this controller may come and go.
MayBeOwn(c) == ~(Universe.GatewayClass[c] \subseteq {Foreign, None})

\* A class that another controller may own is never this one's.
ClassesKeepController ==
  \A c \in DOMAIN Universe["GatewayClass"] :
    Foreign \in Universe["GatewayClass"][c] => Universe["GatewayClass"][c] \subseteq {Foreign, None}

\* No class has the name of a namespace with services; one whose name both
\* have gets the namespace's pools (utils.go:198-204).
NamesApart ==
  \A v \in DOMAIN Universe["Service"] \cup DOMAIN Universe["Endpoints"] : NsOf[v] \notin Classes

\* The class a Gateway leaves is not deployed again (gateway_controller.go:73-79).
GatewaysKeepClass ==
  \A g \in DOMAIN Universe["Gateway"] : \A gw1, gw2 \in Universe["Gateway"][g] \ {None} :
    gw1.class = gw2.class

\* A namespace that comes after its routes deploys nothing (v1_controller.go:78).
NamespacesStay ==
  \A n \in DOMAIN Universe["Namespace"] : None \notin Universe["Namespace"][n]

\* In every version of some grant the reference is permitted.
AlwaysRefers(fromKind, from, toKind, to) ==
  \/ NsOf[from] = NsOf[to]
  \/ \E k \in DOMAIN Universe["ReferenceGrant"] :
       /\ NsOf[k] = NsOf[to]
       /\ \A rg \in Universe["ReferenceGrant"][k] :
            /\ rg # None
            /\ <<fromKind, NsOf[from]>> \in rg.from
            /\ {<<toKind, to>>, <<toKind, "*">>} \cap rg.to # {}

\* A handler that fails stores first and finds nothing to deploy when it is
\* run again (httproute_controller.go:74).
EverythingParses ==
  /\ \A r \in DOMAIN Universe["HTTPRoute"] : \A hr \in Universe["HTTPRoute"][r] \ {None} :
       ~hr.refused /\ \A pr \in hr.parents : pr.section # None
  /\ \A g \in DOMAIN Universe["Gateway"] : \A gw \in Universe["Gateway"][g] \ {None} :
       /\ ~AddressesFail(gw)
       /\ \A l \in DOMAIN gw.listeners : \A x \in Certs(gw.listeners[l]) :
            /\ x \in DOMAIN Universe["Secret"]
            /\ None \notin Universe["Secret"][x]
            /\ AlwaysRefers("Gateway", g, "Secret", x)
  /\ \A v \in DOMAIN Universe["Service"] : "Unsupported" \notin Universe["Service"][v]

\* The rules of a class name a service that is missing, permitted or not, and
\* nothing deploys the class when it comes (utils.go:397).
MissingAreReferable ==
  \A r \in DOMAIN Universe["HTTPRoute"] : \A hr \in Universe["HTTPRoute"][r] \ {None} :
    \A v \in hr.backends :
      None \in Universe["Service"][v] /\ Universe["Service"][v] # {None} =>
        AlwaysRefers("HTTPRoute", r, "Service", v)

\* A class that is deleted while the process ends is not known to the next
\* one, which leaves its partition; a Gateway deleted before it was cached
\* ends the process (gateway_controller.go:60).
NoneLostInPanic ==
  \/ \A g \in DOMAIN Universe["Gateway"] : None \notin Universe["Gateway"][g]
  \/ \A c \in Classes : MayBeOwn(c) => None \notin Universe["GatewayClass"][c]

Orderly ==
  /\ ClassesKeepController
  /\ NamesApart
  /\ GatewaysKeepClass
  /\ NamespacesStay
  /\ EverythingParses
  /\ MissingAreReferable
  /\ NoneLostInPanic

\* A namespace's tenant holds the services of the classes that were deployed
\* last (utils.go:198).
OneClass == \A c, d \in Classes : MayBeOwn(c) /\ MayBeOwn(d) => c = d

---------------------------------------------------------------------------
WorkerOK(kind, w) ==
  /\ w.pc \in {"idle", "impact", "store", "parse", "backends", "add"}
  /\ w.pc # "idle" => w.key \in DOMAIN Universe[kind] /\ w.obj \in Universe[kind][w.key]
  /\ w.todo \subseteq w.classes
  /\ w.classes \subseteq Classes
  /\ w.pc = "backends" => HasBackends(kind)
  /\ w.retry \in BOOLEAN
  /\ DOMAIN w.as3 \subseteq Tenants

TypeOK ==
  /\ \A kind \in Kinds : \A k \in DOMAIN Universe[kind] :
       api[kind][k] \in Universe[kind][k] /\ cache[kind][k] \in Universe[kind][k] \cup {None}
  /\ \A kind \in Kinds : queue[kind] \subseteq DOMAIN Universe[kind]
  /\ \A kind \in Kinds : WorkerOK(kind, worker[kind])

\* No event is lost: an object whose key is neither queued nor in the hands of
\* its worker is cached as it is at the API server, whatever the workers have
\* interleaved and however often the process was replaced.
NothingForgotten ==
  \A kind \in Kinds : \A k \in DOMAIN Universe[kind] :
     k \in queue[kind] \/ worker[kind].key = k
       \/ cache[kind][k] = Visible(kind, api[kind][k])

Quiet == \A kind \in Kinds : queue[kind] = {} /\ worker[kind].pc = "idle"

\* When all events are handled, the partition of a class is what the cached
\* resources make it, in whatever order the events were handled
\* (examples/traffic-splitting/README.md:35).
Converged ==
  Quiet => \A c \in Classes :
             ~ParseClassFails(cache, c) => deployed[c] = ParseAllForClass(cache, c)

\* When all events are handled, every service a deployed rule may select has
\* its pool, with its current members, in the partition of its namespace.
PoolsInPlace ==
  Quiet => \A c \in Classes : \A v \in RelatedServices(cache, c) :
             Pool(cache, v) \in deployed[NsOf[v]].pools

NamesListener(hr, virtual) ==
  hr # None /\ \E pr \in hr.parents : pr.gw = virtual.gateway /\ pr.section = virtual.listener

\* A worker parses after it has stored, and nobody else stores routes: however
\* the workers interleave, the declaration submitted for a route binds the
\* route to no listener that the version it was handled in does not name.
OwnChangeSubmitted ==
  LET w == worker["HTTPRoute"] IN
  w.pc = "add" => \A t \in DOMAIN w.as3 : \A v \in w.as3[t].virtuals :
                    w.key \in v.iRules => NamesListener(w.obj, v)

\* A Gateway that has moved to another class leaves the partition of the old
\* one: a GatewayClass is an independent partition
\* (docs/gateway-api-compatibility.md:36).
OnlyOwnGateways ==
  Quiet => \A c \in Classes : \A v \in deployed[c].virtuals :
             cache.Gateway[v.gateway] # None => cache.Gateway[v.gateway].class = c

\* The partition of a class of another controller never gets anything to
\* serve: it may be submitted, but only empty, because such a class is never
\* cached, whatever Gateways and routes name it (parser.go:46-53,
\* gatewayclass_controller.go:74-79, cache.go:866-877).
ForeignOnlyEmptied ==
  \A c \in Classes : Universe.GatewayClass[c] = {Foreign} => deployed[c] = NoConfig

\* What keeps a worker from ever being done: a route without sectionName whose
\* Gateway is there ends every process, a class or a service that cannot be
\* parsed and a certificate out of reach are tried for ever.
Undeployable ==
  LET s == Synced(api) IN
  \/ \E r \in Cached(s.HTTPRoute) : RefPanics(s, s.HTTPRoute[r])
  \/ \E c \in Classes : ParseClassFails(s, c)
  \/ \E v \in Cached(s.Service) : MembersFail(s, v)
  \/ \E x \in DOMAIN s.Secret : SecretRefsFail(s, x)

\* Users stop changing things at some point, and then all work gets done,
\* however many processes panic before, unless an object forbids it.
WorkEnds == <>[]Quiet \/ <>[]Undeployable

=============================================================================
