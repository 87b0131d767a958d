----------------------------- MODULE StartupSync -----------------------------
(***************************************************************************)
(* A process that starts (cmd/controller/main.go): SyncAllResources lists   *)
(* everything into the cache under the cache's mutex while the informers    *)
(* fill and the controllers begin to get events.  Core resources are listed *)
(* at the API server, those of the Gateway API from the informers.  The     *)
(* reconcilers wait for SyncedAtStart, except those of Services and         *)
(* Endpoints.  What a reconciler does with one event is one step here; its  *)
(* parts, and workers that interleave in them, are in Reconcilers.          *)
(***************************************************************************)
EXTENDS SIGCache

INSTANCE NodeCache

CONSTANTS Universe,    \* kind -> key -> the objects (or None) a user may store
          Start,       \* the objects at the start
          Tenants,     \* names of classes and of namespaces
          Previous,    \* what an earlier process may have left on the BIG-IPs
          Groups,      \* kinds whose informers fill in one step: bounds the
                       \* interleavings, {{kind} : kind \in Kinds} for all
          MaxEdits,    \* bound: changes users make
          MaxFailures  \* bound: lists that fail

VARIABLES api,       \* objects at the API server, a map per kind
          informer,  \* objects in the manager's cache
          started,   \* kinds whose informer is filled
          watch,     \* kind -> keys with a change on its way to the informer
          queue,     \* kind -> keys in its work queue
          reading,   \* ungated kind -> the key and object its worker holds
          sync,      \* the list SyncAllResources is at, 0 before it has locked
          cache,     \* ActiveSIGs, with NodeCache under Node
          deployed,  \* tenant -> the last configuration submitted
          gone,      \* history: <<kind, key>> listed, deleted before the
                     \* informer was filled, and not stored since
          skipped,   \* history: this process could not list the namespaces
          edits, failures

vars == <<api, informer, started, watch, queue, reading, sync, cache, deployed,
          gone, skipped, edits, failures>>

Kinds == DOMAIN Universe
Gated == Kinds \ {"Service", "Endpoints"}

\* The lists of syncCoreV1Resources, and then of syncGatewayResources.
Order == <<"Endpoints", "Service", "Namespace", "Node", "Secret",
           "GatewayClass", "Gateway", "HTTPRoute", "ReferenceGrant">>
NumCore == 5
Core == {Order[i] : i \in 1..NumCore}

ASSUME WorldAssumption ==
  /\ Kinds = {Order[i] : i \in DOMAIN Order}
  /\ DOMAIN Start = Kinds
  /\ \A kind \in Kinds :
       /\ DOMAIN Start[kind] = DOMAIN Universe[kind]
       /\ \A k \in DOMAIN Start[kind] : Start[kind][k] \in Universe[kind][k]
       /\ None \notin DOMAIN Universe[kind]
  /\ UNION Groups = Kinds
  /\ \A tenants \in Previous : DOMAIN tenants = Tenants

Classes == DOMAIN Universe["GatewayClass"]

\* Everything referred to has a key; it may well never exist.
ASSUME ReferencesAssumption ==
  /\ Classes \subseteq Tenants
  /\ DOMAIN Universe["Service"] \subseteq DOMAIN Universe["Endpoints"]
  /\ \A v \in DOMAIN Universe["Endpoints"] : NsOf[v] \in Tenants
  /\ \A r \in DOMAIN Universe["HTTPRoute"] : NsOf[r] \in DOMAIN Universe["Namespace"]
  /\ \A g \in DOMAIN Universe["Gateway"] : \A gw \in Universe["Gateway"][g] \ {None} :
       gw.class \in Classes
  /\ \A r \in DOMAIN Universe["HTTPRoute"] : \A hr \in Universe["HTTPRoute"][r] \ {None} :
       /\ \A pr \in hr.parents : pr.gw \in DOMAIN Universe["Gateway"]
       /\ hr.backends \cup hr.extensions \subseteq DOMAIN Universe["Service"]

Synced == Len(Order) + 1

\* Mutant of Unlocked: the sync locks nothing.
AlwaysUnlocked == TRUE

\* The mutex of the cache, which the sync holds from its first list to the last.
Unlocked == sync \in {0, Synced}

Nothing == [kind \in Kinds |-> [k \in DOMAIN Universe[kind] |-> None]]
NoKeys == [kind \in Kinds |-> {}]
NotReading == [kind \in Kinds \ Gated |-> [key |-> None, obj |-> None]]

R == INSTANCE Reconcilers WITH MaxBusy <- 1, worker <- [kind \in Kinds |-> None]

\* A process that has just started, with the objects there are.
Boot(objects, tenants) ==
  /\ api = objects
  /\ deployed = tenants
  /\ informer = Nothing
  /\ cache = Nothing
  /\ started = {}
  /\ watch = NoKeys
  /\ queue = NoKeys
  /\ reading = NotReading
  /\ sync = 0
  /\ gone = {}
  /\ skipped = FALSE

Init ==
  /\ \E tenants \in Previous : Boot(Start, tenants)
  /\ edits = 0
  /\ failures = 0

Restart ==
  /\ informer' = Nothing
  /\ cache' = Nothing
  /\ started' = {}
  /\ watch' = NoKeys
  /\ queue' = NoKeys
  /\ reading' = NotReading
  /\ sync' = 0
  /\ gone' = {}
  /\ skipped' = FALSE
  /\ UNCHANGED <<api, deployed, edits>>

---------------------------------------------------------------------------
(* The informers.                                                          *)

\* An informer fills: every object there is becomes an event.
Fill(kinds) ==
  /\ kinds \cap started = {}
  /\ started' = started \cup kinds
  /\ informer' = [kind \in Kinds |-> IF kind \in kinds THEN api[kind] ELSE informer[kind]]
  /\ queue' = [kind \in Kinds |-> IF kind \in kinds THEN Cached(api[kind]) ELSE queue[kind]]
  /\ gone' = gone \cup
       UNION {{<<kind, k>> : k \in Cached(cache[kind]) \ Cached(api[kind])} : kind \in kinds}
  /\ UNCHANGED <<api, watch, reading, sync, cache, deployed, skipped, edits, failures>>

\* A change reaches the informer, and its controller the key.
Observe(kind, k) ==
  /\ k \in watch[kind]
  /\ watch' = [watch EXCEPT ![kind] = @ \ {k}]
  /\ informer' = [informer EXCEPT ![kind][k] = api[kind][k]]
  /\ queue' = [queue EXCEPT ![kind] = @ \cup {k}]
  /\ UNCHANGED <<api, started, reading, sync, cache, deployed, gone, skipped, edits, failures>>

Edit(kind, k, obj) ==
  /\ edits < MaxEdits
  /\ obj # api[kind][k]
  /\ api' = [api EXCEPT ![kind][k] = obj]
  /\ watch' = IF kind \in started THEN [watch EXCEPT ![kind] = @ \cup {k}] ELSE watch
  /\ edits' = edits + 1
  /\ UNCHANGED <<informer, started, queue, reading, sync, cache, deployed, gone, skipped, failures>>

---------------------------------------------------------------------------
(* SyncAllResources.                                                       *)

Lock ==
  /\ sync = 0
  /\ sync' = 1
  /\ UNCHANGED <<api, informer, started, watch, queue, reading, cache, deployed, gone,
                 skipped, edits, failures>>

\* What a list of core resources, or of the manager's cache, returns.
Source(kind) == IF kind \in Core THEN api[kind] ELSE informer[kind]

\* Mutant of Ready: the sync waits until the events of the kind are handled.
ReadyOnceHandled(kind) == kind \in Core \/ (kind \in started /\ queue[kind] = {})

Ready(kind) == kind \in Core \/ kind \in started

\* What is cached for an object; Set of a Gateway class of another controller
\* and of an unreachable node is Unset.
Stored(kind, old, obj) ==
  IF kind = "Node" THEN SetNode(old, obj) ELSE R!Visible(kind, obj)

ListPanics(kind) ==
  kind = "Node" /\ \E k \in Cached(api["Node"]) : SetPanics(api["Node"][k])

\* A list adds what there is and removes nothing.
List ==
  /\ sync \in DOMAIN Order
  /\ LET kind == Order[sync] IN
       /\ Ready(kind)
       /\ ~ListPanics(kind)
       /\ cache' = [cache EXCEPT ![kind] =
            [k \in DOMAIN @ |-> IF Source(kind)[k] = None THEN @[k]
                                ELSE Stored(kind, @[k], Source(kind)[k])]]
  /\ sync' = sync + 1
  /\ UNCHANGED <<api, informer, started, watch, queue, reading, deployed, gone,
                 skipped, edits, failures>>

\* Without the namespaces the other core resources are left out, without one
\* of the Gateway API those after it are.
ListFails ==
  /\ sync \in {i \in DOMAIN Order : Order[i] = "Namespace" \/ i > NumCore}
  /\ failures < MaxFailures
  /\ failures' = failures + 1
  /\ sync' = IF Order[sync] = "Namespace" THEN NumCore + 1 ELSE Synced
  /\ skipped' = (skipped \/ Order[sync] = "Namespace")
  /\ UNCHANGED <<api, informer, started, watch, queue, reading, cache, deployed, gone, edits>>

\* os.Exit(1): the process is replaced.
SyncExits ==
  /\ sync \in 1..NumCore
  /\ Order[sync] # "Namespace"
  /\ failures < MaxFailures
  /\ failures' = failures + 1
  /\ Restart

\* A node without VtepMAC: so does the panic of NodeCache.Set.
SyncPanics ==
  /\ sync \in DOMAIN Order
  /\ ListPanics(Order[sync])
  /\ Restart
  /\ UNCHANGED failures

---------------------------------------------------------------------------
(* The reconcilers.                                                        *)

HasBackends(kind) == kind \in {"Service", "Endpoints"}

\* parseMembersFrom: without its Service or Endpoints a pool has no members.
Complete(s, v) == s.Service[v] # None /\ s.Endpoints[v] # None

MembersOf(s, v) ==
  IF Complete(s, v) THEN Format(s.Node, s.Service[v], s.Endpoints[v]) ELSE {}

MembersMissing(s, v) ==
  Complete(s, v) /\ FormatFails(s.Node, s.Service[v], s.Endpoints[v])

PoolWithMembers(s, v) == [service |-> v, members |-> MembersOf(s, v)]

ParseServicesWithMembers(s, vs) ==
  [ns \in {NsOf[v] : v \in vs} |->
     [NoConfig EXCEPT !.pools = {PoolWithMembers(s, v) : v \in {w \in vs : NsOf[w] = ns}}]]

\* The cache once the object is stored.
After(kind, k, obj) == [cache EXCEPT ![kind][k] = Stored(kind, @, obj)]

Services(s, kind, k, classes) ==
  IF HasBackends(kind) THEN BackendsOf(s, NsOf[k])
  ELSE UNION {RelatedServices(s, c) : c \in classes}

\* The declaration of DeployForEvent or HandleBackends.
Declaration(s, kind, k, classes) ==
  LET svcs == Services(s, kind, k, classes) IN
  IF HasBackends(kind) /\ svcs = {} THEN [t \in {NsOf[k]} |-> NoConfig]
  ELSE R!Over([c \in classes |-> ParseAllForClass(s, c)], ParseServicesWithMembers(s, svcs))

DeployFails(s, kind, k, classes) ==
  \/ \E c \in classes : ParseClassFails(s, c)
  \/ \E v \in Services(s, kind, k, classes) : MembersMissing(s, v)

\* Mutant of Again: an error of the deployment is not returned.
NeverAgain(s, kind, k, obj, classes) == R!Retries(kind, k, obj)

\* The key is queued again; an error about a stored ReferenceGrant is swallowed.
Again(s, kind, k, obj, classes) ==
  \/ R!Retries(kind, k, obj)
  \/ DeployFails(s, kind, k, classes) /\ ~(kind = "ReferenceGrant" /\ obj # None)

\* A nil dereference, or a node without VtepMAC.
Panics(kind, k, obj) ==
  \/ kind = "Gateway" /\ R!GatewayPanics(cache.Gateway[k], obj)
  \/ kind = "HTTPRoute" /\ R!RoutePanics(cache.HTTPRoute[k], obj)
  \/ kind = "ReferenceGrant" /\ R!GrantPanics(cache.ReferenceGrant[k], obj)
  \/ kind = "Node" /\ obj # None /\ SetPanics(obj)
  \/ HasBackends(kind) /\ LET s == After(kind, k, obj) IN
       \E v \in Cached(s.Service) : NsOf[v] = NsOf[k] /\
          \E r \in HTTPRoutesRefsOf(s, v) : RefPanics(s, s.HTTPRoute[r])

\* What the worker of a kind may handle next, with the mutex free: an ungated
\* kind what it has read, the others what they read once SyncedAtStart is set.
Work(kind) ==
  IF kind \in Gated
    THEN {[key |-> k, obj |-> informer[kind][k]] : k \in IF sync = Synced THEN queue[kind] ELSE {}}
    ELSE {x \in {reading[kind]} : x.key # None /\ Unlocked}

\* Mutant of TooEarly: the event is dropped.
TooEarlyDropped(kind, k) ==
  /\ kind \in Gated
  /\ sync # Synced
  /\ k \in queue[kind]
  /\ queue' = [queue EXCEPT ![kind] = @ \ {k}]
  /\ UNCHANGED <<api, informer, started, watch, reading, sync, cache, deployed, gone,
                 skipped, edits, failures>>

\* Before SyncedAtStart the key is put back into the queue.
TooEarly(kind, k) ==
  /\ kind \in Gated
  /\ sync # Synced
  /\ k \in queue[kind]
  /\ UNCHANGED vars

\* Mutant of Read: the worker goes on with the namespace of the object.
ReadNamespace(kind, k) ==
  /\ kind \notin Gated
  /\ reading[kind].key = None
  /\ k \in queue[kind]
  /\ queue' = [queue EXCEPT ![kind] = @ \ {k}]
  /\ reading' = [reading EXCEPT ![kind] = [key |-> NsOf[k], obj |-> informer[kind][k]]]
  /\ UNCHANGED <<api, informer, started, watch, sync, cache, deployed, gone, skipped,
                 edits, failures>>

\* The worker of an ungated kind has read its object, and may wait for the mutex.
Read(kind, k) ==
  /\ kind \notin Gated
  /\ reading[kind].key = None
  /\ k \in queue[kind]
  /\ queue' = [queue EXCEPT ![kind] = @ \ {k}]
  /\ reading' = [reading EXCEPT ![kind] = [key |-> k, obj |-> informer[kind][k]]]
  /\ UNCHANGED <<api, informer, started, watch, sync, cache, deployed, gone, skipped,
                 edits, failures>>

Panic(kind, k) ==
  /\ \E x \in Work(kind) : x.key = k /\ Panics(kind, k, x.obj)
  /\ Restart
  /\ UNCHANGED failures

\* What handling obj makes of the cache, the queue and the BIG-IPs.
Result(kind, k, obj) ==
  LET s == After(kind, k, obj)
      ignored == R!Ignored(kind, k, obj)
      classes == IF kind = "Node" \/ ignored THEN {} ELSE R!ImpactOf(kind, k, obj)
      as3 == Declaration(s, kind, k, classes) IN
  [cache |-> IF ignored THEN cache ELSE s,
   again |-> IF Again(s, kind, k, obj, classes) THEN {k} ELSE {},
   deployed |-> IF DeployFails(s, kind, k, classes) THEN deployed
                ELSE [t \in Tenants |-> IF t \in DOMAIN as3 THEN as3[t] ELSE deployed[t]]]

\* Reconcile: the object is stored, and what it impacts declared.
Handle(kind, k) ==
  \E x \in {y \in Work(kind) : y.key = k /\ ~Panics(kind, k, y.obj)} :
    \E result \in {Result(kind, k, x.obj)} :
      /\ cache' = result.cache
      /\ deployed' = result.deployed
      /\ queue' = [queue EXCEPT ![kind] =
                     (IF kind \in Gated THEN @ \ {k} ELSE @) \cup result.again]
      /\ reading' = [j \in DOMAIN reading |-> IF j = kind THEN NotReading[j] ELSE reading[j]]
      /\ gone' = gone \ {<<kind, k>>}
      /\ UNCHANGED <<api, informer, started, watch, sync, skipped, edits, failures>>

Next ==
  \/ Lock \/ List \/ ListFails \/ SyncExits \/ SyncPanics
  \/ \E kinds \in Groups : Fill(kinds)
  \/ \E kind \in Kinds : \E k \in DOMAIN Universe[kind] :
       \/ Observe(kind, k) \/ TooEarly(kind, k) \/ Read(kind, k) \/ Handle(kind, k) \/ Panic(kind, k)
       \/ \E obj \in Universe[kind][k] : Edit(kind, k, obj)

Spec == Init /\ [][Next]_vars

Works(kinds) ==
  \E kind \in kinds : \E k \in DOMAIN Universe[kind] :
     Observe(kind, k) \/ Read(kind, k) \/ Handle(kind, k) \/ Panic(kind, k)

\* The sync, the informers and the workers are goroutines that get to run; it
\* is enough that some gated and some ungated kind does.
Fairness ==
  /\ WF_vars(Lock \/ List)
  /\ WF_vars(\E kinds \in Groups : Fill(kinds))
  /\ WF_vars(Works(Gated))
  /\ WF_vars(Works(Kinds \ Gated))

FairSpec == Spec /\ Fairness

---------------------------------------------------------------------------
(* Worlds that lack a hazard, for the theorem about StartupDeploys: each    *)
(* the least that keeps one known way to go wrong out.                      *)

\* The partition of a class that went while no process ran stays as it was,
\* since no cache ever has the class (gatewayclass_controller.go:75).
ClassesStay ==
  \A c \in Classes :
    IF R!MayBeOwn(c) THEN Universe["GatewayClass"][c] \cap {R!Foreign, None} = {}
    ELSE \A tenants \in Previous : tenants[c] = NoConfig

\* A declaration that lacks a node fails (k8s/utils.go:51), and what is tried
\* again may concern fewer classes (httproute_controller.go:74).
NodesStay ==
  /\ \A n \in DOMAIN Universe["Node"] : \A node \in Universe["Node"][n] :
       /\ node # None
       /\ ~node.unreachable
       /\ ~SetFails(node)
       /\ IpAddr(node) \notin {None, NoAddress}
  /\ \A v \in DOMAIN Universe["Endpoints"] : \A eps \in Universe["Endpoints"][v] \ {None} :
       \A a \in eps : a.node \in DOMAIN Universe["Node"]

\* Nor does anything else fail, whatever grants are not known yet.
EverythingParses ==
  /\ \A r \in DOMAIN Universe["HTTPRoute"] : \A hr \in Universe["HTTPRoute"][r] \ {None} :
       ~hr.refused /\ \A pr \in hr.parents : pr.section # None
  /\ \A g \in DOMAIN Universe["Gateway"] : \A gw \in Universe["Gateway"][g] \ {None} :
       /\ ~AddressesFail(gw)
       /\ \A l \in DOMAIN gw.listeners : \A x \in Certs(gw.listeners[l]) :
            /\ x \in DOMAIN Universe["Secret"]
            /\ None \notin Universe["Secret"][x]
            /\ NsOf[g] = NsOf[x]
  /\ \A v \in DOMAIN Universe["Service"] : Universe["Service"][v] \subseteq {None, "ClusterIP", "NodePort"}

\* A rule names a service that is missing, permitted or not, and nothing
\* deploys its class when it comes (utils.go:397).
LateServicesAreNear ==
  \A r \in DOMAIN Universe["HTTPRoute"] : \A hr \in Universe["HTTPRoute"][r] \ {None} :
    \A v \in hr.backends :
      None \in Universe["Service"][v] /\ Universe["Service"][v] # {None} => NsOf[r] = NsOf[v]

Steady ==
  /\ ClassesStay
  /\ NodesStay
  /\ EverythingParses
  /\ LateServicesAreNear
  /\ R!OneClass
  /\ R!NamesApart
  /\ R!GatewaysKeepClass
  /\ R!NamespacesStay

---------------------------------------------------------------------------
CacheType(kind, k) ==
  IF kind = "Node" THEN {None, NoAddress} \cup {n.ip : n \in Universe["Node"][k] \ {None}}
  ELSE Universe[kind][k] \cup {None}

TypeOK ==
  /\ sync \in 0..Synced
  /\ started \subseteq Kinds
  /\ \A kind \in Kinds :
       /\ watch[kind] \cup queue[kind] \subseteq DOMAIN Universe[kind]
       /\ kind \notin started => watch[kind] = {} /\ queue[kind] = {}
       /\ \A k \in DOMAIN Universe[kind] :
            /\ api[kind][k] \in Universe[kind][k]
            /\ informer[kind][k] \in Universe[kind][k] \cup {None}
            /\ cache[kind][k] \in CacheType(kind, k)
  /\ \A kind \in Kinds \ Gated : reading[kind].key \in DOMAIN Universe[kind] \cup {None}
  /\ DOMAIN deployed = Tenants

\* Nothing is left to do.
Settled ==
  /\ sync = Synced
  /\ started = Kinds
  /\ watch = NoKeys
  /\ queue = NoKeys
  /\ reading = NotReading

\* A node that cannot be read keeps the address it was cached with.
Current(kind, k) ==
  \/ kind = "Node" /\ api[kind][k] # None /\ SetFails(api[kind][k])
  \/ cache[kind][k] = Stored(kind, None, api[kind][k])

\* A process that has started knows every object as it is, although it lists
\* from two places, its lists may fail, and events come before, between and
\* after them; except that a core object deleted between its list and the
\* start of its informer stays for good (cache.go:769, main.go:171).
CaughtUp ==
  Settled => \A kind \in Kinds : \A k \in DOMAIN Universe[kind] :
               Current(kind, k) \/ <<kind, k>> \in gone

\* And it has deployed every class, and every pool of a ClusterIP service in
\* use with its members, however often a missing node made it fail
\* (k8s/utils.go:51), unless it could not list the namespaces: what it learns
\* of them later deploys nothing (cache.go:793, v1_controller.go:78).
StartupDeploys ==
  Settled /\ ~skipped => \A c \in Classes :
    /\ deployed[c] = ParseAllForClass(cache, c)
    /\ \A v \in RelatedServices(cache, c) : cache.Service[v] = "ClusterIP" =>
         PoolWithMembers(cache, v) \in deployed[NsOf[v]].pools

\* Of the classes there are at the start at most one is this controller's.
OneOwnClass ==
  \A c, d \in Classes :
    /\ Start["GatewayClass"][c] \notin {R!Foreign, None}
    /\ Start["GatewayClass"][d] \notin {R!Foreign, None}
    => c = d

\* What a process knows once it has listed everything.
Known == [kind \in Kinds |-> [k \in DOMAIN Universe[kind] |-> Stored(kind, None, api[kind][k])]]

InUse(t) == {v \in UNION {RelatedServices(Known, c) : c \in Classes} : NsOf[v] = t}

\* A restart takes no pool in use from a namespace while nothing changes:
\* Services and Endpoints are handled before the sync has finished, but wait
\* for its mutex once it has that (v1_controller.go:103, cache.go:907), unless
\* one of its lists failed.
PoolsKept ==
  [][edits = 0 /\ failures = 0 /\ sync # 0 =>
       \A t \in Tenants : InUse(t) \cap {p.service : p \in deployed[t].pools}
                             \subseteq {p.service : p \in deployed'[t].pools}]_vars

\* What keeps a process from ever being done: a node that makes it panic, and
\* addresses on nodes that are not there.
Hindered ==
  \/ \E n \in Cached(api.Node) : SetPanics(api.Node[n])
  \/ \E v \in Cached(api.Service) \cap Cached(api.Endpoints) :
       FormatFails([n \in DOMAIN api.Node |-> SetNode(None, api.Node[n])],
                   api.Service[v], api.Endpoints[v])

\* Once users stop, everything is handled, whatever lists failed.
StartupEnds == <>[]Settled \/ <>[]Hindered

=============================================================================
