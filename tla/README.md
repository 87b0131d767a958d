# Verification of bigip-kubernetes-gateway

The controller turns Gateway API resources (GatewayClass, Gateway, HTTPRoute, ReferenceGrant) and core resources (Service,
Endpoints, Secret, Namespace, Node) into AS3 declarations and deploys them to one or more BIG-IPs. This directory holds
TLA+ models of what is hard in it, TLC runs on small instances, and TLAPS proofs for every instance.

```
tlc -workers 2 -config Sequential.cfg MCReconcilers      # a run: see the table below
tlapm ReconcilersProofs.tla                              # a proof module
```

`PROJECT.json` relates every definition to the source lines it stands for, every property to the hazard it is about and to
a mutated definition that breaks it, and every violation to what the repository says. Paths below are relative to the repository.

## 1. The system

```
 API server --informers--> work queue per kind --> reconcilers (1 worker per kind, concurrent)
                                                     |  read object, find impacted classes
                                                     v
                                       ActiveSIGs (SIGCache) + refFromTo + NodeCache
                                                     |  parse classes, then related services
                                                     v
                                       PendingDeploys (FIFO of declarations)
                                                     |
                                       AS3Deployer goroutine: merge, eliminate, call --> BIG-IPs
                                                     |
                                       DoneDeploys (FIFO) --> RespHandler goroutine (logs)

 webhook process: admission requests --> validators --> its own informer cache
```

| Component (source) | State | Operations | Correct when |
| --- | --- | --- | --- |
| Reconcilers (`internal/controllers`) | work queues, what each worker has read and computed | `Reconcile` for each of nine kinds: upsert or delete, with requeue on error | no event is lost; each change reaches every class it concerns; retries converge |
| SIGCache (`internal/pkg/cache.go`) | the cached objects, a map per kind, under one RW mutex | Set/Unset per kind; the relations `AttachedGateways`, `GatewayRefsOfHR`, `GetRootGateways`, `RGImpactedGatewayClasses`, ... | it holds the current objects of this controller; the relations agree with each other |
| ReferenceGrant index (`refFromTo`) | from -> to -> int8 counter | `set`, `unset`, `exists` | it answers for exactly what the cached grants list |
| Parser (`parser.go`, `iruletmpl_parser.go`) | none | `ParseAllForClass`, `ParseServices` and their helpers | a function of the cache; every pool a rule selects from is declared |
| Deployment (`utils.go`: `DeployForEvent`, `HandleBackends`) | the declaration under construction | parse class by class, then services, then enqueue | what is enqueued last is the newest |
| Deployer (`utils.go`: `AS3Deployer`, `RespHandler`) | two FIFOs, `tenantCache`, BIG-IP contents | merge queued requests, eliminate tenants already in place, call each BIG-IP, remember successes | nothing needed is eliminated, older never overwrites newer, rounds end |
| Startup sync (`SyncAllResources`) | `SyncedAtStart`, the cache, its mutex for the whole sync | list core kinds from the API server, then wait for the informers and list the others from them | the process ends up knowing every object and having deployed it, and takes nothing away meanwhile |
| Node cache (`internal/k8s`) | node name -> address, MAC | `Set`, `Unset`, `FormatMembersFromServiceEndpoints` | members have the addresses of live nodes |
| Webhook (`internal/webhooks`) | none; an informer cache that lags | validate create, update, delete of four kinds | what is admitted is what the controller can deploy, and stays so |
| iRule text (`irule_templates`) | on the BIG-IP: the iRules of each virtual server, tables of pools in `static::` variables | templates for matching, filters, weights | a request selects a pool its route names, as often as the weights say |

How they interact: reconcilers share the cache; each cache operation holds the mutex, but a handler is a sequence of such
operations with nothing held in between. They share the deployer through a FIFO. An error returned by a handler requeues its
key; a nil dereference ends the process, and Kubernetes starts another that syncs its cache and gets an event for every
object. The deployer only logs errors.

What is hard: the order in which nine workers interleave between reading, storing, parsing and enqueueing; a handler repeated
after it has stored; tenants shared by several classes; a partial failure on one BIG-IP of several; merging while more
arrives; a start-up that lists from two places while events come; a webhook that reviews against the past; iRules that share
variables; counters of eight bits. `PROJECT.json` lists each as a hazard at its line.

## 2. Modules

| Module | Models | State and actions |
| --- | --- | --- |
| `TenantStore` | abstract: what the deployer promises | requests are accepted in order; a BIG-IP only receives the newest accepted bodies |
| `AS3Deployer` | the deployer goroutine and `RespHandler` | `handleNext` as `GetFirst`, `ReadLen`, `MergeNext`, `Eliminate`, `DeployOK`/`DeployFails` per BIG-IP, `Remember`; `Submit`, `RespHandler`, `Restart` |
| `ReferenceGrantIndex` | `refFromTo` and the cache operations that update it | `SetReferenceGrant`, `UnsetReferenceGrant`; counters wrap at `Half` (128) |
| `SIGCache` | relations of the cache and the parser, as operators on a cache `s` | no variables: a pure module that `Reconcilers` extends |
| `Reconcilers` | eight reconcilers with their queues, `DeployForEvent`, `HandleBackends` | `Edit` (users), `Take`, `Impact`, `Store`, `ParseClass`, `ParseRelated`, `HandleBackends`, `Add`, `Panic` |
| `NodeCache` | the node cache and the members of a pool (`internal/k8s`) | no variables: `SetNode`, `Format` and their error cases, which `StartupSync` uses |
| `StartupSync` | a process that starts: `SyncAllResources`, informers, nine reconcilers | `Lock`, `List` (one per kind), `ListFails`, `SyncExits`, `SyncPanics`; `Fill`, `Observe`; `TooEarly`, `Read`, `Handle`, `Panic`; `Edit` |
| `Admission` | the webhook between users and the API server | `Admit` (a review against `seen`), `Commit` (the object is stored), `Deliver` (a watch of one kind advances) |
| `Traffic` | the iRules of one class on a BIG-IP | `ChangeRoute`, `ChangeService`, `Declare`, `Refused`, `RuleInit`, `BigIPRestarts`; `Answers` is what a request gets |
| `MC...` | instances for TLC | the worlds: which objects users may store |
| `...Proofs` | theorems | |

`Reconcilers` and `AS3Deployer` compose through the queue. `Reconcilers` uses, for the deployer, the store that
`AS3Deployer` is shown to implement, with every request installed (`Add` writes `deployed`): `DeployerImplementsStore` says
that nothing older than the newest accepted body is installed, `QuietIsDeployed` that a quiet deployer has installed it unless the
BIG-IP refused it. `CanRefer` in `SIGCache` reads the cached grants instead of the counters; `ReferenceGrantIndex` checks
that the counters say the same, short of an overflow.

`StartupSync` and `Admission` use the same relations of `SIGCache`. `StartupSync` takes what a reconciler does with one event from `Reconcilers` (`INSTANCE`)
and makes it one step, because its subject is the order of lists, informers and handlers; the interleavings inside a handler
are those of `Reconcilers`. Services and Endpoints do not wait for `SyncedAtStart`: their workers read the object (`Read`) and
then wait for the mutex. `Admission` compares the rules of the webhook with those of the controller on the same objects.
`Traffic` starts where `SIGCache` ends: which listener takes a route is there, what the text of the route does is here.

Grain of the actions in `Reconcilers`: a handler is cut where another worker could write something it reads: after reading
the object, after computing the impacted classes, after storing, after each class, before the services, before the enqueue.
Within a step the code takes the mutex several times (one class is parsed Gateway by Gateway); the model makes that one step.

Data abstraction, stated once: objects are records of what the code branches on; TLS listeners have `tls` and
terminate; an address is an IP address or `"hostname"`, which the parser refuses; the filters of a route that no iRule can be made of are one flag, `refused`; a certificate
or an extension of another `kind` or `group` is a key under which nothing is stored, and those of parents and backends, which the controller never reads,
are in `Admission` only (`otherKinds`); a class that appears twice in a list is parsed once; an iRule is the route,
the pools it selects from and the extensions it names; pool members are the addresses of an Endpoints object. The informers'
view and the API server are one in `Reconcilers`: `Edit` changes the object and queues its key in one step. `StartupSync` and
`Admission` tell them apart. In `Traffic` a condition of a match is the set of paths that meets it, a hostname the set of hosts
it matches.

## 3. Runs

| Run | Instance | Shows |
| --- | --- | --- |
| `deployer` | 2 tenants, 2 bodies, 2 BIG-IPs, 1 queued request, 1 queued answer; 583k states | `TypeOK`, `CacheSound`, `QuietMeansDeployed`, refinement `ImplementsStore`, `RoundEnds`, `Drains` |
| `grant_index` | 2 grants with up to 2 entries a side, repeated ones too, counters of 2 bits | `FromsPresent`, `ExistsIffGranted` |
| `sequential` | world Calm, 2 edits, 1 worker at a time; 1.5M states | `TypeOK`, `Converged`, `PoolsInPlace`, `ForeignOnlyEmptied` |
| `concurrent` | world Busy, 3 edits, 2 workers at a time | `NothingForgotten`, `OwnChangeSubmitted` |
| `reconcilers_liveness` | world Busy, 2 edits, 2 workers at a time; 62k states | `WorkEnds` |
| `startup` | one object of each kind, 1 edit, 1 failed list; 103k states | `TypeOK`, `CaughtUp`, `StartupDeploys`, `PoolsKept`, `StartupEnds` |
| `admission` | 2 Gateways, a class and one of another controller, one route, one certificate; 2 services and 2 grants; 3 requests, 2 at a time; 102k states | `TypeOK`, `ClassesHeld`, `GatewaysHeld`, `DeniedIsUnserved`, `PassedIsServed` |
| `traffic` | 2 routes with 6 and 7 specs, 2 listeners, 3 services, 5 changes; 363k states | `TypeOK`, `SplitsAsDeclared`, `MismatchDropped`, `RightBackend` |
| `creation_race` | world Race, 2 edits, 2 workers | `Converged` violated |
| `migration` | a Gateway changes class, 1 edit, 1 worker | `OnlyOwnGateways` violated |
| `shared_namespace` | 2 classes, a route deleted, 1 worker | `PoolsInPlace` violated |
| `shared_tables` | as `traffic`, 2 changes | `WeightsSplit` violated |

Why the bounds are enough to be interesting. Two tenants let one fail or be eliminated while the other is not; two bodies tell
old from new; two BIG-IPs differ after a partial failure. One queued request merges with the one in hand, and another may be
accepted before the round ends; the safety properties are proved for every queue. Counters of two bits overflow with the small grants of the run, and wrap around completely, so that
what happens at both limits, and after them, is in reach. Two workers are what any race between a read and a write needs. Start-up queues an event for every
object, so even without edits each object is handled once in every order; the edits then put a change before, between and after
those. Queue keys coalesce, so the queues need no bound of their own. Two requests in flight are what a webhook that
reviews one at a time can miss; with the Gateway there from the start, three allow a route, the deletion of the Gateway under it and one more change. Two routes with two rules
each share tables and take each other's requests. The bounds are `MaxQueue`, `MaxDone`, `MaxEdits`, `MaxBusy`, `MaxFailures`,
`MaxAdmitted` and `MaxRules`; `Groups` bounds the order in which informers fill: those of Services and
Endpoints on their own, the seven kinds that wait for the sync together. In the worlds with edits the system really stops once users have (`CHECK_DEADLOCK FALSE`);
the deployer, index and traffic runs check for deadlock.

What the worlds let change:

* Calm: the class comes and goes, namespace labels, which namespaces the listener selects, a route with its parents and backends, a service, its members, a
  grant that widens and narrows; a second class, of another controller, with a Gateway that
  the route joins and leaves; a service without Endpoints. One worker at a time, so that what is left are the sequences of handlers. TLC checks that Calm is one of the
  worlds of the theorems (`CalmIsOrderly`).
* Busy: an HTTPS Gateway and its certificate, a grant revoked, a route without sectionName (which panics), an unsupported
  service type and a mirror filter (which make parsing fail and the key requeue), two workers.
* Race: a Gateway and its route are created and deleted with two workers; a Gateway deleted before it was cached panics.
* `startup`: the BIG-IP holds the pool of an earlier process with old members; the Gateway, route, service and endpoints may go,
  the node may go, become unreachable, lose its CNI or have broken annotations (which panic). TLC checks that the same world with a node
  that stays is one of those of `ClassesAreDeployed` (`SomeClusterIsSteady`).
* `admission`: everything the validators look at comes, changes and goes, and so does what they overlook: the second grant is in a namespace where the controller does not
  look for it; a route without sectionName, with a section that is no listener, with a mirror filter, with parents and backends of another kind; a secret of another type; a Gateway
  with a TCP listener, of another controller's class, with a hostname for an address; a service whose type has no members.
* `traffic`: rules that overlap, weights of zero, hosts that exclude each other, redirects, filters and matches that the
  parser or the BIG-IP refuses, a rule that names a service twice, a service whose grant is revoked, one that is deleted, and a BIG-IP that restarts.

What the violations mean. Each is a counterexample in which the model takes exactly the code's steps; the finding in
`PROJECT.json` quotes the sentence of the repository that it contradicts.

* `creation_race` (`utils.go:192`): worker A parses a class, worker B stores, parses and enqueues, A enqueues. The older
  declaration is the last one.
* `migration` (`gateway_controller.go:73`): the "old" Gateway is read after the new one was stored.
* `shared_namespace` (`utils.go:198`): a namespace tenant holds the services of the impacted classes only.
* `shared_tables` (`rules.tmpl:7`): rule *i* of every route fills the same `static::pools_i`; the route whose `RULE_INIT` ran
  last decides for all of them, so a request of one route goes to a pool of another.

Met while modelling. Where a passing run has to leave something out, the property says what, or the world has it not:

* `Converged` also fails when a namespace arrives after its routes (`v1_controller.go:78`), when a parse error makes a handler
  run again after it stored (`httproute_controller.go:74`; for labels that then compare equal, `v1_controller.go:78`), when the error of a grant's deployment is swallowed
  (`referencegrant_controller.go:75`), and when a service that routes name but may not refer to is created or deleted
  (`utils.go:397`; Calm never revokes the grant of the service that may be deleted). They are hazards with notes. A class deleted while
  the process ends in a panic (`gateway_controller.go:60`) keeps its partition, because the next process never hears of it. What a
  world must lack for each of these is a definition of its own in `Reconcilers` (`Orderly`), and the hypothesis of the theorem.
* A rule that names a service twice splits by the last of its weights, because the table of pools is indexed by their names (`rules.tmpl:10`): excepted in `RightBackend`.
* A class of another controller parses to an empty configuration, which is submitted as the tenant of that class (`parser.go:50`):
  `ForeignOnlyEmptied` says that this is all it ever gets.
* 128 equal pairs take an int8 counter to -128 (`utils.go:227`), and what they permit is refused. Beyond 256 pairs the count is lost:
  of 200 and 100 and 5 pairs in three grants the entry goes with the first two (`utils.go:241`), and the reference that the third still permits is refused until
  no grant lists it. `ExistsIffGranted` says both; the history `overrun` is where the second may be.
* A core object deleted between its list and the start of its informer stays cached for good (`cache.go:769`): excepted in
  `CaughtUp` by the history `gone`. A namespace list that fails is taken for a success (`cache.go:793`): excepted in `StartupDeploys`.
* `StartupDeploys` also fails when a node goes whose addresses are in use while a Gateway or route leaves a class, because the declaration fails (`k8s/utils.go:51`) and the
  retry, after the object was stored, concerns fewer classes (`httproute_controller.go:74`); when the error of a grant's deployment is swallowed
  (`referencegrant_controller.go:75`); when a class is deleted while no process runs, whose partition nobody empties
  (`gatewayclass_controller.go:75`); and when a service in another namespace comes late (`utils.go:397`). What a world must lack for these is
  `Steady` in `StartupSync`; the world of `startup` has nodes that go, with one object of each kind.
* The members of a NodePort service go stale when nodes change (`v1_controller.go:157`); `StartupDeploys` is about ClusterIP services.
* The webhook lets a Gateway that is in use be deleted when its listeners are not open to all namespaces, because every entry of its map of namespaces is the last
  one listed (`webhook_utils.go:264` with `go 1.19`, `go.mod:3`): the history `freed` in `GatewaysHeld`. 
* The webhook denies what the controller deploys: a certificate in a secret that is not of type `kubernetes.io/tls` (`webhook_utils.go:94`; the controller reads no type, `cache.go:337-378`),
  and parents or backends of another kind or group (`webhook_utils.go:115`, `:152`). These are the exceptions of `DeniedIsUnserved`.
* It lets pass what the controller does not deploy: a parentRef to a section that is no listener (`webhook_utils.go:126`), a grant in any namespace (`:424`), a class of another controller
  (`:301`), and what makes the whole class fail to parse: TCP, UDP and TLS listeners and hostname addresses (`parser.go:238`, `:253`), filters without an iRule (`iruletmpl_parser.go:117`, `:144`)
  and services without pool members (`k8s/utils.go:66`). These are the exceptions of `PassedIsServed`. A class that already fails deploys nothing new, so the property
  is about classes that are declared without the object.
* A mirror filter (`iruletmpl_parser.go:117`), a regular expression in a path (`:60`, a missing bracket) or an extension
  (`:160`, a pool in a tenant nothing declares) keeps the whole class undeployed while it is there: `Settled` in `Traffic`.

### Fairness

* `AS3Deployer!Fairness`: both goroutines loop for ever on a blocking `Get`, so a step that stays possible is taken; nothing is
  assumed about BIG-IPs succeeding (`DeployFails` is as good as `DeployOK`), only that a call returns. `Drains` supposes that
  requests and restarts stop.
* `Reconcilers!Fairness`: every kind has a controller whose worker goroutine takes the next key whenever there is one. It is strong
  fairness per kind because `MaxBusy` is a bound of the model and not of the code: a worker that the bound holds back is
  enabled again and again, and in the code would simply run. Nothing is assumed about which of its steps a worker takes, nor
  that users stop: `MaxEdits` is what stops them. `WorkEnds` excepts objects that can never be deployed (`Undeployable`): their keys are
  retried for ever.
* `StartupSync!Fairness`: weak fairness of the sync, of the informers, and of the workers of the kinds that wait for it and of those
  that do not, each a goroutine of its own. Failing lists, exits and panics are possible, never required. `StartupEnds` excepts
  clusters in which a node makes every process panic, or addresses are on nodes that are not there (`Hindered`).

## 4. Proofs

| Theorem | Says |
| --- | --- |
| `AS3DeployerProofs!TypeCorrect` | `TypeOK` always |
| `AS3DeployerProofs!CacheIsSound` | a remembered tenant that is not being deployed is on every BIG-IP |
| `AS3DeployerProofs!QuietIsDeployed` | a quiet deployer has deployed the newest body of each tenant that did not fail |
| `AS3DeployerProofs!DeployerImplementsStore` | refinement of `TenantStore` |
| `ReferenceGrantIndexProofs!FromsArePresent` | `unset` never returns early on a cached grant |
| `ReferenceGrantIndexProofs!GrantsArePermitted` | the index permits what the cached grants list, as long as its counters can tell |
| `ReconcilersProofs!TypeCorrect` | queues, cache and declarations speak of what there is |
| `ReconcilersProofs!NothingIsForgotten` | no event is lost |
| `ReconcilersProofs!RoutesAreBoundAsHandled` | a declaration submitted for a route binds it to no listener the handled version does not name |
| `ReconcilersProofs!OthersAreLeftEmpty` | the partition named after a class of another controller is only ever declared empty |
| `ConvergenceProofs!ClassesConverge` | in an orderly world with one worker at a time, every partition of a class ends up as the cached resources make it |
| `ConvergenceProofs!PoolsAreInPlace` | and, with one class to serve, every service a deployed rule may select has its pool |
| `StartupSyncProofs!TypeCorrect` | caches, queues and informers speak of what there is |
| `StartupSyncProofs!EverythingIsKnown` | a settled process knows every object, but for core objects deleted before their informer started |
| `StartupSyncProofs!ClassesAreDeployed` | in a steady world a settled process has deployed every class and the pools of its ClusterIP services |
| `StartupSyncProofs!PoolsAreKept` | a process that lists takes no pool in use away while nothing changes, with one class to serve |
| `AdmissionProofs!TypeCorrect` | objects, events and admitted requests are of the world |
| `AdmissionProofs!ClassesAreHeld`, `GatewaysAreHeld` | what it takes for a Gateway to lose its class and a route its Gateway |
| `AdmissionProofs!DenialsAreRight`, `PassesAreRight` | what is denied the controller would not declare, but for types of secrets and kinds of references; what passes it declares and spoils no class, but for what the webhook overlooks |
| `TrafficProofs!TypeCorrect` | what is loaded, ordered and set is of the routes there are |
| `TrafficProofs!MismatchesAreDropped` | a request for a host the listener does not have gets to no backend |
| `TrafficProofs!SplitsAreAsDeclared` | the route that set a table last has its requests split by its weights (`StatusesAssumption`) |
| `TrafficProofs!RightBackends` | a request gets to the backends of the first rule that takes it, where no other route's table is in the way (`StatusesAssumption`) |

All hold for every value of the constants: any tenants, bodies, BIG-IPs and queue bounds; any grants and any counter width;
any world, any number of edits, of workers, of requests in flight and of lists that fail; any routes, weights and hosts. The assumptions are
the `ASSUME`s of the modules, which TLC evaluates in every run: the types of the constants, that everything an object refers to
has a key, whether or not the object exists (`ReferencesAssumption`), that the webhook starts over a world without dangling
references (`StartAssumption`), and, for `SplitsAreAsDeclared` and `RightBackends`, that no service is at times missing and at times refused
(`StatusesAssumption`). The last is not something the code ensures: it keeps out the hazard of `utils.go:397`, where the class is not declared again.

**Deployer.** `CacheSound` is not inductive: while a round is deploying, the cache entry of a tenant in the body is neither
right nor wrong. `IInv` adds what is true in the middle: the body at hand holds newest bodies (`BodyIsNewest`), BIG-IPs already called hold it
unless a call failed (`CalledHoldBody`), and any other tenant is remembered with its newest body or failed last time (`CachedIsNewest`, `ForgottenIsLost`). Then each action is checked
against each part. The refinement maps `pendingDeploys` to the store's `backlog` and needs one fact of `IInv`: what a BIG-IP
receives is `accepted`.

**Grant index.** That every From of a cached grant keeps its entry follows from `set` adding and `unset` never removing an inner map.
How often a pair is listed is the cardinality of the set of places where it is, so that a set or an unset takes one finite set away and adds
another, and no sum over the grants is needed. A counter stands for a number in 1..256, its residue (`Value`). `CInv`: that number is never larger than the number of
listings (`Below`), and equal to it unless the pair has been overrun (`Exact`). `Below` is what makes an overrun heal: when no grant lists the pair, the counter is gone.

**Reconcilers.** `NothingForgotten` lets a worker hold any version. `IInv` says which: if a key is not queued, then either its worker
is still reading it and has the version the API server has, or the cache has that version (`Kept`). With `Shape`, `Contents` and `InHand` (maps have
their domains, objects are the world's) each action preserves it. `NothingIsForgotten` has a hypothesis, `ClassesKeepController`: a class that another
controller may own is never ours. Without it the theorem is false, and so is the claim about the code: a class deleted and
created again under another controllerName before its event is handled is ignored (`gatewayclass_controller.go:76`) and stays cached. Gateway API makes
`controllerName` immutable, which forbids the change but not the deletion and re-creation. The other two theorems need the same invariant; `RInv` adds that a route worker past
`store` finds its own version in the cache, because nothing else stores routes (`OwnChangeSubmitted`), and `TInv` that what is queued, computed and declared
is about known keys, classes and tenants. `OthersAreLeftEmpty` needs `NamesApart` besides `ClassesKeepController`: a namespace
with the name of a class writes the same tenant (`utils.go:201`).

**Convergence.** `Converged` and `PoolsInPlace` are false of the code in general, as the violations show, so their theorems have hypotheses: `MaxBusy = 1`, because two workers
race (`creation_race`), and `Orderly`, in which each conjunct keeps out one way to go wrong that is listed above, and no more than that: classes that keep their controller,
names that are apart, Gateways that keep their class (`migration`), namespaces that stay, objects that parse, missing services that
may be referred to, no class lost in a panic. `PoolsAreInPlace` adds `OneClass` (`shared_namespace`). Any number of objects, edits and panics is left.
The invariant `CInv` says when a partition may be wrong: if the tenant of a class is not what the
cache makes of it now, then its event is queued, or the only busy worker is going to submit it (`Right`, `Due`). A class that is not cached has nothing or is about to (`Unserved`),
because its events will be ignored. The heart of the proof are the frame lemmas: for each kind, if storing an object changes what a class
parses to, the class is in the set that the handler computed before it stored. `SIGCacheProofs` has one for each kind, about any two caches that differ in one object; `StoreFrame` puts
them together. They are where each conjunct of `Orderly` is used.
That what a worker has parsed is still what the cache makes (`Working`) needs that nothing was stored in between, which is `Alone`. `PInv` says the same of pools: one in use is in place, or
the class's event is queued, or the worker at hand will declare the namespace of the service.

**Start-up.** `CInv` follows a key from the API server to the cache once its informer is filled: the informer agrees with the API server for what is not in
`watch` (`InformerKnows`), so does what a worker has read (`ReadingKnows`), and what is neither in `watch`, in the queue nor in a hand is cached as it is
or is in `gone` (`CacheKnows`). A later list only repeats what is known: core lists read the API server, the others the informer.
A settled process has nothing pending. The hypothesis is `ClassesKeepController` again.
`PoolsKept` is about a start in which nothing changes; `Still` says what that means: informers, readers and cache have the objects as they are, and the
cache has all that is listed (`Listed`). What is handled after the sync then stores what is stored, and its declaration has every pool in use of each tenant it
names: HandleBackends computes the same services as the classes do (`BackendsAreInUse`), and with one class to serve (`OneOwnClass`) an event declares all of
a namespace or nothing of it.
`StartupDeploys` needs `Steady`: `ClassesStay`, `NodesStay`, `EverythingParses`, `LateServicesAreNear` and those of the hypotheses above that keep names apart, Gateways with their
class, namespaces in place and one class to serve. Each conjunct keeps out one way to go wrong of those listed under "Met while modelling". Any number of objects, edits, failed lists and
restarts is left, and what an earlier process has deployed is arbitrary but for the partitions of other controllers' classes. The invariant `SInv`: a class of this controller waits for its event until the sync is over
(`Waits`), and after that, unless it still waits or the namespaces could not be listed, the BIG-IPs have what the cache makes of it now (`Serves`). That this survives every
handler has two halves. A class that the event concerns is declared from the cache with the object in it, which cannot fail because what a declaration needs was listed before (`CoreListed`,
`NothingFails`). For any other class the frame lemmas of `SIGCacheProofs` say that nothing changed (`StoreFrame`, `SamePool`), or its
namespace is declared anew with all the pools in it (`DeclaredPools`).

**Admission.** `IInv` adds to the two invariants that every admitted request passed its review of the object that it will replace (`Reviewed`): the API server has a request
reviewed anew when the object changed, which `Commit` models by dropping the others. If a class is gone under a Gateway, compare the later of the two
commits with its review: either it saw the other object as it was, and denied, or that was outdated, which `stale` recorded.
`DeniedIsUnserved` and `PassedIsServed` compare two implementations of similar rules. The controller's side is what it does with the object stored: `ParentMatches`, `AttachedServices`, and
whether each class concerned is declared (`Declares`: it is cached, parses, and its services have members). The first follows from `TypeOK` by lemmas that
put `MayRefer` next to `CanRefer`, `ParentRefsValid` next to `ParentMatches` and `CertificateRefsValid` next to `AttachedSecretsFail`. For the second, `RouteAdded` and `GatewayAdded` say that an object
that has nothing wrong leaves a declared class declared: what is attached through it is reviewed or excepted, and all else is attached as before. A Gateway also attaches the routes that wait
for it; that those name their sections is `SectionsNamed` of `IInv`, because they were reviewed themselves.

**Traffic.** `MismatchDropped` is about every state, also while old and new iRules mix: the invariant is that the guard is first in the
order of each listener that has a hostname. `SplitsAsDeclared` needs that what was loaded last is the text of the routes as they are unless the class is dirty or cannot be deployed,
that a table is the one of the route that ran last unless its `RULE_INIT` is still to run, and that a service that changes without declaring the class changes no entry. This last needs `StatusesAssumption`: a service that may not be
referred to does not come and go as well (`utils.go:397` does not declare the class then, which is the hazard of that line).
`RightBackend` adds that each listener's order has exactly the routes that were loaded, once each (`OrdersKnown`). The first route of an order that takes a request is the least
position of a nonempty set, and the first rule of a route the least index, so what the iRules select and what the declared rules name are compared rule by rule.

Only model-checked: liveness (`RoundEnds`, `Drains`, `WorkEnds`, `StartupEnds`), which is out of the prover's reach; `StartupDeploys` in the world of `startup`, which is not
steady; and what the violations show. Every safety property of a passing run is the subject of a theorem.

## 5. Not modelled

Logging, metrics, flags, credentials, health checks; the REST client and AS3 itself (a call applies a declaration, or part of
it and fails); leader election; monitors, profiles and the layout of declarations; filters that change headers; MAC and IPv6 addresses of
nodes. BIG-IP partitions change only through the controller. `Reconcilers` and `StartupSync` install a declaration when it is submitted and do not
lose requests that are pending when a panic ends the process; `AS3Deployer!Restart` does. `Traffic` has one class and one request per
connection: the guard of a hostname disables the event for the rest of a connection (`parser.go:179`). Examples, manifests and
system tests are not components; they are where the findings quote what users are told.

## 6. What could come next

`StartupDeploys` for worlds in which nodes go, which takes an argument about retries; `Converged` for
worlds in which parsing may fail for good; a composition of `StartupSync` with the deployer's restart instead of the store; worlds with retries
and two Gateways with one certificate.
