-------------------------- MODULE ReconcilersProofs --------------------------
(***************************************************************************)
(* Proofs about the reconcilers for every world, however many workers run,  *)
(* and however they are interleaved with users and with panics.             *)
(***************************************************************************)
EXTENDS Reconcilers, TLAPS

Fields == {"pc", "key", "obj", "todo", "classes", "retry", "as3"}

\* The maps have the kinds and keys of the world; a worker is a record.
Shape ==
  /\ DOMAIN api = Kinds /\ DOMAIN cache = Kinds
  /\ DOMAIN queue = Kinds /\ DOMAIN worker = Kinds
  /\ \A kind \in Kinds :
       /\ DOMAIN api[kind] = DOMAIN Universe[kind]
       /\ DOMAIN cache[kind] = DOMAIN Universe[kind]
       /\ DOMAIN worker[kind] = Fields

\* Objects are the world's; a cached one is an object as the cache shows it.
Contents ==
  \A kind \in Kinds : \A k \in DOMAIN Universe[kind] :
    /\ api[kind][k] \in Universe[kind][k]
    /\ \E o \in Universe[kind][k] : cache[kind][k] = Visible(kind, o)

InHand ==
  \A kind \in Kinds : worker[kind].pc # "idle" =>
    /\ worker[kind].key \in DOMAIN Universe[kind]
    /\ worker[kind].obj \in Universe[kind][worker[kind].key]

\* A worker that has read k and not yet stored it.
Reading(kind, k) == worker[kind].key = k /\ worker[kind].pc \in {"impact", "store"}

\* A key that is not queued is up to date: in the hands of its worker while
\* it is being read, in the cache from then on.
UpToDate(kind, k) ==
  /\ Reading(kind, k) => worker[kind].obj = api[kind][k]
  /\ ~Reading(kind, k) => cache[kind][k] = Visible(kind, api[kind][k])

Kept ==
  \A kind \in Kinds : \A k \in DOMAIN Universe[kind] :
    k \notin queue[kind] => UpToDate(kind, k)

IInv == Shape /\ Contents /\ InHand /\ Kept

---------------------------------------------------------------------------
\* The process starts with every map in its place and nothing in hand.
LEMMA InitIInv == Init => IInv
<1> SUFFICES ASSUME Init PROVE IInv
  OBVIOUS
<1>1. Shape
  BY WorldAssumption DEF Init, Shape, Synced, Everything, Idle, Fields
<1>2. Contents
  BY WorldAssumption DEF Init, Contents, Synced, Everything
<1>3. InHand
  BY DEF Init, InHand, Idle
<1>4. Kept
  BY WorldAssumption DEF Init, Kept, UpToDate, Reading, Synced, Idle
<1> QED
  BY <1>1, <1>2, <1>3, <1>4 DEF IInv

\* A user's change queues the key it changes.
LEMMA EditStep ==
  ASSUME IInv, NEW kind \in Kinds, NEW k \in DOMAIN Universe[kind],
         NEW obj \in Universe[kind][k], Edit(kind, k, obj)
  PROVE  IInv'
<1> USE DEF IInv
<1>1. Shape'
  BY DEF Edit, Shape
<1>2. Contents'
  BY DEF Edit, Shape, Contents
<1>3. InHand'
  BY DEF Edit, InHand
<1>4. Kept'
  BY DEF Edit, Shape, Kept, UpToDate, Reading
<1> QED
  BY <1>1, <1>2, <1>3, <1>4

\* A key that is taken is read in the same step.
LEMMA TakeStep ==
  ASSUME IInv, NEW kind \in Kinds, NEW k \in DOMAIN Universe[kind], Take(kind, k)
  PROVE  IInv'
<1> USE DEF IInv
<1>1. Shape'
  BY DEF Take, Shape, Idle, Fields
<1>2. Contents'
  BY DEF Take, Contents
<1>3. InHand'
  BY DEF Take, Shape, Contents, InHand, Idle
<1>4. Kept'
  BY DEF Take, Shape, Kept, UpToDate, Reading, Idle
<1> QED
  BY <1>1, <1>2, <1>3, <1>4

\* An event is ignored only when the cache is what it would become.
LEMMA IgnoredIsUpToDate ==
  ASSUME IInv, ClassesKeepController, NEW kind \in Kinds,
         NEW k \in DOMAIN Universe[kind], Ignored(kind, k, api[kind][k])
  PROVE  cache[kind][k] = Visible(kind, api[kind][k])
<1>1. kind = "GatewayClass"
  BY DEF Ignored
<1>2. PICK o \in Universe[kind][k] : cache[kind][k] = Visible(kind, o)
  BY DEF IInv, Contents
<1>3. api[kind][k] \in Universe[kind][k]
  BY DEF IInv, Contents
<1>4. CASE api[kind][k] = Foreign
  BY <1>1, <1>2, <1>3, <1>4 DEF ClassesKeepController, Visible
<1>5. CASE api[kind][k] = None /\ cache[kind][k] = None
  BY <1>5 DEF Visible
<1> QED
  BY <1>4, <1>5 DEF Ignored

LEMMA ImpactStep ==
  ASSUME IInv, ClassesKeepController, NEW kind \in Kinds, Impact(kind)
  PROVE  IInv'
<1> USE DEF IInv
<1> DEFINE w == worker[kind]
<1>0. w.pc = "impact" /\ DOMAIN worker = Kinds /\ DOMAIN w = Fields
      /\ UNCHANGED <<api, cache, queue>>
  BY DEF Impact, Shape
<1>1. CASE Ignored(kind, w.key, w.obj) /\ worker' = [worker EXCEPT ![kind] = Idle]
  <2>1. Shape'
    BY <1>0, <1>1 DEF Shape, Idle, Fields
  <2>2. InHand'
    BY <1>0, <1>1 DEF InHand, Idle
  <2>3. Kept'
    <3> SUFFICES ASSUME NEW j \in Kinds, NEW k \in DOMAIN Universe[j], k \notin queue[j]
                 PROVE  UpToDate(j, k)'
      BY <1>0 DEF Kept
    <3>1. UpToDate(j, k)
      BY DEF Kept
    <3>2. CASE j = kind /\ k = w.key
      <4>1. w.obj = api[kind][k]
        BY <1>0, <3>1, <3>2 DEF UpToDate, Reading
      <4>2. cache[kind][k] = Visible(kind, api[kind][k])
        BY <1>1, <3>2, <4>1, IgnoredIsUpToDate
      <4> QED
        BY <1>0, <1>1, <3>2, <4>2 DEF UpToDate, Reading, Idle
    <3>3. CASE ~(j = kind /\ k = w.key)
      BY <1>0, <1>1, <3>1, <3>3 DEF UpToDate, Reading, Idle
    <3> QED
      BY <3>2, <3>3
  <2> QED
    BY <1>0, <2>1, <2>2, <2>3 DEF Contents
<1>2. CASE \E cls, b : worker' = [worker EXCEPT ![kind] =
              [w EXCEPT !.pc = "store", !.todo = cls, !.classes = cls, !.retry = b]]
  <2>0. PICK cls, b : worker' = [worker EXCEPT ![kind] =
              [w EXCEPT !.pc = "store", !.todo = cls, !.classes = cls, !.retry = b]]
    BY <1>2
  <2>1. Shape'
    BY <1>0, <2>0 DEF Shape, Fields
  <2>2. InHand'
    BY <1>0, <2>0 DEF InHand, Fields
  <2>3. Kept'
    BY <1>0, <2>0 DEF Kept, UpToDate, Reading, Fields
  <2> QED
    BY <1>0, <2>1, <2>2, <2>3 DEF Contents
<1> QED
  BY <1>1, <1>2 DEF Impact

\* A new process starts from what there is.
LEMMA PanicStep ==
  ASSUME IInv, NEW kind \in Kinds, Panic(kind)
  PROVE  IInv'
<1> USE DEF IInv
<1>1. Shape'
  BY DEF Panic, Shape, Synced, Everything, Idle, Fields
<1>2. Contents'
  BY DEF Panic, Shape, Contents, Synced
<1>3. InHand'
  BY DEF Panic, InHand, Idle
<1>4. Kept'
  BY DEF Panic, Shape, Kept, UpToDate, Reading, Synced, Idle
<1> QED
  BY <1>1, <1>2, <1>3, <1>4

LEMMA StoreStep ==
  ASSUME IInv, NEW kind \in Kinds, Store(kind)
  PROVE  IInv'
<1> USE DEF IInv
<1> DEFINE w == worker[kind]
<1>0. /\ w.pc = "store" /\ w.key \in DOMAIN Universe[kind] /\ w.obj \in Universe[kind][w.key]
      /\ cache' = [cache EXCEPT ![kind][w.key] = Visible(kind, w.obj)]
      /\ \A j \in Kinds : queue[j] \subseteq queue'[j]
      /\ DOMAIN queue' = Kinds
      /\ UNCHANGED api
  BY DEF Store, InHand, Shape
<1>1. \E u : /\ worker' = [worker EXCEPT ![kind] = u]
             /\ DOMAIN u = Fields /\ u.pc \notin {"impact", "store"}
             /\ u.pc # "idle" => u.key = w.key /\ u.obj = w.obj
  <2>1. CASE HasBackends(kind)
    <3> DEFINE u == [w EXCEPT !.pc = "backends"]
    <3>1. worker' = [worker EXCEPT ![kind] = u]
      BY <2>1 DEF Store
    <3>2. DOMAIN u = Fields /\ u.pc = "backends" /\ (u.pc # "idle" => u.key = w.key /\ u.obj = w.obj)
      BY DEF Shape, Fields
    <3> HIDE DEF u
    <3> QED
      BY <3>1, <3>2
  <2>2. CASE ~HasBackends(kind) /\ w.classes = {}
    <3> DEFINE u == Idle
    <3>1. worker' = [worker EXCEPT ![kind] = u]
      BY <2>2 DEF Store
    <3>2. DOMAIN u = Fields /\ u.pc = "idle" /\ (u.pc # "idle" => u.key = w.key /\ u.obj = w.obj)
      BY DEF Idle, Fields
    <3> HIDE DEF u
    <3> QED
      BY <3>1, <3>2
  <2>3. CASE ~HasBackends(kind) /\ w.classes # {}
    <3> DEFINE u == [w EXCEPT !.pc = "parse"]
    <3>1. worker' = [worker EXCEPT ![kind] = u]
      BY <2>3 DEF Store
    <3>2. DOMAIN u = Fields /\ u.pc = "parse" /\ (u.pc # "idle" => u.key = w.key /\ u.obj = w.obj)
      BY DEF Shape, Fields
    <3> HIDE DEF u
    <3> QED
      BY <3>1, <3>2
  <2> QED
    BY <2>1, <2>2, <2>3
<1>2. PICK u : /\ worker' = [worker EXCEPT ![kind] = u]
               /\ DOMAIN u = Fields /\ u.pc \notin {"impact", "store"}
               /\ u.pc # "idle" => u.key = w.key /\ u.obj = w.obj
  BY <1>1
<1>3. Shape'
  BY <1>0, <1>2 DEF Shape
<1>4. Contents'
  BY <1>0 DEF Shape, Contents
<1>5. InHand'
  BY <1>0, <1>2 DEF Shape, InHand
<1>6. Kept'
  <2> SUFFICES ASSUME NEW j \in Kinds, NEW k \in DOMAIN Universe[j], k \notin queue'[j]
               PROVE  UpToDate(j, k)'
    BY DEF Kept
  <2>1. UpToDate(j, k)
    BY <1>0 DEF Kept
  <2>2. CASE j = kind /\ k = w.key
    <3>1. w.obj = api[kind][k]
      BY <1>0, <2>1, <2>2 DEF UpToDate, Reading
    <3>2. cache'[kind][k] = Visible(kind, api'[kind][k])
      BY <1>0, <2>2, <3>1 DEF Shape
    <3>3. ~Reading(kind, k)'
      BY <1>2 DEF Reading, Shape
    <3> QED
      BY <2>2, <3>2, <3>3 DEF UpToDate
  <2>3. CASE j = kind /\ k # w.key
    BY <1>0, <1>2, <2>1, <2>3 DEF UpToDate, Reading, Shape
  <2>4. CASE j # kind
    BY <1>0, <1>2, <2>1, <2>4 DEF UpToDate, Reading, Shape
  <2> QED
    BY <2>2, <2>3, <2>4
<1> QED
  BY <1>3, <1>4, <1>5, <1>6

\* The later steps leave objects and cache alone and have stored the object.
LEMMA LaterStep ==
  ASSUME IInv, NEW kind \in Kinds, NEW u, DOMAIN u = Fields,
         worker[kind].pc \notin {"impact", "store", "idle"},
         u.pc \notin {"impact", "store"},
         u.pc # "idle" => u.key = worker[kind].key /\ u.obj = worker[kind].obj,
         worker' = [worker EXCEPT ![kind] = u],
         DOMAIN queue' = Kinds,
         \A j \in Kinds : queue[j] \subseteq queue'[j],
         UNCHANGED <<api, cache>>
  PROVE  IInv'
<1> USE DEF IInv
<1>1. Shape'
  BY DEF Shape
<1>2. Contents'
  BY DEF Contents
<1>3. InHand'
  BY DEF Shape, InHand
<1>4. Kept'
  BY DEF Shape, Kept, UpToDate, Reading
<1> QED
  BY <1>1, <1>2, <1>3, <1>4

LEMMA FailStep ==
  ASSUME IInv, NEW kind \in Kinds, worker[kind].pc \notin {"impact", "store", "idle"}, Fail(kind)
  PROVE  IInv'
<1>1. /\ worker' = [worker EXCEPT ![kind] = Idle] /\ UNCHANGED <<api, cache>>
      /\ DOMAIN queue' = Kinds /\ \A j \in Kinds : queue[j] \subseteq queue'[j]
  BY DEF Fail, IInv, Shape
<1>2. DOMAIN Idle = Fields /\ Idle.pc = "idle"
  BY DEF Idle, Fields
<1> QED
  BY <1>1, <1>2, LaterStep

LEMMA ContinueStep ==
  ASSUME IInv, NEW kind \in Kinds, worker[kind].pc \notin {"impact", "store", "idle"},
         NEW u, DOMAIN u = Fields, u.pc \in {"parse", "add"},
         u.key = worker[kind].key, u.obj = worker[kind].obj, Continue(kind, u)
  PROVE  IInv'
<1>1. /\ worker' = [worker EXCEPT ![kind] = u] /\ UNCHANGED <<api, cache>>
      /\ DOMAIN queue' = Kinds /\ \A j \in Kinds : queue[j] \subseteq queue'[j]
  BY DEF Continue, IInv, Shape
<1> QED
  BY <1>1, LaterStep

LEMMA ParseClassStep ==
  ASSUME IInv, NEW kind \in Kinds, NEW c, ParseClass(kind, c)
  PROVE  IInv'
<1>1. worker[kind].pc = "parse" /\ DOMAIN worker[kind] = Fields
  BY DEF ParseClass, IInv, Shape
<1>2. CASE ParseClassFails(cache, c)
  BY <1>1, <1>2, FailStep DEF ParseClass
<1>3. CASE ~ParseClassFails(cache, c)
  <2> DEFINE u == [worker[kind] EXCEPT !.todo = @ \ {c},
                     !.as3 = Over(@, [t \in {c} |-> ParseAllForClass(cache, c)])]
  <2>1. Continue(kind, u)
    BY <1>3 DEF ParseClass
  <2>2. DOMAIN u = Fields /\ u.pc = "parse" /\ u.key = worker[kind].key /\ u.obj = worker[kind].obj
    BY <1>1 DEF Fields
  <2> HIDE DEF u
  <2> QED
    BY <1>1, <2>1, <2>2, ContinueStep
<1> QED
  BY <1>2, <1>3

LEMMA ParseRelatedStep ==
  ASSUME IInv, NEW kind \in Kinds, ParseRelated(kind)
  PROVE  IInv'
<1> DEFINE svcs == UNION {RelatedServices(cache, c) : c \in worker[kind].classes}
<1>1. worker[kind].pc = "parse" /\ DOMAIN worker[kind] = Fields
  BY DEF ParseRelated, IInv, Shape
<1>2. CASE ParseServicesFail(cache, svcs)
  BY <1>1, <1>2, FailStep DEF ParseRelated
<1>3. CASE ~ParseServicesFail(cache, svcs)
  <2> DEFINE u == [worker[kind] EXCEPT !.pc = "add", !.as3 = Over(@, ParseServices(cache, svcs))]
  <2>1. Continue(kind, u)
    BY <1>3 DEF ParseRelated
  <2>2. DOMAIN u = Fields /\ u.pc = "add" /\ u.key = worker[kind].key /\ u.obj = worker[kind].obj
    BY <1>1 DEF Fields
  <2> HIDE DEF u
  <2> QED
    BY <1>1, <2>1, <2>2, ContinueStep
<1> QED
  BY <1>2, <1>3

LEMMA HandleBackendsStep ==
  ASSUME IInv, NEW kind \in Kinds, HandleBackends(kind)
  PROVE  IInv'
<1> DEFINE ns == NsOf[worker[kind].key]
           svcs == BackendsOf(cache, ns)
<1>1. worker[kind].pc = "backends" /\ DOMAIN worker[kind] = Fields
  BY DEF HandleBackends, IInv, Shape
<1>2. CASE ParseServicesFail(cache, svcs)
  BY <1>1, <1>2, FailStep DEF HandleBackends
<1>3. CASE ~ParseServicesFail(cache, svcs)
  <2> DEFINE u == [worker[kind] EXCEPT !.pc = "add",
            !.as3 = IF svcs = {} THEN [t \in {ns} |-> NoConfig] ELSE ParseServices(cache, svcs)]
  <2>1. Continue(kind, u)
    BY <1>3 DEF HandleBackends
  <2>2. DOMAIN u = Fields /\ u.pc = "add" /\ u.key = worker[kind].key /\ u.obj = worker[kind].obj
    BY <1>1 DEF Fields
  <2> HIDE DEF u
  <2> QED
    BY <1>1, <2>1, <2>2, ContinueStep
<1> QED
  BY <1>2, <1>3

LEMMA AddStep ==
  ASSUME IInv, NEW kind \in Kinds, Add(kind)
  PROVE  IInv'
<1>1. /\ worker' = [worker EXCEPT ![kind] = Idle] /\ UNCHANGED <<api, cache>>
      /\ worker[kind].pc = "add"
      /\ DOMAIN queue' = Kinds /\ \A j \in Kinds : queue[j] \subseteq queue'[j]
  BY DEF Add, IInv, Shape
<1>2. DOMAIN Idle = Fields /\ Idle.pc = "idle"
  BY DEF Idle, Fields
<1> QED
  BY <1>1, <1>2, LaterStep

LEMMA NextIInv ==
  ASSUME IInv, ClassesKeepController, [Next]_vars
  PROVE  IInv'
<1>1. CASE UNCHANGED vars
  BY <1>1 DEF vars, IInv, Shape, Contents, InHand, Kept, UpToDate, Reading
<1>2. ASSUME NEW kind \in Kinds, NEW k \in DOMAIN Universe[kind],
             NEW obj \in Universe[kind][k], Edit(kind, k, obj)
      PROVE  IInv'
  BY <1>2, EditStep
<1>3. ASSUME NEW kind \in Kinds, Work(kind)
      PROVE  IInv'
  BY <1>3, TakeStep, ImpactStep, PanicStep, StoreStep, ParseClassStep, ParseRelatedStep,
     HandleBackendsStep, AddStep DEF Work
<1> QED
  BY <1>1, <1>2, <1>3 DEF Next

\* No event is lost: a key that is neither queued nor in its worker's hands is
\* cached as it is at the API server.
THEOREM NothingIsForgotten ==
  ASSUME ClassesKeepController
  PROVE  Spec => []NothingForgotten
<1>1. Init => IInv
  BY InitIInv
<1>2. IInv /\ [Next]_vars => IInv'
  BY NextIInv
<1>3. IInv => NothingForgotten
  BY DEF IInv, Kept, UpToDate, Reading, NothingForgotten
<1> QED
  BY <1>1, <1>2, <1>3, PTL DEF Spec

---------------------------------------------------------------------------
(* What the route worker submits.                                          *)

RouteWorker == worker["HTTPRoute"]

\* Nothing is parsed before the object is stored.
ParsedLater == RouteWorker.pc \in {"idle", "impact", "store"} => DOMAIN RouteWorker.as3 = {}

\* Only this worker stores routes, and it has stored the one in its hands.
RouteStored ==
  /\ RouteWorker.pc # "backends"
  /\ RouteWorker.pc \in {"parse", "add"} => cache["HTTPRoute"][RouteWorker.key] = RouteWorker.obj

Bound(w) ==
  \A t \in DOMAIN w.as3 : \A v \in w.as3[t].virtuals :
    w.key \in v.iRules => NamesListener(w.obj, v)

RInv == ParsedLater /\ RouteStored /\ Bound(RouteWorker)

\* A virtual server of a parsed class has the rules of the cached routes that
\* name its listener.
LEMMA ParsedNamesListener ==
  ASSUME NEW s, NEW c, NEW v \in ParseAllForClass(s, c).virtuals, NEW r \in v.iRules
  PROVE  NamesListener(s["HTTPRoute"][r], v)
<1>1. PICK g \in AttachedGateways(s, c) :
        \E l \in DOMAIN s.Gateway[g].listeners, a \in s.Gateway[g].addresses : v = Virtual(s, g, l, a)
  BY DEF ParseAllForClass, NoConfig
<1>2. PICK l \in DOMAIN s.Gateway[g].listeners, a \in s.Gateway[g].addresses : v = Virtual(s, g, l, a)
  BY <1>1
<1>3. v.gateway = g /\ v.listener = l
  BY <1>2 DEF Virtual
<1>4. r \in Cached(s.HTTPRoute) /\ \E pr \in s.HTTPRoute[r].parents : pr.gw = g /\ pr.section = l
  BY <1>2 DEF Virtual
<1> QED
  BY <1>3, <1>4 DEF NamesListener, Cached

\* The tenants of services have no virtual servers.
LEMMA ServicesHaveNoVirtuals ==
  ASSUME NEW s, NEW vs, NEW t \in DOMAIN ParseServices(s, vs)
  PROVE  ParseServices(s, vs)[t].virtuals = {}
BY DEF ParseServices, NoConfig

LEMMA InitRInv == Init => RInv
BY WorldAssumption DEF Init, RInv, RouteWorker, ParsedLater, RouteStored, Bound, Idle, NoTenants

\* The steps of the other workers do not touch the routes, or end them all.
LEMMA OthersKeepRInv ==
  ASSUME IInv, RInv, NEW kind \in Kinds, kind # "HTTPRoute", Work(kind)
  PROVE  RInv'
<1>1. CASE Panic(kind)
  BY <1>1, WorldAssumption
     DEF Panic, RInv, RouteWorker, ParsedLater, RouteStored, Bound, Idle, NoTenants
<1>2. ASSUME ~Panic(kind)
      PROVE  cache'["HTTPRoute"] = cache["HTTPRoute"] /\ RouteWorker' = RouteWorker
  BY <1>2, WorldAssumption
     DEF Work, Take, Impact, Store, Fail, Continue, ParseClass, ParseRelated, HandleBackends,
         Add, RouteWorker, IInv, Shape
<1>3. CASE ~Panic(kind)
  BY <1>2, <1>3 DEF RInv, ParsedLater, RouteStored, Bound
<1> QED
  BY <1>1, <1>3

\* The route worker is idle again: it holds no declaration.
LEMMA IdleRInv ==
  ASSUME RouteWorker' = Idle
  PROVE  RInv'
BY DEF RInv, RouteWorker, ParsedLater, RouteStored, Bound, Idle, NoTenants

\* Classes parsed now come from a cache that holds the route as it is.
LEMMA RouteParses ==
  ASSUME IInv, RInv, NEW c, ParseClass("HTTPRoute", c)
  PROVE  RInv'
<1> DEFINE w == worker["HTTPRoute"]
           more == [t \in {c} |-> ParseAllForClass(cache, c)]
           u == [w EXCEPT !.todo = @ \ {c}, !.as3 = Over(@, more)]
<1>0. "HTTPRoute" \in Kinds /\ DOMAIN worker = Kinds /\ DOMAIN w = Fields /\ w.pc = "parse"
  BY WorldAssumption DEF IInv, Shape, ParseClass
<1>1. CASE ParseClassFails(cache, c)
  BY <1>0, <1>1, IdleRInv DEF ParseClass, Fail, RouteWorker
<1>2. CASE ~ParseClassFails(cache, c)
  <2>1. worker' = [worker EXCEPT !["HTTPRoute"] = u] /\ UNCHANGED cache
    BY <1>2 DEF ParseClass, Continue
  <2>2. RouteWorker' = u
    BY <1>0, <2>1 DEF RouteWorker
  <2>3. u.pc = "parse" /\ u.key = w.key /\ u.obj = w.obj /\ u.as3 = Over(w.as3, more)
    BY <1>0 DEF Fields
  <2>4. \A t \in DOMAIN more : \A v \in more[t].virtuals :
          w.key \in v.iRules => NamesListener(w.obj, v)
    BY <1>0, ParsedNamesListener DEF RInv, RouteStored, RouteWorker
  <2>5. Bound(w)
    BY DEF RInv, RouteWorker
  <2> HIDE DEF more
  <2>6. \A t \in DOMAIN Over(w.as3, more) : \A v \in Over(w.as3, more)[t].virtuals :
          w.key \in v.iRules => NamesListener(w.obj, v)
    BY <2>4, <2>5 DEF Over, Bound
  <2>7. w.key = RouteWorker.key /\ w.obj = RouteWorker.obj /\ RouteWorker.pc = "parse"
    BY <1>0 DEF RouteWorker
  <2> HIDE DEF u, w
  <2> QED
    BY <2>1, <2>2, <2>3, <2>6, <2>7 DEF RInv, ParsedLater, RouteStored, Bound
<1> QED
  BY <1>1, <1>2

\* The services parsed after them bring no virtual servers.
LEMMA RouteParsesRelated ==
  ASSUME IInv, RInv, ParseRelated("HTTPRoute")
  PROVE  RInv'
<1> DEFINE w == worker["HTTPRoute"]
           svcs == UNION {RelatedServices(cache, c) : c \in w.classes}
           more == ParseServices(cache, svcs)
           u == [w EXCEPT !.pc = "add", !.as3 = Over(@, more)]
<1>0. "HTTPRoute" \in Kinds /\ DOMAIN worker = Kinds /\ DOMAIN w = Fields /\ w.pc = "parse"
  BY WorldAssumption DEF IInv, Shape, ParseRelated
<1>1. CASE ParseServicesFail(cache, svcs)
  BY <1>0, <1>1, IdleRInv DEF ParseRelated, Fail, RouteWorker
<1>2. CASE ~ParseServicesFail(cache, svcs)
  <2>1. worker' = [worker EXCEPT !["HTTPRoute"] = u] /\ UNCHANGED cache
    BY <1>2 DEF ParseRelated, Continue
  <2>2. RouteWorker' = u
    BY <1>0, <2>1 DEF RouteWorker
  <2>3. u.pc = "add" /\ u.key = w.key /\ u.obj = w.obj /\ u.as3 = Over(w.as3, more)
    BY <1>0 DEF Fields
  <2> HIDE DEF svcs
  <2>4. \A t \in DOMAIN more : more[t].virtuals = {}
    BY ServicesHaveNoVirtuals
  <2>5. Bound(w)
    BY DEF RInv, RouteWorker
  <2> HIDE DEF more
  <2>6. \A t \in DOMAIN Over(w.as3, more) : \A v \in Over(w.as3, more)[t].virtuals :
          w.key \in v.iRules => NamesListener(w.obj, v)
    BY <2>4, <2>5 DEF Over, Bound
  <2>7. w.key = RouteWorker.key /\ w.obj = RouteWorker.obj /\ RouteWorker.pc = "parse"
    BY <1>0 DEF RouteWorker
  <2> HIDE DEF u, w
  <2> QED
    BY <2>1, <2>2, <2>3, <2>6, <2>7 DEF RInv, ParsedLater, RouteStored, Bound
<1> QED
  BY <1>1, <1>2

LEMMA RouteWorkKeepsRInv ==
  ASSUME IInv, RInv, Work("HTTPRoute")
  PROVE  RInv'
<1> DEFINE w == worker["HTTPRoute"]
<1>0. "HTTPRoute" \in Kinds /\ DOMAIN worker = Kinds /\ DOMAIN w = Fields
  BY WorldAssumption DEF IInv, Shape
<1>1. ASSUME NEW k \in DOMAIN Universe["HTTPRoute"], Take("HTTPRoute", k) PROVE RInv'
  BY <1>0, <1>1
     DEF Take, RInv, RouteWorker, ParsedLater, RouteStored, Bound, Idle, NoTenants
<1>2. CASE Impact("HTTPRoute")
  <2>1. CASE worker' = [worker EXCEPT !["HTTPRoute"] = Idle]
    BY <1>0, <2>1, IdleRInv DEF RouteWorker
  <2>2. CASE \E cls, b : worker' = [worker EXCEPT !["HTTPRoute"] =
                [w EXCEPT !.pc = "store", !.todo = cls, !.classes = cls, !.retry = b]]
    <3>1. PICK cls, b : worker' = [worker EXCEPT !["HTTPRoute"] =
                [w EXCEPT !.pc = "store", !.todo = cls, !.classes = cls, !.retry = b]]
      BY <2>2
    <3>2. RouteWorker'.pc = "store" /\ RouteWorker'.as3 = w.as3
      BY <1>0, <3>1 DEF RouteWorker, Fields
    <3>3. DOMAIN w.as3 = {}
      BY <1>2 DEF Impact, RInv, ParsedLater, RouteWorker
    <3> HIDE DEF w
    <3> QED
      BY <3>2, <3>3 DEF RInv, ParsedLater, RouteStored, Bound
  <2> QED
    BY <1>2, <2>1, <2>2 DEF Impact
<1>3. CASE Panic("HTTPRoute")
  BY <1>0, <1>3, IdleRInv DEF Panic, RouteWorker
<1>4. CASE Store("HTTPRoute")
  <2>1. w.pc = "store" /\ w.key \in DOMAIN Universe["HTTPRoute"]
        /\ cache' = [cache EXCEPT !["HTTPRoute"][w.key] = w.obj]
    BY <1>0, <1>4 DEF Store, IInv, InHand, Visible
  <2>2. CASE w.classes = {}
    BY <1>0, <1>4, <2>2, IdleRInv DEF Store, HasBackends, RouteWorker
  <2>3. CASE w.classes # {}
    <3>1. RouteWorker' = [w EXCEPT !.pc = "parse"]
      BY <1>0, <1>4, <2>3 DEF Store, HasBackends, RouteWorker
    <3>2. DOMAIN w.as3 = {}
      BY <2>1 DEF RInv, ParsedLater, RouteWorker
    <3>3. RouteWorker'.pc = "parse" /\ RouteWorker'.key = w.key /\ RouteWorker'.obj = w.obj
          /\ RouteWorker'.as3 = w.as3
      BY <1>0, <3>1 DEF Fields
    <3>4. cache'["HTTPRoute"][w.key] = w.obj
      BY <1>0, <2>1 DEF IInv, Shape
    <3> HIDE DEF w
    <3> QED
      BY <3>2, <3>3, <3>4 DEF RInv, ParsedLater, RouteStored, Bound
  <2> QED
    BY <2>2, <2>3
<1>5. ASSUME NEW c, ParseClass("HTTPRoute", c) PROVE RInv'
  BY <1>5, RouteParses
<1>6. CASE ParseRelated("HTTPRoute")
  BY <1>6, RouteParsesRelated
<1>7. CASE HandleBackends("HTTPRoute")
  BY <1>7 DEF HandleBackends, RInv, RouteStored, RouteWorker
<1>8. CASE Add("HTTPRoute")
  BY <1>0, <1>8, IdleRInv DEF Add, RouteWorker
<1> QED
  BY <1>1, <1>2, <1>3, <1>4, <1>5, <1>6, <1>7, <1>8 DEF Work

LEMMA NextRInv ==
  ASSUME IInv, RInv, [Next]_vars
  PROVE  RInv'
<1>1. CASE UNCHANGED <<cache, worker>>
  BY <1>1 DEF RInv, RouteWorker, ParsedLater, RouteStored, Bound
<1>2. ASSUME NEW kind \in Kinds, Work(kind) PROVE RInv'
  BY <1>2, OthersKeepRInv, RouteWorkKeepsRInv
<1> QED
  BY <1>1, <1>2 DEF Next, Edit, vars

\* However the workers interleave, a route's declaration binds it to no
\* listener that the handled version of the route does not name.
THEOREM RoutesAreBoundAsHandled ==
  ASSUME ClassesKeepController
  PROVE  Spec => []OwnChangeSubmitted
<1>1. Init => IInv /\ RInv
  BY InitIInv, InitRInv
<1>2. IInv /\ RInv /\ [Next]_vars => IInv' /\ RInv'
  BY NextIInv, NextRInv
<1>3. RInv => OwnChangeSubmitted
  BY DEF RInv, Bound, RouteWorker, OwnChangeSubmitted
<1> QED
  BY <1>1, <1>2, <1>3, PTL DEF Spec

---------------------------------------------------------------------------
(* Types: what the computations on the cache return.                       *)

\* What a worker holds besides its key and object.
Fine(kind, w) ==
  /\ w.pc \in {"idle", "impact", "store", "parse", "backends", "add"}
  /\ w.todo \subseteq w.classes
  /\ w.classes \subseteq Classes
  /\ w.pc = "backends" => HasBackends(kind)
  /\ w.retry \in BOOLEAN
  /\ DOMAIN w.as3 \subseteq Tenants

TInv == \A kind \in Kinds : queue[kind] \subseteq DOMAIN Universe[kind] /\ Fine(kind, worker[kind])

LEMMA IdleIsFine ==
  ASSUME NEW kind
  PROVE  Fine(kind, Idle)
BY DEF Fine, Idle, NoTenants

\* A cached object of any kind but GatewayClass is an object of the world.
LEMMA CachedIsOfWorld ==
  ASSUME IInv, NEW kind \in Kinds, NEW k \in DOMAIN Universe[kind]
  PROVE  cache[kind][k] \in Universe[kind][k] \cup {None}
BY DEF IInv, Contents, Visible

LEMMA CachedGateways ==
  ASSUME IInv, NEW gws, gws \subseteq Cached(cache["Gateway"])
  PROVE  ClassNamesOf(cache, gws) \subseteq Classes
<1> SUFFICES ASSUME NEW g \in gws PROVE cache["Gateway"][g].class \in Classes
  BY DEF ClassNamesOf
<1>1. "Gateway" \in Kinds /\ g \in DOMAIN Universe["Gateway"] /\ cache["Gateway"][g] # None
  BY WorldAssumption DEF Cached, IInv, Shape
<1>2. cache["Gateway"][g] \in Universe["Gateway"][g]
  BY <1>1, CachedIsOfWorld
<1> QED
  BY <1>1, <1>2, ReferencesAssumption

LEMMA RefsAreCached ==
  ASSUME IInv, NEW r \in DOMAIN Universe["HTTPRoute"], NEW hr \in Universe["HTTPRoute"][r] \cup {None}
  PROVE  GatewayRefsOfHR(cache, r, hr) \subseteq Cached(cache["Gateway"])
<1> SUFFICES ASSUME hr # None, NEW pr \in hr.parents, ParentMatches(cache, r, pr)
             PROVE  pr.gw \in Cached(cache["Gateway"])
  BY DEF GatewayRefsOfHR
<1>1. pr.gw \in DOMAIN Universe["Gateway"]
  BY ReferencesAssumption
<1>2. DOMAIN cache["Gateway"] = DOMAIN Universe["Gateway"]
  BY WorldAssumption DEF IInv, Shape
<1> QED
  BY <1>1, <1>2 DEF ParentMatches, Cached

LEMMA CachedRouteRefs ==
  ASSUME IInv, NEW r \in Cached(cache["HTTPRoute"])
  PROVE  GatewayRefsOfHR(cache, r, cache["HTTPRoute"][r]) \subseteq Cached(cache["Gateway"])
<1>1. "HTTPRoute" \in Kinds /\ r \in DOMAIN Universe["HTTPRoute"]
  BY WorldAssumption DEF Cached, IInv, Shape
<1>2. cache["HTTPRoute"][r] \in Universe["HTTPRoute"][r] \cup {None}
  BY <1>1, CachedIsOfWorld
<1> QED
  BY <1>1, <1>2, RefsAreCached

\* An event concerns classes only.
LEMMA ImpactIsClasses ==
  ASSUME IInv, NEW kind \in Kinds, worker[kind].pc = "impact", ~Panics(kind)
  PROVE  ImpactOf(kind, worker[kind].key, worker[kind].obj) \subseteq Classes
<1> DEFINE k == worker[kind].key
           obj == worker[kind].obj
           old == cache[kind][k]
<1>0. k \in DOMAIN Universe[kind] /\ obj \in Universe[kind][k] /\ old \in Universe[kind][k] \cup {None}
  BY CachedIsOfWorld DEF IInv, InHand
<1>1. CASE kind = "GatewayClass"
  BY <1>0, <1>1 DEF ImpactOf, Classes
<1>2. CASE kind = "Gateway"
  <2>1. obj # None \/ old # None
    BY <1>2 DEF Panics, GatewayPanics
  <2> QED
    BY <1>0, <1>2, <2>1, ReferencesAssumption DEF ImpactOf, GatewayClasses
<1>3. CASE kind = "HTTPRoute"
  <2>1. GatewayRefsOfHR(cache, k, old) \cup GatewayRefsOfHR(cache, k, obj) \subseteq Cached(cache["Gateway"])
    BY <1>0, <1>3, RefsAreCached
  <2>2. ImpactOf(kind, k, obj) =
          ClassNamesOf(cache, GatewayRefsOfHR(cache, k, old) \cup GatewayRefsOfHR(cache, k, obj))
    BY <1>3 DEF ImpactOf, RouteClasses
  <2> HIDE DEF k, obj, old
  <2> QED
    BY <2>1, <2>2, CachedGateways DEF k, obj
<1>4. CASE kind = "ReferenceGrant"
  <2>1. ASSUME NEW rg PROVE RGImpactedGatewayClasses(cache, rg) \subseteq Classes
    <3> DEFINE gws == RGImpactedGateways(cache, rg) \cup
                        UNION {GatewayRefsOfHR(cache, r, cache.HTTPRoute[r]) :
                                 r \in RGImpactedHTTPRoutes(cache, rg)}
    <3>1. RGImpactedGateways(cache, rg) \subseteq Cached(cache["Gateway"])
      BY DEF RGImpactedGateways
    <3>2. RGImpactedHTTPRoutes(cache, rg) \subseteq Cached(cache["HTTPRoute"])
      BY DEF RGImpactedHTTPRoutes
    <3>3. gws \subseteq Cached(cache["Gateway"])
      BY <3>1, <3>2, CachedRouteRefs
    <3>4. RGImpactedGatewayClasses(cache, rg) = ClassNamesOf(cache, gws)
      BY DEF RGImpactedGatewayClasses
    <3> HIDE DEF gws
    <3> QED
      BY <3>3, <3>4, CachedGateways
  <2> QED
    BY <1>4, <2>1 DEF ImpactOf, GrantClasses
<1>5. CASE kind = "Secret"
  <2>1. GatewayRefsOfSecret(cache, k) \subseteq Cached(cache["Gateway"])
    BY DEF GatewayRefsOfSecret
  <2>2. ClassNamesOf(cache, GatewayRefsOfSecret(cache, k)) \subseteq Classes
    BY <2>1, CachedGateways
  <2> QED
    BY <1>5, <2>2 DEF ImpactOf, SecretClasses
<1>6. CASE kind = "Namespace"
  <2> DEFINE gws == {g \in Cached(cache.Gateway) : \E r \in Cached(cache.HTTPRoute) :
                       NsOf[r] = k /\ \E pr \in cache.HTTPRoute[r].parents : pr.gw = g}
  <2>1. gws \subseteq Cached(cache["Gateway"])
    OBVIOUS
  <2>2. ClassNamesOf(cache, gws) \subseteq Classes
    BY <2>1, CachedGateways
  <2>3. NSImpactedGatewayClasses(cache, k) = ClassNamesOf(cache, gws)
    BY DEF NSImpactedGatewayClasses
  <2> QED
    BY <1>6, <2>2, <2>3 DEF ImpactOf, NamespaceClasses
<1>7. CASE kind \in {"Service", "Endpoints"}
  BY <1>7 DEF ImpactOf
<1> QED
  BY <1>1, <1>2, <1>3, <1>4, <1>5, <1>6, <1>7, WorldAssumption

\* The services a class refers to are in namespaces with a tenant.
LEMMA RelatedHaveTenants ==
  ASSUME IInv, NEW c, NEW v \in RelatedServices(cache, c)
  PROVE  NsOf[v] \in Tenants
<1>1. PICK r : r \in Cached(cache["HTTPRoute"]) /\ v \in AttachedServices(cache, r)
  BY DEF RelatedServices, AttachedHTTPRoutes
<1>2. "HTTPRoute" \in Kinds /\ r \in DOMAIN Universe["HTTPRoute"] /\ cache["HTTPRoute"][r] # None
  BY <1>1, WorldAssumption DEF Cached, IInv, Shape
<1>3. cache["HTTPRoute"][r] \in Universe["HTTPRoute"][r]
  BY <1>2, CachedIsOfWorld
<1>4. v \in cache["HTTPRoute"][r].backends \cup cache["HTTPRoute"][r].extensions
  BY <1>1 DEF AttachedServices
<1> QED
  BY <1>2, <1>3, <1>4, ReferencesAssumption

\* A step that gives one worker a fine state and only queues keys there are.
LEMMA OneWorkerKeepsTInv ==
  ASSUME IInv, TInv, NEW kind \in Kinds, NEW u, Fine(kind, u),
         worker' = [worker EXCEPT ![kind] = u],
         \A j \in Kinds : queue'[j] \subseteq DOMAIN Universe[j]
  PROVE  TInv'
BY DEF IInv, Shape, TInv, Fine

LEMMA FailKeepsTInv ==
  ASSUME IInv, TInv, NEW kind \in Kinds, worker[kind].pc # "idle", Fail(kind)
  PROVE  TInv'
<1>1. worker' = [worker EXCEPT ![kind] = Idle]
      /\ \A j \in Kinds : queue'[j] \subseteq DOMAIN Universe[j]
  BY DEF Fail, IInv, Shape, InHand, TInv
<1> QED
  BY <1>1, IdleIsFine, OneWorkerKeepsTInv

LEMMA ContinueKeepsTInv ==
  ASSUME IInv, TInv, NEW kind \in Kinds, NEW u, Fine(kind, u), Continue(kind, u)
  PROVE  TInv'
<1>1. worker' = [worker EXCEPT ![kind] = u] /\ \A j \in Kinds : queue'[j] \subseteq DOMAIN Universe[j]
  BY DEF Continue, TInv
<1> QED
  BY <1>1, OneWorkerKeepsTInv

LEMMA TakeKeepsTInv ==
  ASSUME IInv, TInv, NEW kind \in Kinds, NEW k \in DOMAIN Universe[kind], Take(kind, k)
  PROVE  TInv'
<1> DEFINE u == [Idle EXCEPT !.pc = "impact", !.key = k, !.obj = api[kind][k]]
<1>1. Fine(kind, u)
  BY DEF Fine, Idle, NoTenants
<1>2. worker' = [worker EXCEPT ![kind] = u] /\ \A j \in Kinds : queue'[j] \subseteq DOMAIN Universe[j]
  BY DEF Take, TInv, IInv, Shape
<1> HIDE DEF u
<1> QED
  BY <1>1, <1>2, OneWorkerKeepsTInv

LEMMA ImpactKeepsTInv ==
  ASSUME IInv, TInv, NEW kind \in Kinds, Impact(kind)
  PROVE  TInv'
<1> DEFINE w == worker[kind]
           cls == ImpactOf(kind, w.key, w.obj)
           u == [w EXCEPT !.pc = "store", !.todo = cls, !.classes = cls,
                          !.retry = Retries(kind, w.key, w.obj)]
<1>1. w.pc = "impact" /\ ~Panics(kind) /\ DOMAIN w = Fields
      /\ \A j \in Kinds : queue'[j] \subseteq DOMAIN Universe[j]
  BY DEF Impact, IInv, Shape, TInv
<1>2. CASE Ignored(kind, w.key, w.obj)
  BY <1>1, <1>2, IdleIsFine, OneWorkerKeepsTInv DEF Impact
<1>3. CASE ~Ignored(kind, w.key, w.obj)
  <2>1. worker' = [worker EXCEPT ![kind] = u]
    BY <1>3 DEF Impact
  <2>2. cls \subseteq Classes
    BY <1>1, ImpactIsClasses
  <2>3. Retries(kind, w.key, w.obj) \in BOOLEAN
    BY Zenon DEF Retries
  <2>4. DOMAIN w.as3 \subseteq Tenants
    BY DEF TInv, Fine
  <2>5. u.pc = "store" /\ u.todo = cls /\ u.classes = cls /\ u.as3 = w.as3
        /\ u.retry = Retries(kind, w.key, w.obj)
    BY <1>1 DEF Fields
  <2> HIDE DEF u, cls
  <2>6. Fine(kind, u)
    BY <2>2, <2>3, <2>4, <2>5 DEF Fine
  <2> QED
    BY <1>1, <2>1, <2>6, OneWorkerKeepsTInv
<1> QED
  BY <1>2, <1>3

LEMMA StoreKeepsTInv ==
  ASSUME IInv, TInv, NEW kind \in Kinds, Store(kind)
  PROVE  TInv'
<1> DEFINE w == worker[kind]
<1>1. DOMAIN w = Fields /\ Fine(kind, w) /\ w.pc = "store"
      /\ \A j \in Kinds : queue'[j] \subseteq DOMAIN Universe[j]
  BY DEF Store, IInv, Shape, InHand, TInv
<1>2. CASE HasBackends(kind)
  <2> DEFINE u == [w EXCEPT !.pc = "backends"]
  <2>1. worker' = [worker EXCEPT ![kind] = u]
    BY <1>2 DEF Store
  <2>2. Fine(kind, u)
    BY <1>1, <1>2 DEF Fine, Fields
  <2> HIDE DEF u
  <2> QED
    BY <1>1, <2>1, <2>2, OneWorkerKeepsTInv
<1>3. CASE ~HasBackends(kind) /\ w.classes = {}
  BY <1>1, <1>3, IdleIsFine, OneWorkerKeepsTInv DEF Store
<1>4. CASE ~HasBackends(kind) /\ w.classes # {}
  <2> DEFINE u == [w EXCEPT !.pc = "parse"]
  <2>1. worker' = [worker EXCEPT ![kind] = u]
    BY <1>4 DEF Store
  <2>2. Fine(kind, u)
    BY <1>1 DEF Fine, Fields
  <2> HIDE DEF u
  <2> QED
    BY <1>1, <2>1, <2>2, OneWorkerKeepsTInv
<1> QED
  BY <1>2, <1>3, <1>4

LEMMA ParseClassKeepsTInv ==
  ASSUME IInv, TInv, NEW kind \in Kinds, NEW c \in Classes, ParseClass(kind, c)
  PROVE  TInv'
<1> DEFINE w == worker[kind]
           more == [t \in {c} |-> ParseAllForClass(cache, c)]
           u == [w EXCEPT !.todo = @ \ {c}, !.as3 = Over(@, more)]
<1>1. DOMAIN w = Fields /\ Fine(kind, w) /\ w.pc = "parse"
  BY DEF ParseClass, IInv, Shape, TInv
<1>2. CASE ParseClassFails(cache, c)
  BY <1>1, <1>2, FailKeepsTInv DEF ParseClass
<1>3. CASE ~ParseClassFails(cache, c)
  <2>1. Continue(kind, u)
    BY <1>3 DEF ParseClass
  <2>2. DOMAIN Over(w.as3, more) \subseteq Tenants
    BY <1>1, ReferencesAssumption DEF Over, Fine
  <2>3. u.pc = "parse" /\ u.todo = w.todo \ {c} /\ u.classes = w.classes
        /\ u.as3 = Over(w.as3, more) /\ u.retry = w.retry
    BY <1>1 DEF Fields
  <2> HIDE DEF u, more
  <2>4. Fine(kind, u)
    BY <1>1, <2>2, <2>3 DEF Fine
  <2> QED
    BY <2>1, <2>4, ContinueKeepsTInv
<1> QED
  BY <1>2, <1>3

LEMMA ParseRelatedKeepsTInv ==
  ASSUME IInv, TInv, NEW kind \in Kinds, ParseRelated(kind)
  PROVE  TInv'
<1> DEFINE w == worker[kind]
           svcs == UNION {RelatedServices(cache, c) : c \in w.classes}
           more == ParseServices(cache, svcs)
           u == [w EXCEPT !.pc = "add", !.as3 = Over(@, more)]
<1>1. DOMAIN w = Fields /\ Fine(kind, w) /\ w.pc = "parse"
  BY DEF ParseRelated, IInv, Shape, TInv
<1>2. CASE ParseServicesFail(cache, svcs)
  BY <1>1, <1>2, FailKeepsTInv DEF ParseRelated
<1>3. CASE ~ParseServicesFail(cache, svcs)
  <2>1. Continue(kind, u)
    BY <1>3 DEF ParseRelated
  <2>2. DOMAIN more \subseteq Tenants
    BY RelatedHaveTenants DEF ParseServices
  <2>3. u.pc = "add" /\ u.todo = w.todo /\ u.classes = w.classes
        /\ u.as3 = Over(w.as3, more) /\ u.retry = w.retry
    BY <1>1 DEF Fields
  <2> HIDE DEF u, more
  <2>4. DOMAIN Over(w.as3, more) \subseteq Tenants
    BY <1>1, <2>2 DEF Over, Fine
  <2>5. Fine(kind, u)
    BY <1>1, <2>3, <2>4 DEF Fine
  <2> QED
    BY <2>1, <2>5, ContinueKeepsTInv
<1> QED
  BY <1>2, <1>3

LEMMA HandleBackendsKeepsTInv ==
  ASSUME IInv, TInv, NEW kind \in Kinds, HandleBackends(kind)
  PROVE  TInv'
<1> DEFINE w == worker[kind]
           ns == NsOf[w.key]
           svcs == BackendsOf(cache, ns)
           more == IF svcs = {} THEN [t \in {ns} |-> NoConfig] ELSE ParseServices(cache, svcs)
           u == [w EXCEPT !.pc = "add", !.as3 = more]
<1>1. DOMAIN w = Fields /\ Fine(kind, w) /\ w.pc = "backends" /\ w.key \in DOMAIN Universe[kind]
  BY DEF HandleBackends, IInv, Shape, InHand, TInv
<1>2. CASE ParseServicesFail(cache, svcs)
  BY <1>1, <1>2, FailKeepsTInv DEF HandleBackends
<1>3. CASE ~ParseServicesFail(cache, svcs)
  <2>1. Continue(kind, u)
    BY <1>3 DEF HandleBackends
  <2>2. ns \in Tenants
    BY <1>1, ReferencesAssumption DEF Fine, HasBackends
  <2>3. \A v \in svcs : NsOf[v] = ns
    BY DEF BackendsOf
  <2>4. DOMAIN more \subseteq Tenants
    BY <2>2, <2>3 DEF ParseServices
  <2>5. u.pc = "add" /\ u.todo = w.todo /\ u.classes = w.classes
        /\ u.as3 = more /\ u.retry = w.retry
    BY <1>1 DEF Fields
  <2> HIDE DEF u, more
  <2>6. Fine(kind, u)
    BY <1>1, <2>4, <2>5 DEF Fine
  <2> QED
    BY <2>1, <2>6, ContinueKeepsTInv
<1> QED
  BY <1>2, <1>3

LEMMA NextTInv ==
  ASSUME IInv, TInv, [Next]_vars
  PROVE  TInv'
<1>1. CASE UNCHANGED vars
  BY <1>1 DEF vars, TInv, Fine
<1>2. ASSUME NEW kind \in Kinds, NEW k \in DOMAIN Universe[kind],
             NEW obj \in Universe[kind][k], Edit(kind, k, obj)
      PROVE  TInv'
  BY <1>2 DEF Edit, TInv, Fine, IInv, Shape
<1>3. ASSUME NEW kind \in Kinds, Panic(kind)
      PROVE  TInv'
  <2>1. \A j \in Kinds : Fine(j, Idle)
    BY IdleIsFine
  <2> QED
    BY <1>3, <2>1 DEF Panic, TInv, Fine, Everything, Cached, IInv, Shape
<1>4. ASSUME NEW kind \in Kinds, Add(kind)
      PROVE  TInv'
  <2>1. worker' = [worker EXCEPT ![kind] = Idle] /\ \A j \in Kinds : queue'[j] \subseteq DOMAIN Universe[j]
    BY <1>4 DEF Add, TInv
  <2> QED
    BY <2>1, IdleIsFine, OneWorkerKeepsTInv
<1> QED
  BY <1>1, <1>2, <1>3, <1>4, TakeKeepsTInv, ImpactKeepsTInv, StoreKeepsTInv,
     ParseClassKeepsTInv, ParseRelatedKeepsTInv, HandleBackendsKeepsTInv DEF Next, Work

\* The reconcilers' state always has its type: whatever is queued, cached or
\* declared is about objects, classes and tenants there are.
THEOREM TypeCorrect ==
  ASSUME ClassesKeepController
  PROVE  Spec => []TypeOK
<1>1. Init => IInv /\ TInv
  <2>1. Init => TInv
    BY WorldAssumption, IdleIsFine DEF Init, TInv, Everything, Cached
  <2> QED
    BY <2>1, InitIInv
<1>2. IInv /\ TInv /\ [Next]_vars => IInv' /\ TInv'
  BY NextIInv, NextTInv
<1>3. IInv /\ TInv => TypeOK
  <2> SUFFICES ASSUME IInv, TInv PROVE TypeOK
    OBVIOUS
  <2>1. \A kind \in Kinds : \A k \in DOMAIN Universe[kind] :
          api[kind][k] \in Universe[kind][k] /\ cache[kind][k] \in Universe[kind][k] \cup {None}
    BY CachedIsOfWorld DEF IInv, Contents
  <2>2. \A kind \in Kinds : WorkerOK(kind, worker[kind])
    BY DEF WorkerOK, TInv, Fine, IInv, InHand
  <2> QED
    BY <2>1, <2>2 DEF TypeOK, TInv
<1> QED
  BY <1>1, <1>2, <1>3, PTL DEF Spec

---------------------------------------------------------------------------
(* What is submitted for classes of other controllers.                     *)

Others == {c \in Classes : Universe["GatewayClass"][c] = {Foreign}}

\* A declaration that gives the classes of others nothing.
Harmless(as3) == \A c \in Others \cap DOMAIN as3 : as3[c] = NoConfig

FInv == /\ \A c \in Others : deployed[c] = NoConfig
        /\ \A kind \in Kinds : Harmless(worker[kind].as3)

\* They are never cached, so parsing them gives nothing.
LEMMA OthersParseToNothing ==
  ASSUME IInv, NEW c \in Others
  PROVE  ParseAllForClass(cache, c) = NoConfig
<1>1. "GatewayClass" \in Kinds /\ c \in DOMAIN Universe["GatewayClass"]
  BY WorldAssumption DEF Others, Classes
<1>2. PICK o \in Universe["GatewayClass"][c] : cache["GatewayClass"][c] = Visible("GatewayClass", o)
  BY <1>1 DEF IInv, Contents
<1>3. cache["GatewayClass"][c] = None
  BY <1>2 DEF Others, Visible
<1> QED
  BY <1>3 DEF ParseAllForClass

\* A step of a worker that has submitted nothing yet.
LEMMA OneWorkerKeepsFInv ==
  ASSUME IInv, FInv, NEW kind \in Kinds, NEW u, Harmless(u.as3),
         worker' = [worker EXCEPT ![kind] = u], UNCHANGED deployed
  PROVE  FInv'
BY DEF IInv, Shape, FInv, Harmless

LEMMA IdleIsHarmless == Harmless(Idle.as3)
BY DEF Harmless, Idle, NoTenants

LEMMA FailKeepsFInv ==
  ASSUME IInv, FInv, NEW kind \in Kinds, Fail(kind)
  PROVE  FInv'
BY IdleIsHarmless, OneWorkerKeepsFInv DEF Fail

LEMMA ParseClassKeepsFInv ==
  ASSUME IInv, FInv, NEW kind \in Kinds, NEW c \in Classes, ParseClass(kind, c)
  PROVE  FInv'
<1> DEFINE w == worker[kind]
           more == [t \in {c} |-> ParseAllForClass(cache, c)]
           u == [w EXCEPT !.todo = @ \ {c}, !.as3 = Over(@, more)]
<1>1. CASE ParseClassFails(cache, c)
  BY <1>1, FailKeepsFInv DEF ParseClass
<1>2. CASE ~ParseClassFails(cache, c)
  <2>1. worker' = [worker EXCEPT ![kind] = u] /\ UNCHANGED deployed
    BY <1>2 DEF ParseClass, Continue
  <2>2. Harmless(more)
    BY OthersParseToNothing DEF Harmless
  <2>3. Harmless(w.as3)
    BY DEF FInv
  <2>4. u.as3 = Over(w.as3, more)
    BY DEF IInv, Shape, Fields
  <2> HIDE DEF more, w
  <2>5. Harmless(Over(w.as3, more))
    BY <2>2, <2>3 DEF Harmless, Over
  <2> HIDE DEF u
  <2> QED
    BY <2>1, <2>4, <2>5, OneWorkerKeepsFInv
<1> QED
  BY <1>1, <1>2

\* The services parsed after the classes bring tenants of namespaces.
LEMMA RelatedAreApart ==
  ASSUME IInv, NamesApart, NEW c, NEW v \in RelatedServices(cache, c)
  PROVE  NsOf[v] \notin Classes
<1>1. PICK r : r \in Cached(cache["HTTPRoute"]) /\ v \in AttachedServices(cache, r)
  BY DEF RelatedServices, AttachedHTTPRoutes
<1>2. "HTTPRoute" \in Kinds /\ r \in DOMAIN Universe["HTTPRoute"] /\ cache["HTTPRoute"][r] # None
  BY <1>1, WorldAssumption DEF Cached, IInv, Shape
<1>3. cache["HTTPRoute"][r] \in Universe["HTTPRoute"][r]
  BY <1>2, CachedIsOfWorld
<1>4. v \in cache["HTTPRoute"][r].backends \cup cache["HTTPRoute"][r].extensions
  BY <1>1 DEF AttachedServices
<1> QED
  BY <1>2, <1>3, <1>4, ReferencesAssumption DEF NamesApart

LEMMA ParseRelatedKeepsFInv ==
  ASSUME IInv, FInv, NamesApart, NEW kind \in Kinds, ParseRelated(kind)
  PROVE  FInv'
<1> DEFINE w == worker[kind]
           svcs == UNION {RelatedServices(cache, c) : c \in w.classes}
           more == ParseServices(cache, svcs)
           u == [w EXCEPT !.pc = "add", !.as3 = Over(@, more)]
<1>1. CASE ParseServicesFail(cache, svcs)
  BY <1>1, FailKeepsFInv DEF ParseRelated
<1>2. CASE ~ParseServicesFail(cache, svcs)
  <2>1. worker' = [worker EXCEPT ![kind] = u] /\ UNCHANGED deployed
    BY <1>2 DEF ParseRelated, Continue
  <2>2. DOMAIN more \cap Classes = {}
    BY RelatedAreApart DEF ParseServices
  <2>3. Harmless(w.as3)
    BY DEF FInv
  <2>4. u.as3 = Over(w.as3, more)
    BY DEF IInv, Shape, Fields
  <2> HIDE DEF more, w
  <2>5. Harmless(Over(w.as3, more))
    BY <2>2, <2>3 DEF Harmless, Over, Others
  <2> HIDE DEF u
  <2> QED
    BY <2>1, <2>4, <2>5, OneWorkerKeepsFInv
<1> QED
  BY <1>1, <1>2

LEMMA HandleBackendsKeepsFInv ==
  ASSUME IInv, FInv, NamesApart, NEW kind \in Kinds, HandleBackends(kind), HasBackends(kind)
  PROVE  FInv'
<1> DEFINE w == worker[kind]
           ns == NsOf[w.key]
           svcs == BackendsOf(cache, ns)
           more == IF svcs = {} THEN [t \in {ns} |-> NoConfig] ELSE ParseServices(cache, svcs)
           u == [w EXCEPT !.pc = "add", !.as3 = more]
<1>1. CASE ParseServicesFail(cache, svcs)
  BY <1>1, FailKeepsFInv DEF HandleBackends
<1>2. CASE ~ParseServicesFail(cache, svcs)
  <2>1. worker' = [worker EXCEPT ![kind] = u] /\ UNCHANGED deployed
    BY <1>2 DEF HandleBackends, Continue
  <2>2. ns \notin Classes
    BY DEF HandleBackends, IInv, InHand, HasBackends, NamesApart
  <2>3. \A v \in svcs : NsOf[v] = ns
    BY DEF BackendsOf
  <2>4. DOMAIN more \cap Classes = {}
    BY <2>2, <2>3 DEF ParseServices
  <2>5. u.as3 = more
    BY DEF IInv, Shape, Fields
  <2> HIDE DEF u, more
  <2> QED
    BY <2>1, <2>4, <2>5, OneWorkerKeepsFInv DEF Harmless, Others
<1> QED
  BY <1>1, <1>2

\* What is submitted gives them nothing, and so does what they had.
LEMMA AddKeepsFInv ==
  ASSUME IInv, FInv, NEW kind \in Kinds, Add(kind)
  PROVE  FInv'
<1>1. Others \subseteq Tenants
  BY ReferencesAssumption DEF Others
<1>2. worker' = [worker EXCEPT ![kind] = Idle]
  BY DEF Add
<1>3. \A j \in Kinds : Harmless(worker'[j].as3)
  BY <1>2, IdleIsHarmless DEF FInv, IInv, Shape
<1>4. ASSUME NEW c \in Others PROVE deployed'[c] = NoConfig
  <2>1. deployed'[c] = IF c \in DOMAIN worker[kind].as3 THEN worker[kind].as3[c] ELSE deployed[c]
    BY <1>1, <1>4 DEF Add
  <2>2. c \in DOMAIN worker[kind].as3 => worker[kind].as3[c] = NoConfig
    BY DEF FInv, Harmless
  <2>3. deployed[c] = NoConfig
    BY DEF FInv
  <2> QED
    BY <2>1, <2>2, <2>3
<1> QED
  BY <1>3, <1>4 DEF FInv, Harmless

\* Until something is parsed the worker holds no declaration.
LEMMA EarlyStepsKeepFInv ==
  ASSUME IInv, FInv, NEW kind \in Kinds,
         (\E k \in DOMAIN Universe[kind] : Take(kind, k)) \/ Impact(kind) \/ Store(kind)
  PROVE  FInv'
<1> DEFINE w == worker[kind]
<1>1. DOMAIN w = Fields /\ Harmless(w.as3)
  BY DEF IInv, Shape, FInv
<1>2. ASSUME NEW k \in DOMAIN Universe[kind], Take(kind, k) PROVE FInv'
  <2> DEFINE u == [Idle EXCEPT !.pc = "impact", !.key = k, !.obj = api[kind][k]]
  <2>1. Harmless(u.as3)
    BY DEF Harmless, Idle, NoTenants
  <2>2. worker' = [worker EXCEPT ![kind] = u] /\ UNCHANGED deployed
    BY <1>2 DEF Take
  <2> HIDE DEF u
  <2> QED
    BY <2>1, <2>2, OneWorkerKeepsFInv
<1>3. CASE Impact(kind)
  <2> DEFINE cls == ImpactOf(kind, w.key, w.obj)
             u == [w EXCEPT !.pc = "store", !.todo = cls, !.classes = cls,
                            !.retry = Retries(kind, w.key, w.obj)]
  <2>1. u.as3 = w.as3
    BY <1>1 DEF Fields
  <2>2. UNCHANGED deployed
        /\ (worker' = [worker EXCEPT ![kind] = Idle] \/ worker' = [worker EXCEPT ![kind] = u])
    BY <1>3 DEF Impact
  <2> HIDE DEF u
  <2> QED
    BY <1>1, <2>1, <2>2, IdleIsHarmless, OneWorkerKeepsFInv
<1>4. CASE Store(kind)
  <2> DEFINE u1 == [w EXCEPT !.pc = "backends"]
             u2 == [w EXCEPT !.pc = "parse"]
  <2>1. u1.as3 = w.as3 /\ u2.as3 = w.as3
    BY <1>1 DEF Fields
  <2>2. UNCHANGED deployed
        /\ (\/ worker' = [worker EXCEPT ![kind] = Idle]
            \/ worker' = [worker EXCEPT ![kind] = u1]
            \/ worker' = [worker EXCEPT ![kind] = u2])
    BY <1>4 DEF Store
  <2> HIDE DEF u1, u2
  <2> QED
    BY <1>1, <2>1, <2>2, IdleIsHarmless, OneWorkerKeepsFInv
<1> QED
  BY <1>2, <1>3, <1>4

LEMMA NextFInv ==
  ASSUME IInv, TInv, FInv, NamesApart, [Next]_vars
  PROVE  FInv'
<1>1. CASE UNCHANGED <<worker, deployed>>
  BY <1>1 DEF FInv, Harmless
<1>2. ASSUME NEW kind \in Kinds, Panic(kind) PROVE FInv'
  BY <1>2, IdleIsHarmless DEF Panic, FInv, Harmless
<1>3. ASSUME NEW kind \in Kinds, HandleBackends(kind) PROVE HasBackends(kind)
  BY <1>3 DEF HandleBackends, TInv, Fine
<1> QED
  BY <1>1, <1>2, <1>3, EarlyStepsKeepFInv, ParseClassKeepsFInv, ParseRelatedKeepsFInv,
     HandleBackendsKeepsFInv, AddKeepsFInv DEF Next, Work, Edit, vars

\* Whatever Gateways and routes name it, the partition of a class of another
\* controller gets nothing, as long as no namespace has its name.
THEOREM OthersAreLeftEmpty ==
  ASSUME ClassesKeepController, NamesApart
  PROVE  Spec => []ForeignOnlyEmptied
<1>1. Init => IInv /\ TInv /\ FInv
  <2>1. Init => TInv
    BY WorldAssumption, IdleIsFine DEF Init, TInv, Everything, Cached
  <2>2. Init => FInv
    BY IdleIsHarmless, ReferencesAssumption DEF Init, FInv, Others
  <2> QED
    BY <2>1, <2>2, InitIInv
<1>2. IInv /\ TInv /\ FInv /\ [Next]_vars => IInv' /\ TInv' /\ FInv'
  BY NextIInv, NextTInv, NextFInv
<1>3. FInv => ForeignOnlyEmptied
  BY DEF FInv, Others, ForeignOnlyEmptied
<1> QED
  BY <1>1, <1>2, <1>3, PTL DEF Spec

=============================================================================
