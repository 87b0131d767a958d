--------------------------- MODULE AdmissionProofs ---------------------------
(***************************************************************************)
(* Proofs about the webhook for every world without dangling references at  *)
(* the start, any number of requests in flight and any delay of a watch.    *)
(***************************************************************************)
EXTENDS Admission, TLAPS

\* The histories have the keys of the world.
Histories ==
  /\ DOMAIN stale = Kinds
  /\ \A kind \in Kinds : DOMAIN stale[kind] = DOMAIN Universe[kind]
  /\ DOMAIN freed = DOMAIN Universe["Gateway"]

\* A request that is still to be stored passed its review of the object that
\* it will replace.
Reviewed ==
  \A q \in admitted : \E last \in Lasts(q.basis) :
    ~Denied(q.basis, q.kind, q.key, api[q.kind][q.key], q.obj, last)

\* Where parents are reviewed, stored routes name a listener of each.
SectionsNamed ==
  "httproute.parentRefs" \in Validates =>
    \A r \in Cached(api.HTTPRoute) : \A pr \in api.HTTPRoute[r].parents : pr.section # None

IInv == TypeOK /\ Histories /\ Reviewed /\ ClassesHeld /\ GatewaysHeld /\ SectionsNamed

\* What the assumptions say of the objects that a map may hold.
LEMMA References ==
  ASSUME NEW map, Objects(map)
  PROVE  /\ \A g \in DOMAIN Universe["Gateway"] :
              map.Gateway[g] # None => map.Gateway[g].class \in Classes
         /\ \A r \in DOMAIN Universe["HTTPRoute"] : map.HTTPRoute[r] # None =>
              /\ NsOf[r] \in DOMAIN Universe["Namespace"]
              /\ \A pr \in map.HTTPRoute[r].parents : pr.gw \in DOMAIN Universe["Gateway"]
  BY WorldAssumption, ReferencesAssumption DEF Objects

LEMMA InitIInv == Init => IInv
<1> SUFFICES ASSUME Init PROVE IInv
  OBVIOUS
<1>1. TypeOK
  <2>1. Objects(Start)
    BY WorldAssumption DEF Objects
  <2> QED
    BY <2>1 DEF Init, TypeOK
<1>2. Histories
  BY WorldAssumption DEF Init, Histories
<1>3. Reviewed
  BY DEF Init, Reviewed
<1>4. ClassesHeld
  BY StartAssumption DEF Init, ClassesHeld
<1>5. GatewaysHeld
  BY StartAssumption DEF Init, GatewaysHeld
<1>6. SectionsNamed
  BY StartAssumption DEF Init, SectionsNamed
<1> QED
  BY <1>1, <1>2, <1>3, <1>4, <1>5, <1>6 DEF IInv

\* An admitted request is one that its review, of what was seen, did not deny.
LEMMA AdmitStep ==
  ASSUME IInv, NEW kind \in Kinds, NEW k \in DOMAIN Universe[kind],
         NEW obj \in Universe[kind][k], Admit(kind, k, obj)
  PROVE  IInv'
<1> DEFINE q == [kind |-> kind, key |-> k, obj |-> obj, basis |-> seen]
<1>0. /\ admitted' = admitted \cup {q}
      /\ UNCHANGED <<api, watch, seen, stale, freed>>
  BY DEF Admit
<1>1. TypeOK'
  BY <1>0 DEF IInv, TypeOK, Objects
<1>2. Histories'
  BY <1>0 DEF IInv, Histories
<1>3. Reviewed'
  BY <1>0 DEF IInv, Reviewed, Admit
<1>4. ClassesHeld' /\ GatewaysHeld' /\ SectionsNamed'
  BY <1>0 DEF IInv, ClassesHeld, GatewaysHeld, SectionsNamed, Cached
<1> QED
  BY <1>1, <1>2, <1>3, <1>4 DEF IInv

\* A delivery changes only what later reviews see.
LEMMA DeliverStep ==
  ASSUME IInv, NEW kind \in Kinds, Deliver(kind)
  PROVE  IInv'
<1>0. /\ watch[kind] # <<>>
      /\ seen' = [seen EXCEPT ![kind][Head(watch[kind])[1]] = Head(watch[kind])[2]]
      /\ watch' = [watch EXCEPT ![kind] = Tail(@)]
      /\ UNCHANGED <<api, admitted, stale, freed>>
  BY DEF Deliver
<1>1. TypeOK'
  <2>1. watch[kind] \in Seq(Events(kind)) /\ DOMAIN watch = Kinds
    BY DEF IInv, TypeOK
  <2>2. Head(watch[kind]) \in Events(kind) /\ Tail(watch[kind]) \in Seq(Events(kind))
    BY <1>0, <2>1
  <2>3. PICK k \in DOMAIN Universe[kind] : Head(watch[kind]) \in {k} \X Universe[kind][k]
    BY <2>2 DEF Events
  <2>4. Objects(seen')
    BY <1>0, <2>3 DEF IInv, TypeOK, Objects
  <2>5. DOMAIN watch' = Kinds /\ \A j \in Kinds : watch'[j] \in Seq(Events(j))
    BY <1>0, <2>1, <2>2 DEF IInv, TypeOK
  <2> QED
    BY <1>0, <2>4, <2>5 DEF IInv, TypeOK, Objects
<1>2. Histories' /\ Reviewed'
  BY <1>0 DEF IInv, Histories, Reviewed
<1>3. ClassesHeld' /\ GatewaysHeld' /\ SectionsNamed'
  BY <1>0 DEF IInv, ClassesHeld, GatewaysHeld, SectionsNamed, Cached
<1> QED
  BY <1>1, <1>2, <1>3 DEF IInv

\* What Commit(q) does, with the parts of q at hand.
LEMMA CommitFacts ==
  ASSUME IInv, NEW q \in admitted, Commit(q)
  PROVE  /\ q.kind \in Kinds /\ q.key \in DOMAIN Universe[q.kind]
         /\ q.obj \in Universe[q.kind][q.key] /\ Objects(q.basis)
         /\ \A kind \in Kinds : \A k \in DOMAIN Universe[kind] :
              IF kind = q.kind /\ k = q.key
                THEN api'[kind][k] = q.obj /\ stale'[kind][k] = Outdated(q.basis)
                ELSE api'[kind][k] = api[kind][k] /\ stale'[kind][k] = stale[kind][k]
         /\ Objects(api') /\ Histories'
         /\ freed' = Freed(q)
<1>1. /\ q.kind \in Kinds /\ q.key \in DOMAIN Universe[q.kind]
      /\ q.obj \in Universe[q.kind][q.key] /\ Objects(q.basis)
  BY DEF IInv, TypeOK
<1>2. /\ api' = [api EXCEPT ![q.kind][q.key] = q.obj]
      /\ stale' = [stale EXCEPT ![q.kind][q.key] = Outdated(q.basis)]
      /\ freed' = Freed(q)
  BY DEF Commit
<1>3. Objects(api')
  BY <1>1, <1>2 DEF IInv, TypeOK, Objects
<1>4. Histories'
  <2>1. DOMAIN Freed(q) = DOMAIN Universe["Gateway"]
    BY DEF IInv, Histories, Freed
  <2> QED
    BY <1>1, <1>2, <2>1 DEF IInv, Histories
<1>5. \A kind \in Kinds : \A k \in DOMAIN Universe[kind] :
        IF kind = q.kind /\ k = q.key
          THEN api'[kind][k] = q.obj /\ stale'[kind][k] = Outdated(q.basis)
          ELSE api'[kind][k] = api[kind][k] /\ stale'[kind][k] = stale[kind][k]
  BY <1>1, <1>2 DEF IInv, TypeOK, Objects, Histories
<1> QED
  BY <1>1, <1>2, <1>3, <1>4, <1>5

LEMMA Outdates ==
  ASSUME NEW basis, NEW kind \in Kinds, NEW k \in DOMAIN Universe[kind],
         basis[kind][k] # api[kind][k]
  PROVE  <<kind, k>> \in Outdated(basis)
BY DEF Outdated

\* A review compares with what it saw: deletions of a class with Gateways ...
LEMMA ClassesStillHeld ==
  ASSUME IInv, NEW q \in admitted, Commit(q)
  PROVE  ClassesHeld'
<1> SUFFICES ASSUME "gateway.gatewayClassName" \in Validates,
                    NEW g \in Cached(api'.Gateway),
                    api'.GatewayClass[api'.Gateway[g].class] = None
             PROVE  \/ <<"GatewayClass", api'.Gateway[g].class>> \in stale'.Gateway[g]
                    \/ <<"Gateway", g>> \in stale'.GatewayClass[api'.Gateway[g].class]
  BY DEF ClassesHeld
<1> DEFINE c == api'.Gateway[g].class
<1>1. /\ q.kind \in Kinds /\ q.key \in DOMAIN Universe[q.kind]
      /\ Objects(q.basis) /\ Objects(api) /\ Objects(api')
      /\ \A kind \in Kinds : \A k \in DOMAIN Universe[kind] :
           IF kind = q.kind /\ k = q.key
             THEN api'[kind][k] = q.obj /\ stale'[kind][k] = Outdated(q.basis)
             ELSE api'[kind][k] = api[kind][k] /\ stale'[kind][k] = stale[kind][k]
  BY CommitFacts DEF IInv, TypeOK
<1>2. /\ {"Gateway", "GatewayClass"} \subseteq Kinds
      /\ g \in DOMAIN Universe["Gateway"] /\ api'.Gateway[g] # None /\ c \in Classes
  BY <1>1, WorldAssumption, References DEF Objects, Cached
<1>3. PICK last \in Lasts(q.basis) :
        ~Denied(q.basis, q.kind, q.key, api[q.kind][q.key], q.obj, last)
  BY DEF IInv, Reviewed
<1>4. CASE q.kind = "Gateway" /\ q.key = g
  <2>1. api'.Gateway[g] = q.obj /\ stale'.Gateway[g] = Outdated(q.basis)
        /\ api.GatewayClass[c] = None
    BY <1>1, <1>2, <1>4 DEF Classes
  <2>2. q.basis.GatewayClass[c] # None
    BY <1>2, <1>3, <1>4, <2>1 DEF Denied, GatewayDenied, ClassExists
  <2> QED
    BY <1>2, <2>1, <2>2, Outdates DEF Classes
<1>5. CASE q.kind = "GatewayClass" /\ q.key = c
  <2>1. q.obj = None /\ stale'.GatewayClass[c] = Outdated(q.basis)
        /\ api.Gateway[g] = api'.Gateway[g]
    BY <1>1, <1>2, <1>5 DEF Classes
  <2>2. ~ClassIsReferred(q.basis, c)
    BY <1>3, <1>5, <2>1 DEF Denied, DeletionDenied
  <2>3. q.basis.Gateway[g] # api.Gateway[g]
    BY <1>1, <1>2, <2>1, <2>2 DEF ClassIsReferred, Cached, Objects
  <2> QED
    BY <1>2, <2>1, <2>3, Outdates
<1>6. CASE ~(q.kind = "Gateway" /\ q.key = g) /\ ~(q.kind = "GatewayClass" /\ q.key = c)
  <2>1. /\ api'.Gateway[g] = api.Gateway[g] /\ stale'.Gateway[g] = stale.Gateway[g]
        /\ api'.GatewayClass[c] = api.GatewayClass[c]
        /\ stale'.GatewayClass[c] = stale.GatewayClass[c]
    BY <1>1, <1>2, <1>6 DEF Classes
  <2> QED
    BY <1>1, <1>2, <2>1 DEF IInv, ClassesHeld, Cached, Objects
<1> QED
  BY <1>4, <1>5, <1>6

\* ... and deletions of a Gateway with routes.
LEMMA GatewaysStillHeld ==
  ASSUME IInv, NEW q \in admitted, Commit(q)
  PROVE  GatewaysHeld'
<1> SUFFICES ASSUME "httproute.parentRefs" \in Validates,
                    NEW r \in Cached(api'.HTTPRoute), NEW pr \in api'.HTTPRoute[r].parents,
                    api'.Gateway[pr.gw] = None, r \notin freed'[pr.gw]
             PROVE  \/ <<"Gateway", pr.gw>> \in stale'.HTTPRoute[r]
                    \/ <<"HTTPRoute", r>> \in stale'.Gateway[pr.gw]
                    \/ <<"Namespace", NsOf[r]>> \in stale'.Gateway[pr.gw]
  BY DEF GatewaysHeld
<1> DEFINE g == pr.gw
<1>1. /\ q.kind \in Kinds /\ q.key \in DOMAIN Universe[q.kind]
      /\ Objects(q.basis) /\ Objects(api) /\ Objects(api')
      /\ \A kind \in Kinds : \A k \in DOMAIN Universe[kind] :
           IF kind = q.kind /\ k = q.key
             THEN api'[kind][k] = q.obj /\ stale'[kind][k] = Outdated(q.basis)
             ELSE api'[kind][k] = api[kind][k] /\ stale'[kind][k] = stale[kind][k]
      /\ freed' = Freed(q)
  BY CommitFacts DEF IInv, TypeOK
<1>2. /\ {"Gateway", "HTTPRoute", "Namespace"} \subseteq Kinds
      /\ r \in DOMAIN Universe["HTTPRoute"] /\ api'.HTTPRoute[r] # None
      /\ g \in DOMAIN Universe["Gateway"] /\ NsOf[r] \in DOMAIN Universe["Namespace"]
  BY <1>1, WorldAssumption, References DEF Objects, Cached
<1>3. PICK last \in Lasts(q.basis) :
        ~Denied(q.basis, q.kind, q.key, api[q.kind][q.key], q.obj, last)
  BY DEF IInv, Reviewed
<1>4. CASE q.kind = "HTTPRoute" /\ q.key = r
  <2>1. api'.HTTPRoute[r] = q.obj /\ stale'.HTTPRoute[r] = Outdated(q.basis)
        /\ api.Gateway[g] = None
    BY <1>1, <1>2, <1>4
  <2>2. q.basis.Gateway[g] # None
    BY <1>2, <1>3, <1>4, <2>1 DEF Denied, RouteDenied, ParentRefsValid
  <2> QED
    BY <1>2, <2>1, <2>2, Outdates
<1>5. CASE q.kind = "Gateway" /\ q.key = g
  <2> SUFFICES ASSUME q.basis.HTTPRoute[r] = api.HTTPRoute[r],
                      q.basis.Namespace[NsOf[r]] = api.Namespace[NsOf[r]]
               PROVE  FALSE
    BY <1>1, <1>2, <1>5, Outdates
  <2>1. q.obj = None /\ api'.HTTPRoute[r] = api.HTTPRoute[r]
    BY <1>1, <1>2, <1>5
  <2>2. freed' = [freed EXCEPT ![g] = {x \in DOMAIN Universe["HTTPRoute"] : ~UsesOpenly(x, g)}]
    BY <1>1, <1>5, <2>1, Zenon DEF Freed
  <2>3. UsesOpenly(r, g)
    BY <1>2, <2>2 DEF IInv, Histories
  <2>4. PICK p \in api.HTTPRoute[r].parents :
          /\ p.gw = g
          /\ p.section \in DOMAIN api.Gateway[g].listeners
          /\ api.Gateway[g].listeners[p.section].from = "All"
          /\ api.Namespace[NsOf[r]] # None
          /\ AdmitsHTTPRoute(api.Gateway[g].listeners[p.section])
    BY <2>3 DEF UsesOpenly, RouteMatches
  <2>5. r \in Cached(q.basis.HTTPRoute) /\ NsOf[r] \in Cached(q.basis.Namespace)
    BY <1>1, <1>2, <2>1, <2>4 DEF Cached, Objects
  <2>6. q.basis.Namespace[last] # None
    BY <2>5 DEF Lasts, Cached
  <2>7. RouteMatches(q.basis, NsOf[g], api.Gateway[g].listeners[p.section], last)
    BY <2>4, <2>6 DEF RouteMatches, AdmitsNamespace
  <2>8. Uses(q.basis, r, g, api.Gateway[g], last)
    BY <2>4, <2>7 DEF Uses
  <2>9. GatewayIsReferred(q.basis, g, api.Gateway[g], last)
    BY <2>5, <2>8 DEF GatewayIsReferred, Cached
  <2> QED
    BY <1>3, <1>5, <2>1, <2>9 DEF Denied, DeletionDenied
<1>6. CASE ~(q.kind = "HTTPRoute" /\ q.key = r) /\ ~(q.kind = "Gateway" /\ q.key = g)
  <2>1. /\ api'.HTTPRoute[r] = api.HTTPRoute[r] /\ stale'.HTTPRoute[r] = stale.HTTPRoute[r]
        /\ api'.Gateway[g] = api.Gateway[g] /\ stale'.Gateway[g] = stale.Gateway[g]
    BY <1>1, <1>2, <1>6
  <2>2. r \notin freed[g]
    <3>1. DOMAIN freed = DOMAIN Universe["Gateway"]
      BY DEF IInv, Histories
    <3>2. CASE q.kind = "Gateway" /\ q.obj = None
      <4>1. freed' = [freed EXCEPT ![q.key] =
                       {x \in DOMAIN Universe["HTTPRoute"] : ~UsesOpenly(x, q.key)}]
        BY <1>1, <3>2, Zenon DEF Freed
      <4> QED
        BY <1>2, <1>6, <3>1, <3>2, <4>1
    <3>3. CASE q.kind = "HTTPRoute"
      <4>1. freed' = [x \in DOMAIN freed |-> freed[x] \ {q.key}]
        BY <1>1, <3>3, Zenon DEF Freed
      <4> QED
        BY <1>2, <1>6, <3>1, <3>3, <4>1
    <3>4. CASE ~(q.kind = "Gateway" /\ q.obj = None) /\ q.kind # "HTTPRoute"
      BY <1>1, <3>4, Zenon DEF Freed
    <3> QED
      BY <3>2, <3>3, <3>4
  <2>3. GatewaysHeld /\ r \in Cached(api.HTTPRoute)
    BY <1>1, <1>2, <2>1 DEF IInv, Cached, Objects
  <2> QED
    BY <2>1, <2>2, <2>3 DEF GatewaysHeld
<1> QED
  BY <1>4, <1>5, <1>6

\* What is stored was reviewed, whatever the review saw.
LEMMA SectionsStayNamed ==
  ASSUME IInv, NEW q \in admitted, Commit(q)
  PROVE  SectionsNamed'
<1> SUFFICES ASSUME "httproute.parentRefs" \in Validates,
                    NEW r \in Cached(api'.HTTPRoute), NEW pr \in api'.HTTPRoute[r].parents
             PROVE  pr.section # None
  BY DEF SectionsNamed
<1>1. /\ r \in DOMAIN Universe["HTTPRoute"] /\ "HTTPRoute" \in Kinds
      /\ IF q.kind = "HTTPRoute" /\ q.key = r THEN api'.HTTPRoute[r] = q.obj
                                           ELSE api'.HTTPRoute[r] = api.HTTPRoute[r]
      /\ api'.HTTPRoute[r] # None
  BY CommitFacts, WorldAssumption DEF Cached, Objects
<1>2. CASE q.kind = "HTTPRoute" /\ q.key = r
  <2>1. PICK last \in Lasts(q.basis) :
          ~Denied(q.basis, q.kind, q.key, api[q.kind][q.key], q.obj, last)
    BY DEF IInv, Reviewed
  <2>2. ParentRefsValid(q.basis, r, api'.HTTPRoute[r])
    BY <1>1, <1>2, <2>1 DEF Denied, RouteDenied
  <2> QED
    BY <2>2 DEF ParentRefsValid
<1>3. CASE ~(q.kind = "HTTPRoute" /\ q.key = r)
  BY <1>1, <1>3 DEF IInv, TypeOK, Objects, SectionsNamed, Cached
<1> QED
  BY <1>2, <1>3

LEMMA CommitStep ==
  ASSUME IInv, NEW q \in admitted, Commit(q)
  PROVE  IInv'
<1>0. /\ admitted' = {p \in admitted : p.kind # q.kind \/ p.key # q.key}
      /\ watch' = [watch EXCEPT ![q.kind] = Append(@, <<q.key, q.obj>>)]
      /\ seen' = seen
  BY DEF Commit
<1>1. /\ q.kind \in Kinds /\ q.key \in DOMAIN Universe[q.kind]
      /\ q.obj \in Universe[q.kind][q.key] /\ Objects(api') /\ Histories'
      /\ \A kind \in Kinds : \A k \in DOMAIN Universe[kind] :
           (kind # q.kind \/ k # q.key) => api'[kind][k] = api[kind][k]
  BY CommitFacts
<1>2. TypeOK'
  <2>1. <<q.key, q.obj>> \in Events(q.kind)
    BY <1>1 DEF Events
  <2>2. DOMAIN watch' = Kinds /\ \A j \in Kinds : watch'[j] \in Seq(Events(j))
    BY <1>0, <1>1, <2>1 DEF IInv, TypeOK
  <2> QED
    BY <1>0, <1>1, <2>2 DEF IInv, TypeOK, Objects
<1>3. Reviewed'
  BY <1>0, <1>1 DEF IInv, Reviewed, TypeOK
<1> QED
  BY <1>1, <1>2, <1>3, ClassesStillHeld, GatewaysStillHeld, SectionsStayNamed DEF IInv

LEMMA StepIInv == IInv /\ [Next]_vars => IInv'
<1> SUFFICES ASSUME IInv, [Next]_vars PROVE IInv'
  OBVIOUS
<1>1. CASE Next
  BY <1>1, AdmitStep, CommitStep, DeliverStep DEF Next
<1>2. CASE UNCHANGED vars
  BY <1>2 DEF vars, IInv, TypeOK, Objects, Histories, Reviewed, ClassesHeld, GatewaysHeld,
              SectionsNamed, Cached
<1> QED
  BY <1>1, <1>2

LEMMA Invariance == Spec => []IInv
<1> QED
  BY InitIInv, StepIInv, PTL DEF Spec

\* What is stored, seen and under review are objects of the world.
THEOREM TypeCorrect == Spec => []TypeOK
<1>1. IInv => TypeOK
  BY DEF IInv
<1> QED
  BY <1>1, Invariance, PTL

\* It takes two overlapping changes for a Gateway to lose its class.
THEOREM ClassesAreHeld == Spec => []ClassesHeld
<1>1. IInv => ClassesHeld
  BY DEF IInv
<1> QED
  BY <1>1, Invariance, PTL

\* And for a route on an open listener to lose its Gateway.
THEOREM GatewaysAreHeld == Spec => []GatewaysHeld
<1>1. IInv => GatewaysHeld
  BY DEF IInv
<1> QED
  BY <1>1, Invariance, PTL

---------------------------------------------------------------------------
(* The webhook's rules and the controller's.                               *)

\* What the controller grants the webhook grants, too.
LEMMA GrantsAgree ==
  ASSUME NEW fromKind, NEW from, NEW toKind, NEW to
  PROVE  /\ CanRefer(api, fromKind, from, toKind, to) => MayRefer(api, fromKind, from, toKind, to)
         /\ (MayRefer(api, fromKind, from, toKind, to) /\ ~StrayGrant(fromKind, from, toKind, to))
            => CanRefer(api, fromKind, from, toKind, to)
BY DEF CanRefer, MayRefer, Lists, StrayGrant

\* The controller sees what is stored, but for the classes of others.
LEMMA WithRoute ==
  ASSUME Objects(api), NEW r \in DOMAIN Universe["HTTPRoute"], NEW hr
  PROVE  LET s == With("HTTPRoute", r, hr) IN
         /\ s.HTTPRoute = [api.HTTPRoute EXCEPT ![r] = hr] /\ s.HTTPRoute[r] = hr
         /\ s.Gateway = api.Gateway /\ s.Namespace = api.Namespace /\ s.Secret = api.Secret
         /\ s.Service = api.Service /\ s.ReferenceGrant = api.ReferenceGrant
         /\ s.GatewayClass = [c \in Classes |-> IF api.GatewayClass[c] = Foreign THEN None
                                                ELSE api.GatewayClass[c]]
<1>1. /\ DOMAIN api = Kinds /\ DOMAIN api["HTTPRoute"] = DOMAIN Universe["HTTPRoute"]
      /\ {"HTTPRoute", "Gateway", "Namespace", "Secret", "Service", "ReferenceGrant",
          "GatewayClass"} \subseteq Kinds
  BY WorldAssumption DEF Objects
<1> QED
  BY <1>1 DEF With

LEMMA WithGateway ==
  ASSUME Objects(api), NEW g \in DOMAIN Universe["Gateway"], NEW gw
  PROVE  LET s == With("Gateway", g, gw) IN
         /\ s.Gateway = [api.Gateway EXCEPT ![g] = gw] /\ s.Gateway[g] = gw
         /\ s.HTTPRoute = api.HTTPRoute /\ s.Namespace = api.Namespace /\ s.Secret = api.Secret
         /\ s.Service = api.Service /\ s.ReferenceGrant = api.ReferenceGrant
         /\ s.GatewayClass = [c \in Classes |-> IF api.GatewayClass[c] = Foreign THEN None
                                                ELSE api.GatewayClass[c]]
<1>1. /\ DOMAIN api = Kinds /\ DOMAIN api["Gateway"] = DOMAIN Universe["Gateway"]
      /\ {"HTTPRoute", "Gateway", "Namespace", "Secret", "Service", "ReferenceGrant",
          "GatewayClass"} \subseteq Kinds
  BY WorldAssumption DEF Objects
<1> QED
  BY <1>1 DEF With

\* Grants are stored, and what they permit, whatever route or Gateway is.
LEMMA SameGrants ==
  ASSUME NEW s, s.ReferenceGrant = api.ReferenceGrant,
         NEW fromKind, NEW from, NEW toKind, NEW to
  PROVE  CanRefer(s, fromKind, from, toKind, to) <=> CanRefer(api, fromKind, from, toKind, to)
BY DEF CanRefer

\* A route is denied only for a parent or a backend that the controller does not
\* accept, or for their kinds.
LEMMA DeniedRoute ==
  ASSUME Objects(api), NEW r \in DOMAIN Universe.HTTPRoute, NEW hr \in Routes(r),
         RouteDenied(api, r, hr), RouteServed(With("HTTPRoute", r, hr), r), hr.otherKinds = {}
  PROVE  FALSE
<1> DEFINE s == With("HTTPRoute", r, hr)
<1>1. /\ s.HTTPRoute[r] = hr /\ s.Gateway = api.Gateway /\ s.Namespace = api.Namespace
      /\ s.Service = api.Service /\ s.ReferenceGrant = api.ReferenceGrant
  BY WithRoute
<1> HIDE DEF s
<1>2. /\ \A pr \in hr.parents : ParentMatches(s, r, pr)
      /\ \A v \in hr.backends \cup hr.extensions : v \in AttachedServices(s, r)
      /\ ~RefPanics(s, hr)
  BY <1>1 DEF RouteServed, s
<1>3. ParentRefsValid(api, r, hr)
  <2> SUFFICES ASSUME NEW pr \in hr.parents
               PROVE  /\ pr.section # None
                      /\ api.Gateway[pr.gw] # None
                      /\ RouteMatches(api, NsOf[pr.gw],
                                      api.Gateway[pr.gw].listeners[pr.section], NsOf[r])
    BY DEF ParentRefsValid
  <2>1. ParentMatches(s, r, pr)
    BY <1>2
  <2>2. /\ api.Gateway[pr.gw] # None /\ pr.section \in DOMAIN api.Gateway[pr.gw].listeners
        /\ RouteMatches(s, NsOf[pr.gw], api.Gateway[pr.gw].listeners[pr.section], NsOf[r])
    BY <1>1, <2>1 DEF ParentMatches
  <2>3. pr.section # None
    BY <1>1, <1>2, <2>2 DEF RefPanics, Routes
  <2> QED
    BY <1>1, <2>2, <2>3 DEF RouteMatches, AdmitsNamespace
<1>4. BackendRefsValid(api, r, hr)
  <2> SUFFICES ASSUME NEW v \in hr.backends \cup hr.extensions
               PROVE  api.Service[v] # None /\ MayRefer(api, "HTTPRoute", r, "Service", v)
    BY DEF BackendRefsValid
  <2>1. s.Service[v] # None /\ CanRefer(s, "HTTPRoute", r, "Service", v)
    BY <1>2 DEF AttachedServices
  <2> QED
    BY <1>1, <2>1, SameGrants, GrantsAgree
<1> QED
  BY <1>3, <1>4 DEF RouteDenied

\* A Gateway only for a missing class, or a certificate that is out of reach or
\* in a secret of another type.
LEMMA DeniedGateway ==
  ASSUME Objects(api), NEW g \in DOMAIN Universe.Gateway, NEW gw \in Gateways(g),
         GatewayDenied(api, g, gw), GatewayServed(With("Gateway", g, gw), g), ~HasOpaqueCert(gw)
  PROVE  FALSE
<1> DEFINE s == With("Gateway", g, gw)
<1>1. /\ s.Gateway = [api.Gateway EXCEPT ![g] = gw] /\ s.Gateway[g] = gw
      /\ s.Secret = api.Secret /\ s.ReferenceGrant = api.ReferenceGrant
      /\ s.GatewayClass[gw.class] # None => api.GatewayClass[gw.class] # None
      /\ g \in DOMAIN s.Gateway /\ gw # None
  <2>1. gw # None /\ gw.class \in Classes /\ g \in DOMAIN api.Gateway
    BY ReferencesAssumption, WorldAssumption DEF Gateways, Objects
  <2>2. /\ s.Gateway = [api.Gateway EXCEPT ![g] = gw] /\ s.Gateway[g] = gw
        /\ s.Secret = api.Secret /\ s.ReferenceGrant = api.ReferenceGrant
        /\ s.GatewayClass = [c \in Classes |-> IF api.GatewayClass[c] = Foreign THEN None
                                               ELSE api.GatewayClass[c]]
    BY WithGateway
  <2> HIDE DEF s
  <2> QED
    BY <2>1, <2>2
<1>2. s.GatewayClass[gw.class] # None /\ ~ParseClassFails(s, gw.class)
  BY <1>1 DEF GatewayServed, Declares
<1> HIDE DEF s
<1>3. ~AttachedSecretsFail(s, g)
  <2>1. g \in AttachedGateways(s, gw.class)
    BY <1>1 DEF AttachedGateways, Cached
  <2> QED
    BY <1>2, <2>1 DEF ParseClassFails, ParseGatewayFails
<1>4. CertificateRefsValid(api, g, gw)
  <2> SUFFICES ASSUME NEW l \in DOMAIN gw.listeners, NEW x \in Certs(gw.listeners[l])
               PROVE  api.Secret[x] \notin {None, Opaque} /\ MayRefer(api, "Gateway", g, "Secret", x)
    BY DEF CertificateRefsValid
  <2>1. s.Secret[x] # None /\ CanRefer(s, "Gateway", g, "Secret", x)
    BY <1>1, <1>3 DEF AttachedSecretsFail
  <2>2. api.Secret[x] # Opaque
    BY DEF HasOpaqueCert
  <2> QED
    BY <1>1, <2>1, <2>2, SameGrants, GrantsAgree
<1> QED
  BY <1>1, <1>2, <1>4 DEF GatewayDenied, ClassExists

\* The webhook denies nothing that the controller would deploy as a whole, but
\* for the type of secrets and the kinds of references, which the controller
\* does not check.
THEOREM DenialsAreRight == Spec => []DeniedIsUnserved
<1>1. TypeOK => DeniedIsUnserved
  BY DeniedRoute, DeniedGateway DEF TypeOK, DeniedIsUnserved
<1> QED
  BY <1>1, TypeCorrect, PTL

\* One more route spoils no class if it names sections and is not refused, and
\* the types of its services have members.
LEMMA RouteAdded ==
  ASSUME NEW s, NEW s0, NEW c, NEW r,
         s.GatewayClass = s0.GatewayClass, s.Gateway = s0.Gateway, s.Namespace = s0.Namespace,
         s.Service = s0.Service, s.Secret = s0.Secret, s.ReferenceGrant = s0.ReferenceGrant,
         \A x \in Cached(s.HTTPRoute) \ {r} :
           x \in Cached(s0.HTTPRoute) /\ s.HTTPRoute[x] = s0.HTTPRoute[x],
         \A pr \in s.HTTPRoute[r].parents : pr.section # None,
         ~s.HTTPRoute[r].refused,
         \A v \in s.HTTPRoute[r].backends \cup s.HTTPRoute[r].extensions :
           s.Service[v] # "Unsupported",
         Declares(s0, c)
  PROVE  Declares(s, c)
<1>1. s.GatewayClass[c] # None /\ AttachedGateways(s, c) = AttachedGateways(s0, c)
  BY DEF Declares, AttachedGateways
<1>2. ASSUME NEW g, NEW x \in AttachedHTTPRoutes(s, g), x # r
      PROVE  /\ x \in AttachedHTTPRoutes(s0, g) /\ s.HTTPRoute[x] = s0.HTTPRoute[x]
             /\ AttachedServices(s, x) = AttachedServices(s0, x)
  <2>1. x \in Cached(s0.HTTPRoute) /\ s.HTTPRoute[x] = s0.HTTPRoute[x]
    BY <1>2 DEF AttachedHTTPRoutes
  <2>2. x \in AttachedHTTPRoutes(s0, g)
    BY <2>1 DEF AttachedHTTPRoutes, ParentMatches, RouteMatches, AdmitsNamespace
  <2> QED
    BY <2>1, <2>2 DEF AttachedServices, CanRefer
<1>3. ASSUME NEW g \in AttachedGateways(s, c)
      PROVE  ~ParseGatewayFails(s, g) /\ \A x \in AttachedHTTPRoutes(s, g) : ~s.HTTPRoute[x].refused
  <2>1. /\ ~ParseGatewayFails(s0, g)
        /\ \A x \in AttachedHTTPRoutes(s0, g) : ~s0.HTTPRoute[x].refused
    BY <1>1, <1>3 DEF Declares, ParseClassFails
  <2>2. ~AttachedSecretsFail(s, g)
    BY <2>1 DEF ParseGatewayFails, AttachedSecretsFail, CanRefer
  <2> QED
    BY <1>2, <2>1, <2>2 DEF ParseGatewayFails
<1>4. ASSUME NEW v \in RelatedServices(s, c) PROVE s.Service[v] # "Unsupported"
  <2>1. PICK g \in AttachedGateways(s, c) :
          \E x \in AttachedHTTPRoutes(s, g) : v \in AttachedServices(s, x)
    BY <1>1 DEF RelatedServices
  <2>2. PICK x \in AttachedHTTPRoutes(s, g) : v \in AttachedServices(s, x)
    BY <2>1
  <2>3. CASE x = r
    BY <2>2, <2>3 DEF AttachedServices
  <2>4. CASE x # r
    <3>1. v \in RelatedServices(s0, c)
      BY <1>1, <1>2, <2>2, <2>4 DEF RelatedServices
    <3> QED
      BY <3>1 DEF Declares
  <2> QED
    BY <2>3, <2>4
<1> QED
  BY <1>1, <1>3, <1>4 DEF Declares, ParseClassFails

\* One more Gateway of class c if its certificates are in reach, and likewise
\* for the routes attached to it.
LEMMA GatewayAdded ==
  ASSUME NEW s, NEW s0, NEW c, NEW g,
         s.GatewayClass = s0.GatewayClass, s.HTTPRoute = s0.HTTPRoute,
         s.Namespace = s0.Namespace, s.Service = s0.Service, s.Secret = s0.Secret,
         s.ReferenceGrant = s0.ReferenceGrant,
         \A x \in Cached(s.Gateway) \ {g} :
           x \in Cached(s0.Gateway) /\ s.Gateway[x] = s0.Gateway[x],
         ~ParseGatewayFails(s, g),
         \A x \in AttachedHTTPRoutes(s, g) :
           ~s.HTTPRoute[x].refused
             /\ \A v \in AttachedServices(s, x) : s.Service[v] # "Unsupported",
         Declares(s0, c)
  PROVE  Declares(s, c)
<1>1. s.GatewayClass[c] # None /\ \A x : AttachedServices(s, x) = AttachedServices(s0, x)
  BY DEF Declares, AttachedServices, CanRefer
<1>2. ASSUME NEW x \in AttachedGateways(s, c), x # g
      PROVE  /\ x \in AttachedGateways(s0, c) /\ s.Gateway[x] = s0.Gateway[x]
             /\ AttachedHTTPRoutes(s, x) = AttachedHTTPRoutes(s0, x)
  <2>1. x \in AttachedGateways(s0, c) /\ s.Gateway[x] = s0.Gateway[x]
    BY <1>2 DEF AttachedGateways
  <2>2. \A y, pr : pr.gw = x => (ParentMatches(s, y, pr) <=> ParentMatches(s0, y, pr))
    BY <2>1 DEF ParentMatches, RouteMatches, AdmitsNamespace
  <2> QED
    BY <2>1, <2>2 DEF AttachedHTTPRoutes
<1>3. ASSUME NEW x \in AttachedGateways(s, c)
      PROVE  ~ParseGatewayFails(s, x) /\ \A y \in AttachedHTTPRoutes(s, x) : ~s.HTTPRoute[y].refused
  <2>1. CASE x = g
    BY <2>1
  <2>2. CASE x # g
    <3>1. /\ ~ParseGatewayFails(s0, x)
          /\ \A y \in AttachedHTTPRoutes(s0, x) : ~s0.HTTPRoute[y].refused
      BY <1>2, <2>2 DEF Declares, ParseClassFails
    <3>2. ~AttachedSecretsFail(s, x)
      BY <1>2, <2>2, <3>1 DEF ParseGatewayFails, AttachedSecretsFail, CanRefer
    <3> QED
      BY <1>2, <2>2, <3>1, <3>2 DEF ParseGatewayFails
  <2> QED
    BY <2>1, <2>2
<1>4. ASSUME NEW v \in RelatedServices(s, c) PROVE s.Service[v] # "Unsupported"
  <2>1. PICK x \in AttachedGateways(s, c) :
          \E y \in AttachedHTTPRoutes(s, x) : v \in AttachedServices(s, y)
    BY <1>1 DEF RelatedServices
  <2>2. CASE x = g
    BY <2>1, <2>2
  <2>3. CASE x # g
    <3>1. v \in RelatedServices(s0, c)
      BY <1>1, <1>2, <2>1, <2>3 DEF RelatedServices
    <3> QED
      BY <3>1 DEF Declares
  <2> QED
    BY <2>2, <2>3
<1> QED
  BY <1>1, <1>3, <1>4 DEF Declares, ParseClassFails

\* A route that passes is deployed as a whole, but for what is overlooked.
LEMMA PassedRoute ==
  ASSUME Objects(api), Validates = SupportedValidatingKeys,
         NEW r \in DOMAIN Universe.HTTPRoute, NEW hr \in Routes(r),
         ~RouteDenied(api, r, hr), ~RouteOverlooked(r, hr),
         \A pr \in hr.parents : Declares(With("HTTPRoute", r, None), api.Gateway[pr.gw].class)
  PROVE  RouteServed(With("HTTPRoute", r, hr), r)
<1> DEFINE s == With("HTTPRoute", r, hr)
           s0 == With("HTTPRoute", r, None)
<1>1. /\ s.HTTPRoute = [api.HTTPRoute EXCEPT ![r] = hr] /\ s.HTTPRoute[r] = hr
      /\ s.Gateway = api.Gateway /\ s.Namespace = api.Namespace
      /\ s.Service = api.Service /\ s.ReferenceGrant = api.ReferenceGrant
  BY WithRoute
<1>2. /\ s0.HTTPRoute = [api.HTTPRoute EXCEPT ![r] = None]
      /\ s.GatewayClass = s0.GatewayClass /\ s.Gateway = s0.Gateway
      /\ s.Namespace = s0.Namespace /\ s.Service = s0.Service /\ s.Secret = s0.Secret
      /\ s.ReferenceGrant = s0.ReferenceGrant
  <2>1. /\ s.HTTPRoute = [api.HTTPRoute EXCEPT ![r] = hr]
        /\ s.Gateway = api.Gateway /\ s.Namespace = api.Namespace
        /\ s.Service = api.Service /\ s.Secret = api.Secret
        /\ s.ReferenceGrant = api.ReferenceGrant
        /\ s.GatewayClass = [c \in Classes |-> IF api.GatewayClass[c] = Foreign THEN None
                                           ELSE api.GatewayClass[c]]
    BY WithRoute
  <2>2. /\ s0.HTTPRoute = [api.HTTPRoute EXCEPT ![r] = None]
        /\ s0.Gateway = api.Gateway /\ s0.Namespace = api.Namespace
        /\ s0.Service = api.Service /\ s0.Secret = api.Secret
        /\ s0.ReferenceGrant = api.ReferenceGrant
        /\ s0.GatewayClass = [c \in Classes |-> IF api.GatewayClass[c] = Foreign THEN None
                                           ELSE api.GatewayClass[c]]
    BY WithRoute
  <2> HIDE DEF s, s0
  <2> QED
    BY <2>1, <2>2
<1>3. \A pr \in hr.parents : Declares(s0, api.Gateway[pr.gw].class)
  OBVIOUS
<1>4. ParentRefsValid(api, r, hr) /\ BackendRefsValid(api, r, hr)
  BY DEF RouteDenied, SupportedValidatingKeys
<1> SUFFICES RouteServed(s, r)
  OBVIOUS
<1> HIDE DEF s, s0
<1>5. \A pr \in hr.parents : pr.section # None /\ ParentMatches(s, r, pr)
  BY <1>1, <1>4 DEF ParentRefsValid, RouteOverlooked, ParentMatches, RouteMatches, AdmitsNamespace
<1>6. \A v \in hr.backends \cup hr.extensions : v \in AttachedServices(s, r)
  <2> SUFFICES ASSUME NEW v \in hr.backends \cup hr.extensions
               PROVE  s.Service[v] # None /\ CanRefer(s, "HTTPRoute", r, "Service", v)
    BY <1>1 DEF AttachedServices
  <2>1. s.Service[v] # None
    BY <1>1, <1>4 DEF BackendRefsValid
  <2>2. CASE v \in hr.backends
    <3>1. MayRefer(api, "HTTPRoute", r, "Service", v)
      BY <1>4, <2>2 DEF BackendRefsValid
    <3>2. ~StrayGrant("HTTPRoute", r, "Service", v)
      BY <2>2 DEF RouteOverlooked
    <3> QED
      BY <1>1, <2>1, <3>1, <3>2, GrantsAgree, SameGrants
  <2>3. CASE v \in hr.extensions
    <3>1. NsOf[v] = NsOf[r]
      BY <2>3, ReferencesAssumption DEF Routes
    <3> QED
      BY <2>1, <3>1 DEF CanRefer
  <2> QED
    BY <2>2, <2>3
<1>7. ASSUME NEW c, Declares(s0, c) PROVE Declares(s, c)
  <2>1. \A x \in Cached(s.HTTPRoute) \ {r} :
          x \in Cached(s0.HTTPRoute) /\ s.HTTPRoute[x] = s0.HTTPRoute[x]
    BY <1>1, <1>2 DEF Cached
  <2>2. /\ \A pr \in s.HTTPRoute[r].parents : pr.section # None
        /\ ~s.HTTPRoute[r].refused
        /\ \A v \in s.HTTPRoute[r].backends \cup s.HTTPRoute[r].extensions :
             s.Service[v] # "Unsupported"
    BY <1>1, <1>5 DEF RouteOverlooked
  <2> QED
    BY <1>2, <1>7, <2>1, <2>2, RouteAdded
<1>8. ~RefPanics(s, hr)
  BY <1>5 DEF RefPanics
<1> QED
  BY <1>1, <1>3, <1>5, <1>6, <1>7, <1>8 DEF RouteServed

\* So is a Gateway; the routes that wait for it were reviewed, too.
LEMMA PassedGateway ==
  ASSUME Objects(api), SectionsNamed, Validates = SupportedValidatingKeys,
         NEW g \in DOMAIN Universe.Gateway, NEW gw \in Gateways(g),
         ~GatewayDenied(api, g, gw), ~GatewayOverlooked(g, gw),
         Declares(With("Gateway", g, None), gw.class)
  PROVE  GatewayServed(With("Gateway", g, gw), g)
<1> DEFINE s == With("Gateway", g, gw)
           s0 == With("Gateway", g, None)
<1>1. /\ s.Gateway = [api.Gateway EXCEPT ![g] = gw] /\ s.Gateway[g] = gw
      /\ s.HTTPRoute = api.HTTPRoute /\ s.Secret = api.Secret
      /\ s.ReferenceGrant = api.ReferenceGrant
  BY WithGateway
<1>2. /\ s0.Gateway = [api.Gateway EXCEPT ![g] = None]
      /\ s.GatewayClass = s0.GatewayClass /\ s.HTTPRoute = s0.HTTPRoute
      /\ s.Namespace = s0.Namespace /\ s.Service = s0.Service /\ s.Secret = s0.Secret
      /\ s.ReferenceGrant = s0.ReferenceGrant
  <2>1. /\ s.Gateway = [api.Gateway EXCEPT ![g] = gw]
        /\ s.HTTPRoute = api.HTTPRoute /\ s.Namespace = api.Namespace
        /\ s.Service = api.Service /\ s.Secret = api.Secret
        /\ s.ReferenceGrant = api.ReferenceGrant
        /\ s.GatewayClass = [c \in Classes |-> IF api.GatewayClass[c] = Foreign THEN None
                                           ELSE api.GatewayClass[c]]
    BY WithGateway
  <2>2. /\ s0.Gateway = [api.Gateway EXCEPT ![g] = None]
        /\ s0.HTTPRoute = api.HTTPRoute /\ s0.Namespace = api.Namespace
        /\ s0.Service = api.Service /\ s0.Secret = api.Secret
        /\ s0.ReferenceGrant = api.ReferenceGrant
        /\ s0.GatewayClass = [c \in Classes |-> IF api.GatewayClass[c] = Foreign THEN None
                                           ELSE api.GatewayClass[c]]
    BY WithGateway
  <2> HIDE DEF s, s0
  <2> QED
    BY <2>1, <2>2
<1>3. Declares(s0, gw.class)
  OBVIOUS
<1>4. /\ ~AddressesFail(gw)
      /\ \A l \in DOMAIN gw.listeners : \A x \in Certs(gw.listeners[l]) :
           ~StrayGrant("Gateway", g, "Secret", x)
      /\ \A r \in AttachedHTTPRoutes(s, g) :
           /\ ~s.HTTPRoute[r].refused
           /\ \A v \in AttachedServices(s, r) : s.Service[v] # "Unsupported"
  BY DEF GatewayOverlooked
<1>5. CertificateRefsValid(api, g, gw)
  BY DEF GatewayDenied, SupportedValidatingKeys
<1> SUFFICES GatewayServed(s, g)
  OBVIOUS
<1> HIDE DEF s, s0
<1>6. ~AttachedSecretsFail(s, g)
  <2> SUFFICES ASSUME NEW l \in DOMAIN gw.listeners, NEW x \in Certs(gw.listeners[l])
               PROVE  s.Secret[x] # None /\ CanRefer(s, "Gateway", g, "Secret", x)
    BY <1>1 DEF AttachedSecretsFail
  <2>1. api.Secret[x] # None /\ MayRefer(api, "Gateway", g, "Secret", x)
    BY <1>5 DEF CertificateRefsValid
  <2> QED
    BY <1>1, <1>4, <2>1, GrantsAgree, SameGrants
<1>7. \A r \in AttachedHTTPRoutes(s, g) : \A pr \in s.HTTPRoute[r].parents : pr.section # None
  BY <1>1 DEF AttachedHTTPRoutes, SectionsNamed, SupportedValidatingKeys
<1>8. ~ParseGatewayFails(s, g)
  BY <1>1, <1>4, <1>6, <1>7 DEF ParseGatewayFails
<1>9. \A x \in Cached(s.Gateway) \ {g} : x \in Cached(s0.Gateway) /\ s.Gateway[x] = s0.Gateway[x]
  BY <1>1, <1>2 DEF Cached
<1>10. Declares(s, gw.class)
  BY <1>2, <1>3, <1>4, <1>8, <1>9, GatewayAdded
<1> QED
  BY <1>1, <1>10 DEF GatewayServed

\* With all validations on, what passes is deployed as a whole and spoils no
\* class, but for what the webhook overlooks and for classes that are not
\* declared anyway.
THEOREM PassesAreRight == Spec => []PassedIsServed
<1>1. IInv => PassedIsServed
  BY PassedRoute, PassedGateway DEF IInv, TypeOK, PassedIsServed
<1> QED
  BY <1>1, Invariance, PTL

=============================================================================
