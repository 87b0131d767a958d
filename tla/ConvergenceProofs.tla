------------------------- MODULE ConvergenceProofs -------------------------
(***************************************************************************)
(* What is deployed is what the cached resources make it, when workers do   *)
(* not interleave and the world lacks the hazards that Orderly keeps out:   *)
(* for any number of objects, versions and changes.  The first half shows   *)
(* that an event concerns every class whose configuration it changes.       *)
(***************************************************************************)
EXTENDS ReconcilersProofs, SIGCacheProofs, FiniteSetTheorems

\* A cache of objects of the world.
Proper(s) ==
  /\ DOMAIN s = Kinds
  /\ \A kind \in Kinds : DOMAIN s[kind] = DOMAIN Universe[kind]
  /\ \A kind \in Kinds : \A k \in DOMAIN Universe[kind] :
       \E o \in Universe[kind][k] : s[kind][k] = Visible(kind, o)

---------------------------------------------------------------------------
(* What the objects of a proper cache refer to.                            *)

LEMMA ProperObject ==
  ASSUME NEW s, Proper(s), NEW kind \in Kinds, kind # "GatewayClass",
         NEW k \in DOMAIN Universe[kind]
  PROVE  s[kind][k] \in Universe[kind][k]
BY DEF Proper, Visible

LEMMA ProperRoute ==
  ASSUME NEW s, Proper(s), NEW r \in Cached(s.HTTPRoute)
  PROVE  /\ r \in DOMAIN Universe["HTTPRoute"]
         /\ s.HTTPRoute[r] \in Universe["HTTPRoute"][r] \ {None}
         /\ \A pr \in s.HTTPRoute[r].parents : pr.gw \in DOMAIN Universe["Gateway"]
         /\ s.HTTPRoute[r].backends \cup s.HTTPRoute[r].extensions \subseteq DOMAIN Universe["Service"]
         /\ NsOf[r] \in DOMAIN Universe["Namespace"]
<1>1. "HTTPRoute" \in Kinds
  BY WorldAssumption
<1>2. r \in DOMAIN Universe["HTTPRoute"] /\ s.HTTPRoute[r] # None
  BY <1>1 DEF Proper, Cached
<1>3. s.HTTPRoute[r] \in Universe["HTTPRoute"][r]
  BY <1>1, <1>2, ProperObject
<1> QED
  BY <1>2, <1>3, ReferencesAssumption

LEMMA ProperGateway ==
  ASSUME NEW s, Proper(s), NEW g \in Cached(s.Gateway)
  PROVE  /\ g \in DOMAIN Universe["Gateway"]
         /\ s.Gateway[g] \in Universe["Gateway"][g] \ {None}
<1>1. "Gateway" \in Kinds
  BY WorldAssumption
<1>2. g \in DOMAIN Universe["Gateway"] /\ s.Gateway[g] # None
  BY <1>1 DEF Proper, Cached
<1> QED
  BY <1>1, <1>2, ProperObject

LEMMA ProperIsScoped ==
  ASSUME NEW s, Proper(s), EverythingParses
  PROVE  Scoped(s)
<1>1. /\ DOMAIN s.Namespace = DOMAIN Universe["Namespace"]
      /\ DOMAIN s.Service = DOMAIN Universe["Service"]
      /\ DOMAIN s.Secret = DOMAIN Universe["Secret"]
  BY WorldAssumption DEF Proper
<1>2. \A g \in Cached(s.Gateway) : \A l \in DOMAIN s.Gateway[g].listeners :
        Certs(s.Gateway[g].listeners[l]) \subseteq DOMAIN Universe["Secret"]
  BY ProperGateway DEF EverythingParses
<1> QED
  BY <1>1, <1>2, ProperRoute DEF Scoped

LEMMA ProperDiffers ==
  ASSUME NEW s, NEW t, Proper(s), Proper(t), NEW kind, NEW k,
         \A j \in Kinds : j # kind => t[j] = s[j],
         kind \in Kinds => \A x \in DOMAIN Universe[kind] : x # k => t[kind][x] = s[kind][x]
  PROVE  Differs(s, t, kind, k)
BY WorldAssumption DEF Proper, Differs, Configuring

\* A reference that every version of a grant permits is permitted.
LEMMA AlwaysCanRefer ==
  ASSUME NEW s, Proper(s), NEW fromKind, NEW from, NEW toKind, NEW to,
         AlwaysRefers(fromKind, from, toKind, to)
  PROVE  CanRefer(s, fromKind, from, toKind, to)
<1>1. CASE NsOf[from] = NsOf[to]
  BY <1>1 DEF CanRefer
<1>2. CASE NsOf[from] # NsOf[to]
  <2>1. PICK k \in DOMAIN Universe["ReferenceGrant"] :
          /\ NsOf[k] = NsOf[to]
          /\ \A rg \in Universe["ReferenceGrant"][k] :
               /\ rg # None
               /\ <<fromKind, NsOf[from]>> \in rg.from
               /\ {<<toKind, to>>, <<toKind, "*">>} \cap rg.to # {}
    BY <1>2 DEF AlwaysRefers
  <2>2. "ReferenceGrant" \in Kinds
    BY WorldAssumption
  <2>3. s.ReferenceGrant[k] \in Universe["ReferenceGrant"][k]
    BY <2>2, ProperObject
  <2>4. k \in Cached(s.ReferenceGrant)
    BY <2>1, <2>2, <2>3 DEF Cached, Proper
  <2> QED
    BY <2>1, <2>3, <2>4 DEF CanRefer
<1> QED
  BY <1>1, <1>2

---------------------------------------------------------------------------
(* In an orderly world nothing fails, and only a Gateway that is gone       *)
(* before it was cached ends the process.                                   *)

LEMMA CacheIsProper == IInv => Proper(cache)
BY DEF IInv, Shape, Contents, Proper

LEMMA ClassesParse ==
  ASSUME NEW s, Proper(s), EverythingParses, NEW c
  PROVE  ~ParseClassFails(s, c)
<1> SUFFICES ASSUME NEW g \in AttachedGateways(s, c)
             PROVE  /\ ~ParseGatewayFails(s, g)
                    /\ \A r \in AttachedHTTPRoutes(s, g) : ~s.HTTPRoute[r].refused
  BY DEF ParseClassFails
<1>1. g \in DOMAIN Universe["Gateway"] /\ s.Gateway[g] \in Universe["Gateway"][g] \ {None}
  BY ProperGateway DEF AttachedGateways
<1>2. ASSUME NEW r \in AttachedHTTPRoutes(s, g)
      PROVE  ~s.HTTPRoute[r].refused /\ \A pr \in s.HTTPRoute[r].parents : pr.section # None
  <2>1. r \in Cached(s.HTTPRoute)
    BY DEF AttachedHTTPRoutes
  <2> QED
    BY <2>1, ProperRoute DEF EverythingParses
<1>3. ASSUME NEW l \in DOMAIN s.Gateway[g].listeners, NEW x \in Certs(s.Gateway[g].listeners[l])
      PROVE  s.Secret[x] # None /\ CanRefer(s, "Gateway", g, "Secret", x)
  <2>1. /\ x \in DOMAIN Universe["Secret"] /\ None \notin Universe["Secret"][x]
        /\ AlwaysRefers("Gateway", g, "Secret", x)
    BY <1>1 DEF EverythingParses
  <2>2. s.Secret[x] \in Universe["Secret"][x]
    BY <2>1, WorldAssumption, ProperObject
  <2> QED
    BY <2>1, <2>2, AlwaysCanRefer
<1>4. ~AddressesFail(s.Gateway[g])
  BY <1>1 DEF EverythingParses
<1> QED
  BY <1>2, <1>3, <1>4 DEF ParseGatewayFails, AttachedSecretsFail

LEMMA ServicesParse ==
  ASSUME NEW s, Proper(s), EverythingParses, NEW vs, vs \subseteq DOMAIN Universe["Service"]
  PROVE  ~ParseServicesFail(s, vs)
<1>1. \A v \in vs : s.Service[v] \in Universe["Service"][v]
  BY WorldAssumption, ProperObject
<1> QED
  BY <1>1 DEF ParseServicesFail, MembersFail, EverythingParses

LEMMA RelatedAreServices ==
  ASSUME NEW s, Proper(s), NEW c
  PROVE  RelatedServices(s, c) \subseteq DOMAIN Universe["Service"]
<1> SUFFICES ASSUME NEW v \in RelatedServices(s, c) PROVE v \in DOMAIN Universe["Service"]
  OBVIOUS
<1>1. PICK r : r \in Cached(s.HTTPRoute) /\ v \in AttachedServices(s, r)
  BY DEF RelatedServices, AttachedHTTPRoutes
<1> QED
  BY <1>1, ProperRoute DEF AttachedServices

LEMMA BackendsAreServices ==
  ASSUME NEW s, Proper(s), NEW ns
  PROVE  BackendsOf(s, ns) \subseteq DOMAIN Universe["Service"]
BY WorldAssumption DEF BackendsOf, Cached, Proper

LEMMA RoutesHaveSections ==
  ASSUME NEW s, EverythingParses, NEW r \in DOMAIN Universe["HTTPRoute"],
         NEW hr \in Universe["HTTPRoute"][r] \cup {None}
  PROVE  ~RefPanics(s, hr)
BY DEF RefPanics, EverythingParses

LEMMA OnlyGatewaysPanic ==
  ASSUME IInv, EverythingParses, NEW kind \in Kinds, worker[kind].pc \in {"impact", "backends"},
         Panics(kind)
  PROVE  /\ kind = "Gateway" /\ worker[kind].pc = "impact"
         /\ None \in Universe["Gateway"][worker[kind].key]
         /\ worker[kind].key \in DOMAIN Universe["Gateway"]
<1> DEFINE w == worker[kind]
           old == cache[kind][w.key]
<1>0. Proper(cache)
  BY CacheIsProper
<1>1. w.key \in DOMAIN Universe[kind] /\ w.obj \in Universe[kind][w.key]
  BY DEF IInv, InHand
<1>2. ASSUME NEW r \in Cached(cache.HTTPRoute) PROVE ~RefPanics(cache, cache.HTTPRoute[r])
  BY <1>0, ProperRoute, RoutesHaveSections
<1>3. ~(w.pc = "backends" /\ BackendsPanic(NsOf[w.key]))
  BY <1>2 DEF BackendsPanic, HTTPRoutesRefsOf
<1>4. ~(kind = "ReferenceGrant" /\ GrantPanics(old, w.obj))
  BY <1>2 DEF GrantPanics, RGImpactedHTTPRoutes
<1>5. ~(kind = "HTTPRoute" /\ RoutePanics(old, w.obj))
  <2> SUFFICES ASSUME kind = "HTTPRoute" PROVE ~RoutePanics(old, w.obj)
    OBVIOUS
  <2>1. old \in Universe["HTTPRoute"][w.key]
    BY <1>0, <1>1, ProperObject
  <2> QED
    BY <1>1, <2>1, RoutesHaveSections DEF RoutePanics
<1>6. w.pc = "impact" /\ kind = "Gateway" /\ GatewayPanics(old, w.obj)
  BY <1>3, <1>4, <1>5 DEF Panics
<1> QED
  BY <1>1, <1>6 DEF GatewayPanics

LEMMA SecretsRefer ==
  ASSUME NEW s, Proper(s), EverythingParses, NEW k \in DOMAIN Universe["Secret"],
         GatewayRefsOfSecret(s, k) # {}
  PROVE  None \notin Universe["Secret"][k] /\ ~SecretRefsFail(s, k)
<1>1. ASSUME NEW g \in GatewayRefsOfSecret(s, k)
      PROVE  None \notin Universe["Secret"][k] /\ AlwaysRefers("Gateway", g, "Secret", k)
  <2>1. g \in Cached(s.Gateway) /\ UsesSecret(s, g, k)
    BY DEF GatewayRefsOfSecret
  <2> QED
    BY <2>1, ProperGateway DEF UsesSecret, EverythingParses
<1> QED
  BY <1>1, AlwaysCanRefer DEF SecretRefsFail

\* Storing an object changes the configuration of no class but those the event
\* was found to concern, and what those classes refer to only if a service comes or goes.
LEMMA StoreFrame ==
  ASSUME Orderly, IInv, IInv', NEW kind \in Kinds, Store(kind),
         worker[kind].classes = ImpactOf(kind, worker[kind].key, worker[kind].obj),
         NEW c \in Classes, c \notin worker[kind].classes
  PROVE  /\ ParseAllForClass(cache', c) = ParseAllForClass(cache, c)
         /\ kind # "Service" => RelatedServices(cache', c) = RelatedServices(cache, c)
<1> DEFINE s == cache
           t == cache'
           k == worker[kind].key
           obj == worker[kind].obj
<1>0. Proper(s) /\ Proper(t)
  BY CacheIsProper, IInv DEF IInv, Shape, Contents, Proper
<1>1. /\ k \in DOMAIN Universe[kind] /\ obj \in Universe[kind][k]
      /\ cache' = [cache EXCEPT ![kind][k] = Visible(kind, obj)]
  BY DEF Store, IInv, InHand
<1>2. t[kind][k] = Visible(kind, obj) /\ Differs(s, t, kind, k) /\ Scoped(s)
  <2>1. /\ t[kind][k] = Visible(kind, obj)
        /\ \A j \in Kinds : j # kind => t[j] = s[j]
        /\ \A x \in DOMAIN Universe[kind] : x # k => t[kind][x] = s[kind][x]
    BY <1>0, <1>1 DEF Proper
  <2> HIDE DEF s, t
  <2>2. Differs(s, t, kind, k)
    BY <1>0, <2>1, ProperDiffers
  <2>3. Scoped(s)
    BY <1>0, ProperIsScoped DEF Orderly
  <2> QED
    BY <2>1, <2>2, <2>3
<1>3. kind # "GatewayClass" => t[kind][k] = obj /\ s[kind][k] \in Universe[kind][k]
  BY <1>0, <1>1, <1>2, ProperObject DEF Visible
<1>4. c \notin ImpactOf(kind, k, obj)
  OBVIOUS
<1> HIDE DEF t, k, obj
<1>5. Same(s, t, c) \/ (kind = "Service" /\ SameClass(s, t, c) /\ SamePools(s, t, c))
  <2>1. CASE kind = "GatewayClass"
    <3>1. c # k
      BY <1>4, <2>1 DEF ImpactOf
    <3> QED
      BY <1>0, <1>2, <2>1, <3>1, ClassFrame, WorldAssumption DEF Configuring, Proper, Classes
  <2>2. CASE kind = "Gateway"
    <3>1. s.Gateway[k] \in Universe["Gateway"][k] /\ t.Gateway[k] \in Universe["Gateway"][k]
      BY <1>1, <1>3, <2>2
    <3>2. c \notin GatewayClasses(s.Gateway[k], t.Gateway[k])
      BY <1>3, <1>4, <2>2 DEF ImpactOf
    <3>3. k \notin AttachedGateways(s, c) \cup AttachedGateways(t, c)
      BY <1>1, <2>2, <3>1, <3>2 DEF AttachedGateways, Cached, GatewayClasses, Orderly, GatewaysKeepClass
    <3> QED
      BY <1>2, <2>2, <3>3, GatewayFrame
  <2>3. CASE kind = "HTTPRoute"
    <3>1. c \notin ClassNamesOf(s, GatewayRefsOfHR(s, k, s.HTTPRoute[k])
                                     \cup GatewayRefsOfHR(s, k, t.HTTPRoute[k]))
      BY <1>3, <1>4, <2>3 DEF ImpactOf, RouteClasses
    <3> QED
      BY <1>2, <2>3, <3>1, RouteFrame
  <2>4. CASE kind = "ReferenceGrant"
    <3>1. /\ c \notin RGImpactedGatewayClasses(s, s.ReferenceGrant[k])
          /\ c \notin RGImpactedGatewayClasses(s, t.ReferenceGrant[k])
      BY <1>3, <1>4, <2>4 DEF ImpactOf, GrantClasses
    <3> QED
      BY <1>2, <2>4, <3>1, GrantFrame
  <2>5. CASE kind = "Secret"
    <3>1. c \notin ClassNamesOf(s, GatewayRefsOfSecret(s, k))
      <4>1. CASE GatewayRefsOfSecret(s, k) = {}
        BY <4>1 DEF ClassNamesOf
      <4>2. CASE GatewayRefsOfSecret(s, k) # {}
        <5>1. obj # None /\ ~SecretRefsFail(s, k)
          BY <1>0, <1>1, <2>5, <4>2, SecretsRefer DEF Orderly
        <5> QED
          BY <1>4, <2>5, <5>1 DEF ImpactOf, SecretClasses
      <4> QED
        BY <4>1, <4>2
    <3> QED
      BY <1>2, <2>5, <3>1, SecretFrame
  <2>6. CASE kind = "Namespace"
    <3>1. obj # None /\ s[kind][k] # None
      BY <1>1, <1>3, <2>6 DEF Orderly, NamespacesStay
    <3>2. c \notin NSImpactedGatewayClasses(s, k) \/ s.Namespace[k] = t.Namespace[k]
      BY <1>3, <1>4, <2>6, <3>1 DEF ImpactOf, NamespaceClasses
    <3> QED
      BY <1>2, <2>6, <3>2, NamespaceFrame
  <2>7. CASE kind = "Service"
    <3>1. ASSUME NEW r \in Cached(s.HTTPRoute), k \in s.HTTPRoute[r].backends,
                 ~(s.Service[k] = None <=> t.Service[k] = None)
          PROVE  CanRefer(s, "HTTPRoute", r, "Service", k)
      <4>1. None \in Universe["Service"][k] /\ Universe["Service"][k] # {None}
        BY <1>1, <1>3, <2>7, <3>1
      <4>2. AlwaysRefers("HTTPRoute", r, "Service", k)
        BY <1>0, <3>1, <4>1, ProperRoute DEF Orderly, MissingAreReferable
      <4> QED
        BY <1>0, <4>2, AlwaysCanRefer
    <3> QED
      BY <1>2, <2>7, <3>1, ServiceFrame
  <2>8. CASE kind = "Endpoints"
    BY <1>2, <2>8, ClassFrame DEF Configuring
  <2> QED
    BY <2>1, <2>2, <2>3, <2>4, <2>5, <2>6, <2>7, <2>8, WorldAssumption
<1>6. ParseAllForClass(t, c) = ParseAllForClass(s, c)
  BY <1>5, SameParse DEF Same
<1>7. kind # "Service" => RelatedServices(t, c) = RelatedServices(s, c)
  BY <1>5, SameRelated DEF Same
<1> QED
  BY <1>6, <1>7 DEF t

---------------------------------------------------------------------------
(* Workers one at a time: what a worker holds is right for the cache.      *)

Alone == \A i, j \in Kinds : worker[i].pc # "idle" /\ worker[j].pc # "idle" => i = j

\* What is parsed is kept from the classes found to the end.
Prepared(kind, w) ==
  /\ w.pc \in {"impact", "store", "backends"} => DOMAIN w.as3 = {}
  /\ w.pc \in {"impact", "backends"} => w.classes = {}
  /\ w.pc = "store" => w.classes = ImpactOf(kind, w.key, w.obj) /\ w.todo = w.classes
  /\ w.pc = "add" => w.todo = {}

\* The declaration has the classes parsed so far, as the cache makes them.
ClassesParsed(s, w) ==
  w.pc \in {"parse", "add"} =>
    /\ DOMAIN w.as3 \cap Classes \subseteq w.classes
    /\ \A c \in w.classes \ w.todo : c \in DOMAIN w.as3 /\ w.as3[c] = ParseAllForClass(s, c)

Working(kind, w) == Prepared(kind, w) /\ ClassesParsed(cache, w)

\* The worker is to submit the class.
Declares(w, c) == w.pc \in {"parse", "add"} /\ c \in w.classes

\* The worker is going to find, or has found, that the class is concerned.
Due(kind, w, c) ==
  \/ kind = "GatewayClass" /\ w.pc = "impact" /\ w.key = c
  \/ w.pc \in {"store", "parse", "add"} /\ c \in w.classes

\* A class that is not cached has nothing, or is about to: its events are ignored.
Unserved(c) ==
  cache["GatewayClass"][c] = None =>
    deployed[c] = NoConfig \/ \E kind \in Kinds : Declares(worker[kind], c)

\* A class has what the cache makes it, or is going to be deployed.
Right(c) ==
  \/ deployed[c] = ParseAllForClass(cache, c)
  \/ c \in queue["GatewayClass"]
  \/ \E kind \in Kinds : Due(kind, worker[kind], c)

CInv ==
  /\ Alone
  /\ \A kind \in Kinds : Working(kind, worker[kind])
  /\ \A c \in Classes : Unserved(c) /\ Right(c)

LEMMA KindsAreFinite == IsFiniteSet(Kinds)
<1> DEFINE A == {"GatewayClass"} \cup {"Namespace"}
           B == A \cup {"Gateway"}
           C == B \cup {"HTTPRoute"}
           D == C \cup {"Service"}
           E == D \cup {"Endpoints"}
           F == E \cup {"Secret"}
           G == F \cup {"ReferenceGrant"}
<1>1. Kinds = G
  BY WorldAssumption
<1>2. IsFiniteSet(A)
  BY FS_Singleton, FS_AddElement
<1> HIDE DEF A
<1>3. IsFiniteSet(B)
  BY <1>2, FS_AddElement
<1> HIDE DEF B
<1>4. IsFiniteSet(C)
  BY <1>3, FS_AddElement
<1> HIDE DEF C
<1>5. IsFiniteSet(D)
  BY <1>4, FS_AddElement
<1> HIDE DEF D
<1>6. IsFiniteSet(E)
  BY <1>5, FS_AddElement
<1> HIDE DEF E
<1>7. IsFiniteSet(F)
  BY <1>6, FS_AddElement
<1> HIDE DEF F
<1>8. IsFiniteSet(G)
  BY <1>7, FS_AddElement
<1> HIDE DEF G
<1> QED
  BY <1>1, <1>8

\* With one at a time, a worker takes a key when all are idle.
LEMMA NoneBusy ==
  ASSUME MaxBusy = 1, Cardinality(Busy) < MaxBusy, NEW j \in Kinds
  PROVE  worker[j].pc = "idle"
<1>1. Busy \subseteq Kinds
  BY DEF Busy
<1>2. IsFiniteSet(Busy) /\ Cardinality(Busy) \in Nat
  BY <1>1, KindsAreFinite, FS_Subset, FS_CardinalityType
<1>3. Cardinality(Busy) = 0
  BY <1>2
<1>4. Busy = {}
  BY <1>2, <1>3, FS_EmptySet
<1> QED
  BY <1>4 DEF Busy

LEMMA SameImpact ==
  ASSUME UNCHANGED cache, NEW kind, NEW k, NEW obj
  PROVE  ImpactOf(kind, k, obj)' = ImpactOf(kind, k, obj)
BY DEF ImpactOf, GatewayClasses, RouteClasses, GrantClasses, SecretClasses, NamespaceClasses

LEMMA IdleWorks ==
  ASSUME NEW kind, NEW s
  PROVE  Prepared(kind, Idle) /\ ClassesParsed(s, Idle)
BY DEF Prepared, ClassesParsed, Idle

\* What CInv says when this worker is the one that runs.
LEMMA OnlyWorker ==
  ASSUME CInv, NEW kind \in Kinds, worker[kind].pc # "idle"
  PROVE  /\ \A j \in Kinds : j # kind => worker[j].pc = "idle"
         /\ Working(kind, worker[kind])
         /\ \A c \in Classes :
              /\ cache["GatewayClass"][c] = None =>
                   deployed[c] = NoConfig \/ Declares(worker[kind], c)
              /\ \/ deployed[c] = ParseAllForClass(cache, c)
                 \/ c \in queue["GatewayClass"]
                 \/ Due(kind, worker[kind], c)
<1>1. \A j \in Kinds : j # kind => worker[j].pc = "idle"
  BY DEF CInv, Alone
<1> QED
  BY <1>1 DEF CInv, Unserved, Right, Declares, Due

\* A step of the one worker that runs keeps CInv when what it leaves does.
LEMMA OneWorkerKeepsCInv ==
  ASSUME IInv, CInv, NEW kind \in Kinds, NEW u,
         worker' = [worker EXCEPT ![kind] = u],
         \A j \in Kinds : j # kind => worker[j].pc = "idle",
         Prepared(kind, u), u.pc = "store" => UNCHANGED cache, ClassesParsed(cache', u),
         \A c \in Classes :
           /\ cache'["GatewayClass"][c] = None => deployed'[c] = NoConfig \/ Declares(u, c)
           /\ \/ deployed'[c] = ParseAllForClass(cache', c)
              \/ c \in queue'["GatewayClass"]
              \/ Due(kind, u, c)
  PROVE  CInv'
<1>1. worker'[kind] = u /\ \A j \in Kinds : j # kind => worker'[j].pc = "idle"
  BY DEF IInv, Shape
<1>2. Alone'
  BY <1>1 DEF Alone
<1>3. ASSUME NEW j \in Kinds PROVE Working(j, worker[j])'
  <2>1. CASE j = kind
    <3>1. ImpactOf(kind, u.key, u.obj)' = ImpactOf(kind, u.key, u.obj) \/ u.pc # "store"
      BY SameImpact
    <3> QED
      BY <1>1, <2>1, <3>1 DEF Working, Prepared, ClassesParsed
  <2>2. CASE j # kind
    BY <1>1, <2>2 DEF Working, Prepared, ClassesParsed
  <2> QED
    BY <2>1, <2>2
<1>4. ASSUME NEW c \in Classes PROVE Unserved(c)' /\ Right(c)'
  BY <1>1 DEF Unserved, Right
<1> QED
  BY <1>2, <1>3, <1>4 DEF CInv

LEMMA EditKeepsCInv ==
  ASSUME IInv, CInv, NEW kind \in Kinds, NEW k \in DOMAIN Universe[kind],
         NEW obj \in Universe[kind][k], Edit(kind, k, obj)
  PROVE  CInv'
<1>1. UNCHANGED <<cache, worker, deployed>> /\ \A j \in Kinds : queue[j] \subseteq queue'[j]
  BY DEF Edit, IInv, Shape
<1>2. ASSUME NEW j \in Kinds PROVE Working(j, worker[j])'
  <2>1. ImpactOf(j, worker[j].key, worker[j].obj)' = ImpactOf(j, worker[j].key, worker[j].obj)
    BY <1>1 DEF ImpactOf, GatewayClasses, RouteClasses, GrantClasses, SecretClasses, NamespaceClasses
  <2> QED
    BY <1>1, <2>1 DEF CInv, Working, Prepared, ClassesParsed
<1>3. ASSUME NEW c \in Classes PROVE Unserved(c)' /\ Right(c)'
  BY <1>1, WorldAssumption DEF CInv, Unserved, Right, Declares, Due
<1> QED
  BY <1>1, <1>2, <1>3 DEF CInv, Alone

LEMMA TakeKeepsCInv ==
  ASSUME IInv, CInv, MaxBusy = 1, NEW kind \in Kinds, NEW k \in DOMAIN Universe[kind], Take(kind, k)
  PROVE  CInv'
<1> DEFINE u == [Idle EXCEPT !.pc = "impact", !.key = k, !.obj = api[kind][k]]
<1>1. /\ worker' = [worker EXCEPT ![kind] = u] /\ UNCHANGED <<cache, deployed>>
      /\ queue' = [queue EXCEPT ![kind] = @ \ {k}]
  BY DEF Take
<1>2. \A j \in Kinds : worker[j].pc = "idle"
  BY NoneBusy DEF Take
<1>3. u.pc = "impact" /\ u.key = k /\ DOMAIN u.as3 = {} /\ u.classes = {}
  BY DEF Idle, NoTenants
<1> HIDE DEF u
<1>4. Prepared(kind, u) /\ ClassesParsed(cache', u) /\ u.pc # "store"
  BY <1>3 DEF Prepared, ClassesParsed
<1>5. ASSUME NEW c \in Classes
      PROVE  /\ cache'["GatewayClass"][c] = None => deployed'[c] = NoConfig \/ Declares(u, c)
             /\ \/ deployed'[c] = ParseAllForClass(cache', c)
                \/ c \in queue'["GatewayClass"]
                \/ Due(kind, u, c)
  <2>1. Unserved(c) /\ Right(c)
    BY DEF CInv
  <2>2. /\ cache["GatewayClass"][c] = None => deployed[c] = NoConfig
        /\ deployed[c] = ParseAllForClass(cache, c) \/ c \in queue["GatewayClass"]
    BY <1>2, <2>1 DEF Unserved, Right, Declares, Due
  <2>3. c \in queue["GatewayClass"] => c \in queue'["GatewayClass"] \/ Due(kind, u, c)
    BY <1>1, <1>3, WorldAssumption DEF Due, IInv, Shape
  <2> QED
    BY <1>1, <2>2, <2>3
<1> QED
  BY <1>1, <1>2, <1>4, <1>5, OneWorkerKeepsCInv

\* A class that another controller may own, or is gone, is not cached.
LEMMA IgnoredIsNotCached ==
  ASSUME IInv, ClassesKeepController, NEW kind \in Kinds, worker[kind].pc # "idle",
         Ignored(kind, worker[kind].key, worker[kind].obj)
  PROVE  kind = "GatewayClass" /\ cache["GatewayClass"][worker[kind].key] = None
BY DEF Ignored, IInv, InHand, Contents, Visible, ClassesKeepController

LEMMA ImpactKeepsCInv ==
  ASSUME IInv, CInv, ClassesKeepController, NEW kind \in Kinds, Impact(kind)
  PROVE  CInv'
<1> DEFINE w == worker[kind]
           cls == ImpactOf(kind, w.key, w.obj)
           u == [w EXCEPT !.pc = "store", !.todo = cls, !.classes = cls,
                          !.retry = Retries(kind, w.key, w.obj)]
<1>1. w.pc = "impact" /\ UNCHANGED <<cache, deployed, queue>>
  BY DEF Impact
<1>2. /\ \A j \in Kinds : j # kind => worker[j].pc = "idle"
      /\ Working(kind, w)
      /\ \A c \in Classes :
           /\ cache["GatewayClass"][c] = None => deployed[c] = NoConfig \/ Declares(w, c)
           /\ deployed[c] = ParseAllForClass(cache, c) \/ c \in queue["GatewayClass"] \/ Due(kind, w, c)
  BY <1>1, OnlyWorker
<1>3. \A c \in Classes : ~Declares(w, c) /\ (Due(kind, w, c) <=> kind = "GatewayClass" /\ w.key = c)
  BY <1>1 DEF Declares, Due
<1>4. CASE Ignored(kind, w.key, w.obj)
  <2>1. worker' = [worker EXCEPT ![kind] = Idle] /\ Idle.pc # "store"
    BY <1>4 DEF Impact, Idle
  <2>2. cache["GatewayClass"][w.key] = None
    BY <1>1, <1>4, IgnoredIsNotCached
  <2>3. \A c \in Classes : Due(kind, w, c) => deployed[c] = ParseAllForClass(cache, c)
    <3>1. ParseAllForClass(cache, w.key) = NoConfig
      BY <2>2 DEF ParseAllForClass
    <3> QED
      BY <1>2, <1>3, <2>2, <3>1
  <2> QED
    BY <1>1, <1>2, <1>3, <2>1, <2>3, IdleWorks, OneWorkerKeepsCInv
<1>5. CASE ~Ignored(kind, w.key, w.obj)
  <2>1. worker' = [worker EXCEPT ![kind] = u]
    BY <1>5 DEF Impact
  <2>2. /\ u.pc = "store" /\ u.todo = cls /\ u.classes = cls
        /\ u.key = w.key /\ u.obj = w.obj /\ u.as3 = w.as3
    BY DEF IInv, Shape, Fields
  <2> HIDE DEF u
  <2>3. Prepared(kind, u) /\ ClassesParsed(cache', u)
    BY <1>1, <1>2, <2>2 DEF Working, Prepared, ClassesParsed
  <2>4. \A c \in Classes : Due(kind, w, c) => Due(kind, u, c)
    BY <1>3, <2>2 DEF Due, ImpactOf
  <2> QED
    BY <1>1, <1>2, <1>3, <2>1, <2>3, <2>4, OneWorkerKeepsCInv
<1> QED
  BY <1>4, <1>5

\* A process ends only when no class of this controller may be gone by then.
LEMMA PanicKeepsCInv ==
  ASSUME IInv, CInv, Orderly, NEW kind \in Kinds, Panic(kind)
  PROVE  CInv'
<1>1. worker[kind].pc \in {"impact", "backends"} /\ Panics(kind)
  BY DEF Panic
<1>2. /\ cache' = Synced(api) /\ queue' = Everything(api) /\ worker' = [j \in Kinds |-> Idle]
      /\ UNCHANGED deployed
  BY DEF Panic
<1>3. ASSUME NEW c \in Classes, MayBeOwn(c) PROVE None \notin Universe["GatewayClass"][c]
  BY <1>1, <1>3, OnlyGatewaysPanic DEF Orderly, NoneLostInPanic
<1>4. /\ DOMAIN api = Kinds /\ "GatewayClass" \in Kinds
      /\ DOMAIN api["GatewayClass"] = Classes
  BY WorldAssumption DEF IInv, Shape, Classes
<1>5. ASSUME NEW c \in Classes PROVE Unserved(c)' /\ Right(c)'
  <2>1. api["GatewayClass"][c] \in Universe["GatewayClass"][c]
    BY <1>4 DEF IInv, Contents, Classes
  <2>2. cache'["GatewayClass"][c] = Visible("GatewayClass", api["GatewayClass"][c])
    BY <1>2, <1>4 DEF Synced
  <2>3. CASE cache'["GatewayClass"][c] # None
    <3>1. api["GatewayClass"][c] # None
      BY <2>2, <2>3 DEF Visible
    <3>2. c \in queue'["GatewayClass"]
      BY <1>2, <1>4, <3>1 DEF Everything, Cached
    <3> QED
      BY <2>3, <3>2 DEF Unserved, Right
  <2>4. CASE cache'["GatewayClass"][c] = None
    <3>1. ~MayBeOwn(c)
      BY <1>3, <2>1, <2>2, <2>4 DEF Visible, Orderly, ClassesKeepController, MayBeOwn, Classes
    <3>2. cache["GatewayClass"][c] = None
      BY <1>4, <3>1 DEF MayBeOwn, IInv, Contents, Visible, Classes
    <3>3. deployed[c] = NoConfig
      BY <1>1, <3>2, OnlyWorker DEF Declares
    <3>4. deployed'[c] = ParseAllForClass(cache', c)
      BY <1>2, <2>4, <3>3 DEF ParseAllForClass
    <3> QED
      BY <1>2, <3>3, <3>4 DEF Unserved, Right
  <2> QED
    BY <2>3, <2>4
<1>6. \A j \in Kinds : worker'[j] = Idle
  BY <1>2
<1>7. Alone'
  BY <1>6 DEF Alone, Idle
<1>8. \A j \in Kinds : Working(j, worker[j])'
  BY <1>6 DEF Working, Prepared, ClassesParsed, Idle
<1> QED
  BY <1>5, <1>7, <1>8 DEF CInv

LEMMA StoreKeepsCInv ==
  ASSUME IInv, IInv', CInv, Orderly, NEW kind \in Kinds, Store(kind)
  PROVE  CInv'
<1> DEFINE w == worker[kind]
           u1 == [w EXCEPT !.pc = "backends"]
           u2 == [w EXCEPT !.pc = "parse"]
           u == IF HasBackends(kind) THEN u1 ELSE IF w.classes = {} THEN Idle ELSE u2
<1>1. /\ w.pc = "store" /\ UNCHANGED deployed /\ worker' = [worker EXCEPT ![kind] = u]
      /\ cache' = [cache EXCEPT ![kind][w.key] = Visible(kind, w.obj)]
      /\ queue["GatewayClass"] \subseteq queue'["GatewayClass"]
  BY WorldAssumption DEF Store, IInv, Shape
<1>2. /\ \A j \in Kinds : j # kind => worker[j].pc = "idle"
      /\ Working(kind, w)
      /\ \A c \in Classes :
           /\ cache["GatewayClass"][c] = None => deployed[c] = NoConfig \/ Declares(w, c)
           /\ deployed[c] = ParseAllForClass(cache, c) \/ c \in queue["GatewayClass"] \/ Due(kind, w, c)
  BY <1>1, OnlyWorker
<1>3. w.classes = ImpactOf(kind, w.key, w.obj) /\ w.todo = w.classes /\ DOMAIN w.as3 = {}
  BY <1>1, <1>2 DEF Working, Prepared
<1>4. HasBackends(kind) => w.classes = {}
  BY <1>3 DEF HasBackends, ImpactOf
<1>5. /\ u1.pc = "backends" /\ u1.classes = w.classes /\ u1.as3 = w.as3
      /\ u2.pc = "parse" /\ u2.classes = w.classes /\ u2.todo = w.todo /\ u2.as3 = w.as3
      /\ Idle.pc = "idle"
  BY DEF IInv, Shape, Fields, Idle
<1> HIDE DEF u1, u2
<1>6. Prepared(kind, u) /\ ClassesParsed(cache', u) /\ u.pc # "store"
  BY <1>3, <1>4, <1>5 DEF Prepared, ClassesParsed
<1>7. ASSUME NEW c \in Classes
      PROVE  /\ cache'["GatewayClass"][c] = None => deployed'[c] = NoConfig \/ Declares(u, c)
             /\ \/ deployed'[c] = ParseAllForClass(cache', c)
                \/ c \in queue'["GatewayClass"]
                \/ Due(kind, u, c)
  <2>1. CASE c \in w.classes
    BY <1>4, <1>5, <2>1 DEF Declares, Due
  <2>2. CASE c \notin w.classes
    <3>1. ParseAllForClass(cache', c) = ParseAllForClass(cache, c)
      BY <1>3, <2>2, StoreFrame
    <3>2. kind = "GatewayClass" => c # w.key
      BY <1>3, <2>2 DEF ImpactOf
    <3>3. cache'["GatewayClass"][c] = cache["GatewayClass"][c]
      BY <1>1, <3>2 DEF IInv, Shape
    <3>4. ~Declares(w, c) /\ ~Due(kind, w, c)
      BY <1>1, <2>2 DEF Declares, Due
    <3> QED
      BY <1>1, <1>2, <3>1, <3>3, <3>4
  <2> QED
    BY <2>1, <2>2
<1> HIDE DEF u
<1> QED
  BY <1>1, <1>2, <1>6, <1>7, OneWorkerKeepsCInv

\* Parsing goes on or ends with all classes still in hand.
LEMMA ParsingKeepsCInv ==
  ASSUME IInv, CInv, NEW kind \in Kinds, NEW u, worker[kind].pc = "parse" \/ worker[kind].pc = "backends",
         Continue(kind, u), u.classes = worker[kind].classes, u.pc \in {"parse", "add"},
         u.pc = "add" => u.todo = {}, ClassesParsed(cache, u)
  PROVE  CInv'
<1>1. worker' = [worker EXCEPT ![kind] = u] /\ UNCHANGED <<cache, queue, deployed>>
  BY DEF Continue
<1>2. Prepared(kind, u) /\ ClassesParsed(cache', u) /\ u.pc # "store"
  BY <1>1 DEF Prepared, ClassesParsed
<1>3. \A c \in Classes : /\ Declares(worker[kind], c) => Declares(u, c)
                         /\ Due(kind, worker[kind], c) => Due(kind, u, c)
  BY DEF Declares, Due
<1> QED
  BY <1>1, <1>2, <1>3, OnlyWorker, OneWorkerKeepsCInv

LEMMA ParseClassKeepsCInv ==
  ASSUME IInv, TInv, CInv, EverythingParses, NEW kind \in Kinds, NEW c \in Classes, ParseClass(kind, c)
  PROVE  CInv'
<1> DEFINE w == worker[kind]
           new == [t \in {c} |-> ParseAllForClass(cache, c)]
           u == [w EXCEPT !.todo = @ \ {c}, !.as3 = Over(@, new)]
<1>1. w.pc = "parse" /\ c \in w.todo /\ Continue(kind, u)
  BY ClassesParse, CacheIsProper DEF ParseClass
<1>2. u.classes = w.classes /\ u.pc = "parse" /\ u.todo = w.todo \ {c} /\ u.as3 = Over(w.as3, new)
  BY <1>1 DEF IInv, Shape, Fields
<1>3. ClassesParsed(cache, w) /\ c \in w.classes
  BY <1>1, OnlyWorker DEF Working, TInv, Fine
<1> HIDE DEF u
<1>4. ClassesParsed(cache, u)
  BY <1>1, <1>2, <1>3 DEF ClassesParsed, Over
<1> QED
  BY <1>1, <1>2, <1>4, ParsingKeepsCInv

LEMMA ParseRelatedKeepsCInv ==
  ASSUME IInv, TInv, CInv, EverythingParses, NamesApart, NEW kind \in Kinds, ParseRelated(kind)
  PROVE  CInv'
<1> DEFINE w == worker[kind]
           svcs == UNION {RelatedServices(cache, c) : c \in w.classes}
           more == ParseServices(cache, svcs)
           u == [w EXCEPT !.pc = "add", !.as3 = Over(@, more)]
<1>1. w.pc = "parse" /\ w.todo = {} /\ Continue(kind, u)
  BY CacheIsProper, RelatedAreServices, ServicesParse DEF ParseRelated
<1>2. u.classes = w.classes /\ u.pc = "add" /\ u.todo = {} /\ u.as3 = Over(w.as3, more)
  BY <1>1 DEF IInv, Shape, Fields
<1>3. ClassesParsed(cache, w)
  BY <1>1, OnlyWorker DEF Working
<1>4. DOMAIN more \cap Classes = {}
  BY RelatedAreApart DEF ParseServices
<1> HIDE DEF u, more, w
<1>5. /\ DOMAIN Over(w.as3, more) = DOMAIN w.as3 \cup DOMAIN more
      /\ \A c \in DOMAIN w.as3 \ DOMAIN more : Over(w.as3, more)[c] = w.as3[c]
  BY DEF Over
<1>6. ClassesParsed(cache, u)
  <2>1. DOMAIN w.as3 \cap Classes \subseteq w.classes
    BY <1>1, <1>3 DEF ClassesParsed
  <2>2. ASSUME NEW c \in w.classes
        PROVE  c \in DOMAIN w.as3 /\ w.as3[c] = ParseAllForClass(cache, c)
    BY <1>1, <1>3, <2>2 DEF ClassesParsed
  <2>3. w.classes \subseteq Classes
    BY DEF TInv, Fine, w
  <2> QED
    BY <1>2, <1>4, <1>5, <2>1, <2>2, <2>3 DEF ClassesParsed
<1> QED
  BY <1>1, <1>2, <1>6, ParsingKeepsCInv DEF w

LEMMA HandleBackendsKeepsCInv ==
  ASSUME IInv, TInv, CInv, EverythingParses, NamesApart, NEW kind \in Kinds, HandleBackends(kind)
  PROVE  CInv'
<1> DEFINE w == worker[kind]
           ns == NsOf[w.key]
           svcs == BackendsOf(cache, ns)
           more == IF svcs = {} THEN [t \in {ns} |-> NoConfig] ELSE ParseServices(cache, svcs)
           u == [w EXCEPT !.pc = "add", !.as3 = more]
<1>1. w.pc = "backends" /\ Continue(kind, u)
  BY CacheIsProper, BackendsAreServices, ServicesParse DEF HandleBackends
<1>2. Prepared(kind, w) /\ w.todo \subseteq w.classes
  BY <1>1, OnlyWorker DEF Working, TInv, Fine
<1>3. u.classes = {} /\ w.classes = {} /\ u.pc = "add" /\ u.todo = {} /\ u.as3 = more
  BY <1>1, <1>2 DEF IInv, Shape, Fields, Prepared
<1>4. ns \notin Classes
  BY <1>1 DEF TInv, Fine, IInv, InHand, HasBackends, NamesApart
<1>5. \A v \in svcs : NsOf[v] = ns
  BY DEF BackendsOf
<1>6. DOMAIN more \cap Classes = {}
  BY <1>4, <1>5 DEF ParseServices
<1> HIDE DEF u, more
<1>7. ClassesParsed(cache, u)
  BY <1>3, <1>6 DEF ClassesParsed
<1> QED
  BY <1>1, <1>3, <1>7, ParsingKeepsCInv

\* The classes of the event get what they were parsed to, the others keep theirs.
LEMMA AddKeepsCInv ==
  ASSUME IInv, CInv, NEW kind \in Kinds, Add(kind)
  PROVE  CInv'
<1> DEFINE w == worker[kind]
<1>1. w.pc = "add" /\ worker' = [worker EXCEPT ![kind] = Idle] /\ UNCHANGED <<cache, queue>>
  BY DEF Add
<1>2. /\ \A j \in Kinds : j # kind => worker[j].pc = "idle"
      /\ Working(kind, w)
      /\ \A c \in Classes :
           /\ cache["GatewayClass"][c] = None => deployed[c] = NoConfig \/ Declares(w, c)
           /\ deployed[c] = ParseAllForClass(cache, c) \/ c \in queue["GatewayClass"] \/ Due(kind, w, c)
  BY <1>1, OnlyWorker
<1>3. ASSUME NEW c \in Classes
      PROVE  /\ cache'["GatewayClass"][c] = None => deployed'[c] = NoConfig
             /\ deployed'[c] = ParseAllForClass(cache', c) \/ c \in queue'["GatewayClass"]
  <2>1. deployed'[c] = IF c \in DOMAIN w.as3 THEN w.as3[c] ELSE deployed[c]
    BY ReferencesAssumption DEF Add
  <2>2. w.todo = {} /\ DOMAIN w.as3 \cap Classes \subseteq w.classes
    BY <1>1, <1>2 DEF Working, Prepared, ClassesParsed
  <2>3. CASE c \in w.classes
    <3>1. c \in DOMAIN w.as3 /\ w.as3[c] = ParseAllForClass(cache, c)
      BY <1>1, <1>2, <2>2, <2>3 DEF Working, ClassesParsed
    <3> QED
      BY <1>1, <2>1, <3>1 DEF ParseAllForClass
  <2>4. CASE c \notin w.classes
    <3>1. deployed'[c] = deployed[c] /\ ~Declares(w, c) /\ ~Due(kind, w, c)
      BY <1>1, <2>1, <2>2, <2>4 DEF Declares, Due
    <3> QED
      BY <1>1, <1>2, <3>1
  <2> QED
    BY <2>3, <2>4
<1>4. Idle.pc # "store"
  BY DEF Idle
<1> QED
  BY <1>1, <1>2, <1>3, <1>4, IdleWorks, OneWorkerKeepsCInv

LEMMA NextCInv ==
  ASSUME IInv, TInv, CInv, Orderly, MaxBusy = 1, [Next]_vars
  PROVE  CInv'
<1>1. EverythingParses /\ NamesApart /\ ClassesKeepController /\ IInv'
  BY NextIInv DEF Orderly
<1>2. CASE UNCHANGED vars
  <2>1. UNCHANGED <<cache, queue, worker, deployed>>
    BY <1>2 DEF vars
  <2>2. ASSUME NEW j \in Kinds PROVE Working(j, worker[j])'
    <3>1. ImpactOf(j, worker[j].key, worker[j].obj)' = ImpactOf(j, worker[j].key, worker[j].obj)
      BY <2>1 DEF ImpactOf, GatewayClasses, RouteClasses, GrantClasses, SecretClasses, NamespaceClasses
    <3> QED
      BY <2>1, <3>1 DEF CInv, Working, Prepared, ClassesParsed
  <2> QED
    BY <2>1, <2>2 DEF CInv, Alone, Unserved, Right, Declares, Due
<1> QED
  BY <1>1, <1>2, EditKeepsCInv, TakeKeepsCInv, ImpactKeepsCInv, PanicKeepsCInv, StoreKeepsCInv,
     ParseClassKeepsCInv, ParseRelatedKeepsCInv, HandleBackendsKeepsCInv, AddKeepsCInv
  DEF Next, Work

LEMMA InitCInv ==
  ASSUME Init
  PROVE  CInv
<1>1. \A kind \in Kinds : worker[kind] = Idle
  BY DEF Init
<1>2. \A kind \in Kinds : Working(kind, worker[kind])
  BY <1>1, IdleWorks DEF Working
<1>3. Alone
  BY <1>1 DEF Alone, Idle
<1>4. ASSUME NEW c \in Classes PROVE Unserved(c) /\ Right(c)
  <2>1. deployed[c] = NoConfig
    BY ReferencesAssumption DEF Init
  <2>2. cache["GatewayClass"][c] # None => c \in queue["GatewayClass"]
    BY WorldAssumption DEF Init, Synced, Everything, Cached, Visible, Classes
  <2> QED
    BY <2>1, <2>2 DEF Unserved, Right, ParseAllForClass
<1> QED
  BY <1>2, <1>3, <1>4 DEF CInv

\* Once all events are handled, every class serves what the cached resources
\* make it: handlers that run one after the other find the classes an event
\* concerns, parse them from the cache that has it, and overwrite nothing newer.
THEOREM ClassesConverge ==
  ASSUME Orderly, MaxBusy = 1
  PROVE  Spec => []Converged
<1>1. Init => IInv /\ TInv /\ CInv
  <2>1. Init => TInv
    BY WorldAssumption, IdleIsFine DEF Init, TInv, Everything, Cached
  <2> QED
    BY <2>1, InitIInv, InitCInv
<1>2. IInv /\ TInv /\ CInv /\ [Next]_vars => IInv' /\ TInv' /\ CInv'
  BY NextIInv, NextTInv, NextCInv DEF Orderly
<1>3. CInv => Converged
  BY WorldAssumption DEF CInv, Right, Due, Converged, Quiet
<1> QED
  BY <1>1, <1>2, <1>3, PTL DEF Spec

---------------------------------------------------------------------------
(* Pools: the namespace of a service is declared with the class that refers *)
(* to it, or with the backends of the namespace.                            *)

Holds(s, as3, v) == NsOf[v] \in DOMAIN as3 /\ Pool(s, v) \in as3[NsOf[v]].pools

\* The worker is going to place the pool of v, to which the class c refers.
Places(s, kind, w, c, v) ==
  \/ Due(kind, w, c)
  \/ w.pc = "backends" /\ NsOf[w.key] = NsOf[v]
  \/ w.pc = "add" /\ Holds(s, w.as3, v)

\* A declaration with the class, or the namespace, has the pool.
Complete(s, w, c, v) ==
  w.pc = "add" /\ (c \in w.classes \/ NsOf[v] \in DOMAIN w.as3) => Holds(s, w.as3, v)

Placed(c, v) ==
  \/ Pool(cache, v) \in deployed[NsOf[v]].pools
  \/ c \in queue["GatewayClass"]
  \/ \E kind \in Kinds : Places(cache, kind, worker[kind], c, v)

PInv ==
  /\ \A kind \in Kinds : worker[kind].pc = "parse" => DOMAIN worker[kind].as3 \subseteq Classes
  /\ \A c \in Classes : \A v \in RelatedServices(cache, c) :
       Placed(c, v) /\ \A kind \in Kinds : Complete(cache, worker[kind], c, v)

\* What PInv says when this worker is the one that runs.
LEMMA OnlyWorkerPlaces ==
  ASSUME CInv, PInv, NEW kind \in Kinds, worker[kind].pc # "idle"
  PROVE  /\ worker[kind].pc = "parse" => DOMAIN worker[kind].as3 \subseteq Classes
         /\ \A c \in Classes : \A v \in RelatedServices(cache, c) :
              /\ \/ Pool(cache, v) \in deployed[NsOf[v]].pools
                 \/ c \in queue["GatewayClass"]
                 \/ Places(cache, kind, worker[kind], c, v)
              /\ Complete(cache, worker[kind], c, v)
<1>1. \A j \in Kinds : j # kind => worker[j].pc = "idle"
  BY OnlyWorker
<1> QED
  BY <1>1 DEF PInv, Placed, Places, Due

LEMMA OneWorkerKeepsPInv ==
  ASSUME IInv, NEW kind \in Kinds, NEW u,
         worker' = [worker EXCEPT ![kind] = u],
         \A j \in Kinds : j # kind => worker[j].pc = "idle",
         u.pc = "parse" => DOMAIN u.as3 \subseteq Classes,
         \A c \in Classes : \A v \in RelatedServices(cache', c) :
           /\ \/ Pool(cache', v) \in deployed'[NsOf[v]].pools
              \/ c \in queue'["GatewayClass"]
              \/ Places(cache', kind, u, c, v)
           /\ Complete(cache', u, c, v)
  PROVE  PInv'
<1>1. worker'[kind] = u /\ \A j \in Kinds : j # kind => worker'[j].pc = "idle"
  BY DEF IInv, Shape
<1>2. ASSUME NEW c \in Classes, NEW v \in RelatedServices(cache', c)
      PROVE  Placed(c, v)' /\ \A j \in Kinds : Complete(cache, worker[j], c, v)'
  <2>1. Placed(c, v)'
    BY <1>1 DEF Placed
  <2>2. \A j \in Kinds : Complete(cache', worker'[j], c, v)
    BY <1>1 DEF Complete
  <2> QED
    BY <2>1, <2>2
<1>3. \A j \in Kinds : worker'[j].pc = "parse" => DOMAIN worker'[j].as3 \subseteq Classes
  BY <1>1
<1> QED
  BY <1>2, <1>3 DEF PInv

LEMMA IdlePlacesNothing ==
  ASSUME NEW kind, NEW s, NEW c, NEW v
  PROVE  ~Places(s, kind, Idle, c, v) /\ Complete(s, Idle, c, v) /\ Idle.pc # "parse"
BY DEF Places, Complete, Due, Idle

LEMMA CachedMayBeOwn ==
  ASSUME IInv, NEW c \in Classes, cache["GatewayClass"][c] # None
  PROVE  MayBeOwn(c)
<1>1. "GatewayClass" \in Kinds
  BY WorldAssumption
<1> QED
  BY <1>1 DEF IInv, Contents, Visible, MayBeOwn, Classes

LEMMA RelatedHavePlace ==
  ASSUME NEW s, Proper(s), NEW c, NEW v \in RelatedServices(s, c)
  PROVE  v \in DOMAIN Universe["Service"] /\ NsOf[v] \in Tenants
BY RelatedAreServices, ReferencesAssumption

LEMMA ParsedServices ==
  ASSUME NEW s, NEW vs, NEW v \in vs
  PROVE  Holds(s, ParseServices(s, vs), v)
BY DEF Holds, ParseServices, NoConfig

LEMMA SamePool ==
  ASSUME NEW s, NEW t, Proper(s), NEW kind, NEW k, Differs(s, t, kind, k),
         NEW v \in DOMAIN Universe["Service"], kind \notin {"Service", "Endpoints"} \/ v # k
  PROVE  Pool(t, v) = Pool(s, v)
<1>1. v \in DOMAIN Universe["Endpoints"]
  BY ReferencesAssumption
<1>2. s.Service[v] = t.Service[v] /\ s.Endpoints[v] = t.Endpoints[v]
  BY <1>1, WorldAssumption DEF Differs, Proper
<1> QED
  BY <1>2 DEF Pool

LEMMA EditKeepsPInv ==
  ASSUME IInv, PInv, NEW kind \in Kinds, NEW k \in DOMAIN Universe[kind],
         NEW obj \in Universe[kind][k], Edit(kind, k, obj)
  PROVE  PInv'
<1>1. UNCHANGED <<cache, worker, deployed>> /\ queue["GatewayClass"] \subseteq queue'["GatewayClass"]
  BY WorldAssumption DEF Edit, IInv, Shape
<1>2. ASSUME NEW c \in Classes, NEW v \in RelatedServices(cache', c)
      PROVE  Placed(c, v)' /\ \A j \in Kinds : Complete(cache, worker[j], c, v)'
  <2>1. Placed(c, v) /\ \A j \in Kinds : Complete(cache, worker[j], c, v)
    BY <1>1 DEF PInv
  <2> QED
    BY <1>1, <2>1 DEF Placed, Places
<1> QED
  BY <1>1, <1>2 DEF PInv

LEMMA TakeKeepsPInv ==
  ASSUME IInv, CInv, PInv, MaxBusy = 1, NEW kind \in Kinds, NEW k \in DOMAIN Universe[kind], Take(kind, k)
  PROVE  PInv'
<1> DEFINE u == [Idle EXCEPT !.pc = "impact", !.key = k, !.obj = api[kind][k]]
<1>1. /\ worker' = [worker EXCEPT ![kind] = u] /\ UNCHANGED <<cache, deployed>>
      /\ queue' = [queue EXCEPT ![kind] = @ \ {k}]
  BY DEF Take
<1>2. \A j \in Kinds : worker[j].pc = "idle"
  BY NoneBusy DEF Take
<1>3. u.pc = "impact" /\ u.key = k
  BY DEF Idle
<1> HIDE DEF u
<1>4. ASSUME NEW c \in Classes, NEW v \in RelatedServices(cache', c)
      PROVE  /\ \/ Pool(cache', v) \in deployed'[NsOf[v]].pools
                \/ c \in queue'["GatewayClass"]
                \/ Places(cache', kind, u, c, v)
             /\ Complete(cache', u, c, v)
  <2>1. Placed(c, v)
    BY <1>1 DEF PInv
  <2>2. Pool(cache, v) \in deployed[NsOf[v]].pools \/ c \in queue["GatewayClass"]
    BY <1>2, <2>1 DEF Placed, Places, Due
  <2>3. c \in queue["GatewayClass"] => c \in queue'["GatewayClass"] \/ Places(cache', kind, u, c, v)
    BY <1>1, <1>3, WorldAssumption DEF Places, Due, IInv, Shape
  <2>4. Complete(cache', u, c, v)
    BY <1>3 DEF Complete
  <2> QED
    BY <1>1, <2>2, <2>3, <2>4
<1> QED
  BY <1>1, <1>2, <1>3, <1>4, OneWorkerKeepsPInv

LEMMA ImpactKeepsPInv ==
  ASSUME IInv, CInv, PInv, ClassesKeepController, NEW kind \in Kinds, Impact(kind)
  PROVE  PInv'
<1> DEFINE w == worker[kind]
           cls == ImpactOf(kind, w.key, w.obj)
           u == [w EXCEPT !.pc = "store", !.todo = cls, !.classes = cls,
                          !.retry = Retries(kind, w.key, w.obj)]
<1>1. w.pc = "impact" /\ UNCHANGED <<cache, deployed, queue>>
  BY DEF Impact
<1>2. /\ \A j \in Kinds : j # kind => worker[j].pc = "idle"
      /\ \A c \in Classes : \A v \in RelatedServices(cache, c) :
           \/ Pool(cache, v) \in deployed[NsOf[v]].pools
           \/ c \in queue["GatewayClass"]
           \/ Places(cache, kind, w, c, v)
  BY <1>1, OnlyWorker, OnlyWorkerPlaces
<1>3. \A c \in Classes : \A v : Places(cache, kind, w, c, v) => kind = "GatewayClass" /\ w.key = c
  BY <1>1 DEF Places, Due
<1>4. CASE Ignored(kind, w.key, w.obj)
  <2>1. worker' = [worker EXCEPT ![kind] = Idle]
    BY <1>4 DEF Impact
  <2>2. cache["GatewayClass"][w.key] = None
    BY <1>1, <1>4, IgnoredIsNotCached
  <2>3. ASSUME NEW c \in Classes, NEW v \in RelatedServices(cache, c)
        PROVE  Pool(cache, v) \in deployed[NsOf[v]].pools \/ c \in queue["GatewayClass"]
    BY <1>2, <1>3, <2>2, OnlyCachedRefer
  <2> QED
    BY <1>1, <1>2, <2>1, <2>3, IdlePlacesNothing, OneWorkerKeepsPInv
<1>5. CASE ~Ignored(kind, w.key, w.obj)
  <2>1. worker' = [worker EXCEPT ![kind] = u]
    BY <1>5 DEF Impact
  <2>2. u.pc = "store" /\ u.classes = cls
    BY DEF IInv, Shape, Fields
  <2> HIDE DEF u
  <2>3. \A c \in Classes : \A v : Places(cache, kind, w, c, v) => Places(cache, kind, u, c, v)
    BY <1>3, <2>2 DEF Places, Due, ImpactOf
  <2>4. \A c, v : Complete(cache, u, c, v)
    BY <2>2 DEF Complete
  <2> QED
    BY <1>1, <1>2, <2>1, <2>2, <2>3, <2>4, OneWorkerKeepsPInv
<1> QED
  BY <1>4, <1>5

\* A new process deploys every class that is cached.
LEMMA PanicKeepsPInv ==
  ASSUME IInv, NEW kind \in Kinds, Panic(kind)
  PROVE  PInv'
<1>1. /\ cache' = Synced(api) /\ queue' = Everything(api) /\ worker' = [j \in Kinds |-> Idle]
  BY DEF Panic
<1>2. /\ DOMAIN api = Kinds /\ "GatewayClass" \in Kinds /\ DOMAIN api["GatewayClass"] = Classes
  BY WorldAssumption DEF IInv, Shape, Classes
<1>3. ASSUME NEW c \in Classes, NEW v \in RelatedServices(cache', c) PROVE c \in queue'["GatewayClass"]
  <2>1. cache'["GatewayClass"][c] # None
    BY OnlyCachedRefer
  <2>2. api["GatewayClass"][c] # None
    BY <1>1, <1>2, <2>1 DEF Synced, Visible
  <2> QED
    BY <1>1, <1>2, <2>2 DEF Everything, Cached
<1>4. \A j \in Kinds : worker'[j] = Idle
  BY <1>1
<1>5. \A j \in Kinds : \A c, v : Complete(cache', worker'[j], c, v)
  BY <1>4, IdlePlacesNothing
<1>6. \A j \in Kinds : worker'[j].pc # "parse"
  BY <1>4, IdlePlacesNothing
<1> QED
  BY <1>3, <1>5, <1>6 DEF PInv, Placed

LEMMA StoreKeepsPInv ==
  ASSUME IInv, IInv', CInv, PInv, Orderly, NEW kind \in Kinds, Store(kind)
  PROVE  PInv'
<1> DEFINE w == worker[kind]
           u1 == [w EXCEPT !.pc = "backends"]
           u2 == [w EXCEPT !.pc = "parse"]
           u == IF HasBackends(kind) THEN u1 ELSE IF w.classes = {} THEN Idle ELSE u2
<1>0. Proper(cache) /\ Proper(cache')
  BY CacheIsProper, IInv' DEF IInv, Shape, Contents, Proper
<1>1. /\ w.pc = "store" /\ UNCHANGED deployed /\ worker' = [worker EXCEPT ![kind] = u]
      /\ cache' = [cache EXCEPT ![kind][w.key] = Visible(kind, w.obj)]
      /\ queue["GatewayClass"] \subseteq queue'["GatewayClass"]
  BY WorldAssumption DEF Store, IInv, Shape
<1>2. /\ \A j \in Kinds : j # kind => worker[j].pc = "idle"
      /\ Working(kind, w)
      /\ \A c \in Classes : \A v \in RelatedServices(cache, c) :
           \/ Pool(cache, v) \in deployed[NsOf[v]].pools
           \/ c \in queue["GatewayClass"]
           \/ Places(cache, kind, w, c, v)
  BY <1>1, OnlyWorker, OnlyWorkerPlaces
<1>3. w.classes = ImpactOf(kind, w.key, w.obj) /\ DOMAIN w.as3 = {}
  BY <1>1, <1>2 DEF Working, Prepared
<1>4. HasBackends(kind) => w.classes = {}
  BY <1>3 DEF HasBackends, ImpactOf
<1>5. /\ u1.pc = "backends" /\ u1.classes = w.classes /\ u1.key = w.key
      /\ u2.pc = "parse" /\ u2.classes = w.classes /\ u2.as3 = w.as3
  BY DEF IInv, Shape, Fields
<1>6. Idle.pc = "idle" /\ Differs(cache, cache', kind, w.key)
  <2>1. /\ \A j \in Kinds : j # kind => cache'[j] = cache[j]
        /\ \A x \in DOMAIN Universe[kind] : x # w.key => cache'[kind][x] = cache[kind][x]
    BY <1>0, <1>1 DEF Proper
  <2> QED
    BY <1>0, <2>1, ProperDiffers DEF Idle
<1> HIDE DEF u1, u2
<1>7. (u.pc = "parse" => DOMAIN u.as3 \subseteq Classes) /\ u.pc # "add"
  BY <1>3, <1>5, <1>6
<1>8. ASSUME NEW c \in Classes, NEW v \in RelatedServices(cache', c)
      PROVE  \/ Pool(cache', v) \in deployed'[NsOf[v]].pools
             \/ c \in queue'["GatewayClass"]
             \/ Places(cache', kind, u, c, v)
  <2>1. v \in DOMAIN Universe["Service"]
    BY <1>0, RelatedHavePlace
  <2>2. CASE c \in w.classes
    BY <1>4, <1>5, <2>2 DEF Places, Due
  <2>3. CASE HasBackends(kind) /\ NsOf[v] = NsOf[w.key]
    BY <1>5, <2>3 DEF Places
  <2>4. CASE c \notin w.classes /\ ~(HasBackends(kind) /\ NsOf[v] = NsOf[w.key])
    <3>1. v # w.key \/ kind \notin {"Service", "Endpoints"}
      BY <2>4 DEF HasBackends
    <3>2. v \in RelatedServices(cache, c)
      <4>1. CASE kind = "Service"
        BY <1>0, <1>6, <2>1, <3>1, <4>1, OtherServices, WorldAssumption DEF Proper
      <4>2. CASE kind # "Service"
        BY <1>3, <2>4, <4>2, StoreFrame
      <4> QED
        BY <4>1, <4>2
    <3>3. Pool(cache', v) = Pool(cache, v)
      BY <1>0, <1>6, <2>1, <3>1, SamePool
    <3>4. ~Places(cache, kind, w, c, v)
      BY <1>1, <2>4 DEF Places, Due
    <3> QED
      BY <1>1, <1>2, <3>2, <3>3, <3>4
  <2> QED
    BY <2>2, <2>3, <2>4
<1>9. \A c, v : Complete(cache', u, c, v)
  BY <1>7 DEF Complete
<1> HIDE DEF u
<1> QED
  BY <1>1, <1>2, <1>7, <1>8, <1>9, OneWorkerKeepsPInv

LEMMA ParseClassKeepsPInv ==
  ASSUME IInv, CInv, PInv, EverythingParses, NEW kind \in Kinds, NEW c \in Classes, ParseClass(kind, c)
  PROVE  PInv'
<1> DEFINE w == worker[kind]
           new == [t \in {c} |-> ParseAllForClass(cache, c)]
           u == [w EXCEPT !.todo = @ \ {c}, !.as3 = Over(@, new)]
<1>1. w.pc = "parse" /\ Continue(kind, u)
  BY ClassesParse, CacheIsProper DEF ParseClass
<1>2. u.classes = w.classes /\ u.pc = "parse" /\ u.as3 = Over(w.as3, new)
  BY <1>1 DEF IInv, Shape, Fields
<1>3. worker' = [worker EXCEPT ![kind] = u] /\ UNCHANGED <<cache, queue, deployed>>
  BY <1>1 DEF Continue
<1> HIDE DEF u
<1>4. DOMAIN w.as3 \subseteq Classes
  BY <1>1, OnlyWorkerPlaces
<1>5. DOMAIN u.as3 \subseteq Classes
  BY <1>2, <1>4 DEF Over
<1>6. \A d, v : /\ Places(cache, kind, w, d, v) => Places(cache, kind, u, d, v)
                /\ Complete(cache, u, d, v)
  BY <1>1, <1>2 DEF Places, Due, Complete
<1> QED
  BY <1>1, <1>3, <1>5, <1>6, OnlyWorker, OnlyWorkerPlaces, OneWorkerKeepsPInv

\* The namespaces parsed with a class have all that this class refers to.
LEMMA ParseRelatedKeepsPInv ==
  ASSUME IInv, TInv, CInv, PInv, EverythingParses, NamesApart, OneClass,
         NEW kind \in Kinds, ParseRelated(kind)
  PROVE  PInv'
<1> DEFINE w == worker[kind]
           svcs == UNION {RelatedServices(cache, c) : c \in w.classes}
           more == ParseServices(cache, svcs)
           u == [w EXCEPT !.pc = "add", !.as3 = Over(@, more)]
<1>1. w.pc = "parse" /\ Continue(kind, u)
  BY CacheIsProper, RelatedAreServices, ServicesParse DEF ParseRelated
<1>2. u.classes = w.classes /\ u.pc = "add" /\ u.as3 = Over(w.as3, more)
  BY <1>1 DEF IInv, Shape, Fields
<1>3. worker' = [worker EXCEPT ![kind] = u] /\ UNCHANGED <<cache, queue, deployed>>
  BY <1>1 DEF Continue
<1> HIDE DEF u
<1>4. DOMAIN w.as3 \subseteq Classes /\ w.classes \subseteq Classes
  BY <1>1, OnlyWorkerPlaces DEF TInv, Fine
<1>5. ASSUME NEW v \in svcs PROVE Holds(cache, u.as3, v)
  <2>1. Holds(cache, more, v)
    BY ParsedServices
  <2> HIDE DEF more
  <2> QED
    BY <1>2, <2>1 DEF Holds, Over
<1>6. ASSUME NEW c \in Classes, NEW v \in RelatedServices(cache, c)
      PROVE  Complete(cache, u, c, v)
  <2>1. CASE c \in w.classes
    BY <1>5, <2>1 DEF Complete
  <2>2. CASE c \notin w.classes /\ NsOf[v] \in DOMAIN u.as3
    <3>1. NsOf[v] \notin Classes
      BY RelatedAreApart
    <3>2. NsOf[v] \in DOMAIN more
      BY <1>2, <1>4, <2>2, <3>1 DEF Over
    <3>3. PICK d \in w.classes : RelatedServices(cache, d) # {}
      BY <3>2 DEF ParseServices
    <3>4. cache["GatewayClass"][c] # None /\ cache["GatewayClass"][d] # None
      BY <3>3, OnlyCachedRefer
    <3>5. c = d
      BY <1>4, <3>4, CachedMayBeOwn DEF OneClass
    <3> QED
      BY <2>2, <3>5
  <2>3. CASE c \notin w.classes /\ NsOf[v] \notin DOMAIN u.as3
    BY <1>2, <2>3 DEF Complete
  <2> QED
    BY <2>1, <2>2, <2>3
<1>7. \A c, v : Places(cache, kind, w, c, v) => Places(cache, kind, u, c, v)
  BY <1>1, <1>2 DEF Places, Due
<1> HIDE DEF w, svcs, more
<1>8. /\ \A j \in Kinds : j # kind => worker[j].pc = "idle"
      /\ \A c \in Classes : \A v \in RelatedServices(cache, c) :
           \/ Pool(cache, v) \in deployed[NsOf[v]].pools
           \/ c \in queue["GatewayClass"]
           \/ Places(cache, kind, w, c, v)
  BY <1>1, OnlyWorker, OnlyWorkerPlaces DEF w
<1> QED
  BY <1>2, <1>3, <1>6, <1>7, <1>8, OneWorkerKeepsPInv

\* The backends of a namespace are all that any class refers to there.
LEMMA HandleBackendsKeepsPInv ==
  ASSUME IInv, CInv, PInv, EverythingParses, NEW kind \in Kinds, HandleBackends(kind)
  PROVE  PInv'
<1> DEFINE w == worker[kind]
           ns == NsOf[w.key]
           svcs == BackendsOf(cache, ns)
           more == IF svcs = {} THEN [t \in {ns} |-> NoConfig] ELSE ParseServices(cache, svcs)
           u == [w EXCEPT !.pc = "add", !.as3 = more]
<1>1. w.pc = "backends" /\ Continue(kind, u)
  BY CacheIsProper, BackendsAreServices, ServicesParse DEF HandleBackends
<1>2. u.classes = {} /\ u.pc = "add" /\ u.as3 = more
  BY <1>1, OnlyWorker DEF IInv, Shape, Fields, Working, Prepared
<1>3. worker' = [worker EXCEPT ![kind] = u] /\ UNCHANGED <<cache, queue, deployed>>
  BY <1>1 DEF Continue
<1> HIDE DEF u
<1>4. DOMAIN more \subseteq {ns}
  <2>1. \A v \in svcs : NsOf[v] = ns
    BY DEF BackendsOf
  <2> QED
    BY <2>1 DEF ParseServices
<1>5. ASSUME NEW c \in Classes, NEW v \in RelatedServices(cache, c), NsOf[v] = ns
      PROVE  Holds(cache, u.as3, v)
  <2>1. v \in svcs
    BY <1>5, CacheIsProper, ProperIsScoped, RelatedAreBackends
  <2> QED
    BY <1>2, <2>1, ParsedServices
<1> HIDE DEF more
<1>6. ASSUME NEW c \in Classes, NEW v \in RelatedServices(cache, c)
      PROVE  Complete(cache, u, c, v)
  BY <1>2, <1>4, <1>5 DEF Complete
<1>7. ASSUME NEW c \in Classes, NEW v \in RelatedServices(cache, c), Places(cache, kind, w, c, v)
      PROVE  Places(cache, kind, u, c, v)
  BY <1>1, <1>2, <1>5, <1>7 DEF Places, Due
<1>8. /\ \A j \in Kinds : j # kind => worker[j].pc = "idle"
      /\ \A c \in Classes : \A v \in RelatedServices(cache, c) :
           \/ Pool(cache, v) \in deployed[NsOf[v]].pools
           \/ c \in queue["GatewayClass"]
           \/ Places(cache, kind, w, c, v)
  BY <1>1, OnlyWorker, OnlyWorkerPlaces
<1> QED
  BY <1>2, <1>3, <1>6, <1>7, <1>8, OneWorkerKeepsPInv

LEMMA AddKeepsPInv ==
  ASSUME IInv, CInv, PInv, NEW kind \in Kinds, Add(kind)
  PROVE  PInv'
<1> DEFINE w == worker[kind]
<1>1. w.pc = "add" /\ worker' = [worker EXCEPT ![kind] = Idle] /\ UNCHANGED <<cache, queue>>
  BY DEF Add
<1>2. /\ \A j \in Kinds : j # kind => worker[j].pc = "idle"
      /\ \A c \in Classes : \A v \in RelatedServices(cache, c) :
           /\ \/ Pool(cache, v) \in deployed[NsOf[v]].pools
              \/ c \in queue["GatewayClass"]
              \/ Places(cache, kind, w, c, v)
           /\ Complete(cache, w, c, v)
  BY <1>1, OnlyWorker, OnlyWorkerPlaces
<1>3. ASSUME NEW c \in Classes, NEW v \in RelatedServices(cache', c)
      PROVE  Pool(cache', v) \in deployed'[NsOf[v]].pools \/ c \in queue'["GatewayClass"]
  <2>1. NsOf[v] \in Tenants
    BY <1>1, CacheIsProper, RelatedHavePlace
  <2>2. deployed'[NsOf[v]] = IF NsOf[v] \in DOMAIN w.as3 THEN w.as3[NsOf[v]] ELSE deployed[NsOf[v]]
    BY <2>1 DEF Add
  <2>3. CASE c \in w.classes \/ NsOf[v] \in DOMAIN w.as3
    BY <1>1, <1>2, <2>2, <2>3 DEF Complete, Holds
  <2>4. CASE c \notin w.classes /\ NsOf[v] \notin DOMAIN w.as3
    <3>1. ~Places(cache, kind, w, c, v)
      BY <1>1, <2>4 DEF Places, Due, Holds
    <3> QED
      BY <1>1, <1>2, <2>2, <2>4, <3>1
  <2> QED
    BY <2>3, <2>4
<1> QED
  BY <1>1, <1>2, <1>3, IdlePlacesNothing, OneWorkerKeepsPInv

LEMMA NextPInv ==
  ASSUME IInv, TInv, CInv, PInv, Orderly, OneClass, MaxBusy = 1, [Next]_vars
  PROVE  PInv'
<1>1. EverythingParses /\ NamesApart /\ ClassesKeepController /\ IInv'
  BY NextIInv DEF Orderly
<1>2. CASE UNCHANGED vars
  BY <1>2 DEF vars, PInv, Placed, Places, Complete
<1> QED
  BY <1>1, <1>2, EditKeepsPInv, TakeKeepsPInv, ImpactKeepsPInv, PanicKeepsPInv, StoreKeepsPInv,
     ParseClassKeepsPInv, ParseRelatedKeepsPInv, HandleBackendsKeepsPInv, AddKeepsPInv
  DEF Next, Work

LEMMA InitPInv ==
  ASSUME Init
  PROVE  PInv
<1>1. \A kind \in Kinds : worker[kind] = Idle
  BY DEF Init
<1>2. ASSUME NEW c \in Classes, NEW v \in RelatedServices(cache, c) PROVE c \in queue["GatewayClass"]
  <2>1. cache["GatewayClass"][c] # None
    BY OnlyCachedRefer
  <2> QED
    BY <2>1, WorldAssumption DEF Init, Synced, Everything, Cached, Visible, Classes
<1> QED
  BY <1>1, <1>2, IdlePlacesNothing DEF PInv, Placed

\* Once all events are handled, every service that a class refers to has its
\* pool, with its members, in the partition of its namespace: a handler that
\* declares a namespace declares all that is referred to there.
THEOREM PoolsAreInPlace ==
  ASSUME Orderly, OneClass, MaxBusy = 1
  PROVE  Spec => []PoolsInPlace
<1>1. Init => IInv /\ TInv /\ CInv /\ PInv
  <2>1. Init => TInv
    BY WorldAssumption, IdleIsFine DEF Init, TInv, Everything, Cached
  <2> QED
    BY <2>1, InitIInv, InitCInv, InitPInv
<1>2. IInv /\ TInv /\ CInv /\ PInv /\ [Next]_vars => IInv' /\ TInv' /\ CInv' /\ PInv'
  BY NextIInv, NextTInv, NextCInv, NextPInv DEF Orderly
<1>3. PInv => PoolsInPlace
  BY WorldAssumption DEF PInv, Placed, Places, Due, PoolsInPlace, Quiet
<1> QED
  BY <1>1, <1>2, <1>3, PTL DEF Spec

=============================================================================
