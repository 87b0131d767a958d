--------------------------- MODULE SIGCacheProofs ---------------------------
(***************************************************************************)
(* What a change of one cached object leaves as it was, for any two caches: *)
(* the configuration of every class that the change does not concern, and   *)
(* the services it refers to.  The proofs about the reconcilers and about   *)
(* the start-up rest on these lemmas.                                       *)
(***************************************************************************)
EXTENDS SIGCache, TLAPS

\* The kinds from which the configuration of a class follows.
Configuring ==
  {"GatewayClass", "Namespace", "Gateway", "HTTPRoute", "Service", "Secret", "ReferenceGrant"}

\* t is s but for one object.
Differs(s, t, kind, k) ==
  /\ Configuring \subseteq DOMAIN s
  /\ \A j \in DOMAIN s :
       /\ DOMAIN t[j] = DOMAIN s[j]
       /\ j # kind => t[j] = s[j]
       /\ \A x \in DOMAIN s[j] : x # k => t[j][x] = s[j][x]

\* What the cached objects refer to has a place in the cache.
Scoped(s) ==
  /\ \A r \in Cached(s.HTTPRoute) :
       /\ NsOf[r] \in DOMAIN s.Namespace
       /\ s.HTTPRoute[r].backends \cup s.HTTPRoute[r].extensions \subseteq DOMAIN s.Service
  /\ \A g \in Cached(s.Gateway) : \A l \in DOMAIN s.Gateway[g].listeners :
       Certs(s.Gateway[g].listeners[l]) \subseteq DOMAIN s.Secret

\* The route r is bound to the listener l of the Gateway g.
Joins(s, r, g, l) ==
  /\ r \in Cached(s.HTTPRoute)
  /\ \E pr \in s.HTTPRoute[r].parents : pr.gw = g /\ pr.section = l /\ ParentMatches(s, r, pr)

\* The Gateways of the class, their certificates and their routes are the same.
SameClass(s, t, c) ==
  /\ s.GatewayClass[c] = t.GatewayClass[c]
  /\ AttachedGateways(s, c) = AttachedGateways(t, c)
  /\ \A g \in AttachedGateways(s, c) :
       /\ s.Gateway[g] = t.Gateway[g]
       /\ \A l \in DOMAIN s.Gateway[g].listeners : \A x \in Certs(s.Gateway[g].listeners[l]) :
            s.Secret[x] = t.Secret[x]
       /\ \A r, l : Joins(s, r, g, l) <=> Joins(t, r, g, l)
       /\ \A r \in AttachedHTTPRoutes(s, g) : s.HTTPRoute[r] = t.HTTPRoute[r]

SamePools(s, t, c) ==
  \A g \in AttachedGateways(s, c) : \A r \in AttachedHTTPRoutes(s, g) :
    PoolsOf(s, r) = PoolsOf(t, r)

SameServices(s, t, c) ==
  \A g \in AttachedGateways(s, c) : \A r \in AttachedHTTPRoutes(s, g) :
    AttachedServices(s, r) = AttachedServices(t, r)

LEMMA AttachedJoin ==
  ASSUME NEW s, NEW g, NEW r
  PROVE  r \in AttachedHTTPRoutes(s, g) <=> \E l : Joins(s, r, g, l)
BY DEF AttachedHTTPRoutes, Joins

LEMMA SameRoutes ==
  ASSUME NEW s, NEW t, NEW c, SameClass(s, t, c), NEW g \in AttachedGateways(s, c)
  PROVE  AttachedHTTPRoutes(t, g) = AttachedHTTPRoutes(s, g)
<1>1. \A r : r \in AttachedHTTPRoutes(t, g) <=> r \in AttachedHTTPRoutes(s, g)
  BY AttachedJoin DEF SameClass
<1> QED
  BY <1>1

LEMMA SameVirtual ==
  ASSUME NEW s, NEW t, NEW c, SameClass(s, t, c), NEW g \in AttachedGateways(s, c),
         NEW l \in DOMAIN s.Gateway[g].listeners, NEW a
  PROVE  Virtual(t, g, l, a) = Virtual(s, g, l, a)
<1>1. s.Gateway[g] = t.Gateway[g]
  BY DEF SameClass
<1>2. {t.Secret[x] : x \in Certs(t.Gateway[g].listeners[l])}
        = {s.Secret[x] : x \in Certs(s.Gateway[g].listeners[l])}
  BY <1>1 DEF SameClass
<1> DEFINE R(u) == {r \in Cached(u.HTTPRoute) :
                 \E pr \in u.HTTPRoute[r].parents :
                    pr.gw = g /\ pr.section = l /\ ParentMatches(u, r, pr)}
<1>3. \A u, r : r \in R(u) <=> Joins(u, r, g, l)
  BY DEF Joins
<1>4. \A r : Joins(s, r, g, l) <=> Joins(t, r, g, l)
  BY DEF SameClass
<1> HIDE DEF R
<1>5. R(t) = R(s)
  BY <1>3, <1>4
<1> QED
  BY <1>1, <1>2, <1>5 DEF Virtual, R

\* The configuration of a class follows from what SameClass and SamePools compare.
LEMMA SameParse ==
  ASSUME NEW s, NEW t, NEW c, SameClass(s, t, c), SamePools(s, t, c)
  PROVE  ParseAllForClass(t, c) = ParseAllForClass(s, c)
<1> DEFINE gws == AttachedGateways(s, c)
           Virtuals(u, g) == {Virtual(u, g, l, a) : l \in DOMAIN u.Gateway[g].listeners,
                                                    a \in u.Gateway[g].addresses}
           V(u) == UNION {Virtuals(u, g) : g \in gws}
           R(u) == {Rule(u, r) : r \in UNION {AttachedHTTPRoutes(u, g) : g \in gws}}
<1>1. s.GatewayClass[c] = t.GatewayClass[c] /\ AttachedGateways(t, c) = gws
  BY DEF SameClass
<1>2. ASSUME NEW g \in gws
      PROVE  Virtuals(t, g) = Virtuals(s, g)
  <2>1. s.Gateway[g] = t.Gateway[g]
    BY DEF SameClass
  <2> QED
    BY <2>1, SameVirtual
<1>3. V(t) = V(s)
  BY <1>2
<1>4. UNION {AttachedHTTPRoutes(t, g) : g \in gws} = UNION {AttachedHTTPRoutes(s, g) : g \in gws}
  BY SameRoutes
<1>5. \A r \in UNION {AttachedHTTPRoutes(s, g) : g \in gws} : Rule(t, r) = Rule(s, r)
  BY DEF Rule, SameClass, SamePools
<1>6. R(t) = R(s)
  BY <1>4, <1>5
<1>7. \A u : AttachedGateways(u, c) = gws =>
        ParseAllForClass(u, c) = IF u.GatewayClass[c] = None THEN NoConfig
                                 ELSE [NoConfig EXCEPT !.virtuals = V(u), !.rules = R(u)]
  BY DEF ParseAllForClass
<1> HIDE DEF V, R
<1>8. AttachedGateways(s, c) = gws
  OBVIOUS
<1> HIDE DEF gws
<1> QED
  BY <1>1, <1>3, <1>6, <1>7, <1>8

LEMMA SameRelated ==
  ASSUME NEW s, NEW t, NEW c, SameClass(s, t, c), SameServices(s, t, c)
  PROVE  RelatedServices(t, c) = RelatedServices(s, c)
<1> DEFINE gws == AttachedGateways(s, c)
           R(u) == UNION {AttachedHTTPRoutes(u, g) : g \in gws}
<1>1. s.GatewayClass[c] = t.GatewayClass[c] /\ AttachedGateways(t, c) = gws
  BY DEF SameClass
<1>2. R(t) = R(s)
  BY SameRoutes
<1>3. \A r \in R(s) : AttachedServices(t, r) = AttachedServices(s, r)
  BY DEF SameServices
<1>4. UNION {AttachedServices(t, r) : r \in R(t)} = UNION {AttachedServices(s, r) : r \in R(s)}
  BY <1>2, <1>3
<1> QED
  BY <1>1, <1>4 DEF RelatedServices

LEMMA SameMatch ==
  ASSUME NEW s, NEW t, NEW r, NEW pr, s.Gateway[pr.gw] = t.Gateway[pr.gw],
         s.Namespace[NsOf[r]] = t.Namespace[NsOf[r]]
  PROVE  ParentMatches(s, r, pr) <=> ParentMatches(t, r, pr)
BY DEF ParentMatches, RouteMatches, AdmitsNamespace

\* The Gateways that are neither old nor new: all that is compared but routes.
LEMMA SameGateways ==
  ASSUME NEW s, NEW t, NEW c, s.Gateway = t.Gateway
  PROVE  AttachedGateways(s, c) = AttachedGateways(t, c)
BY DEF AttachedGateways, Cached

LEMMA SameRefs ==
  ASSUME NEW s, NEW t, s.ReferenceGrant = t.ReferenceGrant, NEW r, NEW v
  PROVE  CanRefer(s, "HTTPRoute", r, "Service", v) <=> CanRefer(t, "HTTPRoute", r, "Service", v)
BY DEF CanRefer, Cached

---------------------------------------------------------------------------
Same(s, t, c) == SameClass(s, t, c) /\ SamePools(s, t, c) /\ SameServices(s, t, c)

\* Nothing a class refers to by name has changed, so neither have its pools.
LEMMA SameUnlessRefs ==
  ASSUME NEW s, NEW t, NEW c, SameClass(s, t, c), s.Service = t.Service,
         s.ReferenceGrant = t.ReferenceGrant
  PROVE  Same(s, t, c)
<1>1. \A r, v : CanRefer(s, "HTTPRoute", r, "Service", v) <=> CanRefer(t, "HTTPRoute", r, "Service", v)
  BY SameRefs
<1>2. \A g \in AttachedGateways(s, c) : \A r \in AttachedHTTPRoutes(s, g) :
        s.HTTPRoute[r] = t.HTTPRoute[r]
  BY DEF SameClass
<1> QED
  BY <1>1, <1>2 DEF Same, SamePools, SameServices, PoolsOf, AttachedServices

---------------------------------------------------------------------------
(* One lemma per kind.                                                     *)

\* What no configuration follows from, or a class and another one.
LEMMA ClassFrame ==
  ASSUME NEW s, NEW t, NEW kind, NEW k, Differs(s, t, kind, k),
         kind \notin Configuring \ {"GatewayClass"},
         NEW c, kind = "GatewayClass" => c # k /\ c \in DOMAIN s.GatewayClass
  PROVE  Same(s, t, c)
<1>1. /\ s.Gateway = t.Gateway /\ s.HTTPRoute = t.HTTPRoute /\ s.Secret = t.Secret
      /\ s.Namespace = t.Namespace /\ s.Service = t.Service /\ s.ReferenceGrant = t.ReferenceGrant
      /\ s.GatewayClass[c] = t.GatewayClass[c]
  BY DEF Differs, Configuring
<1>2. \A r, g, l : Joins(s, r, g, l) <=> Joins(t, r, g, l)
  BY <1>1, SameMatch DEF Joins
<1>3. SameClass(s, t, c)
  BY <1>1, <1>2, SameGateways DEF SameClass
<1> QED
  BY <1>1, <1>3, SameUnlessRefs

\* A Gateway that the class has neither before nor after.
LEMMA GatewayFrame ==
  ASSUME NEW s, NEW t, NEW k, Differs(s, t, "Gateway", k), NEW c,
         k \notin AttachedGateways(s, c) \cup AttachedGateways(t, c)
  PROVE  Same(s, t, c)
<1>1. /\ s.HTTPRoute = t.HTTPRoute /\ s.Secret = t.Secret /\ s.GatewayClass = t.GatewayClass
      /\ s.Namespace = t.Namespace /\ s.Service = t.Service /\ s.ReferenceGrant = t.ReferenceGrant
      /\ DOMAIN t.Gateway = DOMAIN s.Gateway
      /\ \A x \in DOMAIN s.Gateway : x # k => s.Gateway[x] = t.Gateway[x]
  BY DEF Differs, Configuring
<1>2. \A g : g \in AttachedGateways(s, c) <=> g \in AttachedGateways(t, c)
  BY <1>1 DEF AttachedGateways, Cached
<1>3. ASSUME NEW g \in AttachedGateways(s, c), NEW r, NEW l
      PROVE  s.Gateway[g] = t.Gateway[g] /\ (Joins(s, r, g, l) <=> Joins(t, r, g, l))
  <2>1. s.Gateway[g] = t.Gateway[g]
    BY <1>1 DEF AttachedGateways, Cached
  <2> QED
    BY <1>1, <2>1, SameMatch DEF Joins
<1>4. SameClass(s, t, c)
  BY <1>1, <1>2, <1>3 DEF SameClass
<1> QED
  BY <1>1, <1>4, SameUnlessRefs

\* A route that leaves, keeps and joins Gateways of other classes only.
LEMMA RouteFrame ==
  ASSUME NEW s, NEW t, NEW k, Differs(s, t, "HTTPRoute", k), NEW c,
         c \notin ClassNamesOf(s, GatewayRefsOfHR(s, k, s.HTTPRoute[k])
                                    \cup GatewayRefsOfHR(s, k, t.HTTPRoute[k]))
  PROVE  Same(s, t, c)
<1>1. /\ s.Gateway = t.Gateway /\ s.Secret = t.Secret /\ s.GatewayClass = t.GatewayClass
      /\ s.Namespace = t.Namespace /\ s.Service = t.Service /\ s.ReferenceGrant = t.ReferenceGrant
      /\ DOMAIN t.HTTPRoute = DOMAIN s.HTTPRoute
      /\ \A x \in DOMAIN s.HTTPRoute : x # k => s.HTTPRoute[x] = t.HTTPRoute[x]
  BY DEF Differs, Configuring
<1>2. ASSUME NEW g \in AttachedGateways(s, c), NEW r, NEW l
      PROVE  /\ Joins(s, r, g, l) <=> Joins(t, r, g, l)
             /\ Joins(s, r, g, l) => r # k
  <2>1. s.Gateway[g].class = c
    BY DEF AttachedGateways
  <2>2. g \notin GatewayRefsOfHR(s, k, s.HTTPRoute[k]) /\ g \notin GatewayRefsOfHR(s, k, t.HTTPRoute[k])
    BY <2>1 DEF ClassNamesOf
  <2>3. \A pr : ParentMatches(s, r, pr) <=> ParentMatches(t, r, pr)
    BY <1>1, SameMatch
  <2>4. CASE r = k
    <3>1. ~Joins(s, k, g, l)
      BY <2>2 DEF Joins, GatewayRefsOfHR, Cached
    <3>2. ~Joins(t, k, g, l)
      BY <2>2, <2>3, <2>4 DEF Joins, GatewayRefsOfHR, Cached
    <3> QED
      BY <2>4, <3>1, <3>2
  <2>5. CASE r # k
    BY <1>1, <2>3, <2>5 DEF Joins, Cached
  <2> QED
    BY <2>4, <2>5
<1>3. ASSUME NEW g \in AttachedGateways(s, c), NEW r \in AttachedHTTPRoutes(s, g)
      PROVE  s.HTTPRoute[r] = t.HTTPRoute[r]
  <2>1. r # k
    BY <1>2, AttachedJoin
  <2> QED
    BY <1>1, <2>1 DEF AttachedHTTPRoutes, Cached
<1>4. SameClass(s, t, c)
  BY <1>1, <1>2, <1>3, SameGateways DEF SameClass
<1> QED
  BY <1>1, <1>4, SameUnlessRefs

\* A certificate that only Gateways of other classes use.
LEMMA SecretFrame ==
  ASSUME NEW s, NEW t, Scoped(s), NEW k, Differs(s, t, "Secret", k), NEW c,
         c \notin ClassNamesOf(s, GatewayRefsOfSecret(s, k))
  PROVE  Same(s, t, c)
<1>1. /\ s.Gateway = t.Gateway /\ s.HTTPRoute = t.HTTPRoute /\ s.GatewayClass = t.GatewayClass
      /\ s.Namespace = t.Namespace /\ s.Service = t.Service /\ s.ReferenceGrant = t.ReferenceGrant
      /\ \A x \in DOMAIN s.Secret : x # k => s.Secret[x] = t.Secret[x]
  BY DEF Differs, Configuring
<1>2. \A r, g, l : Joins(s, r, g, l) <=> Joins(t, r, g, l)
  BY <1>1, SameMatch DEF Joins
<1>3. ASSUME NEW g \in AttachedGateways(s, c), NEW l \in DOMAIN s.Gateway[g].listeners,
             NEW x \in Certs(s.Gateway[g].listeners[l])
      PROVE  s.Secret[x] = t.Secret[x]
  <2>1. g \in Cached(s.Gateway) /\ s.Gateway[g].class = c
    BY DEF AttachedGateways
  <2>2. x \in DOMAIN s.Secret
    BY <2>1 DEF Scoped
  <2>3. x # k
    BY <2>1 DEF ClassNamesOf, GatewayRefsOfSecret, UsesSecret
  <2> QED
    BY <1>1, <2>2, <2>3
<1>4. SameClass(s, t, c)
  BY <1>1, <1>2, <1>3, SameGateways DEF SameClass
<1> QED
  BY <1>1, <1>4, SameUnlessRefs

\* A namespace whose routes name only Gateways of other classes, or that is
\* stored as it is.
LEMMA NamespaceFrame ==
  ASSUME NEW s, NEW t, Scoped(s), NEW k, Differs(s, t, "Namespace", k), NEW c,
         c \notin NSImpactedGatewayClasses(s, k) \/ s.Namespace[k] = t.Namespace[k]
  PROVE  Same(s, t, c)
<1>1. /\ s.Gateway = t.Gateway /\ s.HTTPRoute = t.HTTPRoute /\ s.GatewayClass = t.GatewayClass
      /\ s.Secret = t.Secret /\ s.Service = t.Service /\ s.ReferenceGrant = t.ReferenceGrant
      /\ \A x \in DOMAIN s.Namespace : x # k => s.Namespace[x] = t.Namespace[x]
  BY DEF Differs, Configuring
<1>2. ASSUME NEW g \in AttachedGateways(s, c), NEW r, NEW l
      PROVE  Joins(s, r, g, l) <=> Joins(t, r, g, l)
  <2>1. g \in Cached(s.Gateway) /\ s.Gateway[g].class = c
    BY DEF AttachedGateways
  <2>2. CASE r \notin Cached(s.HTTPRoute)
    BY <1>1, <2>2 DEF Joins
  <2>3. CASE r \in Cached(s.HTTPRoute) /\ ~\E pr \in s.HTTPRoute[r].parents : pr.gw = g
    BY <1>1, <2>3 DEF Joins
  <2>4. CASE r \in Cached(s.HTTPRoute) /\ \E pr \in s.HTTPRoute[r].parents : pr.gw = g
    <3>1. NsOf[r] # k \/ s.Namespace[k] = t.Namespace[k]
      BY <2>1, <2>4 DEF NSImpactedGatewayClasses, ClassNamesOf
    <3>2. s.Namespace[NsOf[r]] = t.Namespace[NsOf[r]]
      BY <1>1, <2>4, <3>1 DEF Scoped
    <3> QED
      BY <1>1, <3>2, SameMatch DEF Joins
  <2> QED
    BY <2>2, <2>3, <2>4
<1>3. SameClass(s, t, c)
  BY <1>1, <1>2, SameGateways DEF SameClass
<1> QED
  BY <1>1, <1>3, SameUnlessRefs

\* A grant that permits nothing, before or after, to routes of the class.
LEMMA GrantFrame ==
  ASSUME NEW s, NEW t, NEW k, Differs(s, t, "ReferenceGrant", k), NEW c,
         c \notin RGImpactedGatewayClasses(s, s.ReferenceGrant[k]),
         c \notin RGImpactedGatewayClasses(s, t.ReferenceGrant[k])
  PROVE  Same(s, t, c)
<1>1. /\ s.Gateway = t.Gateway /\ s.HTTPRoute = t.HTTPRoute /\ s.GatewayClass = t.GatewayClass
      /\ s.Secret = t.Secret /\ s.Service = t.Service /\ s.Namespace = t.Namespace
      /\ DOMAIN t.ReferenceGrant = DOMAIN s.ReferenceGrant
      /\ \A x \in DOMAIN s.ReferenceGrant : x # k => s.ReferenceGrant[x] = t.ReferenceGrant[x]
  BY DEF Differs, Configuring
<1>2. \A r, g, l : Joins(s, r, g, l) <=> Joins(t, r, g, l)
  BY <1>1, SameMatch DEF Joins
<1>3. SameClass(s, t, c)
  BY <1>1, <1>2, SameGateways DEF SameClass
<1>4. ASSUME NEW g \in AttachedGateways(s, c), NEW r \in AttachedHTTPRoutes(s, g), NEW v
      PROVE  CanRefer(s, "HTTPRoute", r, "Service", v) <=> CanRefer(t, "HTTPRoute", r, "Service", v)
  <2>1. s.Gateway[g].class = c
    BY DEF AttachedGateways
  <2>2. r \in Cached(s.HTTPRoute) /\ g \in GatewayRefsOfHR(s, r, s.HTTPRoute[r])
    BY DEF AttachedHTTPRoutes, GatewayRefsOfHR, Cached
  <2>3. \A rg : c \notin RGImpactedGatewayClasses(s, rg) => r \notin RGImpactedHTTPRoutes(s, rg)
    BY <2>1, <2>2 DEF RGImpactedGatewayClasses, ClassNamesOf
  <2>4. ASSUME NEW u \in {s, t}, k \in Cached(u.ReferenceGrant)
        PROVE  <<"HTTPRoute", NsOf[r]>> \notin u.ReferenceGrant[k].from
    BY <2>2, <2>3, <2>4 DEF RGImpactedHTTPRoutes, Cached
  <2>5. \A x : x # k => /\ x \in Cached(s.ReferenceGrant) <=> x \in Cached(t.ReferenceGrant)
                        /\ x \in Cached(s.ReferenceGrant) => s.ReferenceGrant[x] = t.ReferenceGrant[x]
    BY <1>1 DEF Cached
  <2> QED
    BY <2>4, <2>5 DEF CanRefer
<1>5. \A g \in AttachedGateways(s, c) : \A r \in AttachedHTTPRoutes(s, g) :
        PoolsOf(s, r) = PoolsOf(t, r) /\ AttachedServices(s, r) = AttachedServices(t, r)
  BY <1>1, <1>4 DEF PoolsOf, AttachedServices
<1> QED
  BY <1>3, <1>5 DEF Same, SamePools, SameServices

\* A service that does not come or go, or that all routes naming it may refer
\* to: these list it in their rules all the time.  What the class refers to
\* may change.
LEMMA ServiceFrame ==
  ASSUME NEW s, NEW t, Scoped(s), NEW k, Differs(s, t, "Service", k), NEW c,
         \A r \in Cached(s.HTTPRoute) : k \in s.HTTPRoute[r].backends =>
           \/ s.Service[k] = None <=> t.Service[k] = None
           \/ CanRefer(s, "HTTPRoute", r, "Service", k)
  PROVE  SameClass(s, t, c) /\ SamePools(s, t, c)
<1>1. /\ s.Gateway = t.Gateway /\ s.HTTPRoute = t.HTTPRoute /\ s.GatewayClass = t.GatewayClass
      /\ s.Secret = t.Secret /\ s.ReferenceGrant = t.ReferenceGrant /\ s.Namespace = t.Namespace
      /\ \A x \in DOMAIN s.Service : x # k => s.Service[x] = t.Service[x]
  BY DEF Differs, Configuring
<1>2. \A r, g, l : Joins(s, r, g, l) <=> Joins(t, r, g, l)
  BY <1>1, SameMatch DEF Joins
<1>3. SameClass(s, t, c)
  BY <1>1, <1>2, SameGateways DEF SameClass
<1>4. ASSUME NEW g \in AttachedGateways(s, c), NEW r \in AttachedHTTPRoutes(s, g)
      PROVE  PoolsOf(s, r) = PoolsOf(t, r)
  <2>1. r \in Cached(s.HTTPRoute)
    BY DEF AttachedHTTPRoutes
  <2>2. ASSUME NEW v \in s.HTTPRoute[r].backends
        PROVE  s.Service[v] = None \/ CanRefer(s, "HTTPRoute", r, "Service", v)
                 <=> t.Service[v] = None \/ CanRefer(t, "HTTPRoute", r, "Service", v)
    <3>1. CanRefer(s, "HTTPRoute", r, "Service", v) <=> CanRefer(t, "HTTPRoute", r, "Service", v)
      BY <1>1, SameRefs
    <3>2. CASE v = k
      BY <2>1, <3>1, <3>2
    <3>3. CASE v # k
      BY <1>1, <2>1, <3>1, <3>3 DEF Scoped
    <3> QED
      BY <3>2, <3>3
  <2> QED
    BY <1>1, <2>2 DEF PoolsOf
<1> QED
  BY <1>3, <1>4 DEF SamePools

\* A service that is stored changes what is referred to by its own name only.
LEMMA OtherServices ==
  ASSUME NEW s, NEW t, NEW k, Differs(s, t, "Service", k), NEW c,
         NEW v \in RelatedServices(t, c), v # k, v \in DOMAIN s.Service
  PROVE  v \in RelatedServices(s, c)
<1>1. /\ s.Gateway = t.Gateway /\ s.HTTPRoute = t.HTTPRoute /\ s.GatewayClass = t.GatewayClass
      /\ s.Namespace = t.Namespace /\ s.ReferenceGrant = t.ReferenceGrant
      /\ s.Service[v] = t.Service[v]
  BY DEF Differs, Configuring
<1>2. \A g : AttachedHTTPRoutes(s, g) = AttachedHTTPRoutes(t, g)
  BY <1>1, SameMatch DEF AttachedHTTPRoutes
<1>3. AttachedGateways(s, c) = AttachedGateways(t, c)
  BY <1>1, SameGateways
<1>4. \A r : v \in AttachedServices(t, r) => v \in AttachedServices(s, r)
  BY <1>1, SameRefs DEF AttachedServices
<1> QED
  BY <1>1, <1>2, <1>3, <1>4 DEF RelatedServices

---------------------------------------------------------------------------
(* What a class refers to.                                                 *)

LEMMA RelatedAreScoped ==
  ASSUME NEW s, Scoped(s), NEW c
  PROVE  RelatedServices(s, c) \subseteq DOMAIN s.Service
BY DEF RelatedServices, AttachedHTTPRoutes, AttachedServices, Scoped

\* A class that refers to a service is cached.
LEMMA OnlyCachedRefer ==
  ASSUME NEW s, NEW c, NEW v \in RelatedServices(s, c)
  PROVE  s.GatewayClass[c] # None
BY DEF RelatedServices

\* A service that a class refers to is in use in its namespace.
LEMMA RelatedAreBackends ==
  ASSUME NEW s, Scoped(s), NEW c, NEW v \in RelatedServices(s, c)
  PROVE  v \in BackendsOf(s, NsOf[v])
<1>1. s.GatewayClass[c] # None
  BY OnlyCachedRefer
<1>2. PICK g \in AttachedGateways(s, c) : \E r \in AttachedHTTPRoutes(s, g) : v \in AttachedServices(s, r)
  BY DEF RelatedServices
<1>3. PICK r \in AttachedHTTPRoutes(s, g) : v \in AttachedServices(s, r)
  BY <1>2
<1>4. r \in HTTPRoutesRefsOf(s, v) /\ s.HTTPRoute[r] # None
  BY <1>3 DEF HTTPRoutesRefsOf, AttachedHTTPRoutes, Cached
<1>5. g \in GatewayRefsOfHR(s, r, s.HTTPRoute[r])
  BY <1>3, <1>4 DEF GatewayRefsOfHR, AttachedHTTPRoutes
<1>6. g \in GetRootGateways(s, v)
  BY <1>4, <1>5 DEF GetRootGateways
<1>7. v \in Cached(s.Service)
  BY <1>3, RelatedAreScoped DEF AttachedServices, Cached
<1>8. s.Gateway[g].class = c
  BY DEF AttachedGateways
<1> QED
  BY <1>1, <1>6, <1>7, <1>8 DEF BackendsOf

=============================================================================
