------------------------------- MODULE Traffic -------------------------------
(***************************************************************************)
(* What the iRules of a class make of requests (iruletmpl_parser.go,        *)
(* irule_templates): the controller writes the text of each HTTPRoute, the  *)
(* BIG-IP loads what has changed and runs its RULE_INIT, which fills tables *)
(* of pools in static:: variables.  These are global: the rule of index i   *)
(* of every route has the same table.  A request runs the HTTP_REQUEST of   *)
(* each iRule of its virtual server.  There is one class; which listeners   *)
(* take a route is in SIGCache.                                             *)
(***************************************************************************)
EXTENDS Integers, SequencesExt

CONSTANTS None,
          Specs,      \* route -> the specs (or None) users may give it
          Statuses,   \* service -> "granted", "refused" or "missing": it may be
                      \* referred to, may not, or is not cached
          Hosts,      \* listener -> the hosts its hostname matches, or None
          Requests,   \* what users of the services may send
          MaxRules,   \* bound: rules of a route
          MaxEdits    \* bound: changes users make

VARIABLES spec,     \* the routes as they are cached
          service,  \* the services as they are cached
          dirty,    \* the class is to be declared
          loaded,   \* route on the BIG-IP -> its iRule
          order,    \* listener -> the iRules of its virtual server
          unrun,    \* iRules loaded whose RULE_INIT has not run yet
          static,   \* index -> static::pools_<index>, if it is set
          ranLast,  \* history: index -> the route whose RULE_INIT set it
          edits

vars == <<spec, service, dirty, loaded, order, unrun, static, ranLast, edits>>

Routes == DOMAIN Specs
Services == DOMAIN Statuses
Listeners == DOMAIN Hosts
Indexes == 1..MaxRules

\* What no code prevents and what is proved leaves out: a service created
\* without the grant it needs, or deleted once that is revoked.  Neither
\* declares the class again (utils.go:397).
ASSUME StatusesAssumption ==
  \A v \in Services : ~({"missing", "refused"} \subseteq Statuses[v])

ASSUME SpecsAssumption ==
  /\ IsFiniteSet(Routes)
  /\ MaxRules \in Nat
  /\ MaxEdits \in Nat
  /\ \A r \in Routes : None \in Specs[r] /\ \A s \in Specs[r] \ {None} :
       /\ \E n \in 0..MaxRules : DOMAIN s.rules = 1..n
       /\ \A i \in DOMAIN s.rules : \A k \in DOMAIN s.rules[i].backends :
            /\ k \in Nat
            /\ s.rules[i].backends[k] \in [service : Services, weight : Nat]

Attached == {r \in Routes : spec[r] # None /\ spec[r].sections # {}}

---------------------------------------------------------------------------
(* The text of an iRule.                                                   *)

\* Mutant of Entries: a service that may not be referred to is listed.
EntriesOfAll(backends) == backends

\* parsePoolweight: services the route may not refer to are left out, those
\* that are missing are not; an entry keeps the index of its backend.
Entries(backends) ==
  [k \in {j \in DOMAIN backends : service[backends[j].service] # "refused"} |-> backends[k]]

Text(r) ==
  [hosts |-> spec[r].hosts,
   rules |-> [i \in DOMAIN spec[r].rules |->
                [matches |-> spec[r].rules[i].matches,
                 redirect |-> spec[r].rules[i].filter = "redirect",
                 entries |-> Entries(spec[r].rules[i].backends)]]]

\* A mirror filter has no text, and the class then none either.
ParseFails ==
  \E r \in Attached : \E i \in DOMAIN spec[r].rules : spec[r].rules[i].filter = "mirror"

\* A path that is a regular expression leaves a bracket open, an extension
\* names a pool of a tenant nothing declares: the BIG-IP refuses the class.
Loads ==
  ~\E r \in Attached : \E i \in DOMAIN spec[r].rules :
     spec[r].rules[i].regex \/ spec[r].rules[i].filter = "extension"

Guard == "guard"

ASSUME GuardAssumption == Guard \notin Routes

\* Mutant of IRules: that of the listener comes last.
GuardLast(l, q) == IF Hosts[l] = None THEN q ELSE Append(q, Guard)

\* The iRule for the hostname of a listener, then those of its routes.
IRules(l, q) == IF Hosts[l] = None THEN q ELSE <<Guard>> \o q

\* In the order in which a map was walked.
Orders(l) == {IRules(l, q) : q \in SetToSeqs({r \in Attached : l \in spec[r].sections})}

---------------------------------------------------------------------------
Init ==
  /\ spec = [r \in Routes |-> None]
  /\ service \in {s \in [Services -> UNION {Statuses[v] : v \in Services}] :
                    \A v \in Services : s[v] \in Statuses[v]}
  /\ dirty = TRUE
  /\ loaded = <<>>
  /\ order = [l \in Listeners |-> <<>>]
  /\ unrun = {}
  /\ static = <<>>
  /\ ranLast = <<>>
  /\ edits = 0

ChangeRoute(r, s) ==
  /\ edits < MaxEdits
  /\ s # spec[r]
  /\ spec' = [spec EXCEPT ![r] = s]
  /\ dirty' = TRUE
  /\ edits' = edits + 1
  /\ UNCHANGED <<service, loaded, order, unrun, static, ranLast>>

\* A grant has the class declared, a service only its own tenant.
ChangeService(v, status) ==
  /\ edits < MaxEdits
  /\ status # service[v]
  /\ service' = [service EXCEPT ![v] = status]
  /\ dirty' = (dirty \/ "missing" \notin {status, service[v]})
  /\ edits' = edits + 1
  /\ UNCHANGED <<spec, loaded, order, unrun, static, ranLast>>

\* Mutant of Loading: the RULE_INIT of one that is removed runs too.
LoadingRemoved(new) == unrun \cup {r \in DOMAIN new : r \notin DOMAIN loaded \/ new[r] # loaded[r]}

\* The iRules whose RULE_INIT is still to run once new ones are there.
Loading(new) ==
  {r \in DOMAIN new : r \in unrun \/ r \notin DOMAIN loaded \/ new[r] # loaded[r]}

\* The declaration of the class; what cannot be parsed is tried again.
Declare ==
  /\ dirty
  /\ ~ParseFails
  /\ Loads
  /\ dirty' = FALSE
  /\ loaded' = [r \in Attached |-> Text(r)]
  /\ order' \in {o \in [Listeners -> UNION {Orders(l) : l \in Listeners}] :
                   \A l \in Listeners : o[l] \in Orders(l)}
  /\ unrun' = Loading([r \in Attached |-> Text(r)])
  /\ UNCHANGED <<spec, service, static, ranLast, edits>>

\* What is refused is not.
Refused ==
  /\ dirty
  /\ ~ParseFails
  /\ ~Loads
  /\ dirty' = FALSE
  /\ UNCHANGED <<spec, service, loaded, order, unrun, static, ranLast, edits>>

---------------------------------------------------------------------------
(* The BIG-IP.                                                             *)

\* array set: of entries with one name the last counts.
WeightOf(entries, v) ==
  entries[CHOOSE k \in DOMAIN entries :
            /\ entries[k].service = v
            /\ \A j \in DOMAIN entries : entries[j].service = v => j <= k].weight

\* Each pool as often as its weight says.
Table(entries) ==
  LET names == {entries[k].service : k \in DOMAIN entries} IN
  [v \in {w \in names : WeightOf(entries, w) > 0} |-> WeightOf(entries, v)]

RuleInit(r) ==
  /\ r \in unrun
  /\ unrun' = unrun \ {r}
  /\ LET rules == loaded[r].rules IN
     /\ static' = [i \in DOMAIN static \cup DOMAIN rules |->
                     IF i \in DOMAIN rules THEN Table(rules[i].entries) ELSE static[i]]
     /\ ranLast' = [i \in DOMAIN ranLast \cup DOMAIN rules |->
                      IF i \in DOMAIN rules THEN r ELSE ranLast[i]]
  /\ UNCHANGED <<spec, service, dirty, loaded, order, edits>>

\* Every RULE_INIT runs again.
BigIPRestarts ==
  /\ unrun' = DOMAIN loaded
  /\ static' = <<>>
  /\ ranLast' = <<>>
  /\ UNCHANGED <<spec, service, dirty, loaded, order, edits>>

Next ==
  \/ \E r \in Routes : RuleInit(r) \/ \E s \in Specs[r] : ChangeRoute(r, s)
  \/ \E v \in Services : \E status \in Statuses[v] : ChangeService(v, status)
  \/ Declare \/ Refused \/ BigIPRestarts

Spec == Init /\ [][Next]_vars

---------------------------------------------------------------------------
(* A request on a connection of its own.                                   *)

HostMatches(hosts, req) == hosts = {} \/ req.host \in hosts

\* parseMatches: one of the matches, with all its conditions; a condition is
\* the paths, methods, headers... of the requests that meet it.
RuleMatches(rule, req) == \E m \in rule.matches : \A c \in m : req.path \in c

Matching(route, req) ==
  {i \in DOMAIN route.rules : HostMatches(route.hosts, req) /\ RuleMatches(route.rules[i], req)}

\* Mutant of First: no rule returns, and the last counts.
LastOf(S) == CHOOSE i \in S : \A j \in S : j <= i

First(S) == CHOOSE i \in S : \A j \in S : i <= j

Redirected == "redirected"
NoPool == "no pool"
Reset == "reset"

\* What the iRule of a route may do with a request: nothing, respond, fail on
\* a variable that is not set, or select one of the pools.
Selections(r, req) ==
  LET is == Matching(loaded[r], req) IN
  IF is = {} THEN {}
  ELSE LET i == First(is) IN
    IF loaded[r].rules[i].redirect THEN {Redirected}
    ELSE IF i \notin DOMAIN static THEN {Reset} ELSE DOMAIN static[i]

Mismatch(l, req) == Hosts[l] # None /\ req.host \notin Hosts[l]

\* The iRules that get the event: a mismatch of the host disables it.
Running(l, req) ==
  {k \in DOMAIN order[l] :
     order[l][k] # Guard /\ ~\E j \in 1..k : order[l][j] = Guard /\ Mismatch(l, req)}

\* A response is final, of the pools selected the last counts.
Answers(l, req) ==
  LET ks == {k \in Running(l, req) : Selections(order[l][k], req) # {}} IN
  IF ks = {} THEN {NoPool}
  ELSE IF \E k \in ks : Selections(order[l][k], req) = {Redirected} THEN {Redirected}
  ELSE Selections(order[l][LastOf(ks)], req)

---------------------------------------------------------------------------
TypeOK ==
  /\ \A r \in Routes : spec[r] \in Specs[r]
  /\ \A v \in Services : service[v] \in Statuses[v]
  /\ dirty \in BOOLEAN
  /\ unrun \subseteq DOMAIN loaded
  /\ \A l \in Listeners : \A k \in DOMAIN order[l] :
       order[l][k] \in {Guard} \cup DOMAIN loaded
  /\ DOMAIN static = DOMAIN ranLast
  /\ DOMAIN static \subseteq Indexes
  /\ edits \in 0..MaxEdits

\* The class is on the BIG-IP as it can be, and every RULE_INIT has run.
Settled == ~dirty /\ unrun = {} /\ ~ParseFails /\ Loads

Share(i, v) == IF v \in DOMAIN static[i] THEN static[i][v] ELSE 0

Distinct(backends) ==
  \A j, k \in DOMAIN backends : backends[j].service = backends[k].service => j = k

\* What the specification says of the share of a backend.
Declared(b) == IF service[b.service] = "refused" THEN 0 ELSE b.weight

SplitAsDeclared(backends, i) ==
  Distinct(backends) =>
    /\ \A k \in DOMAIN backends : Share(i, backends[k].service) = Declared(backends[k])
    /\ DOMAIN static[i] \subseteq {backends[k].service : k \in DOMAIN backends}

\* Whatever was deployed, refused, changed or restarted before, the rule whose
\* RULE_INIT set a table last splits its requests by the weights of its
\* HTTPRoute as it is (rules.tmpl:7, iruletmpl_parser.go:201).
SplitsAsDeclared ==
  Settled => \A r \in Attached : \A i \in DOMAIN spec[r].rules :
    ranLast[i] = r => SplitAsDeclared(spec[r].rules[i].backends, i)

\* "The weight is used to calculate the percentage of traffic splitting"
\* (examples/traffic-splitting/README.md:37), for every rule.
WeightsSplit ==
  Settled => \A r \in Attached : \A i \in DOMAIN spec[r].rules :
    SplitAsDeclared(spec[r].rules[i].backends, i)

\* A request for a host that the listener does not have gets to no backend,
\* whatever its routes say, at any time (parser.go:173).
MismatchDropped ==
  \A l \in Listeners : \A req \in Requests : Mismatch(l, req) => Answers(l, req) = {NoPool}

\* The rule of a route that is for a request: the first that takes it.
Takes(rule, req) == \E m \in rule.matches : m \subseteq {c \in UNION rule.matches : req.path \in c}

IsFor(r, i, req) ==
  /\ spec[r].hosts = {} \/ req.host \in spec[r].hosts
  /\ Takes(spec[r].rules[i], req)
  /\ \A j \in 1..(i - 1) : ~Takes(spec[r].rules[j], req)

\* The rules of a listener that are for a request, one of each route.
RulesFor(l, req) ==
  {x \in Attached \X Indexes :
     /\ l \in spec[x[1]].sections
     /\ x[2] \in DOMAIN spec[x[1]].rules
     /\ IsFor(x[1], x[2], req)}

Backends(r, i) ==
  LET rule == spec[r].rules[i]
      bs == {k \in DOMAIN rule.backends : Declared(rule.backends[k]) > 0} IN
  IF rule.filter = "redirect" THEN {Redirected}
  ELSE IF bs = {} THEN {NoPool} ELSE {rule.backends[k].service : k \in bs}

\* A request gets to the backends of the first rule that takes it; when those
\* of several routes do, to those of any, in the order of a map
\* (parser.go:189); unless another route's RULE_INIT set its table last, or a
\* rule names a service twice, when its last weight counts.
RightBackend ==
  Settled => \A l \in Listeners : \A req \in {q \in Requests : ~Mismatch(l, q)} :
    LET rules == RulesFor(l, req) IN
    (\A x \in rules : ranLast[x[2]] = x[1] /\ Distinct(spec[x[1]].rules[x[2]].backends)) =>
      IF rules = {} THEN Answers(l, req) = {NoPool}
      ELSE \E x \in rules : Answers(l, req) = Backends(x[1], x[2])

=============================================================================
