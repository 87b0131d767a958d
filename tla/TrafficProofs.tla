---------------------------- MODULE TrafficProofs ----------------------------
(***************************************************************************)
(* Proofs about Traffic: for any routes, services and listeners, and any    *)
(* sequence of changes, declarations, refusals and restarts.                *)
(***************************************************************************)
EXTENDS Traffic, FiniteSetTheorems, TLAPS

---------------------------------------------------------------------------
(* Types.                                                                  *)

Shape ==
  /\ DOMAIN spec = Routes
  /\ DOMAIN service = Services
  /\ DOMAIN loaded \subseteq Routes
  /\ DOMAIN order = Listeners

RulesTyped == \A r \in DOMAIN loaded : DOMAIN loaded[r].rules \subseteq Indexes

TInv == TypeOK /\ Shape /\ RulesTyped

LEMMA OrdersAreOfAttached ==
  ASSUME NEW l \in Listeners, NEW o \in Orders(l), NEW k \in DOMAIN o
  PROVE  o[k] \in {Guard} \cup Attached
<1> DEFINE S == {r \in Attached : l \in spec[r].sections}
           n == Cardinality(S)
<1>1. PICK q \in SetToSeqs(S) : o = IRules(l, q)
  BY DEF Orders
<1>2. q \in [1..n -> S]
  BY DEF SetToSeqs
<1>0. n \in Nat
  BY SpecsAssumption, FS_Subset, FS_CardinalityType DEF Attached
<1> HIDE DEF n
<1>3. CASE Hosts[l] = None
  BY <1>1, <1>2, <1>3 DEF IRules
<1>4. CASE Hosts[l] # None
  <2>1. o = <<Guard>> \o q
    BY <1>1, <1>4 DEF IRules
  <2>2. q \in Seq(S)
    BY <1>0, <1>2
  <2>3. k = 1 \/ k - 1 \in 1..n
    BY <1>0, <1>2, <2>1, <2>2
  <2>4. CASE k = 1
    BY <2>1, <2>2, <2>4
  <2>5. CASE k - 1 \in 1..n
    <3>1. o[k] = q[k - 1]
      BY <1>0, <1>2, <2>1, <2>2, <2>5
    <3> QED
      BY <1>2, <2>5, <3>1
  <2> QED
    BY <2>3, <2>4, <2>5
<1> QED
  BY <1>3, <1>4

LEMMA InitTInv == Init => TInv
<1> SUFFICES ASSUME Init PROVE TInv
  OBVIOUS
<1>1. TypeOK
  BY SpecsAssumption DEF Init, TypeOK
<1>2. Shape /\ RulesTyped
  BY DEF Init, Shape, RulesTyped
<1> QED
  BY <1>1, <1>2 DEF TInv

LEMMA DeclareTInv ==
  ASSUME TInv, Declare
  PROVE  TInv'
<1>1. DOMAIN loaded' = Attached /\ Attached \subseteq Routes
  BY DEF Declare, Attached
<1>2. unrun' \subseteq Attached
  BY DEF Declare, Loading
<1>3. \A l \in Listeners : order'[l] \in Orders(l)
  BY DEF Declare
<1>4. \A l \in Listeners : \A k \in DOMAIN order'[l] : order'[l][k] \in {Guard} \cup DOMAIN loaded'
  BY <1>1, <1>3, OrdersAreOfAttached
<1>5. RulesTyped'
  <2> SUFFICES ASSUME NEW r \in Attached PROVE DOMAIN loaded'[r].rules \subseteq Indexes
    BY <1>1 DEF RulesTyped
  <2>1. loaded'[r] = Text(r)
    BY DEF Declare
  <2>2. DOMAIN loaded'[r].rules = DOMAIN spec[r].rules
    BY <2>1 DEF Text
  <2>3. spec[r] \in Specs[r] \ {None}
    BY DEF TInv, TypeOK, Attached
  <2> QED
    BY <1>1, <2>2, <2>3, SpecsAssumption DEF Indexes
<1>6. TypeOK'
  BY <1>1, <1>2, <1>4 DEF Declare, TInv, TypeOK
<1>7. Shape'
  BY <1>1 DEF Declare, TInv, Shape
<1> QED
  BY <1>5, <1>6, <1>7 DEF TInv

LEMMA NextTInv == TInv /\ [Next]_vars => TInv'
<1> SUFFICES ASSUME TInv, [Next]_vars PROVE TInv'
  OBVIOUS
<1>1. ASSUME NEW r \in Routes, RuleInit(r) PROVE TInv'
  <2>1. DOMAIN loaded[r].rules \subseteq Indexes
    BY <1>1 DEF RuleInit, TInv, TypeOK, RulesTyped
  <2>2. DOMAIN static' = DOMAIN ranLast' /\ DOMAIN static' \subseteq Indexes
    BY <1>1, <2>1 DEF RuleInit, TInv, TypeOK
  <2>3. TypeOK'
    BY <1>1, <2>2 DEF RuleInit, TInv, TypeOK
  <2>4. Shape' /\ RulesTyped'
    BY <1>1 DEF RuleInit, TInv, Shape, RulesTyped
  <2> QED
    BY <2>3, <2>4 DEF TInv
<1>2. ASSUME NEW r \in Routes, NEW s \in Specs[r], ChangeRoute(r, s) PROVE TInv'
  <2>1. TypeOK'
    BY <1>2, SpecsAssumption DEF ChangeRoute, TInv, Shape, TypeOK
  <2>2. Shape' /\ RulesTyped'
    BY <1>2 DEF ChangeRoute, TInv, Shape, RulesTyped
  <2> QED
    BY <2>1, <2>2 DEF TInv
<1>3. ASSUME NEW v \in Services, NEW status \in Statuses[v], ChangeService(v, status)
      PROVE  TInv'
  <2>1. TypeOK'
    BY <1>3, SpecsAssumption DEF ChangeService, TInv, Shape, TypeOK
  <2>2. Shape' /\ RulesTyped'
    BY <1>3 DEF ChangeService, TInv, Shape, RulesTyped
  <2> QED
    BY <2>1, <2>2 DEF TInv
<1>4. CASE Declare
  BY <1>4, DeclareTInv
<1>5. CASE Refused
  BY <1>5 DEF Refused, TInv, TypeOK, Shape, RulesTyped
<1>6. CASE BigIPRestarts
  BY <1>6 DEF BigIPRestarts, TInv, TypeOK, Shape, RulesTyped
<1>7. CASE UNCHANGED vars
  BY <1>7 DEF vars, TInv, TypeOK, Shape, RulesTyped
<1> QED
  BY <1>1, <1>2, <1>3, <1>4, <1>5, <1>6, <1>7 DEF Next

\* The variables always have their types, and only iRules that are loaded are
\* on a virtual server or have their RULE_INIT run.
THEOREM TypeCorrect == Spec => []TypeOK
<1>1. TInv => TypeOK
  BY DEF TInv
<1> QED
  BY <1>1, InitTInv, NextTInv, PTL DEF Spec

---------------------------------------------------------------------------
(* A request for another host.                                             *)

\* The iRule of the hostname comes first.
GuardIsFirst ==
  \A l \in Listeners : Hosts[l] # None =>
    order[l] = <<>> \/ (1 \in DOMAIN order[l] /\ order[l][1] = Guard)

DomainsAreIndexes == \A l \in Listeners : DOMAIN order[l] \subseteq Nat \ {0}

GInv == GuardIsFirst /\ DomainsAreIndexes

LEMMA OrdersAreGuarded ==
  ASSUME NEW l \in Listeners, NEW o \in Orders(l)
  PROVE  DOMAIN o \subseteq Nat \ {0} /\ (Hosts[l] # None => 1 \in DOMAIN o /\ o[1] = Guard)
<1> DEFINE S == {r \in Attached : l \in spec[r].sections}
           n == Cardinality(S)
<1>1. PICK q \in SetToSeqs(S) : o = IRules(l, q)
  BY DEF Orders
<1>2. q \in [1..n -> S]
  BY DEF SetToSeqs
<1>3. DOMAIN q \subseteq Nat \ {0}
  BY <1>2
<1>4. CASE Hosts[l] = None
  BY <1>1, <1>3, <1>4 DEF IRules
<1>5. CASE Hosts[l] # None
  <2>1. o = <<Guard>> \o q
    BY <1>1, <1>5 DEF IRules
  <2> QED
    BY <2>1
<1> QED
  BY <1>4, <1>5

\* Nothing runs behind the iRule of a hostname that a request mismatches,
\* whatever changes, is declared or restarts.
THEOREM MismatchesAreDropped == Spec => []MismatchDropped
<1>1. Init => GInv
  BY DEF Init, GInv, GuardIsFirst, DomainsAreIndexes
<1>2. TInv /\ GInv /\ [Next]_vars => GInv'
  <2> SUFFICES ASSUME TInv, GInv, [Next]_vars PROVE GInv'
    OBVIOUS
  <2>1. CASE Declare
    <3>1. \A l \in Listeners : order'[l] \in Orders(l)
      BY <2>1 DEF Declare
    <3> QED
      BY <3>1, OrdersAreGuarded DEF GInv, GuardIsFirst, DomainsAreIndexes
  <2>2. CASE UNCHANGED order
    BY <2>2 DEF GInv, GuardIsFirst, DomainsAreIndexes
  <2> QED
    BY <2>1, <2>2 DEF Next, vars, RuleInit, ChangeRoute, ChangeService, Refused, BigIPRestarts
<1>3. GInv => MismatchDropped
  <2> SUFFICES ASSUME GInv, NEW l \in Listeners, NEW req \in Requests, Mismatch(l, req)
               PROVE  Answers(l, req) = {NoPool}
    BY DEF MismatchDropped
  <2>1. Running(l, req) = {}
    <3> SUFFICES ASSUME NEW k \in DOMAIN order[l]
                 PROVE  \E j \in 1..k : order[l][j] = Guard
      BY DEF Running
    <3>1. order[l][1] = Guard
      BY DEF GInv, GuardIsFirst, Mismatch
    <3>2. 1 \in 1..k
      BY DEF GInv, DomainsAreIndexes
    <3> QED
      BY <3>1, <3>2
  <2> QED
    BY <2>1 DEF Answers
<1> QED
  BY <1>1, <1>2, <1>3, InitTInv, NextTInv, PTL DEF Spec

---------------------------------------------------------------------------
(* The tables.                                                             *)

\* What has run has set its tables, and those it set last are its own.
TablesKnown ==
  \A r \in DOMAIN loaded \ unrun :
    /\ DOMAIN loaded[r].rules \subseteq DOMAIN static
    /\ \A i \in DOMAIN loaded[r].rules :
         ranLast[i] = r => static[i] = Table(loaded[r].rules[i].entries)

\* A class that is on the BIG-IP is so as it is.
TextsKnown ==
  ~dirty /\ ~ParseFails /\ Loads =>
    DOMAIN loaded = Attached /\ \A r \in Attached : loaded[r] = Text(r)

IInv == TablesKnown /\ TextsKnown

LEMMA SameTexts ==
  ASSUME IInv, UNCHANGED <<spec, service, dirty, loaded>>
  PROVE  TextsKnown'
<1>1. Attached' = Attached
  BY DEF Attached
<1>2. ParseFails' = ParseFails /\ Loads' = Loads
  BY <1>1 DEF ParseFails, Loads
<1>3. \A backends : Entries(backends)' = Entries(backends)
  BY DEF Entries
<1>4. \A r : Text(r)' = Text(r)
  BY <1>3 DEF Text
<1> QED
  BY <1>1, <1>2, <1>4 DEF IInv, TextsKnown

LEMMA RuleInitIInv ==
  ASSUME TInv, IInv, NEW r \in Routes, RuleInit(r)
  PROVE  IInv'
<1>1. TextsKnown'
  BY SameTexts DEF RuleInit
<1>2. TablesKnown'
  <2>0. loaded' = loaded /\ unrun' = unrun \ {r}
    BY DEF RuleInit
  <2> SUFFICES ASSUME NEW q \in DOMAIN loaded, q \notin unrun \ {r}
               PROVE  /\ DOMAIN loaded[q].rules \subseteq DOMAIN static'
                      /\ \A i \in DOMAIN loaded[q].rules :
                           ranLast'[i] = q => static'[i] = Table(loaded[q].rules[i].entries)
    BY <2>0 DEF TablesKnown
  <2>1. /\ static' = [i \in DOMAIN static \cup DOMAIN loaded[r].rules |->
                        IF i \in DOMAIN loaded[r].rules
                          THEN Table(loaded[r].rules[i].entries) ELSE static[i]]
        /\ ranLast' = [i \in DOMAIN static \cup DOMAIN loaded[r].rules |->
                         IF i \in DOMAIN loaded[r].rules THEN r ELSE ranLast[i]]
    BY DEF RuleInit, TInv, TypeOK
  <2>2. CASE q = r
    BY <2>1, <2>2
  <2>3. CASE q # r
    <3>1. q \notin unrun
      BY <2>3
    <3> QED
      BY <2>1, <2>3, <3>1 DEF IInv, TablesKnown
  <2> QED
    BY <2>2, <2>3
<1> QED
  BY <1>1, <1>2 DEF IInv

LEMMA DeclareIInv ==
  ASSUME TInv, IInv, Declare
  PROVE  IInv'
<1>1. TextsKnown'
  <2>0. spec' = spec /\ service' = service
    BY DEF Declare
  <2>1. Attached' = Attached /\ \A r : Text(r)' = Text(r)
    BY <2>0 DEF Attached, Text, Entries
  <2>2. loaded' = [r \in Attached |-> Text(r)]
    BY DEF Declare
  <2> QED
    BY <2>1, <2>2 DEF TextsKnown
<1>2. TablesKnown'
  <2> SUFFICES ASSUME NEW r \in DOMAIN loaded' \ unrun'
               PROVE  r \in DOMAIN loaded \ unrun /\ loaded'[r] = loaded[r]
    BY DEF Declare, IInv, TablesKnown
  <2> QED
    BY DEF Declare, Loading
<1> QED
  BY <1>1, <1>2 DEF IInv

\* A service that comes or goes was, and will be, listed.
LEMMA ChangeServiceIInv ==
  ASSUME TInv, IInv, NEW v \in Services, NEW status \in Statuses[v], ChangeService(v, status)
  PROVE  IInv'
<1>1. TablesKnown'
  BY DEF ChangeService, IInv, TablesKnown
<1>2. TextsKnown'
  <2> SUFFICES ASSUME ~dirty', ~ParseFails', Loads' PROVE TextsKnown'
    BY DEF TextsKnown
  <2>1. ~dirty /\ "missing" \in {status, service[v]}
    BY DEF ChangeService, TInv, TypeOK
  <2>2. service[v] \in Statuses[v]
    BY DEF TInv, TypeOK
  <2>3. status # "refused" /\ service[v] # "refused"
    BY <2>1, <2>2, StatusesAssumption
  <2>4. \A w : (service'[w] # "refused") = (service[w] # "refused")
    BY <2>3 DEF ChangeService, TInv, Shape
  <2>5. \A backends : Entries(backends)' = Entries(backends)
    BY <2>4 DEF Entries
  <2>6. Attached' = Attached /\ ParseFails' = ParseFails /\ Loads' = Loads
    BY DEF ChangeService, Attached, ParseFails, Loads
  <2>7. \A r \in Attached : Text(r)' = Text(r)
    BY <2>5 DEF ChangeService, Text
  <2> QED
    BY <2>1, <2>6, <2>7 DEF ChangeService, IInv, TextsKnown
<1> QED
  BY <1>1, <1>2 DEF IInv

LEMMA NextIInv == TInv /\ IInv /\ [Next]_vars => IInv'
<1> SUFFICES ASSUME TInv, IInv, [Next]_vars PROVE IInv'
  OBVIOUS
<1>1. ASSUME NEW r \in Routes, NEW s \in Specs[r], ChangeRoute(r, s) PROVE IInv'
  BY <1>1 DEF ChangeRoute, IInv, TablesKnown, TextsKnown
<1>2. CASE Refused
  <2>1. TextsKnown'
    BY <1>2 DEF Refused, TextsKnown, Loads, Attached
  <2>2. TablesKnown'
    BY <1>2 DEF Refused, IInv, TablesKnown
  <2> QED
    BY <2>1, <2>2 DEF IInv
<1>4. CASE BigIPRestarts
  <2>1. TablesKnown'
    BY <1>4 DEF BigIPRestarts, TablesKnown
  <2> QED
    BY <1>4, <2>1, SameTexts DEF BigIPRestarts, IInv
<1>5. CASE UNCHANGED vars
  <2>1. TablesKnown'
    BY <1>5 DEF vars, IInv, TablesKnown
  <2> QED
    BY <1>5, <2>1, SameTexts DEF vars, IInv
<1> QED
  BY <1>1, <1>2, <1>4, <1>5, RuleInitIInv, ChangeServiceIInv, DeclareIInv DEF Next

\* array set of entries that each name a service of their own.
LEMMA WeightOfDistinct ==
  ASSUME NEW entries, NEW k \in DOMAIN entries, k \in Nat,
         \A j \in DOMAIN entries : entries[j].service = entries[k].service => j = k
  PROVE  WeightOf(entries, entries[k].service) = entries[k].weight
<1> DEFINE Is(n) == /\ entries[n].service = entries[k].service
                    /\ \A j \in DOMAIN entries : entries[j].service = entries[k].service => j <= n
<1>1. Is(k)
  OBVIOUS
<1>2. (CHOOSE n \in DOMAIN entries : Is(n)) = k
  BY <1>1
<1> QED
  BY <1>2 DEF WeightOf

\* A table that its own rule has set last holds the weights that are declared.
LEMMA TableIsDeclared ==
  ASSUME TInv, IInv, Settled, NEW r \in Attached, NEW i \in DOMAIN spec[r].rules,
         ranLast[i] = r, Distinct(spec[r].rules[i].backends)
  PROVE  /\ SplitAsDeclared(spec[r].rules[i].backends, i)
         /\ \A v \in DOMAIN static[i] : static[i][v] > 0
<1> DEFINE bs == spec[r].rules[i].backends
           es == Entries(bs)
<1>1. r \in DOMAIN loaded \ unrun /\ loaded[r] = Text(r)
  BY DEF Settled, IInv, TextsKnown
<1>2. static[i] = Table(es)
  BY <1>1 DEF Text, IInv, TablesKnown
<1>3. \A k \in DOMAIN bs : k \in Nat /\ bs[k] \in [service : Services, weight : Nat]
  BY SpecsAssumption DEF Attached, TInv, TypeOK
<1>4. /\ DOMAIN es = {k \in DOMAIN bs : service[bs[k].service] # "refused"}
      /\ \A k \in DOMAIN es : es[k] = bs[k]
  BY DEF Entries
<1>10. Distinct(bs)
  OBVIOUS
<1> HIDE DEF es, bs
<1>5. \A k \in DOMAIN es : WeightOf(es, bs[k].service) = bs[k].weight
  <2> TAKE k \in DOMAIN es
  <2>1. \A j \in DOMAIN es : es[j].service = es[k].service => j = k
    BY <1>4, <1>10 DEF Distinct
  <2>2. k \in Nat /\ es[k] = bs[k]
    BY <1>3, <1>4
  <2>3. WeightOf(es, es[k].service) = es[k].weight
    BY <2>1, <2>2, WeightOfDistinct
  <2> QED
    BY <2>2, <2>3
<1>6. DOMAIN Table(es) = {v \in {es[k].service : k \in DOMAIN es} : WeightOf(es, v) > 0}
      /\ \A v \in DOMAIN Table(es) : Table(es)[v] = WeightOf(es, v)
  BY DEF Table
<1>7. ASSUME NEW k \in DOMAIN bs PROVE Share(i, bs[k].service) = Declared(bs[k])
  <2> DEFINE v == bs[k].service
             named == {es[j].service : j \in DOMAIN es}
  <2>0. Share(i, v) = IF v \in DOMAIN Table(es) THEN Table(es)[v] ELSE 0
    BY <1>2 DEF Share
  <2>1. CASE k \in DOMAIN es
    <3>1. Declared(bs[k]) = bs[k].weight
      BY <1>4, <2>1 DEF Declared
    <3>2. bs[k].weight \in Nat /\ WeightOf(es, v) = bs[k].weight
      BY <1>3, <1>5, <2>1
    <3>3. v \in named
      BY <1>4, <2>1
    <3> HIDE DEF v, named
    <3>4. v \in DOMAIN Table(es) <=> WeightOf(es, v) > 0
      BY <1>6, <3>3 DEF named
    <3>5. v \in DOMAIN Table(es) => Table(es)[v] = WeightOf(es, v)
      BY <1>6
    <3>6. Share(i, v) = bs[k].weight
      BY <2>0, <3>2, <3>4, <3>5
    <3> QED
      BY <3>1, <3>6 DEF v
  <2>2. CASE k \notin DOMAIN es
    <3>1. Declared(bs[k]) = 0
      BY <1>4, <2>2 DEF Declared
    <3>2. v \notin named
      BY <1>4, <1>10, <2>2 DEF Distinct
    <3>3. v \notin DOMAIN Table(es)
      <4> HIDE DEF v
      <4> QED
        BY <1>6, <3>2
    <3> QED
      BY <2>0, <3>1, <3>3
  <2> QED
    BY <2>1, <2>2
<1>8. DOMAIN static[i] \subseteq {bs[k].service : k \in DOMAIN bs}
  <2>1. {es[k].service : k \in DOMAIN es} \subseteq {bs[k].service : k \in DOMAIN bs}
    BY <1>4
  <2> QED
    BY <1>2, <1>6, <2>1
<1>9. \A v \in DOMAIN static[i] : static[i][v] > 0
  BY <1>2, <1>6
<1> QED
  BY <1>7, <1>8, <1>9 DEF SplitAsDeclared, bs

\* After any sequence of changes, declarations, refusals and restarts, a rule
\* whose RULE_INIT ran last splits its requests as its HTTPRoute says; no
\* service is at times missing and at times refused (StatusesAssumption).
THEOREM SplitsAreAsDeclared == Spec => []SplitsAsDeclared
<1>1. Init => IInv
  BY DEF Init, IInv, TablesKnown, TextsKnown
<1>2. TInv /\ IInv => SplitsAsDeclared
  BY TableIsDeclared DEF SplitsAsDeclared, SplitAsDeclared
<1> QED
  BY <1>1, <1>2, InitTInv, NextTInv, NextIInv, PTL DEF Spec

---------------------------------------------------------------------------
(* The first rule that takes a request.                                    *)

LEMMA LeastExists ==
  ASSUME NEW S, S \subseteq Nat, S # {}
  PROVE  \E i \in S : \A j \in S : i <= j
<1> DEFINE R == {ss \in Nat \X Nat : ss[1] < ss[2]}
<1>1. R = OpToRel(<, Nat)
  BY DEF OpToRel
<1>2. IsWellFoundedOn(R, Nat)
  BY <1>1, NatLessThanWellFounded
<1>3. PICK i \in S : \A j \in S : <<j, i>> \notin R
  <2> HIDE DEF R
  <2> QED
    BY <1>2, WFMin
<1>4. ASSUME NEW j \in S PROVE i <= j
  <2>1. i \in Nat /\ j \in Nat /\ ~(j < i)
    BY <1>3
  <2> QED
    BY <2>1
<1> QED
  BY <1>4

LEMMA GreatestExists ==
  ASSUME NEW S, NEW n \in Nat, S \subseteq 0..n, S # {}
  PROVE  \E i \in S : \A j \in S : j <= i
<1> DEFINE T == {n - j : j \in S}
<1>1. T \subseteq Nat /\ T # {}
  <2>1. \A j \in S : n - j \in Nat
    OBVIOUS
  <2> QED
    BY <2>1
<1>2. PICK x \in T : \A y \in T : x <= y
  BY <1>1, LeastExists
<1>3. PICK i \in S : x = n - i
  BY <1>2
<1>4. ASSUME NEW j \in S PROVE j <= i
  <2>1. n - i <= n - j
    BY <1>2, <1>3
  <2> QED
    BY <2>1
<1> QED
  BY <1>4

LEMMA FirstIsLeast ==
  ASSUME NEW S, S \subseteq Nat, S # {}
  PROVE  First(S) \in S /\ \A j \in S : First(S) <= j
BY LeastExists DEF First

LEMMA LastIsGreatest ==
  ASSUME NEW S, NEW n \in Nat, S \subseteq 0..n, S # {}
  PROVE  LastOf(S) \in S /\ \A j \in S : j <= LastOf(S)
BY GreatestExists DEF LastOf

\* A virtual server has the iRule of its hostname and one of each of its routes.
LEMMA OrdersHaveAll ==
  ASSUME NEW l \in Listeners, NEW o \in Orders(l)
  PROVE  /\ \E n \in Nat : DOMAIN o \subseteq 0..n
         /\ \A k \in DOMAIN o : o[k] = Guard \/ (o[k] \in Attached /\ l \in spec[o[k]].sections)
         /\ \A r \in Attached : l \in spec[r].sections => \E k \in DOMAIN o : o[k] = r
<1> DEFINE S == {r \in Attached : l \in spec[r].sections}
           n == Cardinality(S)
<1>1. PICK q \in SetToSeqs(S) : o = IRules(l, q)
  BY DEF Orders
<1>2. q \in [1..n -> S] /\ \A j, k \in 1..n : j # k => q[j] # q[k]
  BY DEF SetToSeqs
<1>3. IsFiniteSet(S) /\ n \in Nat
  BY SpecsAssumption, FS_Subset, FS_CardinalityType DEF Attached
<1>4. \A r \in S : \E k \in 1..n : q[k] = r
  <2>1. q \in Injection(1..n, S)
    BY <1>2 DEF Injection, IsInjective
  <2>2. Cardinality(1..n) = Cardinality(S)
    BY <1>3, FS_Interval
  <2>3. q \in Surjection(1..n, S)
    BY <1>3, <2>1, <2>2, FS_Injection
  <2> QED
    BY <2>3 DEF Surjection
<1> HIDE DEF n
<1>5. CASE Hosts[l] = None
  BY <1>1, <1>2, <1>3, <1>4, <1>5 DEF IRules
<1>6. CASE Hosts[l] # None
  <2>1. o = <<Guard>> \o q /\ q \in Seq(S) /\ Len(q) = n
    BY <1>1, <1>2, <1>3, <1>6 DEF IRules
  <2>2. DOMAIN o = 1..(n + 1)
    BY <1>3, <2>1
  <2>3. \A k \in 1..n : o[k + 1] = q[k]
    BY <1>3, <2>1
  <2>4. \A k \in DOMAIN o : k = 1 \/ k - 1 \in 1..n
    BY <1>3, <2>2
  <2>5. o[1] = Guard
    BY <2>1
  <2>6. ASSUME NEW k \in DOMAIN o PROVE o[k] = Guard \/ o[k] \in S
    <3>1. CASE k = 1
      BY <2>5, <3>1
    <3>2. CASE k - 1 \in 1..n
      <4>1. o[k] = q[k - 1]
        BY <1>3, <2>2, <2>3, <3>2
      <4> QED
        BY <1>2, <3>2, <4>1
    <3> QED
      BY <2>4, <3>1, <3>2
  <2>7. ASSUME NEW r \in S PROVE \E k \in DOMAIN o : o[k] = r
    <3>1. PICK k \in 1..n : q[k] = r
      BY <1>4
    <3>2. k + 1 \in DOMAIN o /\ o[k + 1] = r
      BY <1>3, <2>2, <2>3, <3>1
    <3> QED
      BY <3>2
  <2>8. n + 1 \in Nat /\ DOMAIN o \subseteq 0..(n + 1)
    BY <1>3, <2>2
  <2> QED
    BY <2>6, <2>7, <2>8
<1> QED
  BY <1>5, <1>6

\* A class that is on the BIG-IP has the routes of its listeners in some order.
OrdersKnown ==
  ~dirty /\ ~ParseFails /\ Loads => \A l \in Listeners : order[l] \in Orders(l)

LEMMA NextOrdersKnown ==
  ASSUME TInv, OrdersKnown, [Next]_vars
  PROVE  OrdersKnown'
<1>1. ASSUME UNCHANGED spec
      PROVE  /\ Attached' = Attached /\ ParseFails' = ParseFails /\ Loads' = Loads
             /\ \A l : Orders(l)' = Orders(l)
  <2>1. Attached' = Attached
    BY <1>1 DEF Attached
  <2>2. \A l, q : IRules(l, q)' = IRules(l, q)
    BY DEF IRules
  <2>3. \A l : Orders(l)' = Orders(l)
    BY <1>1, <2>1, <2>2 DEF Orders
  <2> QED
    BY <1>1, <2>1, <2>3 DEF ParseFails, Loads
<1>2. CASE Declare
  BY <1>1, <1>2 DEF Declare, OrdersKnown
<1>3. CASE Refused
  BY <1>1, <1>3 DEF Refused, OrdersKnown
<1>4. ASSUME NEW r \in Routes, NEW s \in Specs[r], ChangeRoute(r, s) PROVE OrdersKnown'
  BY <1>4 DEF ChangeRoute, OrdersKnown
<1>5. CASE UNCHANGED <<spec, order>> /\ (dirty => dirty')
  BY <1>1, <1>5 DEF OrdersKnown
<1>6. ASSUME NEW v \in Services, NEW status \in Statuses[v], ChangeService(v, status)
      PROVE  OrdersKnown'
  <2>1. dirty => dirty'
    BY <1>6 DEF ChangeService, TInv, TypeOK
  <2> QED
    BY <1>5, <1>6, <2>1 DEF ChangeService
<1>7. ASSUME NEW r \in Routes, RuleInit(r) PROVE OrdersKnown'
  BY <1>5, <1>7 DEF RuleInit
<1>8. CASE BigIPRestarts
  BY <1>5, <1>8 DEF BigIPRestarts
<1>9. CASE UNCHANGED vars
  BY <1>5, <1>9 DEF vars
<1> QED
  BY <1>2, <1>3, <1>4, <1>6, <1>7, <1>8, <1>9 DEF Next

\* The matches of a rule that are met: the iRule tests each, the specification
\* asks for one whose conditions are all met.
LEMMA TakesIsMatch ==
  ASSUME NEW rule, NEW req
  PROVE  Takes(rule, req) <=> RuleMatches(rule, req)
BY DEF Takes, RuleMatches

\* The rule of an iRule that runs first is the one that is for the request.
LEMMA ForIsFirst ==
  ASSUME TInv, NEW r \in Attached, loaded[r] = Text(r), NEW req
  PROVE  /\ Matching(loaded[r], req) # {} =>
              /\ First(Matching(loaded[r], req)) \in DOMAIN spec[r].rules
              /\ IsFor(r, First(Matching(loaded[r], req)), req)
         /\ \A i \in DOMAIN spec[r].rules : IsFor(r, i, req) =>
              Matching(loaded[r], req) # {} /\ i = First(Matching(loaded[r], req))
<1> DEFINE is == Matching(loaded[r], req)
           rules == spec[r].rules
           hosts == spec[r].hosts = {} \/ req.host \in spec[r].hosts
<1>1. PICK n \in Nat : DOMAIN rules = 1..n
  BY SpecsAssumption DEF Attached, TInv, TypeOK
<1>2. DOMAIN loaded[r].rules = DOMAIN rules /\ loaded[r].hosts = spec[r].hosts
      /\ \A i \in DOMAIN rules : loaded[r].rules[i].matches = rules[i].matches
  BY DEF Text
<1>3. \A i \in DOMAIN rules : RuleMatches(loaded[r].rules[i], req) <=> Takes(rules[i], req)
  BY <1>2, TakesIsMatch DEF RuleMatches
<1>4. \A i : i \in is <=> i \in DOMAIN rules /\ hosts /\ Takes(rules[i], req)
  BY <1>2, <1>3 DEF Matching, HostMatches
<1>5. \A i : IsFor(r, i, req) <=>
        hosts /\ Takes(rules[i], req) /\ \A j \in 1..(i - 1) : ~Takes(rules[j], req)
  BY DEF IsFor
<1> HIDE DEF is, rules, hosts
<1>6. is \subseteq Nat
  BY <1>1, <1>4
<1>7. is # {} => First(is) \in is /\ \A j \in is : First(is) <= j
  BY <1>6, FirstIsLeast
<1>8. is # {} => First(is) \in DOMAIN rules /\ IsFor(r, First(is), req)
  <2> SUFFICES ASSUME is # {} PROVE First(is) \in DOMAIN rules /\ IsFor(r, First(is), req)
    OBVIOUS
  <2>1. First(is) \in DOMAIN rules /\ hosts /\ Takes(rules[First(is)], req)
    BY <1>4, <1>7
  <2>2. ASSUME NEW j \in 1..(First(is) - 1), Takes(rules[j], req) PROVE FALSE
    <3>1. j \in DOMAIN rules /\ j < First(is)
      BY <1>1, <2>1
    <3>2. j \in is
      BY <1>4, <2>1, <2>2, <3>1
    <3> QED
      BY <1>1, <1>7, <2>1, <3>1, <3>2
  <2> QED
    BY <1>5, <2>1, <2>2
<1>9. ASSUME NEW i \in DOMAIN rules, IsFor(r, i, req) PROVE is # {} /\ i = First(is)
  <2>1. i \in is
    BY <1>4, <1>5, <1>9
  <2>2. First(is) \in is /\ First(is) <= i /\ First(is) \in 1..n /\ i \in 1..n
    BY <1>1, <1>4, <1>7, <2>1
  <2>3. ~(First(is) < i)
    <3> SUFFICES ASSUME First(is) < i PROVE FALSE
      OBVIOUS
    <3>1. First(is) \in 1..(i - 1)
      BY <2>2
    <3> QED
      BY <1>4, <1>5, <1>9, <2>2, <3>1
  <2> QED
    BY <2>1, <2>2, <2>3
<1> QED
  BY <1>8, <1>9 DEF is, rules

\* What the iRule selects from are the backends of that rule; it selects
\* nothing when there are none.
LEMMA SelectsBackends ==
  ASSUME TInv, IInv, Settled, NEW r \in Attached, NEW i \in DOMAIN spec[r].rules, NEW req,
         IsFor(r, i, req), ranLast[i] = r, Distinct(spec[r].rules[i].backends)
  PROVE  \/ Selections(r, req) = Backends(r, i)
         \/ Selections(r, req) = {} /\ Backends(r, i) = {NoPool}
<1> DEFINE bs == spec[r].rules[i].backends
           ks == {k \in DOMAIN bs : Declared(bs[k]) > 0}
<1>1. r \in DOMAIN loaded \ unrun /\ loaded[r] = Text(r)
  BY DEF Settled, IInv, TextsKnown
<1>2. Matching(loaded[r], req) # {} /\ i = First(Matching(loaded[r], req))
  BY <1>1, ForIsFirst
<1>3. /\ i \in DOMAIN static
      /\ loaded[r].rules[i].redirect = (spec[r].rules[i].filter = "redirect")
  BY <1>1 DEF Text, IInv, TablesKnown
<1>4. Selections(r, req) = IF spec[r].rules[i].filter = "redirect" THEN {Redirected} ELSE DOMAIN static[i]
  <2>1. Selections(r, req) = IF loaded[r].rules[i].redirect THEN {Redirected}
                             ELSE IF i \notin DOMAIN static THEN {Reset} ELSE DOMAIN static[i]
    BY <1>2 DEF Selections
  <2> QED
    BY <1>3, <2>1
<1>5. Backends(r, i) = IF spec[r].rules[i].filter = "redirect" THEN {Redirected}
                       ELSE IF ks = {} THEN {NoPool} ELSE {bs[k].service : k \in ks}
  BY DEF Backends
<1>6. SplitAsDeclared(bs, i) /\ \A v \in DOMAIN static[i] : static[i][v] > 0
  BY TableIsDeclared
<1>7. /\ \A k \in DOMAIN bs : Share(i, bs[k].service) = Declared(bs[k])
      /\ DOMAIN static[i] \subseteq {bs[k].service : k \in DOMAIN bs}
  BY <1>6 DEF SplitAsDeclared
<1>8. \A k \in DOMAIN bs : k \in ks <=> bs[k].service \in DOMAIN static[i]
  <2>1. \A v : v \in DOMAIN static[i] <=> Share(i, v) > 0
    BY <1>6 DEF Share
  <2> HIDE DEF bs
  <2> QED
    BY <1>7, <2>1
<1> ks \subseteq DOMAIN bs
  OBVIOUS
<1> HIDE DEF bs, ks
<1>9. DOMAIN static[i] = {bs[k].service : k \in ks}
  <2>1. ASSUME NEW v \in DOMAIN static[i] PROVE v \in {bs[k].service : k \in ks}
    <3>1. PICK k \in DOMAIN bs : v = bs[k].service
      BY <1>7
    <3> QED
      BY <1>8, <3>1
  <2>2. ASSUME NEW k \in ks PROVE bs[k].service \in DOMAIN static[i]
    BY <1>8
  <2> QED
    BY <2>1, <2>2
<1> QED
  BY <1>4, <1>5, <1>9

\* Whatever was changed, declared, refused and restarted, a request gets to
\* the backends of the first rule that takes it; under StatusesAssumption, too.
THEOREM RightBackends == Spec => []RightBackend
<1>1. Init => IInv /\ OrdersKnown
  BY DEF Init, IInv, TablesKnown, TextsKnown, OrdersKnown
<1>2. TInv /\ IInv /\ OrdersKnown => RightBackend
  <2> SUFFICES ASSUME TInv, IInv, OrdersKnown, Settled, NEW l \in Listeners,
                      NEW req \in Requests, ~Mismatch(l, req),
                      \A x \in RulesFor(l, req) :
                        ranLast[x[2]] = x[1] /\ Distinct(spec[x[1]].rules[x[2]].backends)
               PROVE  IF RulesFor(l, req) = {} THEN Answers(l, req) = {NoPool}
                      ELSE \E x \in RulesFor(l, req) : Answers(l, req) = Backends(x[1], x[2])
    BY DEF RightBackend
  <2> DEFINE o == order[l]
             rules == RulesFor(l, req)
             ks == {k \in Running(l, req) : Selections(o[k], req) # {}}
  <2>1. /\ \E n \in Nat : DOMAIN o \subseteq 0..n
        /\ \A k \in DOMAIN o : o[k] = Guard \/ (o[k] \in Attached /\ l \in spec[o[k]].sections)
        /\ \A r \in Attached : l \in spec[r].sections => \E k \in DOMAIN o : o[k] = r
    BY OrdersHaveAll DEF OrdersKnown, Settled
  <2>2. Running(l, req) = {k \in DOMAIN o : o[k] # Guard}
    BY DEF Running
  <2>3. \A r \in Attached : loaded[r] = Text(r)
    BY DEF Settled, IInv, TextsKnown
  <2>4. ASSUME NEW r \in Attached, l \in spec[r].sections, NEW i \in DOMAIN spec[r].rules, IsFor(r, i, req)
        PROVE  <<r, i>> \in rules
    <3>1. i \in Indexes
      BY SpecsAssumption DEF Attached, TInv, TypeOK, Indexes
    <3> QED
      BY <2>4, <3>1 DEF RulesFor
  <2>5. ASSUME NEW x \in rules
        PROVE  /\ x[1] \in Attached /\ l \in spec[x[1]].sections
               /\ \/ Selections(x[1], req) = Backends(x[1], x[2])
                  \/ Selections(x[1], req) = {} /\ Backends(x[1], x[2]) = {NoPool}
    <3>1. /\ x[1] \in Attached /\ l \in spec[x[1]].sections
          /\ x[2] \in DOMAIN spec[x[1]].rules /\ IsFor(x[1], x[2], req)
      BY DEF RulesFor
    <3> QED
      BY <3>1, SelectsBackends
  <2>6. ASSUME NEW k \in ks PROVE \E x \in rules : Selections(o[k], req) = Backends(x[1], x[2])
    <3>1. o[k] \in Attached /\ l \in spec[o[k]].sections
      BY <2>1, <2>2
    <3> DEFINE i == First(Matching(loaded[o[k]], req))
    <3>2. Matching(loaded[o[k]], req) # {}
      BY DEF Selections
    <3>3. i \in DOMAIN spec[o[k]].rules /\ IsFor(o[k], i, req)
      BY <2>3, <3>1, <3>2, ForIsFirst
    <3>4. <<o[k], i>> \in rules
      BY <2>4, <3>1, <3>3
    <3>5. Selections(o[k], req) # {}
      OBVIOUS
    <3> HIDE DEF rules, ks, i, o
    <3> QED
      BY <2>5, <3>4, <3>5
  <2>7. CASE ks = {}
    <3>1. Answers(l, req) = {NoPool}
      BY <2>7 DEF Answers
    <3>2. ASSUME NEW x \in rules PROVE Backends(x[1], x[2]) = {NoPool}
      <4>1. PICK k \in DOMAIN o : o[k] = x[1]
        BY <2>1, <2>5
      <4>2. o[k] # Guard
        BY <2>5, <4>1, GuardAssumption DEF Attached
      <4>3. Selections(x[1], req) = {}
        BY <2>2, <2>7, <4>1, <4>2
      <4>4. \/ Selections(x[1], req) = Backends(x[1], x[2])
            \/ Backends(x[1], x[2]) = {NoPool}
        BY <2>5
      <4>5. Backends(x[1], x[2]) # {}
        BY DEF Backends
      <4> QED
        BY <4>3, <4>4, <4>5
    <3> QED
      BY <3>1, <3>2
  <2>8. CASE ks # {}
    <3>1. \E k \in ks : Answers(l, req) = Selections(o[k], req)
      <4>1. CASE \E k \in ks : Selections(o[k], req) = {Redirected}
        BY <2>8, <4>1 DEF Answers
      <4>2. CASE ~\E k \in ks : Selections(o[k], req) = {Redirected}
        <5>1. Answers(l, req) = Selections(o[LastOf(ks)], req)
          BY <2>8, <4>2 DEF Answers
        <5>2. LastOf(ks) \in ks
          <6>1. PICK n \in Nat : ks \subseteq 0..n
            BY <2>1, <2>2
          <6> HIDE DEF ks
          <6> QED
            BY <2>8, <6>1, LastIsGreatest
        <5> QED
          BY <5>1, <5>2
      <4> QED
        BY <4>1, <4>2
    <3>2. PICK k \in ks : Answers(l, req) = Selections(o[k], req)
      BY <3>1
    <3>3. PICK x \in rules : Selections(o[k], req) = Backends(x[1], x[2])
      BY <2>6
    <3> QED
      BY <3>2, <3>3
  <2> QED
    BY <2>7, <2>8
<1> QED
  BY <1>1, <1>2, InitTInv, NextTInv, NextIInv, NextOrdersKnown, PTL DEF Spec

=============================================================================
