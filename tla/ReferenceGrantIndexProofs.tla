--------------------- MODULE ReferenceGrantIndexProofs ---------------------
(***************************************************************************)
(* The table keeps its type through every overflow, every From of a cached  *)
(* grant has an entry, and the table answers for the grants, for any        *)
(* grants, keys and counter width.                                          *)
(***************************************************************************)
EXTENDS ReferenceGrantIndex, FiniteSetTheorems, TLAPS

Tables == [Froms -> [Tos -> Counters \cup {Missing}] \cup {None}]

\* Wrapping yields a counter.
LEMMA WrapType ==
  ASSUME NEW n \in Int PROVE Wrap(n) \in Counters
<1> DEFINE m == (n + Half) % (2 * Half)
<1>1. n + Half \in Int /\ 2 * Half \in Nat \ {0}
  BY GrantsAssumption
<1>2. m \in 0..(2 * Half - 1)
  BY <1>1
<1>3. m - Half \in (-Half)..(Half - 1)
  <2> HIDE DEF m
  <2> QED BY <1>2, GrantsAssumption
<1> QED
  BY <1>3 DEF Wrap, Counters

\* The indices of a sequence that satisfy a condition are finitely many.
LEMMA IndicesFinite ==
  ASSUME NEW S, NEW s \in Seq(S), NEW I \in SUBSET DOMAIN s
  PROVE  Cardinality(I) \in Nat
<1>1. IsFiniteSet(DOMAIN s)
  BY FS_Interval
<1>2. IsFiniteSet(I)
  BY <1>1, FS_Subset
<1> QED
  BY <1>2, FS_CardinalityType

LEMMA TimesType ==
  ASSUME NEW S, NEW s \in Seq(S), NEW x PROVE Times(s, x) \in Nat
BY IndicesFinite DEF Times, Places

LEMMA GrantParts ==
  ASSUME NEW g \in Grants
  PROVE  g.from \in Seq(Froms) /\ g.to \in Seq(Tos)
BY GrantsAssumption

LEMMA EntriesType ==
  ASSUME NEW table \in Tables, NEW f \in Froms
  PROVE  Entries(table, f) \in [Tos -> Counters \cup {Missing}]
BY DEF Tables, Entries, NoTos

LEMMA IncrementedType ==
  ASSUME NEW v \in Counters \cup {Missing}, NEW m \in Nat
  PROVE  Incremented(v, m) \in Counters
<1>1. (IF v = Missing THEN 0 ELSE v) + m \in Int
  BY GrantsAssumption DEF Counters
<1> QED
  BY <1>1, WrapType DEF Incremented

LEMMA DecrementedType ==
  ASSUME NEW v \in Counters \cup {Missing}, NEW m \in Nat
  PROVE  Decremented(v, m) \in Counters \cup {Missing}
<1>1. v # Missing => v - m \in Int
  BY GrantsAssumption DEF Counters
<1> QED
  BY <1>1, WrapType DEF Decremented

\* set() yields a table, drops no entry and has one for every From it was given.
LEMMA AfterSetType ==
  ASSUME NEW table \in Tables, NEW g \in Grants
  PROVE  /\ AfterSet(table, g) \in Tables
         /\ \A f \in Froms : table[f] # None \/ f \in Range(g.from)
                                => AfterSet(table, g)[f] # None
<1> DEFINE entry(f) == [t \in Tos |->
             IF t \notin Range(g.to) THEN Entries(table, f)[t]
             ELSE Incremented(Entries(table, f)[t], Pairs(g, f, t))]
<1>1. ASSUME NEW f \in Froms
      PROVE  entry(f) \in [Tos -> Counters \cup {Missing}]
  <2>1. \A t \in Tos : Entries(table, f)[t] \in Counters \cup {Missing}
    BY EntriesType
  <2>2. \A t \in Tos : Pairs(g, f, t) \in Nat
    BY GrantParts, TimesType DEF Pairs
  <2> QED
    BY <2>1, <2>2, IncrementedType
<1>2. \A f \in Froms : entry(f) # None
  BY <1>1, GrantsAssumption
<1>3. AfterSet(table, g) =
        [f \in Froms |-> IF f \notin Range(g.from) THEN table[f] ELSE entry(f)]
  BY DEF AfterSet
<1> HIDE DEF entry
<1> QED
  BY <1>1, <1>2, <1>3 DEF Tables

\* unset() yields a table and drops no entry.
LEMMA AfterUnsetType ==
  ASSUME NEW table \in Tables, NEW g \in Grants
  PROVE  /\ AfterUnset(table, g) \in Tables
         /\ \A f \in Froms : table[f] # None => AfterUnset(table, g)[f] # None
<1> DEFINE n(f) == Cardinality({i \in Reached(table, g) : g.from[i] = f})
           entry(f) == [t \in Tos |->
             IF t \notin Range(g.to) THEN Entries(table, f)[t]
             ELSE Decremented(Entries(table, f)[t], n(f) * Times(g.to, t))]
<1>1. ASSUME NEW f \in Froms
      PROVE  entry(f) \in [Tos -> Counters \cup {Missing}]
  <2>1. \A t \in Tos : Entries(table, f)[t] \in Counters \cup {Missing}
    BY EntriesType
  <2>2. n(f) \in Nat
    BY GrantParts, IndicesFinite DEF Reached
  <2>3. \A t \in Tos : n(f) * Times(g.to, t) \in Nat
    <3> HIDE DEF n
    <3> QED BY <2>2, GrantParts, TimesType
  <2> HIDE DEF n
  <2> QED
    BY <2>1, <2>3, DecrementedType
<1>2. \A f \in Froms : entry(f) # None
  BY <1>1, GrantsAssumption
<1>3. AfterUnset(table, g) = [f \in Froms |-> IF n(f) = 0 THEN table[f] ELSE entry(f)]
  BY DEF AfterUnset
<1> HIDE DEF entry, n
<1> QED
  BY <1>1, <1>2, <1>3 DEF Tables

---------------------------------------------------------------------------
IInv == TypeOK /\ FromsPresent

LEMMA InitStep == Init => IInv
BY DEF Init, IInv, TypeOK, FromsPresent

\* SetReferenceGrant, the first time and as a replacement.
LEMMA SetStep ==
  ASSUME IInv, NEW k \in Keys, NEW g \in Grants, SetReferenceGrant(k, g)
  PROVE  IInv'
<1> DEFINE base == IF grants[k] = None THEN refFromTo ELSE AfterUnset(refFromTo, grants[k])
<1> USE DEF IInv
<1>1. grants[k] # None => grants[k] \in Grants
  BY DEF TypeOK
<1>2. base \in Tables /\ \A f \in Froms : refFromTo[f] # None => base[f] # None
  BY <1>1, AfterUnsetType DEF TypeOK, Tables
<1>3. /\ grants' = [grants EXCEPT ![k] = g]
      /\ refFromTo' = AfterSet(base, g)
      /\ overrun' \subseteq Froms \X Tos
  BY DEF SetReferenceGrant, NoteOverruns
<1> HIDE DEF base
<1>4. /\ refFromTo' \in Tables
      /\ \A f \in Froms : base[f] # None \/ f \in Range(g.from) => refFromTo'[f] # None
  BY <1>2, <1>3, AfterSetType
<1>5. TypeOK'
  BY <1>3, <1>4 DEF TypeOK, Tables
<1>6. FromsPresent'
  <2> SUFFICES ASSUME NEW h \in Keys, grants'[h] # None, NEW f \in Range(grants'[h].from)
               PROVE  refFromTo'[f] # None
    BY DEF FromsPresent
  <2>1. f \in Froms
    <3>1. grants'[h] \in Grants
      BY <1>5 DEF TypeOK
    <3> QED
      BY <3>1, GrantParts DEF Range
  <2>2. CASE h = k
    BY <1>3, <1>4, <2>1, <2>2 DEF TypeOK
  <2>3. CASE h # k
    <3>1. grants[h] = grants'[h]
      BY <1>3, <2>3 DEF TypeOK
    <3> QED
      BY <3>1, <1>2, <1>4, <2>1 DEF FromsPresent
  <2> QED
    BY <2>2, <2>3
<1> QED
  BY <1>5, <1>6

LEMMA UnsetStep ==
  ASSUME IInv, NEW k \in Keys, UnsetReferenceGrant(k)
  PROVE  IInv'
<1> USE DEF IInv
<1>1. grants[k] \in Grants
  BY DEF TypeOK, UnsetReferenceGrant
<1>2. /\ grants' = [grants EXCEPT ![k] = None]
      /\ refFromTo' \in Tables
      /\ \A f \in Froms : refFromTo[f] # None => refFromTo'[f] # None
      /\ overrun' \subseteq Froms \X Tos
  BY <1>1, AfterUnsetType DEF UnsetReferenceGrant, NoteOverruns, TypeOK, Tables
<1>3. TypeOK'
  BY <1>2 DEF TypeOK, Tables
<1>4. FromsPresent'
  <2> SUFFICES ASSUME NEW h \in Keys, grants'[h] # None, NEW f \in Range(grants'[h].from)
               PROVE  refFromTo'[f] # None
    BY DEF FromsPresent
  <2>1. grants'[h] = grants[h] /\ grants[h] \in Grants
    BY <1>2 DEF TypeOK
  <2>2. f \in Froms
    BY <2>1, GrantParts DEF Range
  <2> QED
    BY <1>2, <2>1, <2>2 DEF FromsPresent
<1> QED
  BY <1>3, <1>4

THEOREM Invariance == Spec => []IInv
<1>1. IInv /\ [Next]_vars => IInv'
  <2> SUFFICES ASSUME IInv, [Next]_vars PROVE IInv'
    OBVIOUS
  <2>1. CASE UNCHANGED vars
    BY <2>1 DEF vars, IInv, TypeOK, FromsPresent
  <2> QED
    BY <2>1, SetStep, UnsetStep DEF Next
<1> QED
  BY <1>1, InitStep, PTL DEF Spec

\* The counters stay within their width whatever is set and removed.
THEOREM TypeCorrect == Spec => []TypeOK
<1>1. IInv => TypeOK
  BY DEF IInv
<1> QED
  BY <1>1, Invariance, PTL

\* unset's early return (utils.go:236-238) is never taken for a cached grant:
\* removing a grant always visits all its pairs, even after an overflow.
THEOREM FromsArePresent == Spec => []FromsPresent
<1>1. IInv => FromsPresent
  BY DEF IInv
<1> QED
  BY <1>1, Invariance, PTL

---------------------------------------------------------------------------
(* What a counter says of the number of listings.                          *)

\* How many decrements delete the entry: 2 * Half stands for zero.
Value(table, f, t) ==
  IF table[f] = None \/ table[f][t] = Missing THEN 0 ELSE ToZero(table[f][t])

LEMMA ToZeroType ==
  ASSUME NEW v \in Counters
  PROVE  /\ ToZero(v) \in 1..(2 * Half)
         /\ ToZero(v) = v \/ ToZero(v) = v + 2 * Half
BY GrantsAssumption DEF ToZero, Counters

\* Wrapping takes away a multiple of the range.
LEMMA WrapCongruent ==
  ASSUME NEW n \in Int
  PROVE  \E q \in Int : Wrap(n) = n - q * (2 * Half)
<1> DEFINE d == 2 * Half
           a == n + Half
<1>1. a \in Int /\ d \in Nat \ {0}
  BY GrantsAssumption
<1>2. Wrap(n) = (a % d) - Half
  BY DEF Wrap
<1> HIDE DEF a, d
<1>3. a = d * (a \div d) + (a % d) /\ a \div d \in Int /\ a % d \in Int
  BY <1>1
<1>4. Wrap(n) = a - Half - d * (a \div d)
  BY <1>1, <1>2, <1>3, GrantsAssumption
<1>5. a - Half = n
  BY GrantsAssumption DEF a
<1>6. d * (a \div d) = (a \div d) * d
  BY <1>1, <1>3
<1> QED
  BY <1>3, <1>4, <1>5, <1>6 DEF d

\* The representative in 1..2 * Half of a number is no larger, and is the number
\* itself if that is in range.
LEMMA Representative ==
  ASSUME NEW n \in Nat \ {0}, NEW x \in 1..(2 * Half), NEW q \in Int,
         x = n - q * (2 * Half)
  PROVE  x <= n /\ (n <= 2 * Half => x = n)
<1> DEFINE d == 2 * Half
<1>1. d \in Nat \ {0}
  BY GrantsAssumption
<1>2. x \in 1..d /\ x = n - q * d
  OBVIOUS
<1> HIDE DEF d
<1>3. CASE q <= -1
  <2>1. q * d <= (-1) * d
    BY <1>1, <1>3
  <2> QED
    BY <1>1, <1>2, <2>1
<1>4. CASE q = 0
  BY <1>1, <1>2, <1>4
<1>5. CASE q >= 1
  <2>1. q * d >= 1 * d /\ q * d \in Int
    BY <1>1, <1>5
  <2> QED
    BY <1>1, <1>2, <2>1 DEF d
<1> QED
  BY <1>3, <1>4, <1>5

\* A counter that has the residue of n > 0 represents n.
LEMMA ToZeroOfWrap ==
  ASSUME NEW n \in Nat \ {0}, NEW m \in Int, m = n \/ m = n - 2 * Half
  PROVE  /\ ToZero(Wrap(m)) <= n
         /\ n <= 2 * Half => ToZero(Wrap(m)) = n
<1>1. PICK q \in Int : Wrap(m) = m - q * (2 * Half)
  BY WrapCongruent
<1> DEFINE x == ToZero(Wrap(m))
<1>2. Wrap(m) \in Counters
  BY WrapType
<1>3. x \in 1..(2 * Half) /\ (x = Wrap(m) \/ x = Wrap(m) + 2 * Half)
  BY <1>2, ToZeroType
<1> HIDE DEF x
<1> DEFINE d == 2 * Half
<1>4. d \in Nat
  BY GrantsAssumption
<1>5. \E z \in Int : x = n - z * (2 * Half)
  <2>1. x = n - q * d \/ x = n - q * d - d \/ x = n - q * d + d
    BY <1>1, <1>3, <1>4
  <2> HIDE DEF d
  <2>2. CASE x = n - q * d
    BY <2>2 DEF d
  <2>3. CASE x = n - q * d - d
    <3>1. x = n - (q + 1) * d /\ q + 1 \in Int
      BY <1>4, <2>3
    <3> QED
      BY <3>1 DEF d
  <2>4. CASE x = n - q * d + d
    <3>1. x = n - (q - 1) * d /\ q - 1 \in Int
      BY <1>4, <2>4
    <3> QED
      BY <3>1 DEF d
  <2> QED
    BY <2>1, <2>2, <2>3, <2>4
<1> QED
  BY <1>3, <1>5, Representative DEF x

LEMMA IncrementedValue ==
  ASSUME NEW v \in Counters \cup {Missing}, NEW m \in Nat \ {0}, NEW u,
         u = IF v = Missing THEN 0 ELSE ToZero(v)
  PROVE  /\ Incremented(v, m) \in Counters
         /\ ToZero(Incremented(v, m)) <= u + m
         /\ u + m <= 2 * Half => ToZero(Incremented(v, m)) = u + m
<1>1. Incremented(v, m) \in Counters
  BY IncrementedType
<1> DEFINE n == u + m
           w == (IF v = Missing THEN 0 ELSE v) + m
<1>2. n \in Nat \ {0} /\ w \in Int /\ (w = n \/ w = n - 2 * Half)
  <2>1. CASE v = Missing
    BY <2>1
  <2>2. CASE v \in Counters
    <3>1. v # Missing /\ v \in Int
      BY <2>2, GrantsAssumption DEF Counters
    <3>2. ToZero(v) \in Nat /\ (ToZero(v) = v \/ ToZero(v) = v + 2 * Half)
      BY <2>2, ToZeroType, GrantsAssumption
    <3> QED
      BY <3>1, <3>2, GrantsAssumption
  <2> QED
    BY <2>1, <2>2
<1>3. Incremented(v, m) = Wrap(w)
  BY DEF Incremented
<1> HIDE DEF n, w
<1>4. ToZero(Wrap(w)) <= n /\ (n <= 2 * Half => ToZero(Wrap(w)) = n)
  BY <1>2, ToZeroOfWrap
<1> QED
  BY <1>1, <1>3, <1>4 DEF n

LEMMA DecrementedValue ==
  ASSUME NEW v \in Counters, NEW m \in Nat
  PROVE  IF ToZero(v) <= m THEN Decremented(v, m) = Missing
         ELSE /\ Decremented(v, m) \in Counters
              /\ ToZero(Decremented(v, m)) = ToZero(v) - m
<1>1. v # Missing /\ v \in Int
  BY GrantsAssumption DEF Counters
<1>2. CASE ToZero(v) <= m
  BY <1>1, <1>2 DEF Decremented
<1>3. CASE ~(ToZero(v) <= m)
  <2> DEFINE n == ToZero(v) - m
             w == v - m
  <2>1. ToZero(v) \in 1..(2 * Half) /\ (ToZero(v) = v \/ ToZero(v) = v + 2 * Half)
    BY ToZeroType
  <2>2. /\ n \in Nat \ {0} /\ n <= 2 * Half
        /\ w \in Int /\ (w = n \/ w = n - 2 * Half)
    BY <1>1, <1>3, <2>1, GrantsAssumption
  <2>3. Decremented(v, m) = Wrap(w)
    BY <1>1, <1>3 DEF Decremented
  <2> HIDE DEF n, w
  <2>4. ToZero(Wrap(w)) = n /\ Wrap(w) \in Counters
    BY <2>2, ToZeroOfWrap, WrapType
  <2> QED
    BY <1>3, <2>3, <2>4 DEF n
<1> QED
  BY <1>2, <1>3

LEMMA TimesZero ==
  ASSUME NEW S, NEW s \in Seq(S), NEW x
  PROVE  /\ Times(s, x) \in Nat
         /\ Times(s, x) = 0 <=> x \notin Range(s)
<1>1. IsFiniteSet(DOMAIN s)
  BY FS_Interval
<1>2. IsFiniteSet(Places(s, x))
  BY <1>1, FS_Subset DEF Places
<1>3. Times(s, x) \in Nat /\ (Times(s, x) = 0 <=> Places(s, x) = {})
  BY <1>2, FS_CardinalityType, FS_EmptySet DEF Times
<1>4. Places(s, x) = {} <=> x \notin Range(s)
  BY DEF Places, Range
<1> QED
  BY <1>3, <1>4

LEMMA ProductZero ==
  ASSUME NEW a \in Nat, NEW b \in Nat
  PROVE  a * b \in Nat /\ (a * b = 0 <=> a = 0 \/ b = 0)
<1>1. CASE a = 0 \/ b = 0
  BY <1>1
<1>2. CASE a >= 1 /\ b >= 1
  <2>1. a * b >= 1 * b
    BY <1>2
  <2> QED
    BY <1>2, <2>1
<1> QED
  BY <1>1, <1>2

LEMMA PairsZero ==
  ASSUME NEW g \in Grants, NEW f, NEW t
  PROVE  /\ Pairs(g, f, t) \in Nat
         /\ Pairs(g, f, t) = 0 <=> f \notin Range(g.from) \/ t \notin Range(g.to)
BY GrantParts, TimesZero, ProductZero DEF Pairs

\* set() adds the listings of the grant, modulo the range of the counters.
LEMMA ValueAfterSet ==
  ASSUME NEW table \in Tables, NEW g \in Grants, NEW f \in Froms, NEW t \in Tos
  PROVE  LET n == Value(table, f, t) + Pairs(g, f, t)
             w == Value(AfterSet(table, g), f, t) IN
         w <= n /\ (n <= 2 * Half => w = n)
<1> DEFINE u == Value(table, f, t)
           m == Pairs(g, f, t)
           w == Value(AfterSet(table, g), f, t)
           v == Entries(table, f)[t]
           a == AfterSet(table, g)[f]
<1>1. v \in Counters \cup {Missing} /\ u = IF v = Missing THEN 0 ELSE ToZero(v)
  BY EntriesType DEF Value, Entries, NoTos
<1>2. u \in Nat
  <2>1. v # Missing => ToZero(v) \in Nat
    BY <1>1, ToZeroType, GrantsAssumption
  <2> QED
    BY <1>1, <2>1
<1>3. m \in Nat /\ (m = 0 <=> f \notin Range(g.from) \/ t \notin Range(g.to))
  BY PairsZero
<1>4. CASE m = 0
  <2>1. CASE f \notin Range(g.from)
    BY <1>2, <1>4, <2>1 DEF AfterSet, Value
  <2>2. CASE f \in Range(g.from) /\ t \notin Range(g.to)
    <3>1. a[t] = v /\ a # None
      BY <2>2, AfterSetType DEF AfterSet
    <3>2. w = u
      BY <1>1, <3>1 DEF Value
    <3> QED
      BY <1>2, <1>4, <3>2
  <2> QED
    BY <1>3, <1>4, <2>1, <2>2
<1>5. CASE m # 0
  <2>1. f \in Range(g.from) /\ t \in Range(g.to)
    BY <1>3, <1>5
  <2>2. a[t] = Incremented(v, m) /\ a # None
    BY <2>1, AfterSetType DEF AfterSet
  <2> HIDE DEF u, m, v
  <2>3. /\ Incremented(v, m) \in Counters
        /\ ToZero(Incremented(v, m)) <= u + m
        /\ u + m <= 2 * Half => ToZero(Incremented(v, m)) = u + m
    BY <1>1, <1>3, <1>5, IncrementedValue
  <2>4. w = ToZero(Incremented(v, m))
    BY <2>2, <2>3, GrantsAssumption DEF Value, Counters
  <2> QED
    BY <2>3, <2>4 DEF u, m
<1> QED
  BY <1>4, <1>5

\* unset() takes the listings of the grant away, down to no entry at all.
LEMMA ValueAfterUnset ==
  ASSUME NEW table \in Tables, NEW g \in Grants, NEW f \in Froms, NEW t \in Tos,
         \A x \in Range(g.from) : table[x] # None
  PROVE  LET u == Value(table, f, t)
             m == Pairs(g, f, t) IN
         Value(AfterUnset(table, g), f, t) = IF u <= m THEN 0 ELSE u - m
<1> DEFINE u == Value(table, f, t)
           m == Pairs(g, f, t)
           w == Value(AfterUnset(table, g), f, t)
           v == Entries(table, f)[t]
           a == AfterUnset(table, g)[f]
<1>1. v \in Counters \cup {Missing} /\ u = IF v = Missing THEN 0 ELSE ToZero(v)
  BY EntriesType DEF Value, Entries, NoTos
<1>2. u \in Nat
  <2>1. v # Missing => ToZero(v) \in Nat
    BY <1>1, ToZeroType, GrantsAssumption
  <2> QED
    BY <1>1, <2>1
<1>3. m \in Nat /\ (m = 0 <=> f \notin Range(g.from) \/ t \notin Range(g.to))
  BY PairsZero
<1>4. Cardinality({i \in Reached(table, g) : g.from[i] = f}) = Times(g.from, f)
  <2>1. Reached(table, g) = DOMAIN g.from
    <3>1. ASSUME NEW i \in DOMAIN g.from, NEW j \in 1..i PROVE table[g.from[j]] # None
      <4>1. j \in DOMAIN g.from
        BY GrantParts
      <4> QED
        BY <4>1 DEF Range
    <3> QED
      BY <3>1 DEF Reached
  <2> QED
    BY <2>1 DEF Times, Places
<1>5. Times(g.from, f) \in Nat /\ (Times(g.from, f) = 0 <=> f \notin Range(g.from))
  BY GrantParts, TimesZero
<1>6. a = IF f \notin Range(g.from) THEN table[f]
          ELSE [y \in Tos |-> IF y \notin Range(g.to) THEN Entries(table, f)[y]
                              ELSE Decremented(Entries(table, f)[y], Pairs(g, f, y))]
  BY <1>4, <1>5 DEF AfterUnset, Pairs
<1>7. CASE m = 0
  <2>1. CASE f \notin Range(g.from)
    <3>1. w = u
      BY <1>6, <2>1 DEF Value
    <3> HIDE DEF u, m
    <3> QED
      BY <1>2, <1>7, <3>1 DEF u, m
  <2>2. CASE f \in Range(g.from) /\ t \notin Range(g.to)
    <3>1. a[t] = v /\ a # None
      BY <1>6, <2>2, AfterUnsetType DEF Range
    <3>2. w = u
      BY <1>1, <3>1 DEF Value
    <3> HIDE DEF u, m
    <3> QED
      BY <1>2, <1>7, <3>2 DEF u, m
  <2> QED
    BY <1>3, <1>7, <2>1, <2>2
<1>8. CASE m # 0
  <2>1. f \in Range(g.from) /\ t \in Range(g.to)
    BY <1>3, <1>8
  <2>2. a[t] = Decremented(v, m) /\ a # None
    BY <1>6, <2>1, AfterUnsetType
  <2>3. w = IF a[t] = Missing THEN 0 ELSE ToZero(a[t])
    BY <2>2 DEF Value
  <2> HIDE DEF u, m, v, a, w
  <2>4. CASE v = Missing
    <3>1. w = 0 /\ u = 0
      BY <1>1, <2>2, <2>3, <2>4 DEF Decremented
    <3> QED
      BY <1>3, <3>1 DEF u, m, w
  <2>5. CASE v \in Counters
    <3>1. u = ToZero(v)
      BY <1>1, <2>5, GrantsAssumption DEF Counters
    <3>2. CASE u <= m
      <4>1. w = 0
        BY <1>3, <2>2, <2>3, <2>5, <3>1, <3>2, DecrementedValue
      <4> QED
        BY <3>2, <4>1 DEF u, m, w
    <3>3. CASE ~(u <= m)
      <4>1. Decremented(v, m) \in Counters /\ ToZero(Decremented(v, m)) = u - m
        BY <1>3, <2>5, <3>1, <3>3, DecrementedValue
      <4>2. w = u - m
        BY <2>2, <2>3, <4>1, GrantsAssumption DEF Counters
      <4> QED
        BY <3>3, <4>2 DEF u, m, w
    <3> QED
      BY <3>2, <3>3
  <2> QED
    BY <1>1, <2>4, <2>5
<1> QED
  BY <1>7, <1>8

---------------------------------------------------------------------------
(* How often the cached grants list a pair.                                *)

Caches == [Keys -> Grants \cup {None}]

Listing(g, f, t) == IF g = None THEN 0 ELSE Pairs(g, f, t)

LEMMA ListedByType ==
  ASSUME NEW gs \in Caches, NEW k \in Keys, NEW f, NEW t
  PROVE  /\ IsFiniteSet(ListedBy(gs, k, f, t))
         /\ Cardinality(ListedBy(gs, k, f, t)) = Listing(gs[k], f, t)
         /\ Listing(gs[k], f, t) \in Nat
<1>1. CASE gs[k] = None
  BY <1>1, FS_EmptySet DEF ListedBy, Listing
<1>2. CASE gs[k] # None
  <2> DEFINE g == gs[k]
             A == Places(g.from, f)
             B == Places(g.to, t)
  <2>1. g \in Grants /\ g.from \in Seq(Froms) /\ g.to \in Seq(Tos)
    BY <1>2, GrantParts DEF Caches
  <2>2. IsFiniteSet(DOMAIN g.from) /\ IsFiniteSet(DOMAIN g.to)
    BY <2>1, FS_Interval
  <2>3. IsFiniteSet(A) /\ IsFiniteSet(B)
    BY <2>2, FS_Subset DEF Places
  <2>4. /\ IsFiniteSet(A \X B)
        /\ Cardinality(A \X B) = Pairs(g, f, t)
    BY <2>3, FS_Product DEF Pairs, Times
  <2>5. IsFiniteSet({k}) /\ Cardinality({k}) = 1
    BY FS_Singleton
  <2>6. Pairs(g, f, t) \in Nat
    BY <2>1, PairsZero
  <2>7. ListedBy(gs, k, f, t) = {k} \X (A \X B)
    BY <1>2 DEF ListedBy
  <2> HIDE DEF A, B
  <2>8. /\ IsFiniteSet({k} \X (A \X B))
        /\ Cardinality({k} \X (A \X B)) = 1 * Pairs(g, f, t)
    BY <2>4, <2>5, FS_Product
  <2> QED
    BY <1>2, <2>6, <2>7, <2>8 DEF Listing
<1> QED
  BY <1>1, <1>2

\* Replacing one object changes the number of listings by the difference of theirs.
LEMMA GrantedAfter ==
  ASSUME NEW gs \in Caches, NEW k \in Keys, NEW g \in Grants \cup {None}, NEW f, NEW t,
         IsFiniteSet(Listings(gs, f, t))
  PROVE  LET hs == [gs EXCEPT ![k] = g] IN
         /\ IsFiniteSet(Listings(hs, f, t))
         /\ Listing(gs[k], f, t) <= Granted(gs, f, t)
         /\ Granted(hs, f, t) = (Granted(gs, f, t) - Listing(gs[k], f, t)) + Listing(g, f, t)
         /\ Granted(gs, f, t) \in Nat /\ Granted(hs, f, t) \in Nat
<1> DEFINE hs == [gs EXCEPT ![k] = g]
           L == Listings(gs, f, t)
           O == ListedBy(gs, k, f, t)
           N == ListedBy(hs, k, f, t)
           R == L \ O
<1>1. hs \in Caches /\ hs[k] = g /\ \A h \in Keys \ {k} : hs[h] = gs[h]
  BY DEF Caches
<1>2. \A h \in Keys \ {k} : ListedBy(hs, h, f, t) = ListedBy(gs, h, f, t)
  BY <1>1 DEF ListedBy
<1>3. \A h \in Keys : \A x \in ListedBy(gs, h, f, t) : x[1] = h
  BY DEF ListedBy
<1>4. \A x \in N : x[1] = k
  BY DEF ListedBy
<1>5. O \subseteq L
  BY DEF Listings
<1>6. R = UNION {ListedBy(gs, h, f, t) : h \in Keys \ {k}}
  BY <1>3 DEF Listings
<1>7. Listings(hs, f, t) = R \cup N
  <2>1. Listings(hs, f, t) = (UNION {ListedBy(hs, h, f, t) : h \in Keys \ {k}}) \cup N
    BY DEF Listings
  <2> QED
    BY <1>2, <1>6, <2>1
<1>8. R \cap N = {}
  BY <1>3, <1>4, <1>6
<1>9. /\ IsFiniteSet(O) /\ Cardinality(O) = Listing(gs[k], f, t)
      /\ IsFiniteSet(N) /\ Cardinality(N) = Listing(g, f, t)
      /\ Listing(gs[k], f, t) \in Nat /\ Listing(g, f, t) \in Nat
  <2> HIDE DEF hs
  <2>1. /\ IsFiniteSet(O) /\ Cardinality(O) = Listing(gs[k], f, t)
        /\ Listing(gs[k], f, t) \in Nat
    BY ListedByType
  <2>2. /\ IsFiniteSet(N) /\ Cardinality(N) = Listing(hs[k], f, t)
        /\ Listing(hs[k], f, t) \in Nat
    BY <1>1, ListedByType
  <2> QED
    BY <1>1, <2>1, <2>2
<1> HIDE DEF O, N, L, hs
<1>10. IsFiniteSet(L)
  BY DEF L
<1>11. Cardinality(L) \in Nat /\ Cardinality(O) <= Cardinality(L)
  BY <1>5, <1>10, FS_CardinalityType, FS_Subset
<1>12. L \cap O = O
  BY <1>5
<1>13. IsFiniteSet(R) /\ Cardinality(R) = Cardinality(L) - Cardinality(O)
  BY <1>10, <1>12, FS_Difference
<1> HIDE DEF R
<1>14. /\ IsFiniteSet(R \cup N)
       /\ Cardinality(R \cup N) = Cardinality(R) + Cardinality(N) - Cardinality({})
  BY <1>8, <1>9, <1>13, FS_Union
<1>15. Cardinality({}) = 0
  BY FS_EmptySet
<1>16. Granted(gs, f, t) = Cardinality(L) /\ Granted(hs, f, t) = Cardinality(R \cup N)
  BY <1>7 DEF Granted, L
<1>17. Cardinality(R \cup N) = (Cardinality(L) - Listing(gs[k], f, t)) + Listing(g, f, t)
  BY <1>9, <1>11, <1>13, <1>14, <1>15
<1>18. Cardinality(R \cup N) \in Nat /\ IsFiniteSet(Listings(hs, f, t))
  BY <1>7, <1>14, FS_CardinalityType
<1> QED
  BY <1>9, <1>11, <1>16, <1>17, <1>18 DEF hs

---------------------------------------------------------------------------
(* The counters never claim more listings than there are, and claim exactly *)
(* as many as there are unless the pair has been overrun.                   *)

Finite == \A f \in Froms, t \in Tos : IsFiniteSet(Listings(grants, f, t))

Below ==
  \A f \in Froms, t \in Tos : Value(refFromTo, f, t) <= Granted(grants, f, t)

Exact ==
  \A f \in Froms, t \in Tos :
    <<f, t>> \notin overrun => Value(refFromTo, f, t) = Granted(grants, f, t)

CInv == Finite /\ Below /\ Exact

LEMMA ValueType ==
  ASSUME NEW table \in Tables, NEW f \in Froms, NEW t \in Tos
  PROVE  Value(table, f, t) \in 0..(2 * Half)
<1>1. table[f] = None \/ table[f][t] \in Counters \cup {Missing}
  BY DEF Tables
<1> QED
  BY <1>1, ToZeroType, GrantsAssumption DEF Value

\* No From of a grant has an entry missing: unset visits every pair.
LEMMA AllReached ==
  ASSUME IInv, NEW k \in Keys, grants[k] # None
  PROVE  /\ grants[k] \in Grants
         /\ \A x \in Range(grants[k].from) : refFromTo[x] # None
BY DEF IInv, TypeOK, FromsPresent

LEMMA InitCounts == Init => CInv
<1> SUFFICES ASSUME Init, NEW f \in Froms, NEW t \in Tos
             PROVE  /\ IsFiniteSet(Listings(grants, f, t))
                    /\ Value(refFromTo, f, t) = 0
                    /\ Granted(grants, f, t) = 0
  BY DEF CInv, Finite, Below, Exact
<1>1. Listings(grants, f, t) = {}
  BY DEF Init, Listings, ListedBy
<1> QED
  BY <1>1, FS_EmptySet DEF Init, Value, Granted

\* A pair whose listings the step has counted stays exactly counted.
LEMMA CountsStep ==
  ASSUME CInv, TypeOK, NEW k \in Keys, NEW g \in Grants \cup {None},
         grants' = [grants EXCEPT ![k] = g], refFromTo' \in Tables, NoteOverruns,
         \A f \in Froms, t \in Tos :
           LET u == Value(refFromTo, f, t)
               m == Listing(grants[k], f, t)
               n == (IF u <= m THEN 0 ELSE u - m) + Listing(g, f, t)
               w == Value(refFromTo', f, t) IN
           w <= n /\ (n <= 2 * Half => w = n)
  PROVE  CInv'
<1> SUFFICES ASSUME NEW f \in Froms, NEW t \in Tos
             PROVE  /\ IsFiniteSet(Listings(grants', f, t))
                    /\ Value(refFromTo', f, t) <= Granted(grants', f, t)
                    /\ <<f, t>> \notin overrun' => Value(refFromTo', f, t) = Granted(grants', f, t)
  BY DEF CInv, Finite, Below, Exact
<1> DEFINE u == Value(refFromTo, f, t)
           m == Listing(grants[k], f, t)
           p == Listing(g, f, t)
           w == Value(refFromTo', f, t)
           G == Granted(grants, f, t)
           H == Granted(grants', f, t)
<1>1. grants \in Caches /\ refFromTo \in Tables /\ IsFiniteSet(Listings(grants, f, t))
  BY DEF TypeOK, Caches, Tables, CInv, Finite
<1>2. /\ IsFiniteSet(Listings(grants', f, t))
      /\ m <= G /\ H = (G - m) + p /\ G \in Nat /\ H \in Nat
  <2>1. LET hs == [grants EXCEPT ![k] = g] IN
        /\ IsFiniteSet(Listings(hs, f, t))
        /\ m <= G
        /\ Granted(hs, f, t) = (G - m) + p
        /\ G \in Nat /\ Granted(hs, f, t) \in Nat
    BY <1>1, GrantedAfter
  <2> QED
    BY <2>1
<1>3. m \in Nat /\ p \in Nat
  <2>1. grants[k] \in Grants \cup {None}
    BY <1>1 DEF Caches
  <2> QED
    BY <2>1, PairsZero DEF Listing
<1>4. u \in 0..(2 * Half) /\ w \in 0..(2 * Half)
  BY <1>1, ValueType
<1>5. u <= G /\ (<<f, t>> \notin overrun => u = G)
  BY DEF CInv, Below, Exact
<1>6. LET n == (IF u <= m THEN 0 ELSE u - m) + p IN w <= n /\ (n <= 2 * Half => w = n)
  OBVIOUS
<1>7. <<f, t>> \notin overrun' => H <= 2 * Half /\ (<<f, t>> \notin overrun \/ H = 0)
  BY <1>2, GrantsAssumption DEF NoteOverruns
<1> HIDE DEF u, m, p, w, G, H
<1>8. w <= H
  BY <1>2, <1>3, <1>4, <1>5, <1>6, GrantsAssumption
<1>9. H = 0 => w = 0
  BY <1>4, <1>8, GrantsAssumption
<1>10. u = G /\ H <= 2 * Half => w = H
  BY <1>2, <1>3, <1>4, <1>6, GrantsAssumption
<1> QED
  BY <1>2, <1>5, <1>7, <1>8, <1>9, <1>10 DEF w, H

LEMMA SetCounts ==
  ASSUME IInv, CInv, NEW k \in Keys, NEW g \in Grants, SetReferenceGrant(k, g)
  PROVE  CInv'
<1> DEFINE base == IF grants[k] = None THEN refFromTo ELSE AfterUnset(refFromTo, grants[k])
<1>1. refFromTo \in Tables /\ TypeOK
  BY DEF IInv, TypeOK, Tables
<1>2. base \in Tables
  BY <1>1, AllReached, AfterUnsetType
<1>3. grants' = [grants EXCEPT ![k] = g] /\ refFromTo' = AfterSet(base, g) /\ NoteOverruns
  BY DEF SetReferenceGrant
<1>4. ASSUME NEW f \in Froms, NEW t \in Tos
      PROVE  LET u == Value(refFromTo, f, t)
                 m == Listing(grants[k], f, t) IN
             Value(base, f, t) = IF u <= m THEN 0 ELSE u - m
  <2>1. CASE grants[k] = None
    <3>1. Value(refFromTo, f, t) \in 0..(2 * Half)
      BY <1>1, ValueType
    <3> QED
      BY <2>1, <3>1, GrantsAssumption DEF Listing
  <2>2. CASE grants[k] # None
    BY <1>1, <2>2, AllReached, ValueAfterUnset DEF Listing
  <2> QED
    BY <2>1, <2>2
<1> HIDE DEF base
<1>5. refFromTo' \in Tables
  BY <1>2, <1>3, AfterSetType
<1>6. ASSUME NEW f \in Froms, NEW t \in Tos
      PROVE  LET u == Value(refFromTo, f, t)
                 m == Listing(grants[k], f, t)
                 n == (IF u <= m THEN 0 ELSE u - m) + Listing(g, f, t)
                 w == Value(refFromTo', f, t) IN
             w <= n /\ (n <= 2 * Half => w = n)
  <2>1. Listing(g, f, t) = Pairs(g, f, t)
    BY GrantsAssumption DEF Listing
  <2>2. LET n == Value(base, f, t) + Pairs(g, f, t)
            w == Value(AfterSet(base, g), f, t) IN
        w <= n /\ (n <= 2 * Half => w = n)
    BY <1>2, ValueAfterSet
  <2> QED
    BY <1>3, <1>4, <2>1, <2>2
<1> QED
  BY <1>1, <1>3, <1>5, <1>6, CountsStep

LEMMA UnsetCounts ==
  ASSUME IInv, CInv, NEW k \in Keys, UnsetReferenceGrant(k)
  PROVE  CInv'
<1>1. refFromTo \in Tables /\ TypeOK /\ grants[k] \in Grants
  BY AllReached DEF IInv, TypeOK, Tables, UnsetReferenceGrant
<1>2. /\ grants' = [grants EXCEPT ![k] = None]
      /\ refFromTo' = AfterUnset(refFromTo, grants[k]) /\ NoteOverruns
  BY DEF UnsetReferenceGrant
<1>3. refFromTo' \in Tables
  BY <1>1, <1>2, AfterUnsetType
<1>4. ASSUME NEW f \in Froms, NEW t \in Tos
      PROVE  LET u == Value(refFromTo, f, t)
                 m == Listing(grants[k], f, t)
                 n == (IF u <= m THEN 0 ELSE u - m) + Listing(None, f, t)
                 w == Value(refFromTo', f, t) IN
             w <= n /\ (n <= 2 * Half => w = n)
  <2> DEFINE u == Value(refFromTo, f, t)
             m == Listing(grants[k], f, t)
             n == IF u <= m THEN 0 ELSE u - m
  <2>1. Listing(None, f, t) = 0 /\ m = Pairs(grants[k], f, t)
    BY DEF Listing, UnsetReferenceGrant
  <2>2. Value(refFromTo', f, t) = n
    BY <1>1, <1>2, <2>1, AllReached, ValueAfterUnset DEF UnsetReferenceGrant
  <2>3. u \in 0..(2 * Half) /\ m \in Nat
    BY <1>1, <2>1, ValueType, PairsZero
  <2> HIDE DEF u, m
  <2>4. n \in Int
    BY <2>3, GrantsAssumption
  <2> HIDE DEF n
  <2>5. n <= n + 0 /\ (n + 0 <= 2 * Half => n = n + 0)
    BY <2>4
  <2> QED
    BY <2>1, <2>2, <2>5 DEF u, m, n
<1> QED
  BY <1>1, <1>2, <1>3, <1>4, CountsStep

LEMMA UnchangedCounts ==
  ASSUME CInv, UNCHANGED vars PROVE CInv'
<1>1. grants' = grants /\ refFromTo' = refFromTo /\ overrun' = overrun
  BY DEF vars
<1> QED
  BY <1>1 DEF CInv, Finite, Below, Exact

\* A reference is permitted exactly if cached grants list it, fewer than Half
\* times, unless it was listed more than 2 * Half times and has been listed ever
\* since: for any grants, keys and counter width, through every replacement and
\* removal (cache.go:200-220, utils.go:218-261).
THEOREM GrantsArePermitted == Spec => []ExistsIffGranted
<1>1. IInv /\ CInv /\ [Next]_vars => CInv'
  BY SetCounts, UnsetCounts, UnchangedCounts DEF Next
<1>2. IInv /\ CInv => ExistsIffGranted
  <2> SUFFICES ASSUME IInv, CInv, NEW f \in Froms, NEW t \in Tos, <<f, t>> \notin overrun
               PROVE  Exists(refFromTo, f, t) <=> Granted(grants, f, t) \in 1..(Half - 1)
    BY DEF ExistsIffGranted
  <2>1. Value(refFromTo, f, t) = Granted(grants, f, t)
    BY DEF CInv, Exact
  <2>2. refFromTo[f] = None \/ refFromTo[f][t] \in Counters \cup {Missing}
    BY DEF IInv, TypeOK
  <2>3. CASE refFromTo[f] = None \/ refFromTo[f][t] = Missing
    BY <2>1, <2>3, GrantsAssumption DEF Value, Exists
  <2>4. CASE refFromTo[f] # None /\ refFromTo[f][t] \in Counters
    <3> DEFINE v == refFromTo[f][t]
    <3>1. v \in Int /\ v # Missing /\ v >= -Half /\ v <= Half - 1
      BY <2>4, GrantsAssumption DEF Counters
    <3>2. Value(refFromTo, f, t) = IF v > 0 THEN v ELSE v + 2 * Half
      BY <2>4, <3>1 DEF Value, ToZero
    <3>3. Exists(refFromTo, f, t) <=> v > 0
      BY <2>4, <3>1 DEF Exists
    <3> HIDE DEF v
    <3> QED
      BY <2>1, <3>1, <3>2, <3>3, GrantsAssumption
  <2> QED
    BY <2>2, <2>3, <2>4
<1> QED
  BY <1>1, <1>2, InitCounts, Invariance, PTL DEF Spec

=============================================================================
