------------------------ MODULE ReferenceGrantIndex ------------------------
(***************************************************************************)
(* The ReferenceGrants of SIGCache and refFromTo, the table derived from    *)
(* them (internal/pkg/cache.go, utils.go): for every (from, to) pair a      *)
(* signed counter of fixed width says how many cached grants list it.       *)
(* SetReferenceGrant and UnsetReferenceGrant run under the cache's mutex.   *)
(***************************************************************************)
EXTENDS Integers, Sequences, FiniteSets, Functions

CONSTANTS Keys,      \* namespace/name of ReferenceGrants
          Froms,     \* stringified From entries: group/kind/namespace
          Tos,       \* stringified To entries: group/kind/namespace/name or *
          Grants,    \* objects: [from : Seq(Froms), to : Seq(Tos)]
          None,      \* no object, no entry
          Missing,   \* a to that is not a key of an inner map
          Half       \* counters range over -Half..Half-1; 128 for int8

VARIABLES grants,    \* SIGCache.ReferenceGrant
          refFromTo, \* from -> (to -> counter), both maps partial
          overrun    \* history: pairs listed more than 2 * Half times since
                     \* they were last listed by no grant

vars == <<grants, refFromTo, overrun>>

NoTos == [t \in Tos |-> Missing]

Counters == (-Half)..(Half - 1)

ASSUME GrantsAssumption ==
  /\ Grants \subseteq [from : Seq(Froms), to : Seq(Tos)]
  /\ None \notin Grants
  /\ Missing \notin Int
  /\ None \notin [Tos -> Counters \cup {Missing}]
  /\ Half \in Nat \ {0}

Wrap(n) == ((n + Half) % (2 * Half)) - Half

Places(s, x) == {i \in DOMAIN s : s[i] = x}
Times(s, x) == Cardinality(Places(s, x))

\* How often a grant lists the pair.
Pairs(g, f, t) == Times(g.from, f) * Times(g.to, t)

\* The places at which grant k lists the pair, those at which any grant of gs
\* does, and their number.
ListedBy(gs, k, f, t) ==
  IF gs[k] = None THEN {} ELSE {k} \X (Places(gs[k].from, f) \X Places(gs[k].to, t))
Listings(gs, f, t) == UNION {ListedBy(gs, k, f, t) : k \in Keys}
Granted(gs, f, t) == Cardinality(Listings(gs, f, t))

Entries(table, f) == IF table[f] = None THEN NoTos ELSE table[f]

Incremented(v, m) == Wrap((IF v = Missing THEN 0 ELSE v) + m)

\* Decrementing m times deletes the key the moment the counter reads zero.
ToZero(v) == IF v > 0 THEN v ELSE v + 2 * Half
Decremented(v, m) ==
  IF v = Missing THEN v ELSE IF ToZero(v) <= m THEN Missing ELSE Wrap(v - m)

\* refFromTo.set(rg)
AfterSet(table, g) ==
  [f \in Froms |->
     IF f \notin Range(g.from) THEN table[f]
     ELSE [t \in Tos |->
             IF t \notin Range(g.to) THEN Entries(table, f)[t]
             ELSE Incremented(Entries(table, f)[t], Pairs(g, f, t))]]

\* The From entries unset reaches: it returns at the first without an entry.
Reached(table, g) ==
  {i \in DOMAIN g.from : \A j \in 1..i : table[g.from[j]] # None}

\* Mutant of AfterUnset: the entry of a from goes with the first grant.
AfterUnsetDropsFrom(table, g) ==
  [f \in Froms |-> IF f \in Range(g.from) THEN None ELSE table[f]]

\* refFromTo.unset(rg)
AfterUnset(table, g) ==
  [f \in Froms |->
     LET n == Cardinality({i \in Reached(table, g) : g.from[i] = f}) IN
       IF n = 0 THEN table[f]
       ELSE [t \in Tos |->
               IF t \notin Range(g.to) THEN Entries(table, f)[t]
               ELSE Decremented(Entries(table, f)[t], n * Times(g.to, t))]]

Exists(table, f, t) ==
  /\ table[f] # None
  /\ table[f][t] # Missing
  /\ table[f][t] > 0

---------------------------------------------------------------------------
Init ==
  /\ grants = [k \in Keys |-> None]
  /\ refFromTo = [f \in Froms |-> None]
  /\ overrun = {}

\* A counter of 2 * Half values says nothing of a pair listed more often, and
\* nothing certain of it until no grant lists it any more.
NoteOverruns ==
  overrun' = {p \in Froms \X Tos :
                \/ Granted(grants', p[1], p[2]) > 2 * Half
                \/ p \in overrun /\ Granted(grants', p[1], p[2]) # 0}

\* Mutant of SetReferenceGrant: the replaced object is not unset first.
SetWithoutUnset(k, g) ==
  /\ grants' = [grants EXCEPT ![k] = g]
  /\ refFromTo' = AfterSet(refFromTo, g)
  /\ NoteOverruns

SetReferenceGrant(k, g) ==
  /\ grants' = [grants EXCEPT ![k] = g]
  /\ refFromTo' =
       AfterSet(IF grants[k] = None THEN refFromTo ELSE AfterUnset(refFromTo, grants[k]), g)
  /\ NoteOverruns

UnsetReferenceGrant(k) ==
  /\ grants[k] # None
  /\ refFromTo' = AfterUnset(refFromTo, grants[k])
  /\ grants' = [grants EXCEPT ![k] = None]
  /\ NoteOverruns

Next ==
  \/ \E k \in Keys, g \in Grants : SetReferenceGrant(k, g)
  \/ \E k \in Keys : UnsetReferenceGrant(k)

Spec == Init /\ [][Next]_vars

---------------------------------------------------------------------------
TypeOK ==
  /\ grants \in [Keys -> Grants \cup {None}]
  /\ refFromTo \in [Froms -> [Tos -> Counters \cup {Missing}] \cup {None}]
  /\ overrun \subseteq Froms \X Tos

\* Every From of a cached grant has an entry, so the early return in unset
\* (utils.go:236-238) never leaves counters of a removed grant behind.
FromsPresent ==
  \A k \in Keys : grants[k] # None =>
     \A f \in Range(grants[k].from) : refFromTo[f] # None

\* The table answers for the cached grants, through replacement and removal of
\* grants that share pairs, and what was refused after an overflow is permitted
\* again once fewer entries are left: a reference is permitted exactly if it is
\* listed, and fewer than Half times.  128 equal pairs are refused, although
\* every grant lists them; a pair listed more than 256 times answers for the
\* grants again when none lists it any more (cache.go:200-220,
\* utils.go:218-261, types.go:12-14).
ExistsIffGranted ==
  \A f \in Froms, t \in Tos :
    <<f, t>> \notin overrun =>
      (Exists(refFromTo, f, t) <=> Granted(grants, f, t) \in 1..(Half - 1))

=============================================================================
