-------------------------- MODULE StartupSyncProofs --------------------------
(***************************************************************************)
(* Proofs about a process that starts, for every cluster and every order of *)
(* its lists, its informers and the events.                                 *)
(***************************************************************************)
EXTENDS StartupSync, SIGCacheProofs, TLAPS

\* The maps have the kinds and keys of the cluster.
Shape ==
  /\ DOMAIN api = Kinds /\ DOMAIN informer = Kinds /\ DOMAIN cache = Kinds
  /\ DOMAIN watch = Kinds /\ DOMAIN queue = Kinds /\ DOMAIN reading = Kinds \ Gated
  /\ \A kind \in Kinds :
       /\ DOMAIN api[kind] = DOMAIN Universe[kind]
       /\ DOMAIN informer[kind] = DOMAIN Universe[kind]
       /\ DOMAIN cache[kind] = DOMAIN Universe[kind]
  /\ \A kind \in Kinds \ Gated : DOMAIN reading[kind] = {"key", "obj"}

\* What a worker has read is about a kind whose informer is filled.
InHand ==
  \A kind \in Kinds \ Gated : reading[kind].key # None =>
    /\ kind \in started
    /\ reading[kind].key \in DOMAIN Universe[kind]
    /\ reading[kind].obj \in Universe[kind][reading[kind].key] \cup {None}

\* The parts of the type invariant.
ScalarsTyped == sync \in 0..Synced /\ started \subseteq Kinds /\ DOMAIN deployed = Tenants
KeysTyped ==
  \A kind \in Kinds :
    /\ watch[kind] \cup queue[kind] \subseteq DOMAIN Universe[kind]
    /\ kind \notin started => watch[kind] = {} /\ queue[kind] = {}
ObjectsTyped ==
  \A kind \in Kinds : \A k \in DOMAIN Universe[kind] :
    /\ api[kind][k] \in Universe[kind][k]
    /\ informer[kind][k] \in Universe[kind][k] \cup {None}
    /\ cache[kind][k] \in CacheType(kind, k)

TInv == Shape /\ ScalarsTyped /\ KeysTyped /\ ObjectsTyped /\ InHand

LEMMA KindsAreListed == \A i \in DOMAIN Order : Order[i] \in Kinds
BY WorldAssumption

LEMMA LenOfOrder == DOMAIN Order = 1..9 /\ Synced = 10
BY DEF Order, Synced

---------------------------------------------------------------------------
\* What is cached of an object has the type of the cache.
LEMMA StoredType ==
  ASSUME NEW kind \in Kinds, NEW k \in DOMAIN Universe[kind],
         NEW old, NEW obj \in Universe[kind][k] \cup {None},
         old \in CacheType(kind, k)
  PROVE  Stored(kind, old, obj) \in CacheType(kind, k)
<1>1. CASE kind = "Node"
  BY <1>1 DEF Stored, SetNode, IpAddr, CacheType
<1>2. CASE kind # "Node"
  BY <1>2 DEF Stored, R!Visible, CacheType
<1> QED
  BY <1>1, <1>2

LEMMA InitTInv == Init => TInv
<1> SUFFICES ASSUME Init PROVE TInv
  OBVIOUS
<1> PICK tenants \in Previous : Boot(Start, tenants)
  BY DEF Init
<1>1. Shape
  BY WorldAssumption DEF Boot, Shape, Nothing, NoKeys, NotReading
<1>2. ScalarsTyped
  BY WorldAssumption, LenOfOrder DEF Boot, ScalarsTyped
<1>3. KeysTyped
  BY DEF Boot, KeysTyped, NoKeys
<1>4. ObjectsTyped
  BY WorldAssumption DEF Boot, ObjectsTyped, Nothing, CacheType
<1>5. InHand
  BY DEF Boot, InHand, NotReading
<1> QED
  BY <1>1, <1>2, <1>3, <1>4, <1>5 DEF TInv

\* A process that is replaced starts with every map in its place.
LEMMA RestartTInv ==
  ASSUME TInv, Restart
  PROVE  TInv'
<1>1. Shape'
  BY DEF Restart, TInv, Shape, Nothing, NoKeys, NotReading
<1>2. ScalarsTyped'
  BY LenOfOrder DEF Restart, TInv, ScalarsTyped
<1>3. KeysTyped'
  BY DEF Restart, KeysTyped, NoKeys
<1>4. ObjectsTyped'
  BY DEF Restart, TInv, ObjectsTyped, Nothing, CacheType
<1>5. InHand'
  BY DEF Restart, InHand, NotReading
<1> QED
  BY <1>1, <1>2, <1>3, <1>4, <1>5 DEF TInv

LEMMA FillTInv ==
  ASSUME TInv, NEW kinds \in Groups, Fill(kinds)
  PROVE  TInv'
<1>0. kinds \subseteq Kinds
  BY WorldAssumption
<1>1. Shape'
  BY <1>0 DEF Fill, TInv, Shape
<1>2. ScalarsTyped'
  BY <1>0 DEF Fill, TInv, ScalarsTyped
<1>3. KeysTyped'
  BY <1>0 DEF Fill, TInv, Shape, KeysTyped, Cached
<1>4. ObjectsTyped'
  BY <1>0 DEF Fill, TInv, Shape, ObjectsTyped
<1>5. InHand'
  BY DEF Fill, TInv, InHand
<1> QED
  BY <1>1, <1>2, <1>3, <1>4, <1>5 DEF TInv

LEMMA ObserveTInv ==
  ASSUME TInv, NEW kind \in Kinds, NEW k \in DOMAIN Universe[kind], Observe(kind, k)
  PROVE  TInv'
<1>1. Shape'
  BY DEF Observe, TInv, Shape
<1>2. ScalarsTyped'
  BY DEF Observe, TInv, ScalarsTyped
<1>3. KeysTyped'
  BY DEF Observe, TInv, Shape, KeysTyped
<1>4. ObjectsTyped'
  BY DEF Observe, TInv, Shape, ObjectsTyped
<1>5. InHand'
  BY DEF Observe, TInv, InHand
<1> QED
  BY <1>1, <1>2, <1>3, <1>4, <1>5 DEF TInv

LEMMA EditTInv ==
  ASSUME TInv, NEW kind \in Kinds, NEW k \in DOMAIN Universe[kind],
         NEW obj \in Universe[kind][k], Edit(kind, k, obj)
  PROVE  TInv'
<1>1. Shape'
  BY DEF Edit, TInv, Shape
<1>2. ScalarsTyped'
  BY DEF Edit, TInv, ScalarsTyped
<1>3. KeysTyped'
  BY DEF Edit, TInv, Shape, KeysTyped
<1>4. ObjectsTyped'
  BY DEF Edit, TInv, Shape, ObjectsTyped
<1>5. InHand'
  BY DEF Edit, TInv, InHand
<1> QED
  BY <1>1, <1>2, <1>3, <1>4, <1>5 DEF TInv

\* A list stores objects of the cluster.
LEMMA ListTInv ==
  ASSUME TInv, List
  PROVE  TInv'
<1> DEFINE kind == Order[sync]
<1>0. kind \in Kinds /\ sync \in 1..9
  BY KindsAreListed, LenOfOrder DEF List
<1>1. Shape'
  BY <1>0 DEF List, TInv, Shape
<1>2. ObjectsTyped'
  <2>1. \A k \in DOMAIN Universe[kind] : Source(kind)[k] \in Universe[kind][k] \cup {None}
    BY <1>0 DEF Source, TInv, ObjectsTyped
  <2>2. \A k \in DOMAIN Universe[kind] :
          cache'[kind][k] \in CacheType(kind, k)
    <3> SUFFICES ASSUME NEW k \in DOMAIN Universe[kind]
                 PROVE  cache'[kind][k] \in CacheType(kind, k)
      OBVIOUS
    <3>1. cache'[kind][k] = IF Source(kind)[k] = None THEN cache[kind][k]
                            ELSE Stored(kind, cache[kind][k], Source(kind)[k])
      BY <1>0 DEF List, TInv, Shape
    <3>2. cache[kind][k] \in CacheType(kind, k)
      BY <1>0 DEF TInv, ObjectsTyped
    <3>3. Stored(kind, cache[kind][k], Source(kind)[k]) \in
            CacheType(kind, k)
      BY <1>0, <2>1, <3>2, StoredType
    <3> QED
      BY <3>1, <3>2, <3>3
  <2>3. \A j \in Kinds : j # kind => cache'[j] = cache[j]
    BY <1>0 DEF List, TInv, Shape
  <2> QED
    BY <2>2, <2>3 DEF List, TInv, ObjectsTyped
<1>3. ScalarsTyped'
  BY <1>0, LenOfOrder DEF List, TInv, ScalarsTyped
<1>4. KeysTyped'
  BY DEF List, TInv, KeysTyped
<1>5. InHand'
  BY DEF List, TInv, InHand
<1> QED
  BY <1>1, <1>2, <1>3, <1>4, <1>5 DEF TInv

LEMMA ReadTInv ==
  ASSUME TInv, NEW kind \in Kinds, NEW k \in DOMAIN Universe[kind], Read(kind, k)
  PROVE  TInv'
<1>1. Shape'
  BY DEF Read, TInv, Shape
<1>2. ScalarsTyped'
  BY DEF Read, TInv, ScalarsTyped
<1>3. KeysTyped'
  BY DEF Read, TInv, Shape, KeysTyped
<1>4. ObjectsTyped'
  BY DEF Read, TInv, Shape, ObjectsTyped
<1>5. InHand'
  BY DEF Read, TInv, Shape, KeysTyped, ObjectsTyped, InHand
<1> QED
  BY <1>1, <1>2, <1>3, <1>4, <1>5 DEF TInv

\* What a worker may handle is an object of a kind whose informer is filled.
LEMMA WorkType ==
  ASSUME TInv, NEW kind \in Kinds, NEW k \in DOMAIN Universe[kind],
         NEW x \in Work(kind), x.key = k
  PROVE  x.obj \in Universe[kind][k] \cup {None} /\ kind \in started
BY DEF Work, TInv, KeysTyped, ObjectsTyped, InHand

\* What handling leaves: the object in the cache or the cache as it was.
LEMMA HandleChanges ==
  ASSUME TInv, NEW kind \in Kinds, NEW k \in DOMAIN Universe[kind], Handle(kind, k)
  PROVE  \E x \in Work(kind) :
    /\ x.key = k
    /\ cache' = IF R!Ignored(kind, k, x.obj) THEN cache
                ELSE [cache EXCEPT ![kind][k] = Stored(kind, @, x.obj)]
    /\ \E again \in SUBSET {k} :
         queue' = [queue EXCEPT ![kind] = (IF kind \in Gated THEN @ \ {k} ELSE @) \cup again]
    /\ reading' = [j \in DOMAIN reading |-> IF j = kind THEN NotReading[j] ELSE reading[j]]
    /\ gone' = gone \ {<<kind, k>>}
    /\ DOMAIN deployed' = Tenants
    /\ UNCHANGED <<api, informer, started, watch, sync>>
<1>1. PICK x \in Work(kind) :
        /\ x.key = k
        /\ cache' = Result(kind, k, x.obj).cache
        /\ deployed' = Result(kind, k, x.obj).deployed
        /\ queue' = [queue EXCEPT ![kind] =
                       (IF kind \in Gated THEN @ \ {k} ELSE @) \cup Result(kind, k, x.obj).again]
        /\ reading' = [j \in DOMAIN reading |-> IF j = kind THEN NotReading[j] ELSE reading[j]]
        /\ gone' = gone \ {<<kind, k>>}
        /\ UNCHANGED <<api, informer, started, watch, sync>>
  BY DEF Handle
<1>2. Result(kind, k, x.obj).again \in SUBSET {k}
  BY DEF Result
<1>3. Result(kind, k, x.obj).cache =
        IF R!Ignored(kind, k, x.obj) THEN cache ELSE After(kind, k, x.obj)
  BY DEF Result
<1>4. DOMAIN Result(kind, k, x.obj).deployed = Tenants
  BY DEF Result, TInv, ScalarsTyped
<1> QED
  BY <1>1, <1>2, <1>3, <1>4 DEF After

LEMMA HandleTInv ==
  ASSUME TInv, NEW kind \in Kinds, NEW k \in DOMAIN Universe[kind], Handle(kind, k)
  PROVE  TInv'
<1>1. PICK x \in Work(kind), again \in SUBSET {k} :
        /\ x.key = k
        /\ cache' = IF R!Ignored(kind, k, x.obj) THEN cache
                    ELSE [cache EXCEPT ![kind][k] = Stored(kind, @, x.obj)]
        /\ queue' = [queue EXCEPT ![kind] = (IF kind \in Gated THEN @ \ {k} ELSE @) \cup again]
        /\ reading' = [j \in DOMAIN reading |-> IF j = kind THEN NotReading[j] ELSE reading[j]]
        /\ DOMAIN deployed' = Tenants
        /\ UNCHANGED <<api, informer, started, watch, sync>>
  BY HandleChanges
<1>2. x.obj \in Universe[kind][k] \cup {None} /\ kind \in started
  BY <1>1, WorkType
<1>3. Shape'
  BY <1>1 DEF TInv, Shape, NotReading
<1>4. \A j \in Kinds : \A i \in DOMAIN Universe[j] :
        cache'[j][i] \in CacheType(j, i)
  <2> SUFFICES ASSUME NEW j \in Kinds, NEW i \in DOMAIN Universe[j]
               PROVE  cache'[j][i] \in CacheType(j, i)
    OBVIOUS
  <2>1. cache[j][i] \in CacheType(j, i)
    BY DEF TInv, ObjectsTyped
  <2>2. cache'[j][i] = cache[j][i] \/ (j = kind /\ i = k /\ cache'[j][i] = Stored(kind, cache[j][i], x.obj))
    BY <1>1 DEF TInv, Shape
  <2> QED
    BY <1>2, <2>1, <2>2, StoredType
<1>5. ObjectsTyped'
  BY <1>1, <1>4 DEF TInv, ObjectsTyped
<1>6. KeysTyped'
  BY <1>1, <1>2 DEF TInv, Shape, KeysTyped
<1>7. ScalarsTyped'
  BY <1>1 DEF TInv, ScalarsTyped
<1>8. InHand'
  BY <1>1 DEF TInv, Shape, InHand, NotReading
<1> QED
  BY <1>3, <1>5, <1>6, <1>7, <1>8 DEF TInv

LEMMA NextTInv == TInv /\ [Next]_vars => TInv'
<1> SUFFICES ASSUME TInv, [Next]_vars PROVE TInv'
  OBVIOUS
<1>1. CASE Lock \/ ListFails
  <2>1. sync' \in 0..Synced
    BY <1>1, LenOfOrder DEF Lock, ListFails, NumCore
  <2>2. UNCHANGED <<api, informer, started, watch, queue, reading, cache, deployed>>
    BY <1>1 DEF Lock, ListFails
  <2>3. Shape' /\ InHand'
    BY <2>2 DEF TInv, Shape, InHand
  <2>4. ScalarsTyped' /\ KeysTyped' /\ ObjectsTyped'
    BY <2>1, <2>2 DEF TInv, ScalarsTyped, KeysTyped, ObjectsTyped
  <2> QED
    BY <2>3, <2>4 DEF TInv
<1>2. CASE List
  BY <1>2, ListTInv
<1>3. CASE SyncExits \/ SyncPanics
  BY <1>3, RestartTInv DEF SyncExits, SyncPanics
<1>4. ASSUME NEW kinds \in Groups, Fill(kinds) PROVE TInv'
  BY <1>4, FillTInv
<1>5. ASSUME NEW kind \in Kinds, NEW k \in DOMAIN Universe[kind],
             Observe(kind, k) \/ TooEarly(kind, k) \/ Read(kind, k) \/ Handle(kind, k)
               \/ Panic(kind, k) \/ \E obj \in Universe[kind][k] : Edit(kind, k, obj)
      PROVE  TInv'
  <2>1. CASE TooEarly(kind, k)
    BY <2>1 DEF TooEarly, vars, TInv, Shape, ScalarsTyped, KeysTyped, ObjectsTyped, InHand
  <2>2. CASE Panic(kind, k)
    BY <2>2, RestartTInv DEF Panic
  <2> QED
    BY <1>5, <2>1, <2>2, ObserveTInv, ReadTInv, HandleTInv, EditTInv
<1>6. CASE UNCHANGED vars
  BY <1>6 DEF vars, TInv, Shape, ScalarsTyped, KeysTyped, ObjectsTyped, InHand
<1> QED
  BY <1>1, <1>2, <1>3, <1>4, <1>5, <1>6 DEF Next

\* What a process that starts has listed, read and cached is about objects of
\* the cluster, in whatever order its lists, informers and workers proceed.
THEOREM TypeCorrect == Spec => []TypeOK
<1>1. Init => TInv
  BY InitTInv
<1>2. TInv /\ [Next]_vars => TInv'
  BY NextTInv
<1>3. TInv => TypeOK
  BY DEF TInv, ScalarsTyped, KeysTyped, ObjectsTyped, InHand, TypeOK
<1> QED
  BY <1>1, <1>2, <1>3, PTL DEF Spec

---------------------------------------------------------------------------
(* Nothing there is stays unknown.                                         *)

\* Hypothesis: a class that another controller may own is never this one's.
ClassesKeepController ==
  \A c \in Classes :
    R!Foreign \in Universe["GatewayClass"][c] =>
      Universe["GatewayClass"][c] \subseteq {R!Foreign, None}

\* A change of the key is on its way, or its event is.
Pending(kind, k) ==
  \/ k \in watch[kind] \cup queue[kind]
  \/ kind \notin Gated /\ reading[kind].key = k

InformerKnows ==
  \A kind \in started : \A k \in DOMAIN Universe[kind] :
    k \notin watch[kind] => informer[kind][k] = api[kind][k]

ReadingKnows ==
  \A kind \in Kinds \ Gated : \A k \in DOMAIN Universe[kind] :
    reading[kind].key = k /\ k \notin watch[kind] \cup queue[kind] =>
      reading[kind].obj = api[kind][k]

\* What is not pending is cached as it is, or gone.
CacheKnows ==
  \A kind \in started : \A k \in DOMAIN Universe[kind] :
    ~Pending(kind, k) => Current(kind, k) \/ <<kind, k>> \in gone

NoForeign ==
  \A c \in Classes : cache["GatewayClass"][c] # None => cache["GatewayClass"][c] # R!Foreign

CInv == InformerKnows /\ ReadingKnows /\ CacheKnows /\ NoForeign

\* What was cached before matters for a node that cannot be read only.
LEMMA StoredIsCurrent ==
  ASSUME NEW kind, NEW old, NEW obj
  PROVE  \/ kind = "Node" /\ obj # None /\ SetFails(obj)
         \/ Stored(kind, old, obj) = Stored(kind, None, obj)
BY DEF Stored, SetNode

LEMMA NothingStored ==
  ASSUME NEW kind
  PROVE  Stored(kind, None, None) = None
BY DEF Stored, SetNode, R!Visible

LEMMA NoneIsNoKey ==
  ASSUME NEW kind \in Kinds, NEW k \in DOMAIN Universe[kind]
  PROVE  k # None
BY WorldAssumption

LEMMA StoredIsNotForeign ==
  ASSUME NEW old, NEW obj
  PROVE  Stored("GatewayClass", old, obj) # None =>
           Stored("GatewayClass", old, obj) # R!Foreign
BY DEF Stored, R!Visible

LEMMA InitCInv == Init => CInv
<1> SUFFICES ASSUME Init PROVE CInv
  OBVIOUS
<1> PICK tenants \in Previous : Boot(Start, tenants)
  BY DEF Init
<1>1. InformerKnows /\ CacheKnows
  BY DEF Boot, InformerKnows, CacheKnows
<1>2. ReadingKnows
  BY NoneIsNoKey DEF Boot, ReadingKnows, NotReading
<1>3. NoForeign
  BY WorldAssumption DEF Boot, NoForeign, Nothing, Classes, Order
<1> QED
  BY <1>1, <1>2, <1>3 DEF CInv

LEMMA RestartCInv ==
  ASSUME Restart
  PROVE  CInv'
<1>1. InformerKnows' /\ CacheKnows'
  BY DEF Restart, InformerKnows, CacheKnows
<1>2. ReadingKnows'
  BY NoneIsNoKey DEF Restart, ReadingKnows, NotReading
<1>3. NoForeign'
  BY WorldAssumption DEF Restart, NoForeign, Nothing, Classes, Order
<1> QED
  BY <1>1, <1>2, <1>3 DEF CInv

\* When an informer fills, what is cached and no longer there is gone.
LEMMA FillCInv ==
  ASSUME TInv, CInv, NEW kinds \in Groups, Fill(kinds)
  PROVE  CInv'
<1>0. kinds \subseteq Kinds
  BY WorldAssumption
<1>1. InformerKnows'
  BY <1>0 DEF Fill, TInv, Shape, ScalarsTyped, KeysTyped, CInv, InformerKnows
<1>2. ReadingKnows'
  <2> SUFFICES ASSUME NEW kind \in Kinds \ Gated, NEW k \in DOMAIN Universe[kind],
                      reading[kind].key = k, k \notin watch[kind] \cup queue'[kind]
               PROVE  reading[kind].obj = api[kind][k]
    BY DEF Fill, ReadingKnows
  <2>1. kind \in started
    BY NoneIsNoKey DEF TInv, InHand
  <2>2. queue'[kind] = queue[kind]
    BY <2>1 DEF Fill
  <2> QED
    BY <2>2 DEF CInv, ReadingKnows
<1>3. CacheKnows'
  <2> SUFFICES ASSUME NEW kind \in started', NEW k \in DOMAIN Universe[kind], ~Pending(kind, k)'
               PROVE  Current(kind, k)' \/ <<kind, k>> \in gone'
    BY DEF CacheKnows
  <2>0. kind \in Kinds /\ k \notin queue'[kind]
    BY <1>0 DEF Fill, TInv, ScalarsTyped, Pending
  <2>1. CASE kind \in kinds
    <3>1. k \notin Cached(api[kind])
      BY <2>0, <2>1 DEF Fill
    <3>2. api[kind][k] = None
      BY <2>0, <3>1 DEF TInv, Shape, Cached
    <3>3. CASE cache[kind][k] = None
      BY <3>2, <3>3, NothingStored DEF Fill, Current
    <3>4. CASE cache[kind][k] # None
      <4>1. k \in Cached(cache[kind]) \ Cached(api[kind])
        BY <2>0, <3>1, <3>4 DEF TInv, Shape, Cached
      <4>2. <<kind, k>> \in {<<kind, i>> : i \in Cached(cache[kind]) \ Cached(api[kind])}
        BY <4>1
      <4>3. {<<kind, i>> : i \in Cached(cache[kind]) \ Cached(api[kind])} \in
              {{<<j, i>> : i \in Cached(cache[j]) \ Cached(api[j])} : j \in kinds}
        BY <2>1
      <4> QED
        BY <4>2, <4>3 DEF Fill
    <3> QED
      BY <3>3, <3>4
  <2>2. CASE kind \notin kinds
    <3>1. kind \in started /\ queue'[kind] = queue[kind]
      BY <2>0, <2>2 DEF Fill
    <3>2. ~Pending(kind, k)
      BY <3>1 DEF Fill, Pending
    <3>3. Current(kind, k) \/ <<kind, k>> \in gone
      BY <3>1, <3>2 DEF CInv, CacheKnows
    <3> QED
      BY <3>3 DEF Fill, Current
  <2> QED
    BY <2>1, <2>2
<1>4. NoForeign'
  BY DEF Fill, CInv, NoForeign
<1> QED
  BY <1>1, <1>2, <1>3, <1>4 DEF CInv

LEMMA ObserveCInv ==
  ASSUME TInv, CInv, NEW kind \in Kinds, NEW k \in DOMAIN Universe[kind], Observe(kind, k)
  PROVE  CInv'
<1>1. InformerKnows'
  BY DEF Observe, TInv, Shape, ScalarsTyped, CInv, InformerKnows
<1>2. ReadingKnows'
  BY DEF Observe, TInv, Shape, CInv, ReadingKnows
<1>3. CacheKnows'
  <2> SUFFICES ASSUME NEW j \in started, NEW i \in DOMAIN Universe[j], ~Pending(j, i)'
               PROVE  Current(j, i) \/ <<j, i>> \in gone
    BY DEF Observe, CacheKnows, Current
  <2>0. j \in Kinds
    BY DEF TInv, ScalarsTyped
  <2>1. ~Pending(j, i)
    BY <2>0 DEF Observe, TInv, Shape, Pending
  <2> QED
    BY <2>1 DEF CInv, CacheKnows
<1>4. NoForeign'
  BY DEF Observe, CInv, NoForeign
<1> QED
  BY <1>1, <1>2, <1>3, <1>4 DEF CInv

LEMMA EditCInv ==
  ASSUME TInv, CInv, NEW kind \in Kinds, NEW k \in DOMAIN Universe[kind],
         NEW obj \in Universe[kind][k], Edit(kind, k, obj)
  PROVE  CInv'
<1>1. InformerKnows'
  BY DEF Edit, TInv, Shape, ScalarsTyped, CInv, InformerKnows
<1>2. ReadingKnows'
  <2> SUFFICES ASSUME NEW j \in Kinds \ Gated, NEW i \in DOMAIN Universe[j],
                      reading[j].key = i, i \notin watch'[j] \cup queue[j]
               PROVE  reading[j].obj = api'[j][i]
    BY DEF Edit, ReadingKnows
  <2>1. j \in started
    BY NoneIsNoKey DEF TInv, InHand
  <2>2. i \notin watch[j] /\ (j # kind \/ i # k)
    BY <2>1 DEF Edit, TInv, Shape
  <2>3. api'[j][i] = api[j][i]
    BY <2>2 DEF Edit, TInv, Shape
  <2> QED
    BY <2>2, <2>3 DEF CInv, ReadingKnows
<1>3. CacheKnows'
  <2> SUFFICES ASSUME NEW j \in started, NEW i \in DOMAIN Universe[j], ~Pending(j, i)'
               PROVE  Current(j, i)' \/ <<j, i>> \in gone
    BY DEF Edit, CacheKnows
  <2>0. j \in Kinds
    BY DEF TInv, ScalarsTyped
  <2>1. i \notin watch[j] /\ (j # kind \/ i # k)
    BY <2>0 DEF Edit, TInv, Shape, Pending
  <2>2. api'[j][i] = api[j][i]
    BY <2>0, <2>1 DEF Edit, TInv, Shape
  <2>3. ~Pending(j, i)
    BY <2>1 DEF Edit, Pending
  <2>4. Current(j, i) \/ <<j, i>> \in gone
    BY <2>3 DEF CInv, CacheKnows
  <2> QED
    BY <2>2, <2>4 DEF Edit, Current
<1>4. NoForeign'
  BY DEF Edit, CInv, NoForeign
<1> QED
  BY <1>1, <1>2, <1>3, <1>4 DEF CInv

\* A list makes what it returns current, and what is not pending it returns.
LEMMA ListCInv ==
  ASSUME TInv, CInv, List
  PROVE  CInv'
<1> DEFINE kind == Order[sync]
<1>0. kind \in Kinds
  BY KindsAreListed DEF List
<1>1. \A j \in Kinds : \A i \in DOMAIN Universe[j] :
        cache'[j][i] = cache[j][i] \/
          (j = kind /\ Source(kind)[i] # None
             /\ cache'[j][i] = Stored(kind, cache[j][i], Source(kind)[i]))
  BY <1>0 DEF List, TInv, Shape
<1>2. InformerKnows' /\ ReadingKnows'
  BY DEF List, CInv, InformerKnows, ReadingKnows
<1>3. CacheKnows'
  <2> SUFFICES ASSUME NEW j \in started, NEW i \in DOMAIN Universe[j], ~Pending(j, i)
               PROVE  Current(j, i)' \/ <<j, i>> \in gone
    BY DEF List, CacheKnows, Pending
  <2>0. j \in Kinds /\ i \notin watch[j]
    BY DEF TInv, ScalarsTyped, Pending
  <2>1. CASE cache'[j][i] = cache[j][i]
    BY <2>1 DEF List, Current, CInv, CacheKnows
  <2>2. CASE j = kind /\ cache'[j][i] = Stored(kind, cache[j][i], Source(kind)[i])
    <3>1. Source(j)[i] = api[j][i]
      BY <2>0 DEF Source, CInv, InformerKnows
    <3> QED
      BY <2>2, <3>1, StoredIsCurrent DEF List, Current
  <2> QED
    BY <1>1, <2>0, <2>1, <2>2
<1>4. NoForeign'
  <2>1. "GatewayClass" \in Kinds
    BY WorldAssumption DEF Order
  <2> QED
    BY <1>1, <2>1, StoredIsNotForeign DEF CInv, NoForeign, Classes
<1> QED
  BY <1>2, <1>3, <1>4 DEF CInv

LEMMA ReadCInv ==
  ASSUME TInv, CInv, NEW kind \in Kinds, NEW k \in DOMAIN Universe[kind], Read(kind, k)
  PROVE  CInv'
<1>0. kind \in started /\ kind \notin Gated /\ reading[kind].key = None
  BY DEF Read, TInv, KeysTyped
<1>1. InformerKnows' /\ NoForeign'
  BY DEF Read, CInv, InformerKnows, NoForeign
<1>2. ReadingKnows'
  <2> SUFFICES ASSUME NEW j \in Kinds \ Gated, NEW i \in DOMAIN Universe[j],
                      reading'[j].key = i, i \notin watch[j] \cup queue'[j]
               PROVE  reading'[j].obj = api[j][i]
    BY DEF Read, ReadingKnows
  <2>1. CASE j = kind
    BY <1>0, <2>1 DEF Read, TInv, Shape, CInv, InformerKnows
  <2>2. CASE j # kind
    BY <2>2 DEF Read, TInv, Shape, CInv, ReadingKnows
  <2> QED
    BY <2>1, <2>2
<1>3. CacheKnows'
  <2> SUFFICES ASSUME NEW j \in started, NEW i \in DOMAIN Universe[j], ~Pending(j, i)'
               PROVE  Current(j, i) \/ <<j, i>> \in gone
    BY DEF Read, CacheKnows, Current
  <2>0. j \in Kinds
    BY DEF TInv, ScalarsTyped
  <2>1. ~Pending(j, i)
    BY <1>0, <2>0, NoneIsNoKey DEF Read, TInv, Shape, Pending
  <2> QED
    BY <2>1 DEF CInv, CacheKnows
<1> QED
  BY <1>1, <1>2, <1>3 DEF CInv

\* An event is ignored only when the cache is what it would become.
LEMMA IgnoredIsStored ==
  ASSUME TInv, CInv, ClassesKeepController, NEW kind \in Kinds,
         NEW k \in DOMAIN Universe[kind], R!Ignored(kind, k, api[kind][k])
  PROVE  cache[kind][k] = Stored(kind, None, api[kind][k])
<1>1. kind = "GatewayClass"
  BY DEF R!Ignored
<1>2. CASE api[kind][k] = R!Foreign
  <2>1. cache[kind][k] \in {R!Foreign, None}
    BY <1>1, <1>2 DEF ClassesKeepController, Classes, TInv, ObjectsTyped, CacheType
  <2>2. cache[kind][k] = None
    BY <1>1, <2>1 DEF CInv, NoForeign, Classes
  <2> QED
    BY <1>1, <1>2, <2>2 DEF Stored, R!Visible
<1>3. CASE api[kind][k] = None /\ cache[kind][k] = None
  BY <1>3, NothingStored
<1> QED
  BY <1>2, <1>3 DEF R!Ignored

\* An event that leaves nothing pending was about the object as it is.
LEMMA HandleCInv ==
  ASSUME TInv, CInv, ClassesKeepController,
         NEW kind \in Kinds, NEW k \in DOMAIN Universe[kind], Handle(kind, k)
  PROVE  CInv'
<1>0. PICK x \in Work(kind) :
        /\ x.key = k
        /\ cache' = IF R!Ignored(kind, k, x.obj) THEN cache
                    ELSE [cache EXCEPT ![kind][k] = Stored(kind, @, x.obj)]
        /\ \E again \in SUBSET {k} :
             queue' = [queue EXCEPT ![kind] = (IF kind \in Gated THEN @ \ {k} ELSE @) \cup again]
        /\ reading' = [j \in DOMAIN reading |-> IF j = kind THEN NotReading[j] ELSE reading[j]]
        /\ gone' = gone \ {<<kind, k>>}
        /\ UNCHANGED <<api, informer, started, watch, sync>>
  BY HandleChanges, SMTT(30)
<1> PICK again \in SUBSET {k} :
      queue' = [queue EXCEPT ![kind] = (IF kind \in Gated THEN @ \ {k} ELSE @) \cup again]
  BY <1>0
<1>1. /\ x.key = k
      /\ cache' = IF R!Ignored(kind, k, x.obj) THEN cache
                  ELSE [cache EXCEPT ![kind][k] = Stored(kind, @, x.obj)]
      /\ queue' = [queue EXCEPT ![kind] = (IF kind \in Gated THEN @ \ {k} ELSE @) \cup again]
      /\ reading' = [j \in DOMAIN reading |-> IF j = kind THEN NotReading[j] ELSE reading[j]]
      /\ gone' = gone \ {<<kind, k>>}
      /\ UNCHANGED <<api, informer, started, watch, sync>>
  BY <1>0
<1>2. \A j \in Kinds : \A i \in DOMAIN Universe[j] : j # kind \/ i # k => cache'[j][i] = cache[j][i]
  BY <1>1 DEF TInv, Shape
<1>3. \A j \in Kinds : j # kind => queue'[j] = queue[j]
  BY <1>1 DEF TInv, Shape
<1>4. queue'[kind] = (IF kind \in Gated THEN queue[kind] \ {k} ELSE queue[kind]) \cup again
  BY <1>1 DEF TInv, Shape
<1>5. kind \notin Gated => reading[kind] = x /\ reading'[kind].key = None
  BY <1>1 DEF Work, TInv, Shape, NotReading
<1>6. \A j \in Kinds \ Gated : j # kind => reading'[j] = reading[j]
  BY <1>1 DEF TInv, Shape
<1>7. InformerKnows'
  BY <1>1 DEF CInv, InformerKnows
<1>8. ReadingKnows'
  <2> SUFFICES ASSUME NEW j \in Kinds \ Gated, NEW i \in DOMAIN Universe[j],
                      reading'[j].key = i, i \notin watch[j] \cup queue'[j]
               PROVE  reading'[j].obj = api[j][i]
    BY <1>1 DEF ReadingKnows
  <2>1. j # kind
    BY <1>5, NoneIsNoKey
  <2> QED
    BY <1>3, <1>6, <2>1 DEF CInv, ReadingKnows
<1>9. CacheKnows'
  <2> SUFFICES ASSUME NEW j \in started, NEW i \in DOMAIN Universe[j], ~Pending(j, i)'
               PROVE  Current(j, i)' \/ <<j, i>> \in gone'
    BY <1>1 DEF CacheKnows
  <2>0. j \in Kinds
    BY DEF TInv, ScalarsTyped
  <2>1. CASE j = kind /\ i = k
    <3>1. k \notin watch[kind] /\ k \notin queue'[kind]
      BY <1>1, <2>1 DEF Pending
    <3>2. x.obj = api[kind][k]
      <4>1. CASE kind \in Gated
        BY <1>1, <2>1, <3>1, <4>1 DEF Work, CInv, InformerKnows
      <4>2. CASE kind \notin Gated
        BY <1>1, <1>4, <1>5, <3>1, <4>2 DEF CInv, ReadingKnows
      <4> QED
        BY <4>1, <4>2
    <3>3. CASE R!Ignored(kind, k, x.obj)
      BY <1>1, <2>1, <3>2, <3>3, IgnoredIsStored DEF Current
    <3>4. CASE ~R!Ignored(kind, k, x.obj)
      <4>1. cache'[kind][k] = Stored(kind, cache[kind][k], api[kind][k])
        BY <1>1, <3>2, <3>4 DEF TInv, Shape
      <4> QED
        BY <1>1, <2>1, <4>1, StoredIsCurrent DEF Current
    <3> QED
      BY <3>3, <3>4
  <2>2. CASE j # kind \/ i # k
    <3>1. ~Pending(j, i)
      BY <1>1, <1>3, <1>4, <1>5, <1>6, <2>0, <2>2 DEF Pending
    <3>2. Current(j, i) \/ <<j, i>> \in gone
      BY <3>1 DEF CInv, CacheKnows
    <3>3. cache'[j][i] = cache[j][i] /\ <<j, i>> # <<kind, k>>
      BY <1>2, <2>0, <2>2
    <3> QED
      BY <1>1, <3>2, <3>3 DEF Current
  <2> QED
    BY <2>1, <2>2
<1>10. NoForeign'
  <2>1. "GatewayClass" \in Kinds
    BY WorldAssumption DEF Order
  <2>2. \A c \in Classes : cache'["GatewayClass"][c] = cache["GatewayClass"][c] \/
          \E old, obj : cache'["GatewayClass"][c] = Stored("GatewayClass", old, obj)
    BY <1>1, <2>1 DEF TInv, Shape, Classes
  <2> QED
    BY <2>2, StoredIsNotForeign DEF CInv, NoForeign
<1> QED
  BY <1>7, <1>8, <1>9, <1>10 DEF CInv

LEMMA NextCInv ==
  ASSUME ClassesKeepController
  PROVE  TInv /\ CInv /\ [Next]_vars => CInv'
<1> SUFFICES ASSUME TInv, CInv, [Next]_vars PROVE CInv'
  OBVIOUS
<1>0. ASSUME UNCHANGED <<api, informer, started, watch, queue, reading, cache, gone>>
      PROVE  CInv'
  BY <1>0 DEF CInv, InformerKnows, ReadingKnows, CacheKnows, NoForeign, Pending, Current
<1>1. CASE Lock \/ ListFails
  BY <1>0, <1>1 DEF Lock, ListFails
<1>2. CASE List
  BY <1>2, ListCInv
<1>3. CASE SyncExits \/ SyncPanics
  BY <1>3, RestartCInv DEF SyncExits, SyncPanics
<1>4. ASSUME NEW kinds \in Groups, Fill(kinds) PROVE CInv'
  BY <1>4, FillCInv
<1>5. ASSUME NEW kind \in Kinds, NEW k \in DOMAIN Universe[kind],
             Observe(kind, k) \/ TooEarly(kind, k) \/ Read(kind, k) \/ Handle(kind, k)
               \/ Panic(kind, k) \/ \E obj \in Universe[kind][k] : Edit(kind, k, obj)
      PROVE  CInv'
  <2>1. CASE TooEarly(kind, k)
    BY <1>0, <2>1 DEF TooEarly, vars
  <2>2. CASE Panic(kind, k)
    BY <2>2, RestartCInv DEF Panic
  <2> QED
    BY <1>5, <2>1, <2>2, ObserveCInv, ReadCInv, HandleCInv, EditCInv
<1>6. CASE UNCHANGED vars
  BY <1>0, <1>6 DEF vars
<1> QED
  BY <1>1, <1>2, <1>3, <1>4, <1>5, <1>6 DEF Next

\* Whatever the order in which a process lists, fills its informers and gets
\* its first events, and whatever fails, it ends up knowing every object as it
\* is, but for core objects deleted between their list and their informer;
\* unless a class may change its controller.
THEOREM EverythingIsKnown ==
  ASSUME ClassesKeepController
  PROVE  Spec => []CaughtUp
<1>1. Init => TInv /\ CInv
  BY InitTInv, InitCInv
<1>2. TInv /\ CInv /\ [Next]_vars => (TInv /\ CInv)'
  BY NextTInv, NextCInv
<1>3. TInv /\ CInv => CaughtUp
  <2> SUFFICES ASSUME TInv, CInv, Settled, NEW kind \in Kinds, NEW k \in DOMAIN Universe[kind]
               PROVE  Current(kind, k) \/ <<kind, k>> \in gone
    BY DEF CaughtUp
  <2>1. ~Pending(kind, k)
    BY NoneIsNoKey DEF Settled, Pending, NoKeys, NotReading
  <2> QED
    BY <2>1 DEF Settled, CInv, CacheKnows
<1> QED
  BY <1>1, <1>2, <1>3, PTL DEF Spec

---------------------------------------------------------------------------
(* What a restart leaves in place.                                         *)

\* As long as no user changes anything, informers and workers hold the objects
\* as they are, the cache has no others, and it has what is listed.
FreshInformer ==
  \A kind \in started : \A k \in DOMAIN Universe[kind] : informer[kind][k] = api[kind][k]
FreshReading ==
  \A kind \in Kinds \ Gated : \A k \in DOMAIN Universe[kind] :
    reading[kind].key = k => reading[kind].obj = api[kind][k]
FreshCache ==
  \A kind \in Kinds \ {"Node"} : \A k \in DOMAIN Universe[kind] :
    cache[kind][k] \in {None, Known[kind][k]}
Listed ==
  \A i \in DOMAIN Order : i < sync /\ Order[i] # "Node" => cache[Order[i]] = Known[Order[i]]

Still ==
  /\ edits \in Nat /\ failures \in Nat
  /\ edits = 0 => api = Start /\ FreshInformer /\ FreshReading /\ FreshCache
  /\ edits = 0 /\ failures = 0 => Listed

\* Only for nodes does it matter what was cached before.
LEMMA StoredIsKnown ==
  ASSUME NEW kind \in Kinds, kind # "Node", NEW k \in DOMAIN Universe[kind], NEW old
  PROVE  Stored(kind, old, api[kind][k]) = Known[kind][k]
BY DEF Stored, Known

LEMMA NothingIsKnown ==
  ASSUME NEW kind \in Kinds, NEW k \in DOMAIN Universe[kind], api[kind][k] = None
  PROVE  Known[kind][k] = None
BY NothingStored DEF Known

LEMMA InitStill == Init => Still
<1> SUFFICES ASSUME Init PROVE Still
  OBVIOUS
<1> PICK tenants \in Previous : Boot(Start, tenants)
  BY DEF Init
<1>1. FreshInformer /\ FreshReading /\ FreshCache
  BY NoneIsNoKey DEF Boot, FreshInformer, FreshReading, FreshCache, NotReading, Nothing
<1>2. Listed
  BY LenOfOrder DEF Boot, Listed
<1> QED
  BY <1>1, <1>2 DEF Still, Init, Boot

LEMMA RestartStill ==
  ASSUME TInv, Still, Restart, failures' \in Nat
  PROVE  Still'
<1>1. FreshInformer' /\ FreshReading' /\ FreshCache'
  BY NoneIsNoKey DEF Restart, FreshInformer, FreshReading, FreshCache, NotReading, Nothing
<1>2. Listed'
  BY LenOfOrder DEF Restart, Listed
<1> QED
  BY <1>1, <1>2 DEF Still, Restart

LEMMA FillStill ==
  ASSUME TInv, Still, NEW kinds \in Groups, Fill(kinds)
  PROVE  Still'
<1>0. kinds \subseteq Kinds /\ started \subseteq Kinds
  BY WorldAssumption DEF TInv, ScalarsTyped
<1>1. FreshInformer => FreshInformer'
  BY <1>0 DEF Fill, FreshInformer
<1>2. UNCHANGED <<FreshReading, FreshCache, Listed>>
  BY DEF Fill, FreshReading, FreshCache, Listed, Known
<1> QED
  BY <1>1, <1>2 DEF Still, Fill

LEMMA ObserveStill ==
  ASSUME TInv, Still, NEW kind \in Kinds, NEW k \in DOMAIN Universe[kind], Observe(kind, k)
  PROVE  Still'
<1>1. FreshInformer => FreshInformer'
  BY DEF Observe, FreshInformer, TInv, Shape, ScalarsTyped
<1>2. UNCHANGED <<FreshReading, FreshCache, Listed>>
  BY DEF Observe, FreshReading, FreshCache, Listed, Known
<1> QED
  BY <1>1, <1>2 DEF Still, Observe

LEMMA ReadStill ==
  ASSUME TInv, Still, NEW kind \in Kinds, NEW k \in DOMAIN Universe[kind], Read(kind, k)
  PROVE  Still'
<1>0. kind \in started
  BY DEF Read, TInv, KeysTyped
<1>1. FreshInformer /\ FreshReading => FreshReading'
  <2> SUFFICES ASSUME FreshInformer, FreshReading,
                      NEW j \in Kinds \ Gated, NEW i \in DOMAIN Universe[j], reading'[j].key = i
               PROVE  reading'[j].obj = api'[j][i]
    BY DEF FreshReading
  <2>1. CASE j = kind
    <3>1. reading'[j] = [key |-> k, obj |-> informer[kind][k]]
      BY <2>1 DEF Read, TInv, Shape
    <3> QED
      BY <1>0, <2>1, <3>1 DEF FreshInformer, Read
  <2>2. CASE j # kind
    <3>1. reading'[j] = reading[j]
      BY <2>2 DEF Read, TInv, Shape
    <3> QED
      BY <3>1 DEF FreshReading, Read
  <2> QED
    BY <2>1, <2>2
<1>2. UNCHANGED <<FreshInformer, FreshCache, Listed>>
  BY DEF Read, FreshInformer, FreshCache, Listed, Known
<1> QED
  BY <1>1, <1>2 DEF Still, Read

\* A list caches its kind as it is: what is not there was not cached.
LEMMA ListStill ==
  ASSUME TInv, Still, List
  PROVE  Still'
<1> DEFINE kind == Order[sync]
<1>0. kind \in Kinds /\ sync \in 1..9
  BY KindsAreListed, LenOfOrder DEF List
<1>1. UNCHANGED <<FreshInformer, FreshReading>>
  BY DEF List, FreshInformer, FreshReading
<1>2. Known' = Known
  BY DEF List, Known
<1>3. \A j \in Kinds : j # kind => cache'[j] = cache[j]
  BY <1>0 DEF List, TInv, Shape
<1>4. ASSUME edits = 0, kind # "Node", NEW k \in DOMAIN Universe[kind]
      PROVE  cache'[kind][k] = Known[kind][k]
  <2>1. Source(kind)[k] = api[kind][k]
    BY <1>0, <1>4 DEF Source, Still, FreshInformer, List, Ready
  <2>2. cache'[kind][k] = IF Source(kind)[k] = None THEN cache[kind][k]
                          ELSE Stored(kind, cache[kind][k], Source(kind)[k])
    BY <1>0 DEF List, TInv, Shape
  <2>3. cache[kind][k] \in {None, Known[kind][k]}
    BY <1>0, <1>4 DEF Still, FreshCache
  <2>4. CASE api[kind][k] = None
    BY <1>0, <2>1, <2>2, <2>3, <2>4, NothingIsKnown
  <2>5. CASE api[kind][k] # None
    BY <1>0, <1>4, <2>1, <2>2, <2>5, StoredIsKnown
  <2> QED
    BY <2>4, <2>5
<1>5. edits = 0 => FreshCache'
  BY <1>2, <1>3, <1>4 DEF Still, FreshCache
<1>6. edits = 0 /\ Listed => Listed'
  <2> SUFFICES ASSUME edits = 0, Listed, NEW i \in DOMAIN Order, i < sync', Order[i] # "Node"
               PROVE  cache'[Order[i]] = Known[Order[i]]
    BY <1>2 DEF Listed
  <2>1. Order[i] = kind \/ (i < sync /\ Order[i] # kind)
    BY <1>0, LenOfOrder DEF List
  <2>2. Order[i] \in Kinds
    BY KindsAreListed
  <2>3. cache'[kind] = [k \in DOMAIN Universe[kind] |-> cache'[kind][k]]
    BY <1>0 DEF List, TInv, Shape
  <2>4. kind # "Node" => cache'[kind] = Known[kind]
    BY <1>0, <1>4, <2>3 DEF Known
  <2> QED
    BY <1>3, <2>1, <2>2, <2>4 DEF Listed
<1> QED
  BY <1>1, <1>5, <1>6 DEF Still, List

\* An event is about the object as it is.
LEMMA WorkIsFresh ==
  ASSUME TInv, Still, edits = 0, NEW kind \in Kinds, NEW k \in DOMAIN Universe[kind],
         NEW x \in Work(kind), x.key = k
  PROVE  x.obj = api[kind][k]
<1>1. CASE kind \in Gated
  <2>1. x.obj = informer[kind][k]
    BY <1>1 DEF Work
  <2>2. kind \in started
    BY WorkType
  <2> QED
    BY <2>1, <2>2 DEF Still, FreshInformer
<1>2. CASE kind \notin Gated
  BY <1>2 DEF Work, Still, FreshReading
<1> QED
  BY <1>1, <1>2

LEMMA HandleStill ==
  ASSUME TInv, Still, NEW kind \in Kinds, NEW k \in DOMAIN Universe[kind], Handle(kind, k)
  PROVE  Still'
<1>1. PICK x \in Work(kind) :
        /\ x.key = k
        /\ cache' = IF R!Ignored(kind, k, x.obj) THEN cache
                    ELSE [cache EXCEPT ![kind][k] = Stored(kind, @, x.obj)]
        /\ reading' = [j \in DOMAIN reading |-> IF j = kind THEN NotReading[j] ELSE reading[j]]
        /\ UNCHANGED <<api, informer, started, sync>>
  BY HandleChanges
<1>2. UNCHANGED <<edits, failures>>
  BY DEF Handle
<1>3. UNCHANGED <<FreshInformer, Known>>
  BY <1>1 DEF FreshInformer, Known
<1>4. FreshReading => FreshReading'
  <2>1. \A j \in Kinds \ Gated : reading'[j] = reading[j] \/ reading'[j].key = None
    BY <1>1 DEF TInv, Shape, NotReading
  <2>2. \A j \in Kinds \ Gated : \A i \in DOMAIN Universe[j] :
          reading'[j].key = i => reading'[j] = reading[j]
    BY <2>1, NoneIsNoKey
  <2> QED
    BY <1>1, <2>2 DEF FreshReading
<1>5. ASSUME edits = 0, NEW j \in Kinds, j # "Node", NEW i \in DOMAIN Universe[j]
      PROVE  cache'[j][i] \in {cache[j][i], Known[j][i]}
  <2>1. \/ cache'[j][i] = cache[j][i]
        \/ j = kind /\ i = k /\ cache'[j][i] = Stored(kind, cache[j][i], x.obj)
    BY <1>1 DEF TInv, Shape
  <2>2. x.obj = api[kind][k]
    BY <1>1, <1>5, WorkIsFresh
  <2> QED
    BY <1>5, <2>1, <2>2, StoredIsKnown
<1>6. edits = 0 => FreshCache'
  BY <1>3, <1>5 DEF Still, FreshCache
<1>7. edits = 0 /\ Listed => Listed'
  <2> SUFFICES ASSUME edits = 0, Listed, NEW i \in DOMAIN Order, i < sync, Order[i] # "Node"
               PROVE  cache'[Order[i]] = Known[Order[i]]
    BY <1>1, <1>3 DEF Listed
  <2>1. Order[i] \in Kinds /\ cache[Order[i]] = Known[Order[i]]
    BY KindsAreListed DEF Listed
  <2>2. cache'[Order[i]] = [j \in DOMAIN Universe[Order[i]] |-> cache'[Order[i]][j]]
    BY <1>1, <2>1 DEF TInv, Shape, Known
  <2>3. \A j \in DOMAIN Universe[Order[i]] : cache'[Order[i]][j] = Known[Order[i]][j]
    BY <1>5, <2>1
  <2> QED
    BY <2>1, <2>2, <2>3 DEF Known
<1> QED
  BY <1>1, <1>2, <1>3, <1>4, <1>6, <1>7 DEF Still

LEMMA NextStill == TInv /\ Still /\ [Next]_vars => Still'
<1> SUFFICES ASSUME TInv, Still, [Next]_vars PROVE Still'
  OBVIOUS
<1>0. ASSUME UNCHANGED <<api, informer, started, reading, sync, cache, edits, failures>>
      PROVE  Still'
  <2>1. UNCHANGED <<FreshInformer, FreshReading, FreshCache, Listed>>
    BY <1>0 DEF FreshInformer, FreshReading, FreshCache, Listed, Known
  <2> QED
    BY <1>0, <2>1 DEF Still
<1>1. CASE Lock
  <2>1. UNCHANGED <<FreshInformer, FreshReading, FreshCache>>
    BY <1>1 DEF Lock, FreshInformer, FreshReading, FreshCache, Known
  <2>2. Listed'
    BY <1>1, LenOfOrder DEF Lock, Listed
  <2> QED
    BY <1>1, <2>1, <2>2 DEF Still, Lock
<1>2. CASE ListFails
  <2>1. UNCHANGED <<FreshInformer, FreshReading, FreshCache>>
    BY <1>2 DEF ListFails, FreshInformer, FreshReading, FreshCache, Known
  <2>2. failures' \in Nat /\ failures' # 0
    BY <1>2 DEF ListFails, Still
  <2> QED
    BY <1>2, <2>1, <2>2 DEF Still, ListFails
<1>3. CASE List
  BY <1>3, ListStill
<1>4. CASE SyncExits \/ SyncPanics
  BY <1>4, RestartStill DEF SyncExits, SyncPanics, Still
<1>5. ASSUME NEW kinds \in Groups, Fill(kinds) PROVE Still'
  BY <1>5, FillStill
<1>6. ASSUME NEW kind \in Kinds, NEW k \in DOMAIN Universe[kind],
             Observe(kind, k) \/ TooEarly(kind, k) \/ Read(kind, k) \/ Handle(kind, k)
               \/ Panic(kind, k) \/ \E obj \in Universe[kind][k] : Edit(kind, k, obj)
      PROVE  Still'
  <2>1. CASE TooEarly(kind, k)
    BY <1>0, <2>1 DEF TooEarly, vars
  <2>2. CASE Panic(kind, k)
    BY <2>2, RestartStill DEF Panic, Still
  <2>3. CASE \E obj \in Universe[kind][k] : Edit(kind, k, obj)
    BY <2>3 DEF Edit, Still
  <2> QED
    BY <1>6, <2>1, <2>2, <2>3, ObserveStill, ReadStill, HandleStill
<1>7. CASE UNCHANGED vars
  BY <1>0, <1>7 DEF vars
<1> QED
  BY <1>1, <1>2, <1>3, <1>4, <1>5, <1>6, <1>7 DEF Next

\* The kinds that a declaration is about, members of pools aside.
Declaring == {"GatewayClass", "Gateway", "HTTPRoute", "Service", "Namespace", "ReferenceGrant"}

\* A cache that knows them as they are.
Agrees(s) == \A kind \in Declaring : s[kind] = Known[kind]

LEMMA KnownType ==
  ASSUME TInv
  PROVE  /\ Declaring \subseteq Kinds \ {"Node"}
         /\ \A kind \in Declaring :
              /\ DOMAIN Known[kind] = DOMAIN Universe[kind]
              /\ \A k \in DOMAIN Universe[kind] : Known[kind][k] \in Universe[kind][k] \cup {None}
<1>1. Declaring \subseteq Kinds \ {"Node"}
  BY WorldAssumption DEF Declaring, Order
<1>2. \A kind \in Declaring : DOMAIN Known[kind] = DOMAIN Universe[kind]
  BY <1>1 DEF Known
<1>3. ASSUME NEW kind \in Declaring, NEW k \in DOMAIN Universe[kind]
      PROVE  Known[kind][k] \in Universe[kind][k] \cup {None}
  BY <1>1 DEF Known, Stored, R!Visible, TInv, ObjectsTyped
<1> QED
  BY <1>1, <1>2, <1>3

\* HandleBackends declares what is in use in its namespace (utils.go:400-410).
LEMMA BackendsAreInUse ==
  ASSUME TInv, NEW ns
  PROVE  BackendsOf(Known, ns) = InUse(ns)
<1>1. ASSUME NEW v \in BackendsOf(Known, ns) PROVE v \in InUse(ns)
  <2>1. PICK g \in GetRootGateways(Known, v) : Known.GatewayClass[Known.Gateway[g].class] # None
    BY DEF BackendsOf
  <2>2. PICK r \in HTTPRoutesRefsOf(Known, v) : g \in GatewayRefsOfHR(Known, r, Known.HTTPRoute[r])
    BY <2>1 DEF GetRootGateways
  <2>3. r \in Cached(Known.HTTPRoute) /\ v \in AttachedServices(Known, r)
    BY <2>2 DEF HTTPRoutesRefsOf
  <2>4. PICK pr \in Known.HTTPRoute[r].parents : pr.gw = g /\ ParentMatches(Known, r, pr)
    BY <2>2, <2>3 DEF GatewayRefsOfHR, Cached
  <2>5. g \in DOMAIN Universe["Gateway"] /\ Known.Gateway[g] # None
    BY <2>3, <2>4, KnownType, ReferencesAssumption DEF Cached, ParentMatches, Declaring
  <2>6. Known.Gateway[g].class \in Classes
    BY <2>5, KnownType, ReferencesAssumption DEF Declaring
  <2>7. g \in AttachedGateways(Known, Known.Gateway[g].class)
    BY <2>5, KnownType DEF AttachedGateways, Cached, Declaring
  <2>8. r \in AttachedHTTPRoutes(Known, g)
    BY <2>3, <2>4 DEF AttachedHTTPRoutes
  <2>9. v \in RelatedServices(Known, Known.Gateway[g].class)
    BY <2>1, <2>3, <2>7, <2>8 DEF RelatedServices
  <2> QED
    BY <2>6, <2>9 DEF InUse, BackendsOf
<1>2. ASSUME NEW c \in Classes, NEW v \in RelatedServices(Known, c), NsOf[v] = ns
      PROVE  v \in BackendsOf(Known, ns)
  <2>0. PICK g \in AttachedGateways(Known, c) : \E r \in AttachedHTTPRoutes(Known, g) :
          Known.GatewayClass[c] # None /\ v \in AttachedServices(Known, r)
    BY DEF RelatedServices
  <2>1. PICK r \in AttachedHTTPRoutes(Known, g) :
          Known.GatewayClass[c] # None /\ v \in AttachedServices(Known, r)
    BY <2>0
  <2>2. r \in Cached(Known.HTTPRoute)
    BY <2>1 DEF AttachedHTTPRoutes
  <2>3. v \in Cached(Known.Service)
    BY <2>1, <2>2, KnownType, ReferencesAssumption DEF AttachedServices, Cached, Declaring
  <2>4. r \in HTTPRoutesRefsOf(Known, v)
    BY <2>1, <2>2 DEF HTTPRoutesRefsOf
  <2>5. g \in GatewayRefsOfHR(Known, r, Known.HTTPRoute[r])
    BY <2>1, <2>2 DEF GatewayRefsOfHR, AttachedHTTPRoutes, Cached
  <2>6. g \in GetRootGateways(Known, v)
    BY <2>4, <2>5 DEF GetRootGateways
  <2>7. Known.Gateway[g].class = c
    BY <2>1 DEF AttachedGateways
  <2> QED
    BY <1>2, <2>1, <2>3, <2>6, <2>7 DEF BackendsOf
<1> QED
  BY <1>1, <1>2 DEF InUse

\* What an event concerns are classes.
LEMMA GatewaysHaveClasses ==
  ASSUME TInv, NEW gws \in SUBSET Cached(cache.Gateway)
  PROVE  ClassNamesOf(cache, gws) \subseteq Classes
<1>1. "Gateway" \in Kinds
  BY WorldAssumption DEF Order
<1>2. ASSUME NEW g \in gws PROVE cache.Gateway[g].class \in Classes
  <2>1. g \in DOMAIN Universe["Gateway"] /\ cache.Gateway[g] \in Universe["Gateway"][g] \ {None}
    BY <1>1 DEF Cached, TInv, Shape, ObjectsTyped, CacheType
  <2> QED
    BY <2>1, ReferencesAssumption
<1> QED
  BY <1>2 DEF ClassNamesOf

LEMMA ParentsAreCached ==
  ASSUME TInv, NEW r \in DOMAIN Universe["HTTPRoute"],
         NEW hr \in Universe["HTTPRoute"][r] \cup {None}
  PROVE  GatewayRefsOfHR(cache, r, hr) \subseteq Cached(cache.Gateway)
<1>1. "Gateway" \in Kinds
  BY WorldAssumption DEF Order
<1> QED
  BY <1>1, ReferencesAssumption DEF GatewayRefsOfHR, ParentMatches, Cached, TInv, Shape

LEMMA GrantsImpactClasses ==
  ASSUME TInv, NEW rg
  PROVE  RGImpactedGatewayClasses(cache, rg) \subseteq Classes
<1>1. "HTTPRoute" \in Kinds
  BY WorldAssumption DEF Order
<1>2. ASSUME NEW r \in RGImpactedHTTPRoutes(cache, rg)
      PROVE  GatewayRefsOfHR(cache, r, cache.HTTPRoute[r]) \subseteq Cached(cache.Gateway)
  <2>1. r \in DOMAIN Universe["HTTPRoute"]
    BY <1>1 DEF RGImpactedHTTPRoutes, Cached, TInv, Shape
  <2>2. cache.HTTPRoute[r] \in Universe["HTTPRoute"][r] \cup {None}
    BY <1>1, <2>1 DEF TInv, ObjectsTyped, CacheType
  <2> QED
    BY <2>1, <2>2, ParentsAreCached
<1> DEFINE gws == RGImpactedGateways(cache, rg) \cup
                    UNION {GatewayRefsOfHR(cache, r, cache.HTTPRoute[r]) :
                             r \in RGImpactedHTTPRoutes(cache, rg)}
<1>3. gws \in SUBSET Cached(cache.Gateway)
  BY <1>2 DEF RGImpactedGateways
<1>4. ClassNamesOf(cache, gws) \subseteq Classes
  BY <1>3, GatewaysHaveClasses
<1> QED
  BY <1>4 DEF RGImpactedGatewayClasses

\* The reconcilers use the same relations.
LEMMA SameRelations ==
  ASSUME NEW s, NEW x, NEW y
  PROVE  /\ R!ClassNamesOf(s, x) = ClassNamesOf(s, x)
         /\ R!GatewayRefsOfHR(s, x, y) = GatewayRefsOfHR(s, x, y)
         /\ R!GatewayRefsOfSecret(s, x) = GatewayRefsOfSecret(s, x)
         /\ R!NSImpactedGatewayClasses(s, x) = NSImpactedGatewayClasses(s, x)
         /\ R!RGImpactedGatewayClasses(s, x) = RGImpactedGatewayClasses(s, x)
<1>1. R!ClassNamesOf(s, x) = ClassNamesOf(s, x)
  BY DEF R!ClassNamesOf, ClassNamesOf
<1>2. ASSUME NEW r, NEW hr PROVE R!GatewayRefsOfHR(s, r, hr) = GatewayRefsOfHR(s, r, hr)
  BY DEF R!GatewayRefsOfHR, R!ParentMatches, R!RouteMatches, R!AdmitsNamespace,
         R!AdmitsHTTPRoute, GatewayRefsOfHR, ParentMatches, RouteMatches, AdmitsNamespace,
         AdmitsHTTPRoute
<1>3. R!GatewayRefsOfSecret(s, x) = GatewayRefsOfSecret(s, x)
  BY DEF R!GatewayRefsOfSecret, R!UsesSecret, R!Certs, R!Cached, GatewayRefsOfSecret,
         UsesSecret, Certs, Cached
<1>4. R!NSImpactedGatewayClasses(s, x) = NSImpactedGatewayClasses(s, x)
  BY DEF R!NSImpactedGatewayClasses, R!ClassNamesOf, R!Cached, NSImpactedGatewayClasses,
         ClassNamesOf, Cached
<1>5. R!RGImpactedGatewayClasses(s, x) = RGImpactedGatewayClasses(s, x)
  <2>1. /\ R!RGImpactedHTTPRoutes(s, x) = RGImpactedHTTPRoutes(s, x)
        /\ R!RGImpactedGateways(s, x) = RGImpactedGateways(s, x)
    BY DEF R!RGImpactedHTTPRoutes, R!RGImpactedGateways, R!Cached, RGImpactedHTTPRoutes,
           RGImpactedGateways, Cached
  <2> QED
    BY <1>2, <2>1 DEF R!RGImpactedGatewayClasses, R!ClassNamesOf, RGImpactedGatewayClasses,
                      ClassNamesOf
<1> QED
  BY <1>1, <1>2, <1>3, <1>4, <1>5

LEMMA ImpactedAreClasses ==
  ASSUME TInv, NEW kind \in Kinds, NEW k \in DOMAIN Universe[kind],
         NEW obj \in Universe[kind][k] \cup {None}, ~Panics(kind, k, obj), kind # "Node"
  PROVE  R!ImpactOf(kind, k, obj) \subseteq Classes
<1> DEFINE old == cache[kind][k]
<1>0. old \in Universe[kind][k] \cup {None}
  BY DEF TInv, ObjectsTyped, CacheType
<1>1. CASE kind = "GatewayClass"
  BY <1>1 DEF R!ImpactOf, Classes
<1>2. CASE kind = "Gateway"
  <2>1. obj # None \/ old # None
    BY <1>2 DEF Panics, R!GatewayPanics
  <2> QED
    BY <1>0, <1>2, <2>1, ReferencesAssumption DEF R!ImpactOf, R!GatewayClasses
<1>3. CASE kind = "HTTPRoute"
  <2>1. GatewayRefsOfHR(cache, k, old) \cup GatewayRefsOfHR(cache, k, obj)
          \in SUBSET Cached(cache.Gateway)
    BY <1>0, <1>3, ParentsAreCached
  <2>2. ClassNamesOf(cache, GatewayRefsOfHR(cache, k, old) \cup GatewayRefsOfHR(cache, k, obj))
          \subseteq Classes
    BY <2>1, GatewaysHaveClasses
  <2> QED
    BY <1>3, <2>2, SameRelations DEF R!ImpactOf, R!RouteClasses
<1>4. CASE kind = "ReferenceGrant"
  BY <1>4, GrantsImpactClasses, SameRelations DEF R!ImpactOf, R!GrantClasses
<1>5. CASE kind = "Secret"
  <2>1. GatewayRefsOfSecret(cache, k) \in SUBSET Cached(cache.Gateway)
    BY DEF GatewayRefsOfSecret
  <2>2. ClassNamesOf(cache, GatewayRefsOfSecret(cache, k)) \subseteq Classes
    BY <2>1, GatewaysHaveClasses
  <2>3. R!ClassNamesOf(cache, R!GatewayRefsOfSecret(cache, k)) =
          ClassNamesOf(cache, GatewayRefsOfSecret(cache, k))
    BY SameRelations
  <2>4. R!SecretClasses(k, obj) \subseteq Classes
    BY <2>2, <2>3 DEF R!SecretClasses
  <2>5. R!ImpactOf(kind, k, obj) = R!SecretClasses(k, obj)
    BY <1>5 DEF R!ImpactOf
  <2> QED
    BY <2>4, <2>5
<1>6. CASE kind = "Namespace"
  <2> DEFINE gws == {g \in Cached(cache.Gateway) :
                       \E r \in Cached(cache.HTTPRoute) :
                         NsOf[r] = k /\ \E pr \in cache.HTTPRoute[r].parents : pr.gw = g}
  <2>1. gws \in SUBSET Cached(cache.Gateway)
    OBVIOUS
  <2>2. ClassNamesOf(cache, gws) \subseteq Classes
    BY <2>1, GatewaysHaveClasses
  <2>3. NSImpactedGatewayClasses(cache, k) \subseteq Classes
    BY <2>2 DEF NSImpactedGatewayClasses
  <2>4. R!NamespaceClasses(k, old, obj) \subseteq Classes
    BY <2>3, SameRelations DEF R!NamespaceClasses
  <2>5. R!ImpactOf(kind, k, obj) = R!NamespaceClasses(k, old, obj)
    BY <1>6 DEF R!ImpactOf
  <2> QED
    BY <2>4, <2>5
<1>7. CASE HasBackends(kind)
  BY <1>7 DEF R!ImpactOf, HasBackends
<1> QED
  BY <1>1, <1>2, <1>3, <1>4, <1>5, <1>6, <1>7, WorldAssumption DEF HasBackends, Order

\* A declaration made of what is known has, in each of its tenants, every
\* pool in use.
LEMMA DeclaresWhatIsInUse ==
  ASSUME OneOwnClass, R!NamesApart, TInv, Still, edits = 0,
         NEW s, Agrees(s),
         NEW kind \in Kinds, NEW k \in DOMAIN Universe[kind],
         NEW classes \in SUBSET Classes, HasBackends(kind) => classes = {},
         NEW t \in DOMAIN Declaration(s, kind, k, classes)
  PROVE  InUse(t) \subseteq {p.service : p \in Declaration(s, kind, k, classes)[t].pools}
<1> DEFINE svcs == Services(s, kind, k, classes)
           pools == ParseServicesWithMembers(s, svcs)
           configs == [c \in classes |-> ParseAllForClass(s, c)]
<1>1. /\ s.GatewayClass = Known.GatewayClass /\ s.Gateway = Known.Gateway
      /\ s.HTTPRoute = Known.HTTPRoute /\ s.Service = Known.Service
      /\ s.Namespace = Known.Namespace /\ s.ReferenceGrant = Known.ReferenceGrant
  BY DEF Agrees, Declaring
<1>2. \A c : RelatedServices(s, c) = RelatedServices(Known, c)
  BY <1>1 DEF RelatedServices, AttachedServices, AttachedHTTPRoutes, AttachedGateways,
              CanRefer, ParentMatches, RouteMatches, AdmitsNamespace, Cached
<1>3. \A ns : BackendsOf(s, ns) = InUse(ns)
  <2>1. \A ns : BackendsOf(s, ns) = BackendsOf(Known, ns)
    BY <1>1 DEF BackendsOf, GetRootGateways, HTTPRoutesRefsOf, GatewayRefsOfHR,
                AttachedServices, CanRefer, ParentMatches, RouteMatches, AdmitsNamespace, Cached
  <2> QED
    BY <2>1, BackendsAreInUse
<1>4. \A ns \in DOMAIN pools : {v \in svcs : NsOf[v] = ns} \subseteq {p.service : p \in pools[ns].pools}
  <2> SUFFICES ASSUME NEW ns \in DOMAIN pools, NEW v \in svcs, NsOf[v] = ns
               PROVE  v \in {p.service : p \in pools[ns].pools}
    OBVIOUS
  <2>1. PoolWithMembers(s, v) \in pools[ns].pools
    BY DEF ParseServicesWithMembers, NoConfig
  <2> QED
    BY <2>1 DEF PoolWithMembers
<1>5. CASE HasBackends(kind)
  <2>1. svcs = InUse(NsOf[k])
    BY <1>3, <1>5 DEF Services
  <2>2. CASE svcs = {}
    BY <1>5, <2>1, <2>2 DEF Declaration
  <2>3. CASE svcs # {}
    <3>1. Declaration(s, kind, k, classes) = R!Over(configs, pools)
      BY <2>3 DEF Declaration
    <3>2. t \in DOMAIN pools /\ Declaration(s, kind, k, classes)[t] = pools[t]
      BY <1>5, <3>1 DEF R!Over
    <3>3. t = NsOf[k]
      BY <2>1, <3>2 DEF ParseServicesWithMembers, InUse
    <3> QED
      BY <1>4, <2>1, <3>2, <3>3 DEF InUse
  <2> QED
    BY <2>2, <2>3
<1>6. CASE ~HasBackends(kind)
  <2>1. svcs = UNION {RelatedServices(Known, c) : c \in classes}
    BY <1>2, <1>6 DEF Services
  <2>2. Declaration(s, kind, k, classes) = R!Over(configs, pools)
    BY <1>6 DEF Declaration
  <2>3. DOMAIN pools = {NsOf[v] : v \in svcs}
    BY DEF ParseServicesWithMembers
  <2>4. CASE t \in DOMAIN pools
    <3>1. PICK c \in classes : RelatedServices(Known, c) # {}
      BY <2>1, <2>3, <2>4
    <3>2. ASSUME NEW d \in Classes, RelatedServices(Known, d) # {}
          PROVE  Start["GatewayClass"][d] \notin {R!Foreign, None}
      <4>1. Known.GatewayClass[d] # None
        BY <3>2 DEF RelatedServices
      <4>2. "GatewayClass" \in Kinds /\ api = Start
        BY WorldAssumption DEF Order, Still
      <4> QED
        BY <4>1, <4>2 DEF Known, Stored, R!Visible, Classes
    <3>3. InUse(t) \subseteq {v \in svcs : NsOf[v] = t}
      <4> SUFFICES ASSUME NEW d \in Classes, NEW v \in RelatedServices(Known, d), NsOf[v] = t
                   PROVE  v \in svcs
        BY DEF InUse
      <4>1. d = c
        BY <3>1, <3>2 DEF OneOwnClass
      <4> QED
        BY <2>1, <4>1
    <3>4. Declaration(s, kind, k, classes)[t] = pools[t]
      BY <2>2, <2>4 DEF R!Over
    <3> QED
      BY <1>4, <2>4, <3>3, <3>4
  <2>5. CASE t \notin DOMAIN pools
    <3>1. t \in Classes
      BY <2>2, <2>5 DEF R!Over
    <3>2. ASSUME NEW v \in InUse(t) PROVE FALSE
      <4>1. PICK d \in Classes : v \in RelatedServices(Known, d) /\ NsOf[v] = t
        BY <3>2 DEF InUse
      <4>2. PICK g \in AttachedGateways(Known, d) : \E r \in AttachedHTTPRoutes(Known, g) :
              v \in AttachedServices(Known, r)
        BY <4>1 DEF RelatedServices
      <4>3. v \in DOMAIN Universe["Service"]
        BY <4>2, KnownType, ReferencesAssumption
           DEF AttachedHTTPRoutes, AttachedServices, Cached, Declaring
      <4> QED
        BY <3>1, <4>1, <4>3 DEF R!NamesApart, R!Classes, Classes
    <3> QED
      BY <3>2
  <2> QED
    BY <2>4, <2>5
<1> QED
  BY <1>5, <1>6

\* Once the sync is over the cache knows everything.
LEMMA ListedIsKnown ==
  ASSUME TInv, Still, edits = 0, failures = 0, sync = Synced
  PROVE  \A kind \in Kinds \ {"Node"} : cache[kind] = Known[kind]
BY LenOfOrder, WorldAssumption DEF Still, Listed

LEMMA HandleKeepsPools ==
  ASSUME OneOwnClass, R!NamesApart, TInv, Still, edits = 0, failures = 0, sync # 0,
         NEW kind \in Kinds, NEW k \in DOMAIN Universe[kind], Handle(kind, k),
         NEW t \in Tenants
  PROVE  InUse(t) \cap {p.service : p \in deployed[t].pools}
           \subseteq {p.service : p \in deployed'[t].pools}
<1>1. PICK x \in {y \in Work(kind) : y.key = k /\ ~Panics(kind, k, y.obj)} :
        deployed' = Result(kind, k, x.obj).deployed
  BY DEF Handle
<1> DEFINE s == After(kind, k, x.obj)
           ignored == R!Ignored(kind, k, x.obj)
           classes == IF kind = "Node" \/ ignored THEN {} ELSE R!ImpactOf(kind, k, x.obj)
           as3 == Declaration(s, kind, k, classes)
<1>2. sync = Synced
  BY <1>1, LenOfOrder DEF Work, Unlocked
<1>3. x.obj = api[kind][k]
  BY <1>1, WorkIsFresh
<1>4. \A j \in Kinds \ {"Node"} : cache[j] = Known[j]
  BY <1>2, ListedIsKnown
<1>5. Agrees(s)
  <2> SUFFICES ASSUME NEW j \in Declaring PROVE s[j] = Known[j]
    BY DEF Agrees
  <2>0. j \in Kinds /\ j # "Node"
    BY KnownType
  <2>1. CASE j # kind
    BY <1>4, <2>0, <2>1 DEF After
  <2>2. CASE j = kind
    <3>0. Stored(kind, cache[kind][k], x.obj) = Known[kind][k]
      BY <1>3, <2>0, <2>2, StoredIsKnown
    <3>1. s[j] = [Known[j] EXCEPT ![k] = Known[j][k]]
      BY <1>4, <2>0, <2>2, <3>0 DEF After, TInv, Shape
    <3> QED
      BY <2>0, <3>1 DEF Known
  <2> QED
    BY <2>1, <2>2
<1>6. classes \in SUBSET Classes
  <2>1. x.obj \in Universe[kind][k] \cup {None}
    BY <1>1, WorkType
  <2> QED
    BY <1>1, <2>1, ImpactedAreClasses
<1>7. HasBackends(kind) => classes = {}
  BY DEF HasBackends, R!ImpactOf
<1>8. deployed'[t] = deployed[t] \/ (t \in DOMAIN as3 /\ deployed'[t] = as3[t])
  BY <1>1 DEF Result
<1>9. t \in DOMAIN as3 => InUse(t) \subseteq {p.service : p \in as3[t].pools}
  <2> HIDE DEF s, classes
  <2> QED
    BY <1>5, <1>6, <1>7, DeclaresWhatIsInUse
<1> QED
  BY <1>8, <1>9

\* A process that starts over the partitions of an earlier one takes no pool
\* in use away once it lists, as long as nothing changes and no list fails;
\* when there is one class to serve, and no namespace has its name.
THEOREM PoolsAreKept ==
  ASSUME OneOwnClass, R!NamesApart
  PROVE  Spec => PoolsKept
<1>1. Init => TInv /\ Still
  BY InitTInv, InitStill
<1>2. TInv /\ Still /\ [Next]_vars => (TInv /\ Still)'
  BY NextTInv, NextStill
<1> DEFINE Keeps ==
      edits = 0 /\ failures = 0 /\ sync # 0 =>
        \A t \in Tenants : InUse(t) \cap {p.service : p \in deployed[t].pools}
                             \subseteq {p.service : p \in deployed'[t].pools}
<1>3. TInv /\ Still /\ [Next]_vars => [Keeps]_vars
  <2> SUFFICES ASSUME TInv, Still, [Next]_vars PROVE Keeps
    OBVIOUS
  <2>1. ASSUME NEW kind \in Kinds, NEW k \in DOMAIN Universe[kind], Handle(kind, k)
        PROVE  Keeps
    BY <2>1, HandleKeepsPools
  <2>2. CASE UNCHANGED deployed
    BY <2>2
  <2>3. UNCHANGED deployed \/ \E kind \in Kinds : \E k \in DOMAIN Universe[kind] : Handle(kind, k)
    BY DEF Next, vars, Lock, List, ListFails, SyncExits, SyncPanics, Fill, Observe, TooEarly,
           Read, Panic, Edit, Restart
  <2> QED
    BY <2>1, <2>2, <2>3
<1>4. TInv /\ Still /\ [Next]_vars =>
        [edits = 0 /\ failures = 0 /\ sync # 0 =>
           \A t \in Tenants : InUse(t) \cap {p.service : p \in deployed[t].pools}
                                \subseteq {p.service : p \in deployed'[t].pools}]_vars
  BY <1>3
<1> HIDE DEF Keeps
<1> QED
  BY <1>1, <1>2, <1>4, PTL DEF Spec, PoolsKept

---------------------------------------------------------------------------
(* What a process that starts deploys, in a steady world: a class waits for *)
(* its event until the sync is over, and is deployed from then on.          *)

\* A cache of objects of the cluster, without classes of other controllers.
OfCluster(s) ==
  /\ DOMAIN s = Kinds
  /\ \A kind \in Kinds :
       /\ DOMAIN s[kind] = DOMAIN Universe[kind]
       /\ \A k \in DOMAIN Universe[kind] : s[kind][k] \in CacheType(kind, k)
  /\ \A c \in Classes : s["GatewayClass"][c] # None => R!MayBeOwn(c)

\* The core objects that never go are cached, with the addresses of nodes.
CoreThere(s) ==
  /\ \A kind \in Core : \A k \in DOMAIN Universe[kind] :
       None \notin Universe[kind][k] => s[kind][k] # None
  /\ \A n \in DOMAIN Universe["Node"] : s["Node"][n] = None \/ s["Node"][n] # NoAddress

LEMMA KindNames ==
  /\ Kinds = {"Endpoints", "Service", "Namespace", "Node", "Secret",
              "GatewayClass", "Gateway", "HTTPRoute", "ReferenceGrant"}
  /\ Core = {"Endpoints", "Service", "Namespace", "Node", "Secret"}
BY WorldAssumption DEF Order, Core, NumCore

LEMMA CacheIsOfCluster ==
  ASSUME TInv, CInv
  PROVE  OfCluster(cache)
<1>1. ASSUME NEW c \in Classes, cache["GatewayClass"][c] # None PROVE R!MayBeOwn(c)
  <2>1. cache["GatewayClass"][c] \in Universe["GatewayClass"][c] \cup {None}
    BY KindNames DEF TInv, ObjectsTyped, CacheType, Classes
  <2> QED
    BY <1>1, <2>1 DEF CInv, NoForeign, R!MayBeOwn
<1> QED
  BY <1>1 DEF OfCluster, TInv, Shape, ObjectsTyped

LEMMA AfterIsOfCluster ==
  ASSUME OfCluster(cache), NEW kind \in Kinds, NEW k \in DOMAIN Universe[kind],
         NEW obj \in Universe[kind][k]
  PROVE  OfCluster(After(kind, k, obj)) /\ Differs(cache, After(kind, k, obj), kind, k)
<1> DEFINE s == After(kind, k, obj)
<1>1. /\ s[kind][k] = Stored(kind, cache[kind][k], obj)
      /\ \A j \in Kinds : DOMAIN s[j] = DOMAIN cache[j] /\ (j # kind => s[j] = cache[j])
      /\ \A x \in DOMAIN Universe[kind] : x # k => s[kind][x] = cache[kind][x]
      /\ DOMAIN s = Kinds
  BY DEF After, OfCluster
<1>2. s[kind][k] \in CacheType(kind, k)
  BY <1>1, StoredType DEF OfCluster
<1>3. ASSUME kind = "GatewayClass", s[kind][k] # None PROVE R!MayBeOwn(k)
  BY <1>1, <1>3 DEF Stored, R!Visible, R!MayBeOwn
<1> HIDE DEF s
<1>4. OfCluster(s)
  <2>1. \A j \in Kinds : \A x \in DOMAIN Universe[j] : s[j][x] \in CacheType(j, x)
    BY <1>1, <1>2 DEF OfCluster
  <2>2. \A c \in Classes : s["GatewayClass"][c] # None => R!MayBeOwn(c)
    BY <1>1, <1>3, KindNames DEF OfCluster, Classes
  <2> QED
    BY <1>1, <2>1, <2>2 DEF OfCluster
<1>5. Differs(cache, s, kind, k)
  BY <1>1, KindNames DEF Differs, OfCluster, Configuring
<1> QED
  BY <1>4, <1>5 DEF s

\* The objects of such a cache.
LEMMA RouteOfCluster ==
  ASSUME NEW s, OfCluster(s), NEW r \in Cached(s.HTTPRoute)
  PROVE  /\ r \in DOMAIN Universe["HTTPRoute"]
         /\ s.HTTPRoute[r] \in Universe["HTTPRoute"][r] \ {None}
         /\ NsOf[r] \in DOMAIN Universe["Namespace"]
         /\ s.HTTPRoute[r].backends \cup s.HTTPRoute[r].extensions \subseteq DOMAIN Universe["Service"]
<1>1. /\ r \in DOMAIN Universe["HTTPRoute"]
      /\ s.HTTPRoute[r] \in Universe["HTTPRoute"][r] \ {None}
  BY KindNames DEF OfCluster, CacheType, Cached
<1> QED
  BY <1>1, ReferencesAssumption

LEMMA GatewayOfCluster ==
  ASSUME NEW s, OfCluster(s), NEW g \in Cached(s.Gateway)
  PROVE  /\ g \in DOMAIN Universe["Gateway"]
         /\ s.Gateway[g] \in Universe["Gateway"][g] \ {None}
BY KindNames DEF OfCluster, CacheType, Cached

LEMMA ClusterIsScoped ==
  ASSUME NEW s, OfCluster(s), EverythingParses
  PROVE  Scoped(s)
<1>1. /\ DOMAIN s.Namespace = DOMAIN Universe["Namespace"]
      /\ DOMAIN s.Service = DOMAIN Universe["Service"]
      /\ DOMAIN s.Secret = DOMAIN Universe["Secret"]
  BY KindNames DEF OfCluster
<1>2. \A g \in Cached(s.Gateway) : \A l \in DOMAIN s.Gateway[g].listeners :
        Certs(s.Gateway[g].listeners[l]) \subseteq DOMAIN Universe["Secret"]
  BY GatewayOfCluster DEF EverythingParses
<1> QED
  BY <1>1, <1>2, RouteOfCluster DEF Scoped

LEMMA ServicesAreOfCluster ==
  ASSUME NEW s, OfCluster(s), Scoped(s), NEW kind, NEW k, NEW classes
  PROVE  Services(s, kind, k, classes) \subseteq DOMAIN Universe["Service"]
<1>1. DOMAIN s.Service = DOMAIN Universe["Service"]
  BY KindNames DEF OfCluster
<1> QED
  BY <1>1, RelatedAreScoped DEF Services, BackendsOf, Cached

---------------------------------------------------------------------------
(* Nothing fails once the core objects are listed.                         *)

LEMMA ClassesParse ==
  ASSUME NEW s, OfCluster(s), CoreThere(s), EverythingParses, NEW c
  PROVE  ~ParseClassFails(s, c)
<1> SUFFICES ASSUME NEW g \in AttachedGateways(s, c)
             PROVE  /\ ~ParseGatewayFails(s, g)
                    /\ \A r \in AttachedHTTPRoutes(s, g) : ~s.HTTPRoute[r].refused
  BY DEF ParseClassFails
<1>1. g \in DOMAIN Universe["Gateway"] /\ s.Gateway[g] \in Universe["Gateway"][g] \ {None}
  BY GatewayOfCluster DEF AttachedGateways
<1>2. ASSUME NEW r \in AttachedHTTPRoutes(s, g)
      PROVE  ~s.HTTPRoute[r].refused /\ \A pr \in s.HTTPRoute[r].parents : pr.section # None
  <2>1. r \in Cached(s.HTTPRoute)
    BY DEF AttachedHTTPRoutes
  <2> QED
    BY <2>1, RouteOfCluster DEF EverythingParses
<1>3. ASSUME NEW l \in DOMAIN s.Gateway[g].listeners, NEW x \in Certs(s.Gateway[g].listeners[l])
      PROVE  s.Secret[x] # None /\ CanRefer(s, "Gateway", g, "Secret", x)
  <2>1. x \in DOMAIN Universe["Secret"] /\ None \notin Universe["Secret"][x] /\ NsOf[g] = NsOf[x]
    BY <1>1 DEF EverythingParses
  <2>2. s.Secret[x] # None
    BY <2>1, KindNames DEF CoreThere
  <2> QED
    BY <2>1, <2>2 DEF CanRefer
<1>4. ~AddressesFail(s.Gateway[g])
  BY <1>1 DEF EverythingParses
<1> QED
  BY <1>2, <1>3, <1>4 DEF ParseGatewayFails, AttachedSecretsFail

LEMMA NoMembersMissing ==
  ASSUME NEW s, OfCluster(s), CoreThere(s), EverythingParses, NodesStay,
         NEW v \in DOMAIN Universe["Service"]
  PROVE  ~MembersMissing(s, v)
<1> SUFFICES ASSUME Complete(s, v) PROVE ~FormatFails(s.Node, s.Service[v], s.Endpoints[v])
  BY DEF MembersMissing
<1>1. s.Service[v] \in {"ClusterIP", "NodePort"}
  BY KindNames DEF OfCluster, CacheType, Complete, EverythingParses
<1>2. s.Endpoints[v] \in Universe["Endpoints"][v] \ {None}
  BY ReferencesAssumption, KindNames DEF OfCluster, CacheType, Complete
<1>3. ASSUME NEW a \in s.Endpoints[v] PROVE a.node # None /\ s.Node[a.node] # None
  <2>1. a.node \in DOMAIN Universe["Node"]
    BY <1>2, ReferencesAssumption DEF NodesStay
  <2>2. None \notin Universe["Node"][a.node]
    BY <2>1 DEF NodesStay
  <2> QED
    BY <2>1, <2>2, KindNames, NoneIsNoKey DEF CoreThere
<1>4. NoAddress \notin All(s.Node)
  <2>1. DOMAIN s.Node = DOMAIN Universe["Node"]
    BY KindNames DEF OfCluster
  <2> QED
    BY <2>1 DEF All, CoreThere
<1> QED
  BY <1>1, <1>3, <1>4 DEF FormatFails

LEMMA NothingFails ==
  ASSUME NEW s, OfCluster(s), CoreThere(s), EverythingParses, NodesStay, NEW kind, NEW k, NEW classes
  PROVE  ~DeployFails(s, kind, k, classes)
BY ClassesParse, NoMembersMissing, ServicesAreOfCluster, ClusterIsScoped DEF DeployFails

---------------------------------------------------------------------------
(* What is declared.                                                       *)

LEMMA NamespaceDeclared ==
  ASSUME NEW s, NEW kind, NEW k, HasBackends(kind)
  PROVE  DOMAIN Declaration(s, kind, k, {}) = {NsOf[k]}
<1> DEFINE svcs == Services(s, kind, k, {})
<1>1. \A v \in svcs : NsOf[v] = NsOf[k]
  BY DEF Services, BackendsOf
<1>2. CASE svcs = {}
  BY <1>2 DEF Declaration
<1>3. CASE svcs # {}
  <2>1. {NsOf[v] : v \in svcs} = {NsOf[k]}
    BY <1>1, <1>3
  <2> QED
    BY <1>3, <2>1 DEF Declaration, R!Over, ParseServicesWithMembers
<1> QED
  BY <1>2, <1>3

LEMMA ClassesDeclared ==
  ASSUME NEW s, NEW kind, NEW k, NEW classes, ~HasBackends(kind)
  PROVE  DOMAIN Declaration(s, kind, k, classes)
           = classes \cup {NsOf[v] : v \in Services(s, kind, k, classes)}
BY DEF Declaration, R!Over, ParseServicesWithMembers

\* The classes concerned get what the cache makes them, no other class does.
LEMMA DeclaredClasses ==
  ASSUME R!NamesApart, NEW s, OfCluster(s), Scoped(s),
         NEW kind \in Kinds, NEW k \in DOMAIN Universe[kind],
         NEW classes, HasBackends(kind) => classes = {}, NEW c \in Classes
  PROVE  /\ c \in DOMAIN Declaration(s, kind, k, classes) <=> c \in classes
         /\ c \in classes => Declaration(s, kind, k, classes)[c] = ParseAllForClass(s, c)
<1> DEFINE svcs == Services(s, kind, k, classes)
<1>1. \A v \in svcs : NsOf[v] # c
  BY ServicesAreOfCluster DEF R!NamesApart, R!Classes, Classes
<1>2. HasBackends(kind) => NsOf[k] # c
  BY DEF HasBackends, R!NamesApart, R!Classes, Classes
<1>3. c \in DOMAIN Declaration(s, kind, k, classes) <=> c \in classes
  <2>1. CASE HasBackends(kind)
    BY <1>2, <2>1, NamespaceDeclared
  <2>2. CASE ~HasBackends(kind)
    <3>1. DOMAIN Declaration(s, kind, k, classes) = classes \cup {NsOf[v] : v \in svcs}
      BY <2>2, ClassesDeclared
    <3> QED
      BY <1>1, <3>1
  <2> QED
    BY <2>1, <2>2
<1>4. ASSUME c \in classes PROVE Declaration(s, kind, k, classes)[c] = ParseAllForClass(s, c)
  <2>1. Declaration(s, kind, k, classes)
          = R!Over([d \in classes |-> ParseAllForClass(s, d)], ParseServicesWithMembers(s, svcs))
    BY <1>4 DEF Declaration
  <2>2. c \notin DOMAIN ParseServicesWithMembers(s, svcs)
    BY <1>1 DEF ParseServicesWithMembers
  <2> HIDE DEF svcs
  <2> QED
    BY <1>4, <2>1, <2>2 DEF R!Over
<1> QED
  BY <1>3, <1>4

\* A namespace that is declared has the pools of all that a class refers to
\* there; it is declared with the class.
LEMMA DeclaredPools ==
  ASSUME R!NamesApart, R!OneClass, NEW s, OfCluster(s), Scoped(s),
         NEW kind \in Kinds, NEW k \in DOMAIN Universe[kind],
         NEW classes \in SUBSET Classes, HasBackends(kind) => classes = {},
         NEW c \in Classes, NEW v \in RelatedServices(s, c)
  PROVE  /\ c \in classes => NsOf[v] \in DOMAIN Declaration(s, kind, k, classes)
         /\ NsOf[v] \in DOMAIN Declaration(s, kind, k, classes) =>
              PoolWithMembers(s, v) \in Declaration(s, kind, k, classes)[NsOf[v]].pools
<1> DEFINE svcs == Services(s, kind, k, classes)
           pools == ParseServicesWithMembers(s, svcs)
           as3 == Declaration(s, kind, k, classes)
<1>1. ~HasBackends(kind) => svcs = UNION {RelatedServices(s, d) : d \in classes}
  BY DEF Services
<1>2. ASSUME v \in svcs, ~(HasBackends(kind) /\ svcs = {})
      PROVE  NsOf[v] \in DOMAIN as3 /\ PoolWithMembers(s, v) \in as3[NsOf[v]].pools
  <2>1. NsOf[v] \in DOMAIN pools /\ PoolWithMembers(s, v) \in pools[NsOf[v]].pools
    BY <1>2 DEF ParseServicesWithMembers, NoConfig
  <2>2. as3 = R!Over([d \in classes |-> ParseAllForClass(s, d)], pools)
    BY <1>2 DEF Declaration
  <2> HIDE DEF as3, pools
  <2> QED
    BY <2>1, <2>2 DEF R!Over
<1>3. ASSUME NsOf[v] \in DOMAIN as3 PROVE v \in svcs
  <2>1. CASE HasBackends(kind)
    <3>1. DOMAIN as3 = {NsOf[k]}
      <4>1. classes = {}
        BY <2>1
      <4>2. DOMAIN Declaration(s, kind, k, {}) = {NsOf[k]}
        BY <2>1, NamespaceDeclared
      <4> QED
        BY <4>1, <4>2
    <3>2. NsOf[v] = NsOf[k]
      BY <1>3, <3>1
    <3> QED
      BY <2>1, <3>2, RelatedAreBackends DEF Services
  <2>2. CASE ~HasBackends(kind)
    <3>1. v \in DOMAIN Universe["Service"]
      BY RelatedAreScoped, KindNames DEF OfCluster
    <3>2. NsOf[v] \notin classes
      BY <3>1 DEF R!NamesApart, R!Classes, Classes
    <3>3. svcs # {}
      <4>1. DOMAIN as3 = classes \cup {NsOf[w] : w \in svcs}
        BY <2>2, ClassesDeclared
      <4> QED
        BY <1>3, <3>2, <4>1
    <3>4. PICK d \in classes : RelatedServices(s, d) # {}
      BY <1>1, <2>2, <3>3
    <3>5. s.GatewayClass[c] # None /\ s.GatewayClass[d] # None
      BY <3>4, OnlyCachedRefer
    <3>6. c = d
      BY <3>5, KindNames DEF OfCluster, R!OneClass, R!Classes, Classes
    <3> QED
      BY <1>1, <2>2, <3>6
  <2> QED
    BY <2>1, <2>2
<1>4. c \in classes => v \in svcs
  BY <1>1
<1> HIDE DEF svcs, as3
<1> QED
  BY <1>2, <1>3, <1>4 DEF as3

---------------------------------------------------------------------------
(* What storing an object leaves as it was.                                *)

\* A service comes or goes only near the routes that name it.
LEMMA LateServicesRefer ==
  ASSUME LateServicesAreNear, OfCluster(cache), CoreThere(cache),
         NEW k \in DOMAIN Universe["Service"], NEW obj \in Universe["Service"][k],
         NEW r \in Cached(cache.HTTPRoute), k \in cache.HTTPRoute[r].backends
  PROVE  \/ cache.Service[k] = None <=> obj = None
         \/ CanRefer(cache, "HTTPRoute", r, "Service", k)
<1>1. CASE None \notin Universe["Service"][k]
  BY <1>1, KindNames DEF CoreThere
<1>2. CASE Universe["Service"][k] = {None}
  BY <1>2, KindNames DEF OfCluster, CacheType
<1>3. CASE None \in Universe["Service"][k] /\ Universe["Service"][k] # {None}
  <2>1. NsOf[r] = NsOf[k]
    BY <1>3, RouteOfCluster DEF LateServicesAreNear
  <2> QED
    BY <2>1 DEF CanRefer
<1> QED
  BY <1>1, <1>2, <1>3

\* Nobody deletes a certificate in use, and every Gateway may refer to it.
LEMMA CertificatesStay ==
  ASSUME OfCluster(cache), EverythingParses, NEW k \in DOMAIN Universe["Secret"],
         NEW obj \in Universe["Secret"][k], GatewayRefsOfSecret(cache, k) # {}
  PROVE  R!SecretClasses(k, obj) = ClassNamesOf(cache, GatewayRefsOfSecret(cache, k))
<1>1. ASSUME NEW g \in GatewayRefsOfSecret(cache, k)
      PROVE  None \notin Universe["Secret"][k] /\ NsOf[g] = NsOf[k]
  <2>1. g \in Cached(cache.Gateway) /\ UsesSecret(cache, g, k)
    BY DEF GatewayRefsOfSecret
  <2> QED
    BY <2>1, GatewayOfCluster DEF UsesSecret, EverythingParses
<1>2. obj # None
  BY <1>1
<1>3. R!GatewayRefsOfSecret(cache, k) = GatewayRefsOfSecret(cache, k)
  BY SameRelations
<1>4. ~R!SecretRefsFail(cache, k)
  BY <1>1, <1>3 DEF R!SecretRefsFail, R!CanRefer
<1>5. R!ClassNamesOf(cache, GatewayRefsOfSecret(cache, k))
        = ClassNamesOf(cache, GatewayRefsOfSecret(cache, k))
  BY SameRelations
<1> QED
  BY <1>2, <1>3, <1>4, <1>5 DEF R!SecretClasses

\* Storing an object changes no class but those the event concerns, nor what
\* these others refer to, unless it is a service.
LEMMA StoreFrame ==
  ASSUME Steady, OfCluster(cache), CoreThere(cache),
         NEW kind \in Kinds, NEW k \in DOMAIN Universe[kind], NEW obj \in Universe[kind][k],
         ~Panics(kind, k, obj), NEW c \in Classes,
         kind # "Node" => c \notin R!ImpactOf(kind, k, obj)
  PROVE  /\ ParseAllForClass(After(kind, k, obj), c) = ParseAllForClass(cache, c)
         /\ kind # "Service" => RelatedServices(After(kind, k, obj), c) = RelatedServices(cache, c)
<1> DEFINE s == cache
           t == After(kind, k, obj)
<1>1. OfCluster(t) /\ Differs(s, t, kind, k) /\ Scoped(s)
  BY AfterIsOfCluster, ClusterIsScoped DEF Steady
<1>2. kind \notin {"GatewayClass", "Node"} => t[kind][k] = obj
  BY DEF After, Stored, R!Visible, OfCluster
<1>3. kind # "Node" => s[kind][k] \in Universe[kind][k] \cup {None}
  BY DEF OfCluster, CacheType
<1> HIDE DEF t
<1>4. Same(s, t, c) \/ (kind = "Service" /\ SameClass(s, t, c) /\ SamePools(s, t, c))
  <2>1. CASE kind = "GatewayClass"
    <3>1. c # k /\ c \in DOMAIN s.GatewayClass
      BY <2>1, KindNames DEF R!ImpactOf, OfCluster, Classes
    <3> QED
      BY <1>1, <2>1, <3>1, ClassFrame DEF Configuring
  <2>2. CASE kind = "Gateway"
    <3>1. obj # None \/ s.Gateway[k] # None
      BY <2>2 DEF Panics, R!GatewayPanics
    <3>2. c \notin R!GatewayClasses(s.Gateway[k], obj)
      BY <2>2 DEF R!ImpactOf
    <3>3. \A gw \in {s.Gateway[k], t.Gateway[k]} : gw # None => gw \in Universe["Gateway"][k] /\ gw.class # c
      BY <1>2, <1>3, <2>2, <3>1, <3>2 DEF R!GatewayClasses, Steady, R!GatewaysKeepClass
    <3>4. k \notin AttachedGateways(s, c) \cup AttachedGateways(t, c)
      BY <3>3 DEF AttachedGateways, Cached
    <3> QED
      BY <1>1, <2>2, <3>4, GatewayFrame
  <2>3. CASE kind = "HTTPRoute"
    <3>1. c \notin R!RouteClasses(k, s.HTTPRoute[k], obj)
      BY <2>3 DEF R!ImpactOf
    <3>2. c \notin ClassNamesOf(s, GatewayRefsOfHR(s, k, s.HTTPRoute[k])
                                     \cup GatewayRefsOfHR(s, k, t.HTTPRoute[k]))
      BY <1>2, <2>3, <3>1, SameRelations DEF R!RouteClasses
    <3> QED
      BY <1>1, <2>3, <3>2, RouteFrame
  <2>4. CASE kind = "ReferenceGrant"
    <3>1. c \notin R!GrantClasses(s.ReferenceGrant[k], obj)
      BY <2>4 DEF R!ImpactOf
    <3>2. /\ c \notin RGImpactedGatewayClasses(s, s.ReferenceGrant[k])
          /\ c \notin RGImpactedGatewayClasses(s, t.ReferenceGrant[k])
      BY <1>2, <2>4, <3>1, SameRelations DEF R!GrantClasses
    <3> QED
      BY <1>1, <2>4, <3>2, GrantFrame
  <2>5. CASE kind = "Secret"
    <3>1. c \notin R!SecretClasses(k, obj)
      BY <2>5 DEF R!ImpactOf
    <3>2. c \notin ClassNamesOf(s, GatewayRefsOfSecret(s, k))
      <4>1. CASE GatewayRefsOfSecret(s, k) = {}
        BY <4>1 DEF ClassNamesOf
      <4>2. CASE GatewayRefsOfSecret(s, k) # {}
        BY <2>5, <3>1, <4>2, CertificatesStay DEF Steady
      <4> QED
        BY <4>1, <4>2
    <3> QED
      BY <1>1, <2>5, <3>2, SecretFrame
  <2>6. CASE kind = "Namespace"
    <3>1. obj # None /\ s.Namespace[k] # None
      BY <2>6, KindNames DEF Steady, R!NamespacesStay, CoreThere
    <3>2. c \notin R!NamespaceClasses(k, s.Namespace[k], obj)
      BY <2>6 DEF R!ImpactOf
    <3>3. c \notin NSImpactedGatewayClasses(s, k) \/ s.Namespace[k] = t.Namespace[k]
      BY <1>2, <2>6, <3>1, <3>2, SameRelations DEF R!NamespaceClasses
    <3> QED
      BY <1>1, <2>6, <3>3, NamespaceFrame
  <2>7. CASE kind = "Service"
    <3>1. t.Service[k] = obj
      BY <1>2, <2>7
    <3>2. \A r \in Cached(s.HTTPRoute) : k \in s.HTTPRoute[r].backends =>
            \/ s.Service[k] = None <=> t.Service[k] = None
            \/ CanRefer(s, "HTTPRoute", r, "Service", k)
      BY <2>7, <3>1, LateServicesRefer DEF Steady
    <3> QED
      BY <1>1, <2>7, <3>2, ServiceFrame
  <2>8. CASE kind \in {"Endpoints", "Node"}
    BY <1>1, <2>8, ClassFrame DEF Configuring
  <2> QED
    BY <2>1, <2>2, <2>3, <2>4, <2>5, <2>6, <2>7, <2>8, KindNames
<1>5. ParseAllForClass(t, c) = ParseAllForClass(s, c)
  BY <1>4, SameParse DEF Same
<1>6. kind # "Service" => RelatedServices(t, c) = RelatedServices(s, c)
  BY <1>4, SameRelated DEF Same
<1> QED
  BY <1>5, <1>6 DEF t

\* The members of a ClusterIP service come from its Endpoints only.
LEMMA SamePool ==
  ASSUME NEW s, NEW t, OfCluster(s), NEW kind, NEW k, Differs(s, t, kind, k),
         NEW v \in DOMAIN Universe["Service"], ~HasBackends(kind) \/ v # k,
         t.Service[v] = "ClusterIP"
  PROVE  s.Service[v] = "ClusterIP" /\ PoolWithMembers(t, v) = PoolWithMembers(s, v)
<1>1. v \in DOMAIN s.Service /\ v \in DOMAIN s.Endpoints /\ {"Service", "Endpoints"} \subseteq DOMAIN s
  BY ReferencesAssumption, KindNames DEF OfCluster
<1>2. s.Service[v] = t.Service[v] /\ s.Endpoints[v] = t.Endpoints[v]
  BY <1>1 DEF Differs, HasBackends
<1> QED
  BY <1>2 DEF PoolWithMembers, MembersOf, Complete, Format

---------------------------------------------------------------------------
\* The class waits for its event.
Waits(c) == "GatewayClass" \notin started \/ c \in queue["GatewayClass"]

\* The partitions d have the class and its pools as the cache s makes them.
Serves(s, d, c) ==
  /\ d[c] = ParseAllForClass(s, c)
  /\ \A v \in RelatedServices(s, c) : s.Service[v] = "ClusterIP" =>
       PoolWithMembers(s, v) \in d[NsOf[v]].pools

Served(c) ==
  IF R!MayBeOwn(c) THEN Waits(c) \/ (sync = Synced /\ (skipped \/ Serves(cache, deployed, c)))
  ELSE deployed[c] = NoConfig

\* What informers and workers hold are versions of the object.
InformerFilled ==
  \A kind \in started : \A k \in DOMAIN Universe[kind] : informer[kind][k] \in Universe[kind][k]
ReadingFilled ==
  \A kind \in Kinds \ Gated : reading[kind].key # None =>
    reading[kind].obj \in Universe[kind][reading[kind].key]

\* What is listed and never goes is cached.
CoreListed ==
  /\ ~skipped => \A i \in 1..NumCore : i < sync => \A k \in DOMAIN Universe[Order[i]] :
       None \notin Universe[Order[i]][k] => cache[Order[i]][k] # None
  /\ \A n \in DOMAIN Universe["Node"] : cache["Node"][n] = None \/ cache["Node"][n] # NoAddress

SInv ==
  /\ InformerFilled
  /\ ReadingFilled
  /\ CoreListed
  /\ \A c \in Classes : Served(c)

LEMMA StoredIsThere ==
  ASSUME NodesStay, NEW kind \in Core, NEW k \in DOMAIN Universe[kind], NEW old,
         NEW obj \in Universe[kind][k]
  PROVE  /\ None \notin Universe[kind][k] => Stored(kind, old, obj) # None
         /\ kind = "Node" => Stored(kind, old, obj) # NoAddress
<1>1. CASE kind = "Node"
  <2>1. obj # None /\ ~obj.unreachable /\ ~SetFails(obj) /\ IpAddr(obj) \notin {None, NoAddress}
    BY <1>1 DEF NodesStay
  <2> QED
    BY <1>1, <2>1 DEF Stored, SetNode
<1>2. CASE kind # "Node"
  BY <1>2, KindNames DEF Stored, R!Visible
<1> QED
  BY <1>1, <1>2

LEMMA OrderOfCore == Core = {Order[i] : i \in 1..NumCore} /\ NumCore = 5
BY DEF Core, NumCore

\* Once the sync is over without failing, the core objects are there.
LEMMA SyncedHasCore ==
  ASSUME CoreListed, sync = Synced, ~skipped
  PROVE  CoreThere(cache)
BY OrderOfCore, LenOfOrder DEF CoreListed, CoreThere

LEMMA AfterHasCore ==
  ASSUME NodesStay, OfCluster(cache), CoreThere(cache), NEW kind \in Kinds,
         NEW k \in DOMAIN Universe[kind], NEW obj \in Universe[kind][k]
  PROVE  CoreThere(After(kind, k, obj))
<1> DEFINE s == After(kind, k, obj)
<1>1. \A j \in Kinds : \A x \in DOMAIN Universe[j] :
        s[j][x] = cache[j][x] \/ (j = kind /\ x = k /\ s[j][x] = Stored(kind, cache[kind][k], obj))
  BY DEF After, OfCluster
<1> HIDE DEF s
<1>2. CoreThere(s)
  BY <1>1, StoredIsThere, KindNames DEF CoreThere
<1> QED
  BY <1>2 DEF s


LEMMA SteadyKeepsController ==
  ASSUME Steady
  PROVE  ClassesKeepController
<1> SUFFICES ASSUME NEW c \in Classes, R!Foreign \in Universe["GatewayClass"][c]
             PROVE  Universe["GatewayClass"][c] \subseteq {R!Foreign, None}
  BY DEF ClassesKeepController
<1>1. ~R!MayBeOwn(c)
  BY DEF Steady, ClassesStay
<1> QED
  BY <1>1 DEF R!MayBeOwn

---------------------------------------------------------------------------
(* Every step keeps it so.                                                 *)

\* A process that has just started has handled no class.
LEMMA NothingIsServed ==
  ASSUME Steady, started = {}, reading = NotReading, cache = Nothing, sync = 0,
         \A c \in Classes : ~R!MayBeOwn(c) => deployed[c] = NoConfig
  PROVE  SInv
<1>1. InformerFilled /\ ReadingFilled
  BY DEF InformerFilled, ReadingFilled, NotReading
<1>2. CoreListed
  BY KindNames DEF CoreListed, NumCore, Nothing
<1>3. \A c \in Classes : Served(c)
  BY DEF Served, Waits
<1> QED
  BY <1>1, <1>2, <1>3 DEF SInv

LEMMA InitSInv ==
  ASSUME Steady, Init
  PROVE  SInv
<1> PICK tenants \in Previous : Boot(Start, tenants)
  BY DEF Init
<1>1. \A c \in Classes : ~R!MayBeOwn(c) => deployed[c] = NoConfig
  BY DEF Boot, Steady, ClassesStay
<1> QED
  BY <1>1, NothingIsServed DEF Boot


\* A step that leaves the cache, the BIG-IPs, the sync and the waiting alone.
LEMMA ServedStays ==
  ASSUME \A c \in Classes : Served(c), UNCHANGED <<cache, deployed, sync, skipped>>,
         \A c \in Classes : Waits(c) => Waits(c)'
  PROVE  \A c \in Classes : Served(c)'
<1> SUFFICES ASSUME NEW c \in Classes PROVE Served(c)'
  OBVIOUS
<1>1. Serves(cache, deployed, c)' = Serves(cache, deployed, c)
  BY DEF Serves
<1> QED
  BY <1>1 DEF Served

LEMMA RestartSInv ==
  ASSUME Steady, SInv, Restart
  PROVE  SInv'
<1>1. InformerFilled' /\ ReadingFilled'
  BY DEF Restart, InformerFilled, ReadingFilled, NotReading
<1>2. CoreListed'
  BY KindNames DEF Restart, CoreListed, NumCore, Nothing
<1>3. \A c \in Classes : Served(c)'
  BY DEF Restart, SInv, Served, Waits
<1> QED
  BY <1>1, <1>2, <1>3 DEF SInv

\* Classes of this controller are never missing, so each becomes an event.
LEMMA FillSInv ==
  ASSUME Steady, TInv, SInv, NEW kinds \in Groups, Fill(kinds)
  PROVE  SInv'
<1>0. kinds \subseteq Kinds
  BY WorldAssumption
<1>1. InformerFilled'
  BY <1>0 DEF Fill, SInv, InformerFilled, TInv, Shape, ScalarsTyped, ObjectsTyped
<1>2. ReadingFilled' /\ CoreListed'
  BY DEF Fill, SInv, ReadingFilled, CoreListed
<1>3. ASSUME NEW c \in Classes, R!MayBeOwn(c), Waits(c)
      PROVE  Waits(c)'
  <2>1. CASE "GatewayClass" \in kinds
    <3>1. api["GatewayClass"][c] \in Universe["GatewayClass"][c]
      BY KindNames DEF TInv, ObjectsTyped, Classes
    <3>2. api["GatewayClass"][c] # None
      BY <1>3, <3>1 DEF Steady, ClassesStay
    <3>3. c \in Cached(api["GatewayClass"])
      BY <3>2, KindNames DEF Cached, TInv, Shape, Classes
    <3> QED
      BY <2>1, <3>3, KindNames DEF Fill, Waits
  <2>2. CASE "GatewayClass" \notin kinds
    BY <1>3, <2>2, KindNames DEF Fill, Waits
  <2> QED
    BY <2>1, <2>2
<1>4. ASSUME NEW c \in Classes PROVE Served(c)'
  <2>1. Serves(cache, deployed, c)' = Serves(cache, deployed, c)
    BY DEF Fill, Serves
  <2> QED
    BY <1>3, <2>1 DEF Fill, SInv, Served
<1> QED
  BY <1>1, <1>2, <1>4 DEF SInv

LEMMA ObserveSInv ==
  ASSUME TInv, SInv, NEW kind \in Kinds, NEW k \in DOMAIN Universe[kind], Observe(kind, k)
  PROVE  SInv'
<1>1. InformerFilled'
  BY DEF Observe, SInv, InformerFilled, TInv, Shape, ScalarsTyped, ObjectsTyped
<1>2. ReadingFilled' /\ CoreListed'
  BY DEF Observe, SInv, ReadingFilled, CoreListed
<1>3. \A c \in Classes : Waits(c) => Waits(c)'
  BY KindNames DEF Observe, Waits, TInv, Shape
<1>4. \A c \in Classes : Served(c)'
  BY <1>3, ServedStays DEF Observe, SInv
<1> QED
  BY <1>1, <1>2, <1>4 DEF SInv

LEMMA ReadSInv ==
  ASSUME TInv, SInv, NEW kind \in Kinds, NEW k \in DOMAIN Universe[kind], Read(kind, k)
  PROVE  SInv'
<1>1. InformerFilled' /\ CoreListed'
  BY DEF Read, SInv, InformerFilled, CoreListed
<1>2. ReadingFilled'
  <2>1. kind \in started
    BY DEF Read, TInv, KeysTyped
  <2> QED
    BY <2>1 DEF Read, SInv, InformerFilled, ReadingFilled, TInv, Shape
<1>3. \A c \in Classes : Waits(c) => Waits(c)'
  BY DEF Read, Waits, Gated, TInv, Shape, Kinds
<1>4. \A c \in Classes : Served(c)'
  BY <1>3, ServedStays DEF Read, SInv
<1> QED
  BY <1>1, <1>2, <1>4 DEF SInv

\* Nothing else is touched by what users do.
LEMMA EditSInv ==
  ASSUME SInv, NEW kind \in Kinds, NEW k \in DOMAIN Universe[kind],
         NEW obj \in Universe[kind][k], Edit(kind, k, obj)
  PROVE  SInv'
<1>1. InformerFilled' /\ ReadingFilled' /\ CoreListed'
  BY DEF Edit, SInv, InformerFilled, ReadingFilled, CoreListed
<1>2. \A c \in Classes : Served(c)'
  BY ServedStays DEF Edit, SInv, Waits
<1> QED
  BY <1>1, <1>2 DEF SInv


\* Before the sync is over every class of this controller waits.
LEMMA AllWait ==
  ASSUME SInv, sync # Synced, UNCHANGED <<deployed, started, queue>>
  PROVE  \A c \in Classes : Served(c)'
BY DEF SInv, Served, Waits

\* A list that fails ends the sync early, or leaves the namespaces out.
LEMMA LockSInv ==
  ASSUME SInv, Lock \/ ListFails
  PROVE  SInv'
<1>0. sync # Synced
  BY LenOfOrder DEF Lock, ListFails
<1>1. InformerFilled' /\ ReadingFilled'
  BY DEF Lock, ListFails, SInv, InformerFilled, ReadingFilled
<1>2. CoreListed'
  <2>1. CASE Lock
    BY <2>1 DEF Lock, SInv, CoreListed, NumCore
  <2>2. CASE ListFails
    <3>1. sync \in 1..9 /\ NumCore = 5 /\ cache' = cache
      BY <2>2, LenOfOrder DEF ListFails, NumCore
    <3>2. ~skipped' => ~skipped /\ sync > NumCore
      BY <2>2 DEF ListFails
    <3>3. ~skipped' => ~skipped /\ \A i \in 1..NumCore : i < sync
      BY <3>1, <3>2
    <3> QED
      BY <3>1, <3>3 DEF SInv, CoreListed
  <2> QED
    BY <2>1, <2>2
<1>3. \A c \in Classes : Served(c)'
  BY <1>0, AllWait DEF Lock, ListFails
<1> QED
  BY <1>1, <1>2, <1>3 DEF SInv

LEMMA ListSInv ==
  ASSUME Steady, TInv, SInv, List
  PROVE  SInv'
<1> DEFINE kind == Order[sync]
<1>0. sync \in 1..9 /\ kind \in Kinds /\ sync # Synced /\ sync' = sync + 1
  BY LenOfOrder, KindsAreListed DEF List
<1>1. InformerFilled' /\ ReadingFilled'
  BY DEF List, SInv, InformerFilled, ReadingFilled
<1>2. \A c \in Classes : Served(c)'
  BY <1>0, AllWait DEF List
<1>3. cache' = [cache EXCEPT ![kind] = [k \in DOMAIN @ |->
                  IF Source(kind)[k] = None THEN @[k] ELSE Stored(kind, @[k], Source(kind)[k])]]
  BY DEF List
<1>4. ASSUME NEW j \in Core, NEW k \in DOMAIN Universe[j]
      PROVE  \/ cache'[j][k] = cache[j][k] /\ (j = kind => None \in Universe[j][k])
             \/ \E obj \in Universe[j][k] : cache'[j][k] = Stored(j, cache[j][k], obj)
  <2>1. api[j][k] \in Universe[j][k] /\ DOMAIN cache = Kinds /\ k \in DOMAIN cache[j]
    BY KindNames DEF TInv, Shape, ObjectsTyped
  <2>2. CASE j = kind
    BY <1>0, <1>3, <2>1, <2>2 DEF Source
  <2>3. CASE j # kind
    BY <1>0, <1>3, <2>1, <2>3
  <2> QED
    BY <2>2, <2>3
<1> HIDE DEF kind
<1>5. ASSUME NEW i \in 1..NumCore, i < sync', ~skipped, NEW k \in DOMAIN Universe[Order[i]],
             None \notin Universe[Order[i]][k]
      PROVE  cache'[Order[i]][k] # None
  <2>1. Order[i] \in Core
    BY OrderOfCore
  <2>2. i < sync \/ Order[i] = kind
    BY <1>0, <1>5, OrderOfCore DEF kind
  <2>3. Order[i] # kind => cache[Order[i]][k] # None
    BY <1>5, <2>2 DEF SInv, CoreListed
  <2>4. CASE cache'[Order[i]][k] = cache[Order[i]][k] /\ (Order[i] = kind => None \in Universe[Order[i]][k])
    BY <1>5, <2>3, <2>4
  <2>5. CASE \E obj \in Universe[Order[i]][k] : cache'[Order[i]][k] = Stored(Order[i], cache[Order[i]][k], obj)
    BY <1>5, <2>1, <2>5, StoredIsThere DEF Steady
  <2> QED
    BY <1>4, <2>1, <2>4, <2>5
<1>6. ASSUME NEW n \in DOMAIN Universe["Node"]
      PROVE  cache'["Node"][n] = None \/ cache'["Node"][n] # NoAddress
  <2>1. cache["Node"][n] = None \/ cache["Node"][n] # NoAddress
    BY DEF SInv, CoreListed
  <2> QED
    BY <1>4, <2>1, StoredIsThere, KindNames DEF Steady
<1>7. CoreListed'
  BY <1>5, <1>6 DEF CoreListed, List
<1> QED
  BY <1>1, <1>2, <1>7 DEF SInv


---------------------------------------------------------------------------
(* What a reconciler does, with everything listed that never goes.         *)

\* A class that is there is handled, never ignored.
LEMMA ClassesAreHandled ==
  ASSUME ClassesStay, NEW c \in Classes, R!MayBeOwn(c), NEW obj \in Universe["GatewayClass"][c]
  PROVE  ~R!Ignored("GatewayClass", c, obj)
BY DEF ClassesStay, R!Ignored

\* The classes concerned are served by the cache the object is stored in.
LEMMA DeclaredAreServed ==
  ASSUME Steady, TInv, OfCluster(cache),
         NEW kind \in Kinds, NEW k \in DOMAIN Universe[kind], NEW obj \in Universe[kind][k],
         NEW classes \in SUBSET Classes, HasBackends(kind) => classes = {},
         NEW d, NEW c \in classes,
         d = [t \in Tenants |-> IF t \in DOMAIN Declaration(After(kind, k, obj), kind, k, classes)
                                THEN Declaration(After(kind, k, obj), kind, k, classes)[t]
                                ELSE deployed[t]]
  PROVE  Serves(After(kind, k, obj), d, c)
<1> DEFINE s == After(kind, k, obj)
           as3 == Declaration(s, kind, k, classes)
<1>1. OfCluster(s) /\ Scoped(s)
  BY AfterIsOfCluster, ClusterIsScoped DEF Steady
<1>2. c \in DOMAIN as3 /\ as3[c] = ParseAllForClass(s, c) /\ c \in Tenants
  BY <1>1, DeclaredClasses, ReferencesAssumption DEF Steady
<1>3. ASSUME NEW v \in RelatedServices(s, c)
      PROVE  PoolWithMembers(s, v) \in d[NsOf[v]].pools
  <2>1. NsOf[v] \in DOMAIN as3 /\ PoolWithMembers(s, v) \in as3[NsOf[v]].pools
    BY <1>1, DeclaredPools DEF Steady
  <2>2. v \in DOMAIN Universe["Service"]
    BY <1>1, RelatedAreScoped, KindNames DEF OfCluster
  <2>3. NsOf[v] \in Tenants
    BY <2>2, ReferencesAssumption
  <2> HIDE DEF s, as3
  <2> QED
    BY <2>1, <2>3 DEF s, as3
<1> QED
  BY <1>2, <1>3 DEF Serves

\* The others stay served: nothing they refer to has changed, or their
\* namespace is declared anew with all its pools.
LEMMA OthersStayServed ==
  ASSUME Steady, TInv, OfCluster(cache), CoreThere(cache),
         NEW kind \in Kinds, NEW k \in DOMAIN Universe[kind], NEW obj \in Universe[kind][k],
         ~Panics(kind, k, obj),
         NEW classes \in SUBSET Classes, HasBackends(kind) => classes = {},
         NEW d, NEW c \in Classes, c \notin classes, Serves(cache, deployed, c),
         kind # "Node" => c \notin R!ImpactOf(kind, k, obj),
         d = [t \in Tenants |-> IF t \in DOMAIN Declaration(After(kind, k, obj), kind, k, classes)
                                THEN Declaration(After(kind, k, obj), kind, k, classes)[t]
                                ELSE deployed[t]]
  PROVE  Serves(After(kind, k, obj), d, c)
<1> DEFINE s == After(kind, k, obj)
           as3 == Declaration(s, kind, k, classes)
<1>1. OfCluster(s) /\ Scoped(s) /\ Scoped(cache) /\ Differs(cache, s, kind, k)
  BY AfterIsOfCluster, ClusterIsScoped DEF Steady
<1>2. /\ ParseAllForClass(s, c) = ParseAllForClass(cache, c)
      /\ kind # "Service" => RelatedServices(s, c) = RelatedServices(cache, c)
  BY StoreFrame
<1>3. c \notin DOMAIN as3 /\ c \in Tenants
  BY <1>1, DeclaredClasses, ReferencesAssumption DEF Steady
<1>4. ASSUME NEW v \in RelatedServices(s, c), s.Service[v] = "ClusterIP"
      PROVE  PoolWithMembers(s, v) \in d[NsOf[v]].pools
  <2>1. v \in DOMAIN Universe["Service"] /\ NsOf[v] \in Tenants
    <3>1. v \in DOMAIN Universe["Service"]
      BY <1>1, RelatedAreScoped, KindNames DEF OfCluster
    <3> QED
      BY <3>1, ReferencesAssumption
  <2>2. CASE NsOf[v] \in DOMAIN as3
    <3>1. PoolWithMembers(s, v) \in as3[NsOf[v]].pools
      BY <1>1, <2>2, DeclaredPools DEF Steady
    <3> HIDE DEF s, as3
    <3> QED
      BY <2>1, <2>2, <3>1 DEF s, as3
  <2>3. CASE NsOf[v] \notin DOMAIN as3
    <3>1. ~HasBackends(kind) \/ v # k
      <4>1. HasBackends(kind) => DOMAIN as3 = {NsOf[k]}
        BY NamespaceDeclared
      <4> QED
        BY <2>3, <4>1
    <3>2. cache.Service[v] = "ClusterIP" /\ PoolWithMembers(s, v) = PoolWithMembers(cache, v)
      BY <1>1, <1>4, <2>1, <3>1, SamePool
    <3>3. v \in RelatedServices(cache, c)
      <4>1. CASE kind = "Service"
        <5>1. v # k /\ v \in DOMAIN cache.Service
          BY <2>1, <3>1, <4>1, KindNames DEF HasBackends, OfCluster
        <5> QED
          BY <1>1, <4>1, <5>1, OtherServices
      <4>2. CASE kind # "Service"
        BY <1>2, <4>2
      <4> QED
        BY <4>1, <4>2
    <3>4. PoolWithMembers(cache, v) \in deployed[NsOf[v]].pools
      BY <3>2, <3>3 DEF Serves
    <3> HIDE DEF s, as3
    <3> QED
      BY <2>1, <2>3, <3>2, <3>4 DEF s, as3
  <2> QED
    BY <2>2, <2>3
<1>5. d[c] = ParseAllForClass(s, c)
  <2>1. deployed[c] = ParseAllForClass(cache, c)
    BY DEF Serves
  <2> HIDE DEF s, as3
  <2> QED
    BY <1>2, <1>3, <2>1 DEF s, as3
<1> QED
  BY <1>4, <1>5 DEF Serves


LEMMA WorkFilled ==
  ASSUME TInv, SInv, NEW kind \in Kinds, NEW k \in DOMAIN Universe[kind],
         NEW x \in Work(kind), x.key = k
  PROVE  /\ x.obj \in Universe[kind][k]
         /\ kind \in Gated => sync = Synced /\ k \in queue[kind]
<1>1. kind \in started
  BY WorkType
<1>2. CASE kind \in Gated
  BY <1>1, <1>2 DEF Work, SInv, InformerFilled
<1>3. CASE kind \notin Gated
  BY <1>3 DEF Work, SInv, ReadingFilled
<1> QED
  BY <1>2, <1>3

LEMMA HandleSInv ==
  ASSUME Steady, TInv, CInv, SInv, NEW kind \in Kinds, NEW k \in DOMAIN Universe[kind],
         Handle(kind, k)
  PROVE  SInv'
<1>1. PICK x \in Work(kind) :
        /\ x.key = k
        /\ ~Panics(kind, k, x.obj)
        /\ cache' = Result(kind, k, x.obj).cache
        /\ deployed' = Result(kind, k, x.obj).deployed
        /\ queue' = [queue EXCEPT ![kind] =
                       (IF kind \in Gated THEN @ \ {k} ELSE @) \cup Result(kind, k, x.obj).again]
        /\ reading' = [j \in DOMAIN reading |-> IF j = kind THEN NotReading[j] ELSE reading[j]]
        /\ UNCHANGED <<informer, started, sync, skipped>>
  BY DEF Handle
<1> DEFINE obj == x.obj
           s == After(kind, k, obj)
           ignored == R!Ignored(kind, k, obj)
           classes == IF kind = "Node" \/ ignored THEN {} ELSE R!ImpactOf(kind, k, obj)
           as3 == Declaration(s, kind, k, classes)
<1>2. /\ obj \in Universe[kind][k]
      /\ kind \in Gated => sync = Synced /\ k \in queue[kind]
  BY <1>1, WorkFilled
<1>3. /\ cache' = IF ignored THEN cache ELSE s
      /\ deployed' = IF DeployFails(s, kind, k, classes) THEN deployed
                     ELSE [t \in Tenants |-> IF t \in DOMAIN as3 THEN as3[t] ELSE deployed[t]]
  BY <1>1 DEF Result
<1>4. OfCluster(cache) /\ OfCluster(s) /\ Scoped(s)
  BY <1>2, CacheIsOfCluster, AfterIsOfCluster, ClusterIsScoped DEF Steady
<1>5. classes \in SUBSET Classes /\ (HasBackends(kind) => classes = {})
  <2>1. HasBackends(kind) => R!ImpactOf(kind, k, obj) = {}
    BY DEF R!ImpactOf, HasBackends
  <2> QED
    BY <1>1, <1>2, <2>1, ImpactedAreClasses
<1>6. InformerFilled' /\ ReadingFilled'
  BY <1>1 DEF SInv, InformerFilled, ReadingFilled, TInv, Shape, NotReading
<1>7. CoreListed'
  <2>1. \A j \in Core : \A i \in DOMAIN Universe[j] :
          \/ cache'[j][i] = cache[j][i]
          \/ j = kind /\ i = k /\ cache'[j][i] = Stored(kind, cache[kind][k], obj)
    BY <1>3, <1>4, KindNames DEF After, OfCluster
  <2>2. \A j \in Core : \A i \in DOMAIN Universe[j] : None \notin Universe[j][i] =>
          (cache[j][i] # None => cache'[j][i] # None)
    BY <1>2, <2>1, StoredIsThere DEF Steady
  <2>3. \A n \in DOMAIN Universe["Node"] : cache'["Node"][n] = None \/ cache'["Node"][n] # NoAddress
    BY <1>2, <2>1, StoredIsThere, KindNames DEF Steady, SInv, CoreListed
  <2> QED
    BY <1>1, <2>2, <2>3, OrderOfCore DEF SInv, CoreListed
<1>8. ASSUME NEW c \in Classes, ~R!MayBeOwn(c) PROVE deployed'[c] = NoConfig
  <2>1. deployed[c] = NoConfig /\ c \in Tenants
    BY <1>8, ReferencesAssumption DEF SInv, Served
  <2>2. ParseAllForClass(s, c) = NoConfig
    <3>1. s.GatewayClass[c] = None
      BY <1>4, <1>8 DEF OfCluster
    <3> QED
      BY <3>1 DEF ParseAllForClass
  <2>3. c \in DOMAIN as3 => as3[c] = ParseAllForClass(s, c)
    BY <1>4, <1>5, DeclaredClasses DEF Steady
  <2> HIDE DEF s, as3, classes
  <2> QED
    BY <1>3, <2>1, <2>2, <2>3
<1>9. ASSUME NEW c \in Classes, R!MayBeOwn(c), sync = Synced, ~skipped,
             (kind = "GatewayClass" /\ k = c) \/ Serves(cache, deployed, c)
      PROVE  Serves(cache, deployed, c)'
  <2>1. CoreThere(cache) /\ CoreThere(s)
    BY <1>2, <1>4, <1>9, SyncedHasCore, AfterHasCore DEF Steady, SInv
  <2>2. ~DeployFails(s, kind, k, classes)
    BY <1>4, <2>1, NothingFails DEF Steady
  <2>3. deployed' = [t \in Tenants |-> IF t \in DOMAIN as3 THEN as3[t] ELSE deployed[t]]
    BY <1>3, <2>2
  <2>4. Serves(cache, deployed, c)' = Serves(cache', deployed', c)
    BY DEF Serves
  <2>5. CASE ignored
    <3>1. kind = "GatewayClass" /\ classes = {}
      BY <2>5 DEF R!Ignored
    <3>2. DOMAIN as3 = {}
      BY <3>1 DEF Declaration, Services, HasBackends, R!Over, ParseServicesWithMembers
    <3>3. \A t \in Tenants : deployed'[t] = deployed[t]
      BY <2>3, <3>2
    <3>4. c \in Tenants /\ \A v \in RelatedServices(cache, c) : NsOf[v] \in Tenants
      <4>1. RelatedServices(cache, c) \subseteq DOMAIN Universe["Service"]
        BY <1>4, ClusterIsScoped, RelatedAreScoped, KindNames DEF OfCluster, Steady
      <4> QED
        BY <4>1, ReferencesAssumption
    <3>5. Serves(cache, deployed, c)
      BY <1>2, <1>9, <2>5, ClassesAreHandled DEF Steady
    <3>6. Serves(cache, deployed', c)
      BY <3>3, <3>4, <3>5 DEF Serves
    <3> QED
      BY <1>3, <2>4, <2>5, <3>6
  <2>6. CASE ~ignored /\ c \in classes
    <3>1. Serves(s, deployed', c)
      BY <1>2, <1>4, <1>5, <2>3, <2>6, DeclaredAreServed
    <3> QED
      BY <1>3, <2>4, <2>6, <3>1
  <2>7. CASE ~ignored /\ c \notin classes
    <3>1. kind # "Node" => c \notin R!ImpactOf(kind, k, obj)
      BY <2>7
    <3>2. Serves(cache, deployed, c)
      BY <1>9, <3>1 DEF R!ImpactOf
    <3>3. Serves(s, deployed', c)
      BY <1>1, <1>2, <1>4, <1>5, <2>1, <2>3, <2>7, <3>1, <3>2, OthersStayServed
    <3> QED
      BY <1>3, <2>4, <2>7, <3>3
  <2> QED
    BY <2>5, <2>6, <2>7
<1>10. ASSUME NEW c \in Classes, R!MayBeOwn(c) PROVE Served(c)'
  <2>1. CASE Waits(c) /\ ~(kind = "GatewayClass" /\ k = c)
    <3>1. Waits(c)'
      BY <1>1, <2>1, KindNames DEF Waits, TInv, Shape
    <3> QED
      BY <1>10, <3>1 DEF Served
  <2>2. CASE kind = "GatewayClass" /\ k = c
    <3>1. sync = Synced
      BY <1>2, <2>2 DEF Gated
    <3> QED
      BY <1>1, <1>9, <1>10, <2>2, <3>1 DEF Served
  <2>3. CASE ~Waits(c)
    <3>1. sync = Synced /\ (skipped \/ Serves(cache, deployed, c))
      BY <1>10, <2>3 DEF SInv, Served
    <3> QED
      BY <1>1, <1>9, <1>10, <3>1 DEF Served
  <2> QED
    BY <2>1, <2>2, <2>3
<1>11. \A c \in Classes : Served(c)'
  BY <1>8, <1>10 DEF Served
<1> QED
  BY <1>6, <1>7, <1>11 DEF SInv

LEMMA NextSInv == Steady /\ TInv /\ CInv /\ SInv /\ [Next]_vars => SInv'
<1> SUFFICES ASSUME Steady, TInv, CInv, SInv, [Next]_vars PROVE SInv'
  OBVIOUS
<1>1. CASE Lock \/ ListFails
  BY <1>1, LockSInv
<1>2. CASE List
  BY <1>2, ListSInv
<1>3. CASE SyncExits \/ SyncPanics
  BY <1>3, RestartSInv DEF SyncExits, SyncPanics
<1>4. ASSUME NEW kinds \in Groups, Fill(kinds) PROVE SInv'
  BY <1>4, FillSInv
<1>5. ASSUME NEW kind \in Kinds, NEW k \in DOMAIN Universe[kind],
             Observe(kind, k) \/ TooEarly(kind, k) \/ Read(kind, k) \/ Handle(kind, k)
               \/ Panic(kind, k) \/ \E obj \in Universe[kind][k] : Edit(kind, k, obj)
      PROVE  SInv'
  <2>1. CASE TooEarly(kind, k)
    <3>1. UNCHANGED vars
      BY <2>1 DEF TooEarly
    <3> QED
      BY <3>1, ServedStays DEF vars, SInv, InformerFilled, ReadingFilled, CoreListed, Waits
  <2>2. CASE Panic(kind, k)
    BY <2>2, RestartSInv DEF Panic
  <2> QED
    BY <1>5, <2>1, <2>2, ObserveSInv, ReadSInv, HandleSInv, EditSInv
<1>6. CASE UNCHANGED vars
  BY <1>6, ServedStays DEF vars, SInv, InformerFilled, ReadingFilled, CoreListed, Waits
<1> QED
  BY <1>1, <1>2, <1>3, <1>4, <1>5, <1>6 DEF Next

\* In a steady world a process that starts ends up with every class deployed
\* as it knows it, and with the pools of all its ClusterIP services, whatever
\* an earlier process left, in whatever order lists, informers and events
\* come, and however often it is replaced: the classes' events wait for
\* SyncedAtStart (gatewayclass_controller.go:55), and what comes before them
\* finds no class cached.
THEOREM ClassesAreDeployed ==
  ASSUME Steady
  PROVE  Spec => []StartupDeploys
<1>1. Init => TInv /\ CInv /\ SInv
  BY InitTInv, InitCInv, InitSInv
<1>2. TInv /\ CInv /\ SInv /\ [Next]_vars => (TInv /\ CInv /\ SInv)'
  BY NextTInv, NextCInv, NextSInv, SteadyKeepsController
<1>3. TInv /\ CInv /\ SInv => StartupDeploys
  <2> SUFFICES ASSUME TInv, CInv, SInv, Settled, ~skipped, NEW c \in Classes
               PROVE  Serves(cache, deployed, c)
    BY DEF StartupDeploys, Serves
  <2>1. CASE R!MayBeOwn(c)
    <3>1. ~Waits(c)
      BY KindNames DEF Settled, Waits, NoKeys
    <3> QED
      BY <2>1, <3>1 DEF SInv, Served
  <2>2. CASE ~R!MayBeOwn(c)
    <3>1. cache.GatewayClass[c] = None
      BY <2>2, CacheIsOfCluster DEF OfCluster
    <3>2. deployed[c] = NoConfig
      BY <2>2 DEF SInv, Served
    <3> QED
      BY <3>1, <3>2 DEF Serves, ParseAllForClass, RelatedServices
  <2> QED
    BY <2>1, <2>2
<1> QED
  BY <1>1, <1>2, <1>3, PTL DEF Spec

=============================================================================
