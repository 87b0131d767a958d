------------------------- MODULE AS3DeployerProofs -------------------------
(***************************************************************************)
(* AS3Deployer keeps its type, its tenantCache is sound, a quiet deployer   *)
(* has deployed what was requested last, and it implements TenantStore, for *)
(* any tenants, bodies, number of BIG-IPs and queue bounds.                 *)
(***************************************************************************)
EXTENDS AS3Deployer, SequenceTheorems, TLAPS

\* A round has a declaration at hand; between rounds there is none.
BodyInv == IF pc = "get" THEN body = NoBody ELSE body \in Requests

\* The declaration at hand holds the newest body of each of its tenants.
BodyIsNewest == \A t \in DOMAIN body : accepted[t] = body[t]

\* A remembered tenant outside the declaration at hand is the newest one.
CachedIsNewest ==
  \A t \in Tenants \ DOMAIN body : tenantCache[t] # None => tenantCache[t] = accepted[t]

\* A requested tenant that is neither remembered nor at hand failed last time.
ForgottenIsLost ==
  \A t \in Tenants \ DOMAIN body :
     accepted[t] # None /\ tenantCache[t] = None => t \in lost

\* As long as no call failed, the BIG-IPs already called hold the declaration.
CalledHoldBody ==
  pc = "deploy" /\ ~failed =>
     \A b \in BigIPs : b < nextBigIP => \A t \in DOMAIN body : device[b][t] = body[t]

IInv == /\ TypeOK /\ BodyInv /\ BodyIsNewest /\ CachedIsNewest /\ ForgottenIsLost
        /\ CalledHoldBody /\ CacheSound

---------------------------------------------------------------------------
\* A declaration is a non-empty partial function from tenants to bodies.
LEMMA RequestsDef ==
  ASSUME NEW r
  PROVE  r \in Requests <=> /\ DOMAIN r \in SUBSET Tenants \ {{}}
                            /\ r \in [DOMAIN r -> Configs]
BY DEF Requests, Store!Requests

\* Merging two declarations gives a declaration.
LEMMA MergedType ==
  ASSUME NEW r \in Requests, NEW s \in Requests
  PROVE  /\ Merged(r, s) \in Requests
         /\ DOMAIN Merged(r, s) = DOMAIN r \cup DOMAIN s
         /\ \A t \in DOMAIN Merged(r, s) :
               Merged(r, s)[t] = IF t \in DOMAIN s THEN s[t] ELSE r[t]
<1>1. DOMAIN Merged(r, s) = DOMAIN r \cup DOMAIN s
  BY DEF Merged
<1>2. /\ DOMAIN r \in SUBSET Tenants \ {{}}
      /\ \A t \in DOMAIN r : r[t] \in Configs
      /\ DOMAIN s \in SUBSET Tenants \ {{}}
      /\ \A t \in DOMAIN s : s[t] \in Configs
  BY RequestsDef
<1>3. Merged(r, s) \in [DOMAIN r \cup DOMAIN s -> Configs]
  BY <1>2 DEF Merged
<1>4. DOMAIN r \cup DOMAIN s \in SUBSET Tenants \ {{}}
  BY <1>2
<1> QED
  BY <1>1, <1>3, <1>4, RequestsDef DEF Merged

\* What is left of a declaration is a declaration, or nothing.
LEMMA WithoutType ==
  ASSUME NEW r \in Requests, NEW T, DOMAIN Without(r, T) # {}
  PROVE  /\ Without(r, T) \in Requests
         /\ DOMAIN Without(r, T) = DOMAIN r \ T
         /\ \A t \in DOMAIN Without(r, T) : Without(r, T)[t] = r[t]
<1>1. /\ DOMAIN r \in SUBSET Tenants \ {{}}
      /\ \A t \in DOMAIN r : r[t] \in Configs
  BY RequestsDef
<1>2. DOMAIN Without(r, T) = DOMAIN r \ T
  BY DEF Without
<1>3. Without(r, T) \in [DOMAIN r \ T -> Configs]
  BY <1>1 DEF Without
<1>4. DOMAIN r \ T \in SUBSET Tenants \ {{}}
  BY <1>1, <1>2
<1> QED
  BY <1>2, <1>3, <1>4, RequestsDef DEF Without

\* Writing a declaration over a partition gives a partition.
LEMMA OverlayType ==
  ASSUME NEW p \in Partition, NEW r \in Requests
  PROVE  /\ Overlay(p, r) \in Partition
         /\ \A t \in Tenants : Overlay(p, r)[t] = IF t \in DOMAIN r THEN r[t] ELSE p[t]
<1>1. \A t \in DOMAIN r : r[t] \in Configs
  BY RequestsDef
<1>2. \A t \in Tenants : p[t] \in Configs \cup {None}
  BY DEF Partition, Store!Partition
<1> QED
  BY <1>1, <1>2 DEF Overlay, Store!Overlay, Partition, Store!Partition

\* Applying part of a declaration to one BIG-IP changes those tenants there only.
LEMMA AppliedType ==
  ASSUME device \in [BigIPs -> Partition], NEW r \in Requests,
         NEW b \in BigIPs, NEW T \in SUBSET DOMAIN r
  PROVE  /\ Applied(b, r, T) \in [BigIPs -> Partition]
         /\ \A c \in BigIPs, t \in Tenants :
              Applied(b, r, T)[c][t] = IF c = b /\ t \in T THEN r[t] ELSE device[c][t]
<1>1. \A t \in DOMAIN r : r[t] \in Configs
  BY RequestsDef
<1>2. [t \in Tenants |-> IF t \in T THEN r[t] ELSE device[b][t]] \in Partition
  BY <1>1 DEF Partition, Store!Partition
<1> QED
  BY <1>2 DEF Applied, Partition, Store!Partition

\* The head of a non-empty queue is a declaration and the tail is a queue.
LEMMA QueueType ==
  ASSUME pendingDeploys \in Seq(Requests), pendingDeploys # <<>>
  PROVE  Head(pendingDeploys) \in Requests /\ Tail(pendingDeploys) \in Seq(Requests)
OBVIOUS

LEMMA NoBodyFacts ==
  DOMAIN NoBody = {} /\ NoTenant \in Partition /\ \A t \in Tenants : NoTenant[t] = None
BY DEF NoBody, NoTenant, Partition, Store!Partition

---------------------------------------------------------------------------
LEMMA InitStep == Init => IInv
<1> SUFFICES ASSUME Init PROVE IInv
  OBVIOUS
<1> USE NoBodyFacts DEF Init, Fresh
<1>0. failed \in BOOLEAN
  BY Zenon
<1>1. TypeOK
  <2> HIDE DEF Fresh
  <2>1. /\ pendingDeploys = <<>> /\ doneDeploys = <<>> /\ pc = "get" /\ body = NoBody
        /\ toMerge = 0 /\ nextBigIP = 1 /\ tenantCache = NoTenant /\ accepted = NoTenant
        /\ lost = {}
    BY DEF Fresh
  <2> QED
    BY <1>0, <2>1 DEF TypeOK
<1>2. CacheSound
  BY DEF CacheSound
<1>3. /\ BodyInv /\ BodyIsNewest /\ CachedIsNewest /\ ForgottenIsLost /\ CalledHoldBody
  BY DEF BodyInv, BodyIsNewest, CachedIsNewest, ForgottenIsLost, CalledHoldBody
<1> QED
  BY <1>1, <1>2, <1>3 DEF IInv

\* A step that touches neither the round, the cache nor the BIG-IPs.
LEMMA QueueStep ==
  ASSUME IInv, pendingDeploys' \in Seq(Requests), doneDeploys' \in Seq(BOOLEAN),
         UNCHANGED <<control, tenantCache, device, history>>
  PROVE  IInv'
<1> USE DEF IInv, control, history
<1>1. TypeOK'
  BY DEF TypeOK
<1>2. CacheSound'
  BY DEF CacheSound, InFlight
<1>3. (BodyInv /\ BodyIsNewest /\ CachedIsNewest)'
  BY DEF BodyInv, BodyIsNewest, CachedIsNewest
<1>4. (ForgottenIsLost /\ CalledHoldBody)'
  BY DEF ForgottenIsLost, CalledHoldBody
<1> QED
  BY <1>1, <1>2, <1>3, <1>4

LEMMA SubmitStep ==
  ASSUME IInv, NEW r \in Requests, Submit(r)
  PROVE  IInv'
<1>1. pendingDeploys' \in Seq(Requests) /\ doneDeploys' \in Seq(BOOLEAN)
  BY DEF IInv, TypeOK, Submit
<1> QED
  BY <1>1, QueueStep DEF Submit

LEMMA RespHandlerStep ==
  ASSUME IInv, RespHandler
  PROVE  IInv'
<1>1. pendingDeploys' \in Seq(Requests) /\ doneDeploys' \in Seq(BOOLEAN)
  BY DEF IInv, TypeOK, RespHandler
<1> QED
  BY <1>1, QueueStep DEF RespHandler

LEMMA GetFirstStep ==
  ASSUME IInv, GetFirst
  PROVE  IInv'
<1> DEFINE r == Head(pendingDeploys)
<1> USE DEF IInv
<1>1. /\ r \in Requests /\ Tail(pendingDeploys) \in Seq(Requests)
      /\ body' = r /\ DOMAIN r \in SUBSET Tenants
  BY QueueType, RequestsDef DEF GetFirst, TypeOK
<1>2. /\ accepted' \in Partition
      /\ \A t \in Tenants : accepted'[t] = IF t \in DOMAIN r THEN r[t] ELSE accepted[t]
  BY <1>1, OverlayType DEF GetFirst, TypeOK
<1>3. body = NoBody /\ DOMAIN body = {} /\ pc = "get" /\ pc' = "len"
  BY NoBodyFacts DEF GetFirst, BodyInv
<1>4. TypeOK'
  BY <1>1, <1>2 DEF GetFirst, TypeOK
<1>5. CacheSound'
  BY <1>3 DEF GetFirst, CacheSound, InFlight
<1>6. BodyIsNewest'
  BY <1>1, <1>2 DEF BodyIsNewest
<1>7. (CachedIsNewest /\ ForgottenIsLost)'
  BY <1>1, <1>2, <1>3 DEF GetFirst, CachedIsNewest, ForgottenIsLost
<1>8. (BodyInv /\ CalledHoldBody)'
  BY <1>1, <1>3 DEF BodyInv, CalledHoldBody
<1> QED
  BY <1>4, <1>5, <1>6, <1>7, <1>8

LEMMA ReadLenStep ==
  ASSUME IInv, ReadLen
  PROVE  IInv'
<1> USE DEF IInv, ReadLen, history
<1>1. TypeOK'
  BY LenProperties DEF TypeOK
<1>2. CacheSound'
  BY DEF CacheSound, InFlight
<1>3. (BodyInv /\ BodyIsNewest /\ CachedIsNewest /\ ForgottenIsLost)'
  BY DEF BodyInv, BodyIsNewest, CachedIsNewest, ForgottenIsLost
<1>4. CalledHoldBody'
  BY DEF CalledHoldBody
<1> QED
  BY <1>1, <1>2, <1>3, <1>4

LEMMA MergeNextStep ==
  ASSUME IInv, MergeNext
  PROVE  IInv'
<1> DEFINE r == Head(pendingDeploys)
<1> USE DEF IInv
<1>0. body \in Requests
  BY DEF MergeNext, BodyInv
<1>1. /\ r \in Requests /\ Tail(pendingDeploys) \in Seq(Requests)
      /\ DOMAIN r \in SUBSET Tenants /\ DOMAIN body \in SUBSET Tenants
  BY <1>0, QueueType, RequestsDef DEF MergeNext, TypeOK
<1>2. /\ accepted' \in Partition
      /\ \A t \in Tenants : accepted'[t] = IF t \in DOMAIN r THEN r[t] ELSE accepted[t]
  BY <1>1, OverlayType DEF MergeNext, TypeOK
<1>3. /\ body' \in Requests
      /\ DOMAIN body' = DOMAIN body \cup DOMAIN r
      /\ \A t \in DOMAIN body' : body'[t] = IF t \in DOMAIN r THEN r[t] ELSE body[t]
  <2>1. body' = Merged(body, r)
    BY DEF MergeNext
  <2> HIDE DEF r, IInv
  <2>2. r \in Requests
    BY <1>1
  <2>3. /\ Merged(body, r) \in Requests
        /\ DOMAIN Merged(body, r) = DOMAIN body \cup DOMAIN r
        /\ \A t \in DOMAIN Merged(body, r) :
              Merged(body, r)[t] = IF t \in DOMAIN r THEN r[t] ELSE body[t]
    BY <1>0, <2>2, MergedType
  <2> QED
    BY <2>1, <2>3
<1>4. pc = "merge" /\ pc' = "merge" /\ UNCHANGED <<tenantCache, device, lost>>
  BY DEF MergeNext
<1>5. TypeOK'
  BY <1>1, <1>2, <1>3 DEF MergeNext, TypeOK
<1>6. CacheSound'
  BY <1>4 DEF CacheSound, InFlight
<1>7. BodyIsNewest'
  BY <1>1, <1>2, <1>3 DEF BodyIsNewest
<1>8. (CachedIsNewest /\ ForgottenIsLost)'
  BY <1>1, <1>2, <1>3, <1>4 DEF CachedIsNewest, ForgottenIsLost
<1>9. (BodyInv /\ CalledHoldBody)'
  BY <1>3, <1>4 DEF BodyInv, CalledHoldBody
<1> QED
  BY <1>5, <1>6, <1>7, <1>8, <1>9

LEMMA EliminateStep ==
  ASSUME IInv, Eliminate
  PROVE  IInv'
<1> DEFINE rest == Without(body, Unchanged(body))
<1> USE DEF IInv
<1>0. body \in Requests
  BY DEF Eliminate, BodyInv
<1>1. DOMAIN body \in SUBSET Tenants
  BY <1>0, RequestsDef
<1>2. pc = "merge" /\ failed' = FALSE /\ nextBigIP' = 1
  BY DEF Eliminate
<1>29. UNCHANGED <<pendingDeploys, doneDeploys, toMerge, tenantCache, device, accepted, lost>>
  BY DEF Eliminate, history
<1>20. failed' \in BOOLEAN
  BY <1>2, Zenon
<1>3. \A t \in DOMAIN body : t \notin DOMAIN rest => tenantCache[t] = accepted[t]
  BY DEF Without, Unchanged, BodyIsNewest
<1>4. ASSUME NEW u \in Tenants PROVE u \notin DOMAIN rest =>
          /\ (tenantCache[u] # None => tenantCache[u] = accepted[u])
          /\ (accepted[u] # None /\ tenantCache[u] = None => u \in lost)
  BY <1>1, <1>3 DEF CachedIsNewest, ForgottenIsLost
<1>5. \A t \in Tenants, b \in BigIPs : tenantCache[t] # None => device[b][t] = tenantCache[t]
  BY <1>2, <1>29 DEF CacheSound, InFlight
<1>6. CASE DOMAIN rest = {}
  <2>1. body' = NoBody /\ pc' = "get" /\ DOMAIN body' = {}
    BY <1>6, NoBodyFacts DEF Eliminate
  <2>2. TypeOK'
    <3> HIDE DEF rest
    <3> QED BY <1>2, <1>20, <1>29, <2>1 DEF TypeOK, BodyInv
  <2>3. CacheSound'
    BY <1>29, <1>5 DEF CacheSound
  <2>4. (CachedIsNewest /\ ForgottenIsLost)'
    BY <1>29, <1>4, <1>6 DEF CachedIsNewest, ForgottenIsLost
  <2>5. (BodyInv /\ BodyIsNewest /\ CalledHoldBody)'
    BY <2>1 DEF BodyInv, BodyIsNewest, CalledHoldBody
  <2> QED
    BY <2>2, <2>3, <2>4, <2>5
<1>7. CASE DOMAIN rest # {}
  <2>1. body' = rest /\ pc' = "deploy"
    BY <1>7 DEF Eliminate
  <2>2. /\ rest \in Requests
        /\ DOMAIN rest \subseteq DOMAIN body
        /\ \A t \in DOMAIN rest : rest[t] = body[t]
    BY <1>0, <1>7, WithoutType
  <2>3. TypeOK'
    BY <1>2, <1>20, <1>29, <2>1, <2>2 DEF TypeOK
  <2>4. CacheSound'
    BY <1>29, <1>5 DEF CacheSound
  <2>5. BodyIsNewest'
    BY <1>29, <2>1, <2>2 DEF BodyIsNewest
  <2>6. (CachedIsNewest /\ ForgottenIsLost)'
    BY <1>29, <1>4, <2>1 DEF CachedIsNewest, ForgottenIsLost
  <2>7. (BodyInv /\ CalledHoldBody)'
    BY <1>2, <2>1, <2>2 DEF BodyInv, CalledHoldBody, BigIPs
  <2> QED
    BY <2>3, <2>4, <2>5, <2>6, <2>7
<1> QED
  BY <1>6, <1>7

\* A call of one BIG-IP, whatever it applied and answered.
LEMMA CallStep ==
  ASSUME IInv, Calling, NEW T \in SUBSET DOMAIN body, NEW ok \in BOOLEAN,
         device' = Applied(nextBigIP, body, T), Answer(ok), ok => T = DOMAIN body
  PROVE  IInv'
<1> USE DEF IInv
<1>1. /\ pc = "deploy" /\ nextBigIP \in BigIPs /\ body \in Requests
      /\ DOMAIN body \in SUBSET Tenants /\ nextBigIP' = nextBigIP + 1
      /\ nextBigIP' \in Nat \ {0}
  <2>1. body \in Requests
    BY DEF Calling, BodyInv
  <2> QED
    BY <2>1, RequestsDef DEF Calling, Answer, BigIPs, TypeOK
<1>2. UNCHANGED <<pendingDeploys, pc, body, toMerge, tenantCache, accepted, lost>>
  BY DEF Answer, history
<1>3. device \in [BigIPs -> Partition]
  BY DEF TypeOK
<1>4. /\ device' \in [BigIPs -> Partition]
      /\ \A c \in BigIPs, t \in Tenants :
           device'[c][t] = IF c = nextBigIP /\ t \in T THEN body[t] ELSE device[c][t]
  <2>1. /\ Applied(nextBigIP, body, T) \in [BigIPs -> Partition]
        /\ \A c \in BigIPs, t \in Tenants :
             Applied(nextBigIP, body, T)[c][t]
               = IF c = nextBigIP /\ t \in T THEN body[t] ELSE device[c][t]
    BY <1>1, <1>3, AppliedType
  <2> QED
    BY <2>1
<1>5. failed' \in BOOLEAN /\ (~failed' => ~failed /\ ok)
  BY Zenon DEF Answer, TypeOK
<1>6. doneDeploys' \in Seq(BOOLEAN)
  BY DEF Answer, TypeOK
<1>7. TypeOK'
  BY <1>1, <1>2, <1>4, <1>5, <1>6 DEF TypeOK
<1>8. CacheSound'
  BY <1>1, <1>2, <1>4 DEF CacheSound, InFlight
<1>9. CalledHoldBody'
  <2> SUFFICES ASSUME ~failed', NEW b \in BigIPs, b < nextBigIP', NEW t \in DOMAIN body
               PROVE  device'[b][t] = body[t]
    BY <1>2 DEF CalledHoldBody
  <2>1. CASE b = nextBigIP
    BY <1>1, <1>4, <1>5, <2>1
  <2>2. CASE b < nextBigIP
    BY <1>1, <1>4, <1>5, <2>2 DEF CalledHoldBody
  <2> QED
    BY <1>1, <2>1, <2>2 DEF BigIPs, TypeOK
<1>10. (BodyInv /\ BodyIsNewest /\ CachedIsNewest /\ ForgottenIsLost)'
  BY <1>2 DEF BodyInv, BodyIsNewest, CachedIsNewest, ForgottenIsLost
<1> QED
  BY <1>7, <1>8, <1>9, <1>10

LEMMA RememberStep ==
  ASSUME IInv, Remember
  PROVE  IInv'
<1> USE DEF IInv
<1>1. /\ pc = "deploy" /\ pc' = "get" /\ body \in Requests /\ body' = NoBody
      /\ DOMAIN body \in SUBSET Tenants /\ DOMAIN body' = {}
      /\ \A t \in DOMAIN body : body[t] \in Configs
  <2>1. body \in Requests
    BY DEF Remember, BodyInv
  <2> QED
    BY <2>1, RequestsDef, NoBodyFacts DEF Remember
<1>2. UNCHANGED <<pendingDeploys, doneDeploys, toMerge, nextBigIP, failed, device, accepted>>
  BY DEF Remember
<1>3. \A t \in Tenants : tenantCache'[t] =
        IF t \notin DOMAIN body THEN tenantCache[t] ELSE IF failed THEN None ELSE body[t]
  BY DEF Remember
<1>4. lost' = IF failed THEN lost \cup DOMAIN body ELSE lost \ DOMAIN body
  BY DEF Remember
<1>5. lost' \in SUBSET Tenants
  BY <1>1, <1>4 DEF TypeOK
<1>6. tenantCache' \in Partition
  <2>1. \A t \in Tenants : tenantCache[t] \in Configs \cup {None}
    BY DEF TypeOK, Partition, Store!Partition
  <2>2. \A t \in Tenants : tenantCache'[t] \in Configs \cup {None}
    BY <1>1, <1>3, <2>1
  <2>3. tenantCache' = [t \in Tenants |-> tenantCache'[t]]
    BY DEF Remember
  <2> QED
    BY <2>2, <2>3 DEF Partition, Store!Partition
<1>7. TypeOK'
  BY <1>1, <1>2, <1>5, <1>6 DEF TypeOK
<1>8. ~failed => \A b \in BigIPs, t \in DOMAIN body : device[b][t] = body[t]
  <2>1. nextBigIP > NumBigIPs /\ nextBigIP \in Nat
    BY DEF Remember, TypeOK
  <2>2. \A b \in BigIPs : b < nextBigIP
    BY <2>1, ConstantsAssumption DEF BigIPs
  <2> QED
    BY <1>1, <2>2 DEF CalledHoldBody
<1>9. CacheSound'
  <2> SUFFICES ASSUME NEW t \in Tenants, NEW b \in BigIPs, tenantCache'[t] # None
               PROVE  device[b][t] = tenantCache'[t]
    BY <1>2 DEF CacheSound
  <2>1. CASE t \in DOMAIN body
    BY <1>3, <1>8, <2>1
  <2>2. CASE t \notin DOMAIN body
    BY <1>1, <1>3, <2>2 DEF CacheSound, InFlight
  <2> QED
    BY <2>1, <2>2
<1>10. CachedIsNewest'
  BY <1>1, <1>2, <1>3 DEF CachedIsNewest, BodyIsNewest
<1>11. ForgottenIsLost'
  BY <1>1, <1>2, <1>3, <1>4, ConstantsAssumption DEF ForgottenIsLost
<1>12. (BodyInv /\ BodyIsNewest /\ CalledHoldBody)'
  BY <1>1 DEF BodyInv, BodyIsNewest, CalledHoldBody
<1> QED
  BY <1>7, <1>9, <1>10, <1>11, <1>12

LEMMA RestartStep ==
  ASSUME IInv, Restart
  PROVE  IInv'
<1> USE NoBodyFacts DEF IInv
<1>1. /\ pendingDeploys' = <<>> /\ doneDeploys' = <<>> /\ pc' = "get" /\ body' = NoBody
      /\ toMerge' = 0 /\ nextBigIP' = 1 /\ tenantCache' = NoTenant /\ accepted' = NoTenant
      /\ lost' = {} /\ device' = device
  BY DEF Restart
<1>2. failed' \in BOOLEAN
  BY Zenon DEF Restart
<1>3. TypeOK'
  BY <1>1, <1>2 DEF TypeOK
<1>4. (CacheSound /\ CalledHoldBody)'
  BY <1>1 DEF CacheSound, CalledHoldBody
<1>5. (BodyInv /\ BodyIsNewest /\ CachedIsNewest /\ ForgottenIsLost)'
  BY <1>1 DEF BodyInv, BodyIsNewest, CachedIsNewest, ForgottenIsLost
<1> QED
  BY <1>3, <1>4, <1>5

\* The strengthened invariant holds in every state of every execution.
THEOREM Invariance == Spec => []IInv
<1>1. Init => IInv
  BY InitStep
<1>2. IInv /\ [Next]_vars => IInv'
  <2> SUFFICES ASSUME IInv, [Next]_vars PROVE IInv'
    OBVIOUS
  <2>1. ASSUME NEW r \in Requests, Submit(r) PROVE IInv'
    BY <2>1, SubmitStep
  <2>2. CASE GetFirst
    BY <2>2, GetFirstStep
  <2>3. CASE ReadLen
    BY <2>3, ReadLenStep
  <2>4. CASE MergeNext
    BY <2>4, MergeNextStep
  <2>5. CASE Eliminate
    BY <2>5, EliminateStep
  <2>6. CASE DeployOK
    BY <2>6, CallStep DEF DeployOK
  <2>7. CASE DeployFails
    BY <2>7, CallStep DEF DeployFails
  <2>8. CASE Remember
    BY <2>8, RememberStep
  <2>9. CASE RespHandler
    BY <2>9, RespHandlerStep
  <2>10. CASE Restart
    BY <2>10, RestartStep
  <2>11. CASE UNCHANGED vars
    <3>1. pendingDeploys' \in Seq(Requests) /\ doneDeploys' \in Seq(BOOLEAN)
      BY <2>11 DEF vars, IInv, TypeOK
    <3> QED
      BY <2>11, <3>1, QueueStep DEF vars
  <2> QED
    BY <2>1, <2>2, <2>3, <2>4, <2>5, <2>6, <2>7, <2>8, <2>9, <2>10, <2>11
       DEF Next, HandleNext
<1> QED
  BY <1>1, <1>2, PTL DEF Spec

\* The queues, the round, the cache and the BIG-IPs always have their types.
THEOREM TypeCorrect == Spec => []TypeOK
<1>1. IInv => TypeOK
  BY DEF IInv
<1> QED
  BY <1>1, Invariance, PTL

\* A remembered tenant is on every BIG-IP: dropping a tenant from a request
\* because tenantCache has it never leaves a BIG-IP out of date
\* (utils.go:463-527), however many BIG-IPs there are and whichever fail.
THEOREM CacheIsSound == Spec => []CacheSound
<1>1. IInv => CacheSound
  BY DEF IInv
<1> QED
  BY <1>1, Invariance, PTL

\* A deployer with nothing to do has put every tenant requested from it on
\* every BIG-IP in its newest form, except where the last attempt failed
\* (utils.go:441-529).
THEOREM QuietIsDeployed == Spec => []QuietMeansDeployed
<1>1. IInv => QuietMeansDeployed
  <2> SUFFICES ASSUME IInv, Quiet, NEW t \in Tenants, NEW b \in BigIPs,
                      accepted[t] # None, t \notin lost
               PROVE  device[b][t] = accepted[t]
    BY DEF QuietMeansDeployed
  <2>1. pc = "get" /\ DOMAIN body = {}
    BY NoBodyFacts DEF Quiet, IInv, BodyInv
  <2>2. tenantCache[t] # None
    BY <2>1 DEF IInv, ForgottenIsLost
  <2> QED
    BY <2>1, <2>2 DEF IInv, CachedIsNewest, CacheSound, InFlight
<1> QED
  BY <1>1, Invariance, PTL

---------------------------------------------------------------------------
\* Every step of the deployer is a step of the ordered tenant store or leaves
\* it unchanged: taking a request accepts it, a call installs newest bodies.
LEMMA StepRefines ==
  ASSUME IInv, [Next]_vars
  PROVE  [Store!Next]_(Store!vars)
<1> USE DEF Store!vars
<1>1. ASSUME NEW r \in Requests, Submit(r) PROVE Store!Next
  BY <1>1 DEF Submit, history, Store!Next, Store!Submit, Requests
<1>2. ASSUME pendingDeploys # <<>>, pendingDeploys' = Tail(pendingDeploys),
             accepted' = Overlay(accepted, Head(pendingDeploys)), UNCHANGED device
      PROVE  Store!Next
  BY <1>2 DEF Store!Next, Store!Accept, Overlay
<1>3. ASSUME Calling, NEW T \in SUBSET DOMAIN body,
             device' = Applied(nextBigIP, body, T), UNCHANGED <<pendingDeploys, accepted>>
      PROVE  Store!Next
  <2>1. /\ body \in Requests /\ DOMAIN body \in SUBSET Tenants
        /\ \A t \in DOMAIN body : body[t] \in Configs /\ accepted[t] = body[t]
    <3>1. body \in Requests
      BY <1>3 DEF Calling, IInv, BodyInv
    <3> QED
      BY <3>1, RequestsDef DEF IInv, BodyIsNewest
  <2>2. nextBigIP \in Store!BigIPs
    BY <1>3 DEF Calling, Store!BigIPs, IInv, TypeOK
  <2>3. \A t \in T : accepted[t] # None
    BY <2>1, ConstantsAssumption
  <2>4. device' = [device EXCEPT ![nextBigIP] =
                     [t \in Tenants |-> IF t \in T THEN accepted[t] ELSE @[t]]]
    BY <1>3, <2>1 DEF Applied
  <2>5. Store!Install(nextBigIP, T)
    BY <1>3, <2>3, <2>4 DEF Store!Install
  <2>6. T \in SUBSET Tenants
    BY <2>1
  <2> QED
    BY <2>2, <2>5, <2>6 DEF Store!Next
<1>4. ASSUME UNCHANGED <<pendingDeploys, accepted, device>>
      PROVE  UNCHANGED Store!vars
  BY <1>4
<1>5. CASE GetFirst
  BY <1>2, <1>5 DEF GetFirst
<1>6. CASE ReadLen
  BY <1>4, <1>6 DEF ReadLen, history
<1>7. CASE MergeNext
  BY <1>2, <1>7 DEF MergeNext
<1>8. CASE Eliminate
  BY <1>4, <1>8 DEF Eliminate, history
<1>9. CASE DeployOK
  BY <1>3, <1>9 DEF DeployOK, Answer, history
<1>10. CASE DeployFails
  BY <1>3, <1>10 DEF DeployFails, Answer, history
<1>11. CASE Remember
  BY <1>4, <1>11 DEF Remember
<1>12. CASE RespHandler
  BY <1>4, <1>12 DEF RespHandler, history
<1>13. CASE Restart
  BY <1>13 DEF Restart, NoTenant, Store!Next, Store!Restart
<1>14. CASE UNCHANGED vars
  BY <1>4, <1>14 DEF vars, history
<1> QED
  BY <1>1, <1>5, <1>6, <1>7, <1>8, <1>9, <1>10, <1>11, <1>12, <1>13, <1>14
     DEF Next, HandleNext

\* The deployer implements the ordered tenant store: merging keeps the order
\* of the queue, and no BIG-IP receives a body older than the newest taken
\* (utils.go:441-458, 499-508).
THEOREM DeployerImplementsStore == Spec => ImplementsStore
<1>1. Init => Store!Init
  BY DEF Init, Fresh, NoTenant, Store!Init, BigIPs, Store!BigIPs, Partition
<1>2. IInv /\ [Next]_vars => [Store!Next]_(Store!vars)
  BY StepRefines
<1> QED
  BY <1>1, <1>2, Invariance, PTL DEF Spec, ImplementsStore, Store!Spec

=============================================================================
