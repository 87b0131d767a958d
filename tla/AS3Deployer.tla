---------------------------- MODULE AS3Deployer ----------------------------
(***************************************************************************)
(* The AS3Deployer goroutine (internal/pkg/utils.go): it takes declarations *)
(* from PendingDeploys, merges what is queued, drops the tenants that       *)
(* tenantCache says are already in place, and sends the rest to each BIG-IP *)
(* in turn.  Reconcilers append to the queue at any time, a BIG-IP may      *)
(* fail after applying part of a declaration, and the process may be        *)
(* replaced at any point.                                                   *)
(***************************************************************************)
EXTENDS Naturals, Sequences

CONSTANTS Tenants,    \* names of AS3 tenants
          Configs,    \* tenant bodies
          None,       \* no body
          NumBigIPs,  \* BIG-IP instances, addressed in the order of the slice
          MaxQueue,   \* bound: requests waiting in PendingDeploys
          MaxDone     \* bound: answers waiting in DoneDeploys

ASSUME ConstantsAssumption ==
  /\ None \notin Configs
  /\ NumBigIPs \in Nat
  /\ MaxQueue \in Nat
  /\ MaxDone \in Nat

VARIABLES pendingDeploys,  \* FIFO of declarations: partial functions on Tenants
          doneDeploys,     \* FIFO of statuses: TRUE when the call returned nil
          pc,              \* where handleNext is
          body,            \* as3body["declaration"], its tenants only
          toMerge,         \* l - i: requests of the batch still to be merged
          nextBigIP,       \* index of the BIG-IP to call next
          failed,          \* errs holds an error
          tenantCache,     \* body believed to be on every BIG-IP, or None
          device,          \* what each BIG-IP holds
          accepted,        \* history: newest body taken from the queue
          lost             \* history: tenants whose last attempt had an error

control == <<pc, body, toMerge, nextBigIP, failed>>
history == <<accepted, lost>>
vars == <<pendingDeploys, doneDeploys, control, tenantCache, device, history>>

Store == INSTANCE TenantStore WITH backlog <- pendingDeploys

BigIPs == 1..NumBigIPs
Requests == Store!Requests
Partition == Store!Partition
Overlay(p, r) == Store!Overlay(p, r)

NoBody == [t \in {} |-> None]
NoTenant == [t \in Tenants |-> None]

\* The declaration without the tenants of T.
Without(r, T) == [t \in DOMAIN r \ T |-> r[t]]

\* Mutants of Merged: the first of the queue wins; the later replaces the body.
MergedFirstWins(r, later) ==
  [t \in DOMAIN r \cup DOMAIN later |-> IF t \in DOMAIN r THEN r[t] ELSE later[t]]
MergedReplaced(r, later) == later

\* Two declarations merged, the one queued later winning tenant by tenant.
Merged(r, later) ==
  [t \in DOMAIN r \cup DOMAIN later |-> IF t \in DOMAIN later THEN later[t] ELSE r[t]]

Fresh ==
  /\ pendingDeploys = <<>>
  /\ doneDeploys = <<>>
  /\ pc = "get"
  /\ body = NoBody
  /\ toMerge = 0
  /\ nextBigIP = 1
  /\ failed = FALSE
  /\ tenantCache = NoTenant
  /\ accepted = NoTenant
  /\ lost = {}

\* The BIG-IPs hold whatever earlier incarnations left on them.
Init == Fresh /\ device \in [BigIPs -> Partition]

---------------------------------------------------------------------------
\* A reconciler calls PendingDeploys.Add.
Submit(r) ==
  /\ Len(pendingDeploys) < MaxQueue
  /\ pendingDeploys' = Append(pendingDeploys, r)
  /\ UNCHANGED <<doneDeploys, control, tenantCache, device, history>>

\* The blocking Get that starts a round.
GetFirst ==
  /\ pc = "get"
  /\ pendingDeploys # <<>>
  /\ body' = Head(pendingDeploys)
  /\ pendingDeploys' = Tail(pendingDeploys)
  /\ accepted' = Overlay(accepted, Head(pendingDeploys))
  /\ pc' = "len"
  /\ UNCHANGED <<doneDeploys, toMerge, nextBigIP, failed, tenantCache, device, lost>>

\* Mutant of ReadLen: one request too few.
ReadLenShort ==
  /\ pc = "len"
  /\ toMerge' = Len(pendingDeploys) - 1
  /\ pc' = "merge"
  /\ UNCHANGED <<pendingDeploys, doneDeploys, body, nextBigIP, failed,
                 tenantCache, device, history>>

\* The length is read once: what is added later waits for the next round.
ReadLen ==
  /\ pc = "len"
  /\ toMerge' = Len(pendingDeploys)
  /\ pc' = "merge"
  /\ UNCHANGED <<pendingDeploys, doneDeploys, body, nextBigIP, failed,
                 tenantCache, device, history>>

\* Mutant of MergeNext: the length is read again after every request merged.
MergeNextRereads ==
  /\ pc = "merge"
  /\ toMerge > 0
  /\ pendingDeploys # <<>>
  /\ body' = Merged(body, Head(pendingDeploys))
  /\ pendingDeploys' = Tail(pendingDeploys)
  /\ accepted' = Overlay(accepted, Head(pendingDeploys))
  /\ pc' = "len"
  /\ UNCHANGED <<doneDeploys, toMerge, nextBigIP, failed, tenantCache, device, lost>>

MergeNext ==
  /\ pc = "merge"
  /\ toMerge > 0
  /\ pendingDeploys # <<>>
  /\ body' = Merged(body, Head(pendingDeploys))
  /\ pendingDeploys' = Tail(pendingDeploys)
  /\ accepted' = Overlay(accepted, Head(pendingDeploys))
  /\ toMerge' = toMerge - 1
  /\ UNCHANGED <<doneDeploys, pc, nextBigIP, failed, tenantCache, device, lost>>

Unchanged(r) == {t \in DOMAIN r : tenantCache[t] = r[t]}

\* Drop the tenants already in place; deploy only if a tenant is left.
Eliminate ==
  /\ pc = "merge"
  /\ toMerge = 0
  /\ LET rest == Without(body, Unchanged(body)) IN
       IF DOMAIN rest = {}
         THEN body' = NoBody /\ pc' = "get"
         ELSE body' = rest /\ pc' = "deploy"
  /\ nextBigIP' = 1
  /\ failed' = FALSE
  /\ UNCHANGED <<pendingDeploys, doneDeploys, toMerge, tenantCache, device, history>>

\* BIG-IP b after the tenants T of the declaration r were applied to it.
Applied(b, r, T) ==
  [device EXCEPT ![b] = [t \in Tenants |-> IF t \in T THEN r[t] ELSE @[t]]]

Calling == pc = "deploy" /\ nextBigIP <= NumBigIPs /\ Len(doneDeploys) < MaxDone

\* Mutant of Answer: only the status of the last BIG-IP is kept.
AnswerLastOnly(ok) ==
  /\ doneDeploys' = Append(doneDeploys, ok)
  /\ failed' = ~ok
  /\ nextBigIP' = nextBigIP + 1
  /\ UNCHANGED <<pendingDeploys, pc, body, toMerge, tenantCache, history>>

\* One BIG-IP has answered: DoneDeploys.Add and errs = append(errs, err).
Answer(ok) ==
  /\ doneDeploys' = Append(doneDeploys, ok)
  /\ failed' = (failed \/ ~ok)
  /\ nextBigIP' = nextBigIP + 1
  /\ UNCHANGED <<pendingDeploys, pc, body, toMerge, tenantCache, history>>

\* deployer.HandleRequest returned nil: every tenant of the body is in place.
DeployOK ==
  /\ Calling
  /\ device' = Applied(nextBigIP, body, DOMAIN body)
  /\ Answer(TRUE)

\* It returned an error: any part of the body may have been applied.
DeployFails ==
  /\ Calling
  /\ \E T \in SUBSET DOMAIN body : device' = Applied(nextBigIP, body, T)
  /\ Answer(FALSE)

\* Mutant of Remember: a failed declaration is sent again, until it succeeds.
RememberOrRetry ==
  /\ pc = "deploy"
  /\ nextBigIP > NumBigIPs
  /\ IF failed
       THEN pc' = "deploy" /\ nextBigIP' = 1 /\ failed' = FALSE
            /\ UNCHANGED <<tenantCache, body, lost>>
       ELSE /\ tenantCache' = Overlay(tenantCache, body)
            /\ pc' = "get" /\ body' = NoBody /\ lost' = lost \ DOMAIN body
            /\ UNCHANGED <<nextBigIP, failed>>
  /\ UNCHANGED <<pendingDeploys, doneDeploys, toMerge, device, accepted>>

\* The round ends: the tenants are remembered if every BIG-IP took them and
\* forgotten otherwise.  Nothing is queued again.
Remember ==
  /\ pc = "deploy"
  /\ nextBigIP > NumBigIPs
  /\ tenantCache' = [t \in Tenants |->
       IF t \notin DOMAIN body THEN tenantCache[t]
       ELSE IF failed THEN None ELSE body[t]]
  /\ lost' = IF failed THEN lost \cup DOMAIN body ELSE lost \ DOMAIN body
  /\ pc' = "get"
  /\ body' = NoBody
  /\ UNCHANGED <<pendingDeploys, doneDeploys, toMerge, nextBigIP, failed,
                 device, accepted>>

\* RespHandler takes an answer and logs it; an error is not acted upon.
RespHandler ==
  /\ doneDeploys # <<>>
  /\ doneDeploys' = Tail(doneDeploys)
  /\ UNCHANGED <<pendingDeploys, control, tenantCache, device, history>>

\* The process ends and another starts: everything but the BIG-IPs is new.
Restart ==
  /\ pendingDeploys' = <<>>
  /\ doneDeploys' = <<>>
  /\ pc' = "get"
  /\ body' = NoBody
  /\ toMerge' = 0
  /\ nextBigIP' = 1
  /\ failed' = FALSE
  /\ tenantCache' = NoTenant
  /\ accepted' = NoTenant
  /\ lost' = {}
  /\ UNCHANGED device

HandleNext ==
  GetFirst \/ ReadLen \/ MergeNext \/ Eliminate \/ DeployOK \/ DeployFails \/ Remember

Next ==
  \/ \E r \in Requests : Submit(r)
  \/ HandleNext
  \/ RespHandler
  \/ Restart

Spec == Init /\ [][Next]_vars

\* Both goroutines loop for ever: a step they can take is eventually taken.
Fairness == WF_vars(HandleNext) /\ WF_vars(RespHandler)

FairSpec == Spec /\ Fairness

---------------------------------------------------------------------------
TypeOK ==
  /\ pendingDeploys \in Seq(Requests)
  /\ doneDeploys \in Seq(BOOLEAN)
  /\ pc \in {"get", "len", "merge", "deploy"}
  /\ body \in Requests \cup {NoBody}
  /\ toMerge \in Nat
  /\ nextBigIP \in Nat \ {0}
  /\ failed \in BOOLEAN
  /\ tenantCache \in Partition
  /\ device \in [BigIPs -> Partition]
  /\ accepted \in Partition
  /\ lost \in SUBSET Tenants

\* Tenants on their way to the BIG-IPs in this round.
InFlight == IF pc = "deploy" THEN DOMAIN body ELSE {}

\* Eliminating a tenant never skips a deployment that is needed: outside the
\* round that is deploying it, a remembered tenant is what every BIG-IP holds,
\* through partial failures, several BIG-IPs and restarts (utils.go:463-527).
CacheSound ==
  \A t \in Tenants \ InFlight, b \in BigIPs :
    tenantCache[t] # None => device[b][t] = tenantCache[t]

Quiet == pc = "get" /\ pendingDeploys = <<>>

\* When the deployer has nothing left to do, every tenant ever requested from
\* this process is, on every BIG-IP, the body requested last, unless the last
\* attempt to deploy it failed (utils.go:441-529).
QuietMeansDeployed ==
  Quiet => \A t \in Tenants, b \in BigIPs :
             accepted[t] # None /\ t \notin lost => device[b][t] = accepted[t]

\* The deployer implements the ordered tenant store: a BIG-IP never receives a
\* body older than the newest one taken from the queue (utils.go:441-458).
ImplementsStore == Store!Spec

\* A round's merging ends even while requests keep arriving (the length is
\* read once, utils.go:442-443), so a round always reaches its deployment.
RoundEnds == (pc = "merge") ~> (pc = "get")

\* Once requests and restarts stop, both queues drain, failures or not.
Drains ==
  (<>[][~((\E r \in Requests : Submit(r)) \/ Restart)]_vars)
     => <>[](Quiet /\ doneDeploys = <<>>)

=============================================================================
