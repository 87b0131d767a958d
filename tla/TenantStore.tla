---------------------------- MODULE TenantStore ----------------------------
(***************************************************************************)
(* What the deployment goroutine promises to the reconcilers that feed it:  *)
(* requests (declarations: tenant name -> tenant body) are accepted in the  *)
(* order they were submitted, and a BIG-IP only ever receives, tenant by    *)
(* tenant, the newest body accepted so far.  It promises neither that every *)
(* accepted body is installed nor that two BIG-IPs change together.         *)
(***************************************************************************)
EXTENDS Naturals, Sequences

CONSTANTS Tenants,    \* names of AS3 tenants (classes and namespaces)
          Configs,    \* tenant bodies, the empty tenant among them
          None,       \* no body
          NumBigIPs   \* BIG-IP instances the controller was started with

VARIABLES backlog,    \* requests submitted and not accepted
          accepted,   \* newest accepted body of each tenant, or None
          device      \* tenants installed on each BIG-IP

vars == <<backlog, accepted, device>>

BigIPs == 1..NumBigIPs

Partition == [Tenants -> Configs \cup {None}]

\* A declaration names at least one tenant.
Requests == UNION {[T -> Configs] : T \in SUBSET Tenants \ {{}}}

\* p with the bodies of the declaration r written over it.
Overlay(p, r) == [t \in Tenants |-> IF t \in DOMAIN r THEN r[t] ELSE p[t]]

Init ==
  /\ backlog = <<>>
  /\ accepted = [t \in Tenants |-> None]
  /\ device \in [BigIPs -> Partition]

Submit(r) ==
  /\ backlog' = Append(backlog, r)
  /\ UNCHANGED <<accepted, device>>

Accept ==
  /\ backlog # <<>>
  /\ accepted' = Overlay(accepted, Head(backlog))
  /\ backlog' = Tail(backlog)
  /\ UNCHANGED device

\* Some accepted bodies reach one BIG-IP.
Install(b, T) ==
  /\ \A t \in T : accepted[t] # None
  /\ device' = [device EXCEPT ![b] =
                  [t \in Tenants |-> IF t \in T THEN accepted[t] ELSE @[t]]]
  /\ UNCHANGED <<backlog, accepted>>

\* The process is replaced: what it had not installed is forgotten.
Restart ==
  /\ backlog' = <<>>
  /\ accepted' = [t \in Tenants |-> None]
  /\ UNCHANGED device

Next ==
  \/ \E r \in Requests : Submit(r)
  \/ Accept
  \/ \E b \in BigIPs, T \in SUBSET Tenants : Install(b, T)
  \/ Restart

Spec == Init /\ [][Next]_vars

=============================================================================
