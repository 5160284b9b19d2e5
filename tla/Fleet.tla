-------------------------------- MODULE Fleet --------------------------------
(***************************************************************************)
(* The control plane's registry and the runtimes it provisions: src/ops.ts *)
(* over src/store.ts (tenants.json, fleet.json) and the container          *)
(* provisioner (src/provisioner).                                          *)
(*                                                                         *)
(* An operation is synchronous, so it is one action, except updateFleet:   *)
(* it awaits its canary's health between the first tenant and the others,  *)
(* whose records it read before.  An operation that throws half way is an  *)
(* action of its own.  Model credentials are abstracted to where a tenant's*)
(* are kept: in its .env, escrowed beside it, or nowhere.  The desktop     *)
(* tier, which has no runtime here, and operations asked not to start      *)
(* anything are left out, and so is which release a tenant runs.           *)
(***************************************************************************)
EXTENDS Naturals, Sequences, FiniteSets

CONSTANTS
    Tenants,
    Canary,        \* the tenant updates name as their canary
    None,
    MaxPort,       \* bound on gateway ports, counted from 1
    Concurrent     \* whether operations are called while an update awaits its canary

Ports == 1 .. MaxPort
Records == [port : Ports, access : {"assigned", "suppressed"}, off : BOOLEAN]

FleetAssumption ==
    /\ None \notin Records /\ Canary \in Tenants
    /\ MaxPort \in Nat /\ Concurrent \in BOOLEAN

VARIABLES
    record,        \* tenants.json: absent, or the tenant's stored record
    free, next,    \* fleet.freePorts, fleet.nextPort
    runtime,       \* what docker reports of the container: down, up, sick
    held,          \* where the model credentials are
    update,        \* records updateFleet still holds while it awaits its canary
    gone           \* history: tenants offboarded or purged, and not signed up since

vars == <<record, free, next, runtime, held, update, gone>>

NoUpdate == [t \in Tenants |-> None]

TypeOK ==
    /\ record \in [Tenants -> Records \cup {None}]
    /\ free \in Seq(Ports) /\ next \in 1 .. MaxPort + 1
    /\ runtime \in [Tenants -> {"down", "up", "sick"}]
    /\ held \in [Tenants -> {"none", "env", "escrow"}]
    /\ update \in [Tenants -> Records \cup {None}]
    /\ gone \subseteq Tenants

Init ==
    /\ record = [t \in Tenants |-> None]
    /\ free = <<>> /\ next = 1
    /\ runtime = [t \in Tenants |-> "down"]
    /\ held = [t \in Tenants |-> "none"]
    /\ update = NoUpdate
    /\ gone = {}

Known(t) == record[t] # None
Active(t) == Known(t) /\ ~record[t].off
Actives == {t \in Tenants : Active(t)}
Awaiting == update # NoUpdate
Callable == Concurrent \/ ~Awaiting

------------------------------------------------------------------------------
(* applyTenant, for every tenant of S with the record recs[t].               *)

\* Stored assignment is the boundary: suppressed inventory is torn down.
RuntimeOf(r) == IF r.access = "assigned" THEN "up" ELSE "down"

\* renderTenant moves the credentials out of a suppressed tenant's .env, and back.
Rendered(t, r) == IF held[t] = "none" THEN "none"
                  ELSE IF r.access = "assigned" THEN "env" ELSE "escrow"

Applied(S, recs) ==
    /\ record' = recs
    /\ runtime' = [t \in Tenants |-> IF t \in S THEN RuntimeOf(recs[t]) ELSE runtime[t]]
    /\ held' = [t \in Tenants |-> IF t \in S THEN Rendered(t, recs[t]) ELSE held[t]]

\* The tenants of S are applied and stored; applying r to the next one, x, throws
\* before or after it is rendered and its old container is gone.
AppliedUntil(S, recs, x, r) ==
    /\ record' = recs
    /\ \E broken \in {"down", "sick", runtime[x]}, keys \in {held[x], Rendered(x, r)} :
          /\ broken = "sick" => r.access = "assigned"
          /\ runtime' = [t \in Tenants |-> IF t \in S THEN RuntimeOf(recs[t])
                                           ELSE IF t = x THEN broken ELSE runtime[t]]
          /\ held' = [t \in Tenants |-> IF t \in S THEN Rendered(t, recs[t])
                                        ELSE IF t = x THEN keys ELSE held[t]]

------------------------------------------------------------------------------
(* signup and offboardTenant.                                                *)

AlwaysAdvanced == next' = next + 1 /\ free' = IF free = <<>> THEN free ELSE Tail(free)

\* A reclaimed port is used up before a new one.
PortTaken == IF free = <<>> THEN next' = next + 1 /\ UNCHANGED free
             ELSE free' = Tail(free) /\ UNCHANGED next

Signup(t) ==
    LET port == IF free = <<>> THEN next ELSE Head(free)
    IN  /\ Callable /\ ~Known(t) /\ port \in Ports
        /\ PortTaken
        /\ Applied({t}, [record EXCEPT ![t] =
              [port |-> port, access |-> "suppressed", off |-> FALSE]])
        /\ gone' = gone \ {t}
        /\ UNCHANGED <<update>>

Reclaimed(t) ==
    free' = IF \E n \in DOMAIN free : free[n] = record[t].port THEN free
            ELSE Append(free, record[t].port)

\* The port goes back once: not again when an offboarded tenant is purged.
PortBack(t) == IF record[t].off THEN UNCHANGED free ELSE Reclaimed(t)

Marked(r) == [r EXCEPT !.off = TRUE]

Offboard(t) ==
    /\ Callable /\ Active(t)
    /\ runtime' = [runtime EXCEPT ![t] = "down"]
    /\ PortBack(t)
    /\ record' = [record EXCEPT ![t] = Marked(@)]
    /\ gone' = gone \cup {t}
    /\ UNCHANGED <<next, held, update>>

Purge(t) ==
    /\ Callable /\ Known(t)
    /\ runtime' = [runtime EXCEPT ![t] = "down"]
    /\ PortBack(t)
    /\ record' = [record EXCEPT ![t] = None]
    /\ held' = [held EXCEPT ![t] = "none"]
    /\ gone' = gone \cup {t}
    /\ UNCHANGED <<next, update>>

------------------------------------------------------------------------------
(* Operations on one tenant, offboarded or not.                              *)

\* apply, enable, disable, pin and the others that store a setting and re-apply.
Apply(t) ==
    /\ Callable /\ Known(t)
    /\ Applied({t}, record) \/ AppliedUntil({}, record, t, record[t])
    /\ UNCHANGED <<free, next, update, gone>>

\* setModelAccess: the assignment is stored before it is applied.
SetAccess(t, access) ==
    LET stored == [record EXCEPT ![t].access = access]
    IN  /\ Callable /\ Known(t)
        /\ Applied({t}, stored) \/ AppliedUntil({}, stored, t, stored[t])
        /\ UNCHANGED <<free, next, update, gone>>

------------------------------------------------------------------------------
(* syncModelAccess and, for the tenants it finds changed, setModelAccess.    *)

Flagged(A) ==
    [t \in Tenants |-> IF Active(t)
                       THEN [record[t] EXCEPT !.access = IF t \in A THEN "assigned"
                                                         ELSE "suppressed"]
                       ELSE record[t]]

ChangedFlag(A) == {t \in Actives : record[t] # Flagged(A)[t]}

\* Compared with what is on disk and running, not with the stored flag.
Changed(A) ==
    {t \in Actives : IF t \in A THEN held[t] # "env" \/ runtime[t] # "up"
                     ELSE held[t] = "env" \/ runtime[t] # "down"}

Sync(A) ==
    /\ Callable
    /\ Applied(Changed(A), Flagged(A))
    /\ UNCHANGED <<free, next, update, gone>>

\* Flags only, or interrupted among the tenants to apply.
SyncInterrupted(A) ==
    /\ Callable
    /\ \/ record' = Flagged(A) /\ UNCHANGED <<runtime, held>>
       \/ \E S \in SUBSET Changed(A) : \E x \in Changed(A) \ S :
              AppliedUntil(S, Flagged(A), x, Flagged(A)[x])
    /\ UNCHANGED <<free, next, update, gone>>

------------------------------------------------------------------------------
(* updateFleet.                                                              *)

\* The records of the active tenants, as read before the first is applied.
Snapshot == [t \in Tenants |-> IF Active(t) THEN record[t] ELSE None]

\* What is stored once the tenants of S are applied from the records in snapshot.
Over(S, snapshot) == [t \in Tenants |-> IF t \in S THEN snapshot[t] ELSE record[t]]

\* Without a canary, or with one that is not started: all at once, until one throws.
UpdateAll ==
    /\ Callable /\ ~Awaiting
    /\ \/ Applied(Actives, record)
       \/ \E S \in SUBSET Actives : \E x \in Actives \ S : AppliedUntil(S, record, x, record[x])
    /\ UNCHANGED <<free, next, update, gone>>

UpdateCanary ==
    /\ Callable /\ ~Awaiting
    /\ Active(Canary) /\ record[Canary].access = "assigned"
    /\ \/ Applied({Canary}, record) /\ update' = Snapshot
       \/ AppliedUntil({}, record, Canary, record[Canary]) /\ UNCHANGED update
    /\ UNCHANGED <<free, next, gone>>

\* The canary is up: every other tenant is applied as it was read.
CanaryHealthy ==
    LET others == {t \in Tenants : update[t] # None} \ {Canary}
    IN  /\ Awaiting /\ runtime[Canary] = "up"
        /\ \/ Applied(others, Over(others, update))
           \/ \E S \in SUBSET others : \E x \in others \ S :
                 AppliedUntil(S, Over(S, update), x, update[x])
        /\ update' = NoUpdate
        /\ UNCHANGED <<free, next, gone>>

CanaryUnhealthy ==
    /\ Awaiting /\ runtime[Canary] # "up"
    /\ update' = NoUpdate
    /\ UNCHANGED <<record, free, next, runtime, held, gone>>

------------------------------------------------------------------------------
\* A container fails, or its owner's key is put into its .env.
RuntimeFails(t) ==
    /\ runtime[t] = "up"
    /\ \E broken \in {"down", "sick"} : runtime' = [runtime EXCEPT ![t] = broken]
    /\ UNCHANGED <<record, free, next, held, update, gone>>

KeyInstalled(t) ==
    /\ Known(t) /\ held[t] = "none"
    /\ held' = [held EXCEPT ![t] = "env"]
    /\ UNCHANGED <<record, free, next, runtime, update, gone>>

Next ==
    \/ \E t \in Tenants :
          \/ Signup(t) \/ Offboard(t) \/ Purge(t) \/ Apply(t)
          \/ \E access \in {"assigned", "suppressed"} : SetAccess(t, access)
          \/ RuntimeFails(t) \/ KeyInstalled(t)
    \/ \E A \in SUBSET Tenants : Sync(A) \/ SyncInterrupted(A)
    \/ UpdateAll \/ UpdateCanary \/ CanaryHealthy \/ CanaryUnhealthy

Spec == Init /\ [][Next]_vars

------------------------------------------------------------------------------
\* Every port handed out so far is either one active tenant's gateway port or once
\* on the list of reclaimed ports, so that no two tenants publish on the same port
\* and none is lost (ops.ts:81, 508-512).
PortsPartitioned ==
    \A p \in 1 .. next - 1 :
        Cardinality({t \in Actives : record[t].port = p})
            + Cardinality({n \in DOMAIN free : free[n] = p}) = 1

\* The same without counting, and what it rests on: an update that awaits its canary holds
\* records nobody else changed.
FreePorts == {free[n] : n \in DOMAIN free}
Partition ==
    /\ \A t \in Actives : record[t].port < next /\ record[t].port \notin FreePorts
    /\ \A t, u \in Actives : record[t].port = record[u].port => t = u
    /\ \A m, n \in DOMAIN free : free[m] = free[n] => m = n
    /\ \A p \in FreePorts : p < next
    /\ \A p \in 1 .. next - 1 : p \in FreePorts \/ \E t \in Actives : record[t].port = p
Unchanged == \A t \in Tenants : update[t] # None => record[t] = update[t]
Inductive == TypeOK /\ Partition /\ Unchanged

\* A synchronisation that completes leaves every active tenant's runtime and
\* credentials as assigned, whatever failed half way before it (ops.ts:300-302).
AsAssigned(A) ==
    \A t \in Actives : IF t \in A THEN runtime[t] = "up" ELSE runtime[t] = "down" /\ held[t] # "env"
SyncAssigns == \A A \in SUBSET Tenants : Sync(A) => AsAssigned(A)'
SyncConverges == [][SyncAssigns]_vars

\* An offboarded tenant stays inactive and a purged one stays deleted until it
\* signs up again (ops.ts:492-496, types.ts:100).
GoneStaysGone == \A t \in gone : ~Active(t)
=============================================================================
