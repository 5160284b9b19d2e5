--------------------------------- MODULE Egress ---------------------------------
(***************************************************************************)
(* Residential egress of the desktop tier: src/egress.ts with sign-up and  *)
(* offboarding of ops.ts, renderSeed of seed.ts and the egress commands of *)
(* cli.ts.  The pool of exit nodes and the assignments are records; which  *)
(* node a VM really leaves through is known to the VM, which joins with    *)
(* what its seed said and is told otherwise over SSH.  The commands run    *)
(* one after another, but a migration is a loop that may stop half way.    *)
(***************************************************************************)
EXTENDS Naturals, Sequences, FiniteSets, SequencesExt

CONSTANTS Guests, Nodes, Nowhere

VARIABLES
    pool,            \* fleet.egress.exitNodes, in order
    guest,           \* the tenant: absent, container, desktop, or offboarded as such
    via,             \* tenant.egress.exitNode
    seed,            \* the exit node in the last rendered seed, or none rendered
    vm,              \* the exit node the VM uses, or none booted
    migration        \* the tenants a migration still has to move, and where to

vars == <<pool, guest, via, seed, vm, migration>>

NoSeed == "no seed"
Still == [left |-> {}, to |-> Nowhere]
Pool == {pool[i] : i \in DOMAIN pool}

TypeOK ==
    /\ pool \in Seq(Nodes) /\ \A i, j \in DOMAIN pool : pool[i] = pool[j] => i = j
    /\ guest \in [Guests -> {"absent", "container", "desktop", "container off", "desktop off"}]
    /\ via \in [Guests -> Nodes \cup {Nowhere}]
    /\ seed \in [Guests -> Nodes \cup {Nowhere, NoSeed}]
    /\ vm \in [Guests -> Nodes \cup {Nowhere, NoSeed}]
    /\ migration \in [left : SUBSET Guests, to : Nodes \cup {Nowhere}]

Init ==
    /\ pool = <<>>
    /\ guest = [g \in Guests |-> "absent"]
    /\ via = [g \in Guests |-> Nowhere]
    /\ seed = [g \in Guests |-> NoSeed] /\ vm = [g \in Guests |-> NoSeed]
    /\ migration = Still

Callable == migration = Still

------------------------------------------------------------------------------
\* The active tenants of the desktop tier, the only ones that consume a node.
EgressTenants == {g \in Guests : guest[g] = "desktop"}
CarriedByVM(n) == {g \in EgressTenants : vm[g] = n}
Carried(n) == {g \in EgressTenants : via[g] = n}
Load(n) == Cardinality(Carried(n))

\* The least-loaded node, the first in the pool among equals.
LeastLoaded == {i \in DOMAIN pool : \A j \in DOMAIN pool : Load(pool[i]) <= Load(pool[j])}
PickExitNode ==
    IF pool = <<>> THEN Nowhere
    ELSE pool[CHOOSE i \in LeastLoaded : \A j \in LeastLoaded : i <= j]

------------------------------------------------------------------------------
(* Sign-up, offboarding, the seed.                                           *)

Signup(g, tier) ==
    /\ Callable /\ guest[g] = "absent"
    /\ guest' = [guest EXCEPT ![g] = tier]
    /\ via' = [via EXCEPT ![g] = IF tier = "desktop" THEN PickExitNode ELSE Nowhere]
    /\ UNCHANGED <<pool, seed, vm, migration>>

\* The record stays unless it is purged; the VM is destroyed by hand.
Offboard(g) ==
    /\ Callable /\ guest[g] \in {"desktop", "container"}
    /\ guest' = [guest EXCEPT ![g] = IF @ = "desktop" THEN "desktop off" ELSE "container off"]
    /\ UNCHANGED <<pool, via, seed, vm, migration>>

Purge(g) ==
    /\ Callable /\ guest[g] # "absent"
    /\ guest' = [guest EXCEPT ![g] = "absent"]
    /\ via' = [via EXCEPT ![g] = Nowhere]
    /\ seed' = [seed EXCEPT ![g] = NoSeed]
    /\ UNCHANGED <<pool, vm, migration>>

Repicked(g) == PickExitNode

\* What the tenant has; a node is picked only for one that has none.
SeedNode(g) == IF via[g] = Nowhere THEN PickExitNode ELSE via[g]

RenderSeed(g) ==
    /\ Callable /\ guest[g] \in {"desktop", "desktop off"}
    /\ via' = [via EXCEPT ![g] = SeedNode(g)]
    /\ seed' = [seed EXCEPT ![g] = SeedNode(g)]
    /\ UNCHANGED <<pool, guest, vm, migration>>

\* A seed configures a VM once: it has its own instance id and destroys its keys.
Boot(g) ==
    /\ seed[g] # NoSeed
    /\ vm' = [vm EXCEPT ![g] = seed[g]]
    /\ seed' = [seed EXCEPT ![g] = NoSeed]
    /\ UNCHANGED <<pool, guest, via, migration>>

Destroy(g) ==
    /\ vm[g] # NoSeed
    /\ vm' = [vm EXCEPT ![g] = NoSeed]
    /\ UNCHANGED <<pool, guest, via, seed, migration>>

------------------------------------------------------------------------------
(* The egress commands.                                                      *)

\* A node that is there already keeps its place.
AddExitNode(n) ==
    /\ Callable /\ n \notin Pool
    /\ pool' = Append(pool, n)
    /\ UNCHANGED <<guest, via, seed, vm, migration>>

\* A filter by name; no name is in the pool twice.
RemoveExitNode(n) ==
    /\ Callable /\ n \in Pool /\ Carried(n) = {}
    /\ \E i \in DOMAIN pool : pool[i] = n /\ pool' = RemoveAt(pool, i)
    /\ UNCHANGED <<guest, via, seed, vm, migration>>

\* The record only, for a tenant of either tier, active or not.
AssignEgress(g, n) ==
    /\ Callable /\ guest[g] # "absent" /\ n \in Pool
    /\ via' = [via EXCEPT ![g] = n]
    /\ UNCHANGED <<pool, guest, seed, vm, migration>>

\* One tenant of the desktop tier, or every active one on another node of the pool.
MigrateEgress(n) ==
    /\ Callable /\ n \in Pool
    /\ \E targets \in {{g} : g \in {h \in Guests : guest[h] \in {"desktop", "desktop off"}}}
                         \cup {Carried(m) : m \in Pool \ {n}} :
          migration' = [left |-> targets, to |-> IF targets = {} THEN Nowhere ELSE n]
    /\ UNCHANGED <<pool, guest, via, seed, vm>>

MovedOn(g) == LET left == migration.left \ {g}
              IN  IF left = {} THEN Still ELSE [migration EXCEPT !.left = left]

\* The VM was told, and then its record is updated.
Migrated(g) ==
    /\ g \in migration.left /\ vm[g] # NoSeed
    /\ vm' = [vm EXCEPT ![g] = migration.to]
    /\ via' = [via EXCEPT ![g] = migration.to]
    /\ migration' = MovedOn(g)
    /\ UNCHANGED <<pool, guest, seed>>

\* "record unchanged", whatever the VM made of the command.
MigrationFails(g) ==
    /\ g \in migration.left
    /\ vm' \in {vm} \cup (IF vm[g] = NoSeed THEN {} ELSE {[vm EXCEPT ![g] = migration.to]})
    /\ migration' = MovedOn(g)
    /\ UNCHANGED <<pool, guest, via, seed>>

\* The command is interrupted, perhaps after a VM was told.
Interrupted ==
    /\ ~Callable
    /\ vm' \in {vm} \cup {[vm EXCEPT ![g] = migration.to] : g \in {h \in migration.left : vm[h] # NoSeed}}
    /\ migration' = Still
    /\ UNCHANGED <<pool, guest, via, seed>>

Next ==
    \/ \E g \in Guests :
          \/ \E tier \in {"container", "desktop"} : Signup(g, tier)
          \/ Offboard(g) \/ Purge(g) \/ RenderSeed(g) \/ Boot(g) \/ Destroy(g)
          \/ Migrated(g) \/ MigrationFails(g)
          \/ \E n \in Nodes : AssignEgress(g, n)
    \/ \E n \in Nodes : AddExitNode(n) \/ RemoveExitNode(n) \/ MigrateEgress(n)
    \/ Interrupted

Spec == Init /\ [][Next]_vars

------------------------------------------------------------------------------
\* A node that leaves the pool leaves no active desktop tenant behind on it, however
\* assignments, migrations that fail half way, offboarding and sign-ups follow one
\* another (egress.ts:69-82).
PoolCarriesAll == \A g \in EgressTenants : via[g] # Nowhere => via[g] \in Pool

\* Once assigned, a tenant's exit node is never changed implicitly: not by sign-ups,
\* by seeds, nor by changes of the pool; and a sign-up takes a node no other in the
\* pool is less loaded than (egress.ts:5-12).
Sticks ==
    \A g \in Guests :
        /\ guest[g] # "absent" /\ guest'[g] # "absent" /\ via[g] # Nowhere /\ via'[g] # via[g] =>
              Migrated(g) \/ \E n \in Nodes : AssignEgress(g, n)
        /\ guest[g] = "absent" /\ guest'[g] = "desktop" =>
              IF pool = <<>> THEN via'[g] = Nowhere
              ELSE via'[g] \in Pool /\ \A n \in Pool : Load(via'[g]) <= Load(n)
Sticky == [][Sticks]_vars
------------------------------------------------------------------------------
\* What the tenants still to be moved are moved to is in the pool, which does not change
\* while a migration runs.
MovedIntoPool == migration.left # {} => migration.to \in Pool

Inductive == TypeOK /\ PoolCarriesAll /\ MovedIntoPool
=============================================================================
