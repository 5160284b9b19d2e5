------------------------------ MODULE MCServices ------------------------------
(***************************************************************************)
(* Small instances, for TLC, of the parts that share no state: a behaviour *)
(* is a behaviour of one of them.  They take turns on one set of variables *)
(* (v1 is the first one a part declares), so that the states of this       *)
(* module are those of the parts together and not their product.           *)
(***************************************************************************)
EXTENDS Naturals, FiniteSets

CONSTANTS
    None,
    Tenants, Canary, MaxPort, Concurrent,              \* Fleet
    Kinds, Options, Versions, MaxCuts, UncheckedEdits,     \* OwnerState
    MayBeKilled,                                       \* OwnerUpgrade
    GatewayKeys, NoKey, Idle, MintEarly,               \* TenantApply
    Guests, Nodes, Nowhere,                            \* Egress
    Users, Claws, Calls, MaxRequests,                  \* GlassesClient
    Streams, MaxSockets,                               \* DashboardProxy, with Calls
    Tabs, NoTab, Remembered, MaxQueued,                \* BrowserClient
    MaxBytes, BatchBytes, MaxPending,                  \* TerminalTransport
    InputBytes, MaxInputs, MaxOutputs

VARIABLES part, v1, v2, v3, v4, v5, v6, v7, v8, v9, v10, v11, v12, v13, v14, v15, v16, v17

partVars == <<part, v1, v2, v3, v4, v5, v6, v7, v8, v9, v10, v11, v12, v13, v14, v15, v16, v17>>

Registry ==
    INSTANCE Fleet WITH record <- v1, free <- v2, next <- v3, runtime <- v4, held <- v5,
        update <- v6, gone <- v7
State ==
    INSTANCE OwnerState WITH kind <- v1, file <- v2, ledger <- v3, pass <- v4,
        shipped <- v5, cuts <- v6, edited <- v7, removed <- v8
Upgrade ==
    INSTANCE OwnerUpgrade WITH stage <- v1, flags <- v2, outcome <- v3, canary <- v4,
        state <- v5, recorded <- v6, compose <- v7, saved <- v8, rehearsal <- v9,
        broker <- v10, connected <- v11
Applying ==
    INSTANCE TenantApply WITH access <- v1, url <- v2, env <- v3, escrow <- v4,
        inherited <- v5, config <- v6, container <- v7, network <- v8, plugin <- v9,
        job <- v10, settled <- v11, minted <- v12, owned <- v13
Exits ==
    INSTANCE Egress WITH pool <- v1, guest <- v2, via <- v3, seed <- v4, vm <- v5,
        migration <- v6
Client ==
    INSTANCE GlassesClient WITH token <- v1, me <- v2, choice <- v3, checks <- v4,
        owner <- v5, claw <- v6, api <- v7, profile <- v8, events <- v9, pending <- v10,
        busy <- v11, connecting <- v12, refreshing <- v13, call <- v14, drafts <- v15,
        made <- v16, owed <- v17
Proxy ==
    INSTANCE DashboardProxy WITH session <- v1, probe <- v2, stream <- v3, call <- v4,
        ticks <- v5
Browser ==
    INSTANCE BrowserClient WITH pages <- v1, socket <- v2, attached <- v3, targetId <- v4,
        history <- v5, reconnect <- v6, queue <- v7, work <- v8, shown <- v9
Transport ==
    INSTANCE TerminalTransport WITH ready <- v1, closed <- v2, running <- v3, inputs <- v4,
        pending <- v5, acked <- v6, toBridge <- v7, fromBridge <- v8, bridge <- v9,
        unwritten <- v10, written <- v11, sequence <- v12, chunks <- v13, viewer <- v14

ASSUME ServicesAssumption ==
    /\ Registry!FleetAssumption
    /\ State!OwnerStateAssumption
    /\ MayBeKilled \in BOOLEAN
    /\ Applying!ApplyAssumption
    /\ Nowhere \notin Nodes /\ IsFiniteSet(Guests)
    /\ Client!ClientAssumption
    /\ NoTab \notin Tabs

\* Limits that only bound what is kept.
ASSUME LimitsAssumption ==
    Remembered \in Nat /\ MaxQueued \in Nat /\ Transport!TransportAssumption

\* The variables a part has no use for.
Without15 == v15 = None /\ v16 = None /\ v17 = None
Without14 == v14 = None /\ Without15
Without12 == v12 = None /\ v13 = None /\ Without14
Without10 == v10 = None /\ v11 = None /\ Without12
Without9 == v9 = None /\ Without10
Without8 == v8 = None /\ Without9
Without7 == v7 = None /\ Without8
Without6 == v6 = None /\ Without7

ServicesInit ==
    \/ part = "fleet" /\ Registry!Init /\ Without8
    \/ part = "state" /\ State!Init /\ Without9
    \/ part = "upgrade" /\ Upgrade!Init /\ Without12
    \/ part = "apply" /\ Applying!Init /\ Without14
    \/ part = "egress" /\ Exits!Init /\ Without7
    \/ part = "client" /\ Client!Init
    \/ part = "dashboard" /\ Proxy!Init /\ Without6
    \/ part = "browser" /\ Browser!Init /\ Without10
    \/ part = "transport" /\ Transport!Init /\ Without15

ServicesNext ==
    \/ /\ part = "fleet" /\ Registry!Next
       /\ UNCHANGED <<part, v8, v9, v10, v11, v12, v13, v14, v15, v16, v17>>
    \/ /\ part = "state" /\ State!Next
       /\ UNCHANGED <<part, v9, v10, v11, v12, v13, v14, v15, v16, v17>>
    \/ /\ part = "upgrade" /\ Upgrade!Next
       /\ UNCHANGED <<part, v12, v13, v14, v15, v16, v17>>
    \/ /\ part = "apply" /\ Applying!Next
       /\ UNCHANGED <<part, v14, v15, v16, v17>>
    \/ /\ part = "egress" /\ Exits!Next
       /\ UNCHANGED <<part, v7, v8, v9, v10, v11, v12, v13, v14, v15, v16, v17>>
    \/ /\ part = "client" /\ Client!Next
       /\ UNCHANGED part
    \/ /\ part = "dashboard" /\ Proxy!Next
       /\ UNCHANGED <<part, v6, v7, v8, v9, v10, v11, v12, v13, v14, v15, v16, v17>>
    \/ /\ part = "browser" /\ Browser!Next
       /\ UNCHANGED <<part, v10, v11, v12, v13, v14, v15, v16, v17>>
    \/ /\ part = "transport" /\ Transport!Next
       /\ UNCHANGED <<part, v15, v16, v17>>

ServicesSpec == ServicesInit /\ [][ServicesNext]_partVars

------------------------------------------------------------------------------
(* The properties, stated in the modules of the parts.                       *)

\* Every part keeps its types; so ports, keys and counters stay within their bounds.
TypesOK ==
    /\ part = "fleet" => Registry!TypeOK
    /\ part = "state" => State!TypeOK
    /\ part = "upgrade" => Upgrade!TypeOK
    /\ part = "apply" => Applying!TypeOK
    /\ part = "egress" => Exits!TypeOK
    /\ part = "client" => Client!TypeOK
    /\ part = "dashboard" => Proxy!TypeOK
    /\ part = "browser" => Browser!TypeOK
    /\ part = "transport" => Transport!TypeOK

\* No two tenants publish on the same port and none is lost (ops.ts:81, 508-512).
PortsPartitioned == part = "fleet" => Registry!PortsPartitioned
\* A synchronisation leaves every active tenant as assigned (ops.ts:300-302).
SyncConverges == [][part = "fleet" => Registry!SyncAssigns]_partVars

\* What the owner wrote or deleted is never replaced (owner-state/README.md:6-8, 20).
OwnerEditsWin == [][part = "state" => State!KeepsEdits]_partVars
\* A default the owner left alone is the shipped one (owner-state/README.md:8, 13-15).
DefaultsAdvance == [][part = "state" => State!Advances]_partVars

\* No application runs on the state of another, and an upgrade ends whole, with the new
\* or with the old (owner-state/README.md:80-83, upgrade-canary.mjs:208-229).
UpgradeWhole == part = "upgrade" => Upgrade!RunsWhole /\ Upgrade!EndsWhole

\* No model key is lost, wherever an apply stops (render.ts:454-470).
KeysKept == part = "apply" => Applying!KeysKept
\* What an apply that ended with docker leaves is as stored (docker.ts:163-189).
AppliedAsStored == part = "apply" => Applying!AppliedAsStored

\* Nobody is left on a node that left the pool (egress.ts:69-82).
PoolCarriesAll == part = "egress" => Exits!PoolCarriesAll
\* An exit node once assigned is never changed implicitly (egress.ts:5-12).
Sticky == [][part = "egress" => Exits!Sticks]_partVars

\* Nothing of another account or Claw is shown (GlassesModel.swift:121-124, 171).
ShownOfSelection == part = "client" => Client!ShownOfSelection
\* No flag stays set, or is cleared by another's call (GlassesModel.swift:84, 116, 208).
FlagsOwned == part = "client" => Client!FlagsOwned

\* Nothing of a session that ended reaches the gateway (remote-dashboard/README.md:29-31).
AccessEnds == part = "dashboard" => Proxy!AccessEnds
\* Keys and clicks only reach the tab that was shown (browser-client.mjs:78-79).
InputIsShown == part = "browser" => Browser!InputIsShown
\* Inputs are written whole, and dropped output is owned up to (transport.mjs:48-80).
StreamsWhole == part = "transport" => Transport!StreamsWhole
=============================================================================
