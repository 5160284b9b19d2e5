------------------------------ MODULE TenantApply ------------------------------
(***************************************************************************)
(* One container tenant being applied: its model credentials, the route of *)
(* its model calls and its container.  renderTenant and renderEnv of       *)
(* render.ts, composeUp of docker.ts, and the operations of ops.ts and     *)
(* cli.ts that store a setting and apply it.  An apply writes the          *)
(* configuration, the escrow, the .env and then turns to docker; it may    *)
(* stop between any two of these, and the next one starts from what it     *)
(* finds.  Keys are minted and installed by hand, outside this program,    *)
(* while nothing is being applied.                                         *)
(***************************************************************************)
CONSTANTS
    GatewayKeys,     \* keys the model gateway mints for this tenant
    NoKey,
    Idle,
    MintEarly        \* whether a key is put in escrow before the tenant is rendered suppressed

ApplyAssumption ==
    /\ {NoKey, "absent", "changeme"} \cap GatewayKeys = {}
    /\ MintEarly \in BOOLEAN

VARIABLES
    access,          \* tenant.modelAccess
    url,             \* whether tenant.modelGatewayUrl is set
    env, escrow,     \* .env, .model-credentials.env: the gateway key, the direct keys
    inherited,       \* whether the control plane's environment has the direct keys
    config,          \* the route openclaw.json gives model calls
    container,       \* whether it is up, and with which keys
    network,         \* mgw-<tenant>: absent, made, or attached to the gateway
    plugin,          \* the kimi provider: absent, staged by an install that failed, installed
    job,             \* the apply under way: what it does next
    settled,         \* history: an apply ended, with docker, and nothing changed since
    minted, owned    \* history: the last gateway key, whether a direct key was ever here

vars == <<access, url, env, escrow, inherited, config, container, network, plugin, job,
          settled, minted, owned>>
settings == <<access, url, inherited>>
history == <<minted, owned>>

DirectValues == {"absent", "changeme", "own", "shared"}
Credentials == [gateway : GatewayKeys \cup {"absent", "changeme"}, direct : DirectValues]
Nothing == [gateway |-> "absent", direct |-> "absent"]
Steps == {"config", "escrow", "env", "runtime"}

TypeOK ==
    /\ access \in {"assigned", "suppressed"} /\ url \in BOOLEAN /\ inherited \in BOOLEAN
    /\ env \in Credentials /\ escrow \in Credentials
    /\ config \in {"none", "direct", "gateway"}
    /\ container \in [up : BOOLEAN, keys : Credentials]
    /\ network \in {"absent", "made", "attached"} /\ plugin \in {"absent", "staged", "installed"}
    /\ job = Idle \/ job \in [step : Steps, start : BOOLEAN]
    /\ settled \in BOOLEAN /\ minted \in GatewayKeys \cup {NoKey} /\ owned \in BOOLEAN

\* Signed up, as inventory, and not rendered yet.
Init ==
    /\ access = "suppressed" /\ url \in BOOLEAN /\ inherited \in BOOLEAN
    /\ env = Nothing /\ escrow = Nothing /\ config = "none"
    /\ container = [up |-> FALSE, keys |-> Nothing]
    /\ network = "absent" /\ plugin = "absent"
    /\ job = [step |-> "config", start |-> TRUE]
    /\ settled = FALSE /\ minted = NoKey /\ owned = FALSE

Real(value) == value \notin {"absent", "changeme"}
Inherited == IF inherited THEN "shared" ELSE "absent"

------------------------------------------------------------------------------
(* renderTenant.                                                             *)

ReadyByEnv == url /\ (access = "suppressed" \/ Real(env.gateway))

\* Suppressed inventory has the gateway's shape from the flag alone.
Ready ==
    LET key == IF Real(env.gateway) THEN env.gateway ELSE escrow.gateway
    IN  url /\ (access = "suppressed" \/ Real(key))

\* assertOwnerIdle comes first, and may end the apply (Fails).
RenderConfig ==
    /\ job # Idle /\ job.step = "config"
    /\ config' = IF Ready THEN "gateway" ELSE "direct"
    /\ job' = [job EXCEPT !.step = "escrow"]
    /\ UNCHANGED <<settings, env, escrow, container, network, plugin, settled, history>>

\* renderEnv: the key that is there, even a placeholder, before the one in escrow.
InUse == IF env.gateway # "absent" THEN env.gateway ELSE escrow.gateway
Live == access = "assigned" /\ url /\ Real(InUse)

DirectEscrowed == IF Real(env.direct) THEN env.direct
                  ELSE IF inherited THEN "shared" ELSE escrow.direct
GatewayEscrowed == IF Real(env.gateway) THEN env.gateway ELSE escrow.gateway

EscrowedDirectOnly == [escrow EXCEPT !.direct = DirectEscrowed]

Escrowed ==
    IF access = "suppressed" THEN [gateway |-> GatewayEscrowed, direct |-> DirectEscrowed]
    ELSE IF Live THEN [escrow EXCEPT !.direct = DirectEscrowed]
    ELSE escrow

\* The escrow is written before the keys leave .env.
RenderEscrow ==
    /\ job # Idle /\ job.step = "escrow"
    /\ escrow' = Escrowed
    /\ job' = [job EXCEPT !.step = "env"]
    /\ UNCHANGED <<settings, env, config, container, network, plugin, settled, history>>

\* The first of the values that is there, for a key that is missing.
Ensured(value, first, second) ==
    IF value # "absent" THEN value ELSE IF first # "absent" THEN first
    ELSE IF second # "absent" THEN second ELSE "changeme"

RenderedEnv ==
    IF access = "suppressed" THEN Nothing
    ELSE IF Live THEN [gateway |-> InUse, direct |-> "absent"]
    ELSE [gateway |-> IF url THEN Ensured(env.gateway, escrow.gateway, "absent") ELSE env.gateway,
          direct |-> Ensured(env.direct, escrow.direct, Inherited)]

RenderEnv ==
    /\ job # Idle /\ job.step = "env"
    /\ env' = RenderedEnv
    /\ job' = [job EXCEPT !.step = "runtime"]
    /\ UNCHANGED <<settings, escrow, config, container, network, plugin, settled, history>>

------------------------------------------------------------------------------
(* composeUp, or the teardown of what is suppressed.                         *)

\* The network is made if it is missing, which may fail; a gateway that does not run
\* is attached by a later apply.
NetworkEnsured ==
    network' \in IF ~url THEN {network}
                 ELSE IF network = "absent" THEN {"absent", "made", "attached"}
                 ELSE {network, "attached"}

\* Only a missing plugin is installed, and what a failed install staged is not missing.
PluginsEnsured ==
    plugin' \in IF plugin = "absent" THEN {"absent", "staged", "installed"} ELSE {plugin}

Ends(done) == job' = Idle /\ settled' = done

\* compose needs the network it names, the gateway the plugins its configuration does.
ComposeUp ==
    /\ job # Idle /\ job.step = "runtime" /\ job.start /\ access = "assigned"
    /\ NetworkEnsured /\ PluginsEnsured
    /\ \/ /\ (url => network' # "absent") /\ plugin' = "installed"
          /\ container' = [up |-> TRUE, keys |-> env]
          /\ Ends(TRUE)
       \/ \* stopped for the doctor, not created, or not healthy in time: it throws
          /\ container' \in {container, [container EXCEPT !.up = FALSE], [up |-> FALSE, keys |-> env]}
          /\ Ends(FALSE)
    /\ UNCHANGED <<settings, env, escrow, config, history>>

TornDown == [container EXCEPT !.up = FALSE]

TearDown ==
    /\ job # Idle /\ job.step = "runtime" /\ job.start /\ access = "suppressed"
    /\ container' = TornDown
    /\ Ends(TRUE)
    /\ UNCHANGED <<settings, env, escrow, config, network, plugin, history>>

\* Asked not to start, or without docker: rendered, and reported as not started.
RenderedOnly ==
    /\ job # Idle /\ job.step = "runtime"
    /\ Ends(FALSE)
    /\ UNCHANGED <<settings, env, escrow, config, container, network, plugin, history>>

\* Something throws, or the process dies, before the next step.
Fails ==
    /\ job # Idle
    /\ Ends(FALSE)
    /\ UNCHANGED <<settings, env, escrow, config, container, network, plugin, history>>

------------------------------------------------------------------------------
(* The operations: a setting is stored before it is applied, if at all.      *)

Called == job' \in {[step |-> "config", start |-> b] : b \in BOOLEAN} /\ settled' = FALSE

Apply ==
    /\ job = Idle /\ Called
    /\ UNCHANGED <<settings, env, escrow, config, container, network, plugin, history>>

\* setModelAccess; model-access sync stores without applying.
SetModelAccess(next) ==
    /\ job = Idle /\ access' = next
    /\ Called \/ Ends(FALSE)
    /\ UNCHANGED <<url, inherited, env, escrow, config, container, network, plugin, history>>

\* setModelGateway, also for every tenant that adopts the fleet's; the command line's
\* preflight only refuses.
SetModelGateway(next) ==
    /\ job = Idle /\ url' = next
    /\ Called
    /\ UNCHANGED <<access, inherited, env, escrow, config, container, network, plugin, history>>

------------------------------------------------------------------------------
(* By hand: a key into .env, a key into the escrow of suppressed inventory;  *)
(* and a container or a gateway that is gone.                                *)

InstallKey(k) ==
    /\ job = Idle /\ access = "assigned"
    /\ k # minted /\ k # escrow.gateway
    /\ env' = [env EXCEPT !.gateway = k] /\ minted' = k /\ settled' = FALSE
    /\ UNCHANGED <<settings, escrow, config, container, network, plugin, job, owned>>

MintIntoEscrow(k) ==
    /\ job = Idle /\ access = "suppressed"
    /\ MintEarly \/ env.gateway = "absent"
    /\ k # minted /\ k # env.gateway
    /\ escrow' = [escrow EXCEPT !.gateway = k] /\ minted' = k /\ settled' = FALSE
    /\ UNCHANGED <<settings, env, config, container, network, plugin, job, owned>>

InstallDirect ==
    /\ job = Idle /\ access = "assigned" /\ env.direct = "changeme"
    /\ env' = [env EXCEPT !.direct = "own"] /\ owned' = TRUE /\ settled' = FALSE
    /\ UNCHANGED <<settings, escrow, config, container, network, plugin, job, minted>>

Breaks ==
    /\ \/ container.up /\ container' = TornDown /\ UNCHANGED network
       \/ network = "attached" /\ network' = "made" /\ UNCHANGED container
    /\ settled' = FALSE
    /\ UNCHANGED <<settings, env, escrow, config, plugin, job, history>>

Next ==
    \/ RenderConfig \/ RenderEscrow \/ RenderEnv \/ ComposeUp \/ TearDown \/ RenderedOnly \/ Fails
    \/ Apply
    \/ \E next \in {"assigned", "suppressed"} : SetModelAccess(next)
    \/ \E next \in BOOLEAN : SetModelGateway(next)
    \/ \E k \in GatewayKeys : InstallKey(k) \/ MintIntoEscrow(k)
    \/ InstallDirect \/ Breaks

Spec == Init /\ [][Next]_vars

------------------------------------------------------------------------------
\* Wherever an apply stops, and however assignment and route change, the tenant's last
\* gateway key, and a direct key once one was installed, is in .env or in escrow
\* (render.ts: "preserving any values already filled in", 454-470).
KeysKept ==
    /\ minted # NoKey => minted \in {env.gateway, escrow.gateway}
    /\ owned => Real(env.direct) \/ Real(escrow.direct)

\* After an apply that ended with docker, whatever failed before it: suppressed
\* inventory is down and holds no key; an assigned tenant is up with the keys on file,
\* routed through the gateway with its last key alone, or directly, while no gateway key
\* was minted, with the direct keys it had.
AppliedAsStored ==
    settled =>
        IF access = "suppressed" THEN ~container.up /\ env = Nothing
        ELSE /\ container = [up |-> TRUE, keys |-> env] /\ plugin = "installed"
             /\ IF config = "gateway"
                THEN env = [gateway |-> minted, direct |-> "absent"] /\ network # "absent"
                ELSE /\ owned => Real(env.direct)
                     /\ ~(url /\ minted # NoKey)
------------------------------------------------------------------------------
(* What an apply starts from, and what each of its steps finds.              *)

\* A key in .env is the last one; only a tenant that has none is given a placeholder, and a
\* placeholder never hides a key that is in escrow.
KeysKnown ==
    /\ Real(env.gateway) => env.gateway = minted
    /\ escrow.gateway # "changeme" /\ (minted = NoKey => escrow.gateway = "absent")
    /\ env.gateway = "changeme" => escrow.gateway = "absent"
    /\ owned => env.direct # "changeme"

At(steps) == job # Idle /\ job.step \in steps

\* What the next step takes out of .env is in escrow.
SafeInEscrow ==
    At({"env"}) =>
        /\ access = "suppressed" /\ Real(env.gateway) => escrow.gateway = env.gateway
        /\ access = "suppressed" /\ Real(env.direct) => Real(escrow.direct)
        /\ Live /\ owned => Real(escrow.direct)

\* The configuration and the keys, which are derived each from the files, agree.
RoutedAsKeyed ==
    At({"escrow", "env"}) /\ access = "assigned" => (config = "gateway" <=> Live)

RenderedAsStored ==
    At({"runtime"}) =>
        IF access = "suppressed" THEN env = Nothing
        ELSE IF config = "gateway" THEN env = [gateway |-> minted, direct |-> "absent"] /\ url
        ELSE /\ owned => Real(env.direct)
             /\ ~(url /\ minted # NoKey)

Inductive ==
    /\ TypeOK /\ KeysKnown /\ KeysKept
    /\ SafeInEscrow /\ RoutedAsKeyed /\ RenderedAsStored
    /\ (settled => job = Idle) /\ AppliedAsStored
=============================================================================
