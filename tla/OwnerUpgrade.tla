----------------------------- MODULE OwnerUpgrade -----------------------------
(***************************************************************************)
(* The upgrade of the canary to a new application, at its owner's request: *)
(* owner-state/upgrade-canary.mjs with docker.mjs.  A script of commands,  *)
(* one action each.  A command that fails may have had its effect; then    *)
(* the catch block restores what the flags stopped and activated call for, *)
(* and may fail itself.  The script may be killed between two commands.    *)
(* An old application runs only on the state it left, a new one only on    *)
(* migrated state; images, labels and registries are left out.             *)
(***************************************************************************)
EXTENDS Naturals

CONSTANT MayBeKilled

VARIABLES
    stage,           \* the command that is next
    flags,           \* stopped, activated, brokerActive, of the script
    outcome,         \* how try and catch ended
    canary,            \* the container: which application, whether up, on which state
    state,           \* the tenant's directories: old, partly or wholly migrated, moved away
    recorded,        \* .owner-image.json
    compose,         \* docker-compose.yml
    saved,           \* whether tenant.tar is complete
    rehearsal,       \* the rehearsal container, or that it passed
    broker,          \* whether the terminal broker is up
    connected        \* whether the owner is in her terminal

host == <<canary, state, recorded, compose, saved, rehearsal, broker, connected>>
vars == <<stage, flags, outcome, host>>

Stages == {"inspect", "qualify", "silence", "stop", "checkpoint", "save", "build", "rehearse",
           "pass", "record", "compose", "migrate", "start", "verify", "catch", "halt", "move",
           "extract", "revert", "resume", "finally", "ended", "killed"}

TypeOK ==
    /\ stage \in Stages
    /\ flags \in [stopped : BOOLEAN, activated : BOOLEAN, brokerActive : BOOLEAN]
    /\ outcome \in {"none", "refused", "done", "untouched", "resumed", "restored", "stuck"}
    /\ canary \in [app : {"old", "new"}, up : BOOLEAN, on : {"old", "partly", "migrated", "gone"}]
    /\ state \in {"old", "partly", "migrated", "gone"}
    /\ recorded \in {"before", "checkpoint", "candidate"} /\ compose \in {"old", "candidate"}
    /\ rehearsal \in {"none", "up", "passed"}
    /\ saved \in BOOLEAN /\ broker \in BOOLEAN /\ connected \in BOOLEAN

Init ==
    /\ stage = "inspect" /\ outcome = "none"
    /\ flags = [stopped |-> FALSE, activated |-> FALSE, brokerActive |-> FALSE]
    /\ canary = [app |-> "old", up |-> TRUE, on |-> "old"]
    /\ state = "old" /\ recorded = "before" /\ compose = "old"
    /\ saved = FALSE /\ rehearsal = "none"
    /\ broker \in BOOLEAN /\ connected = FALSE

------------------------------------------------------------------------------
(* A command of the try block, with or without its effect when it fails, and *)
(* one of the catch block, where nothing catches a failure.                  *)

Go(from, to, failed, effect) ==
    /\ stage = from
    /\ \/ stage' \in {to, failed} /\ effect
       \/ stage' = failed /\ UNCHANGED host
    /\ outcome' = IF stage' = "finally" /\ stage' # to THEN "stuck" ELSE outcome

Try(from, to, effect) == Go(from, to, "catch", effect)

OwnerIdle == ~connected

\* Read only, not eligible, the owner is at work, or there already: nothing is done.
Refuse ==
    /\ stage = "inspect" /\ stage' = "ended" /\ outcome' = "refused"
    /\ UNCHANGED <<flags, host>>

\* systemctl's failure counts as an inactive broker.
Inspect ==
    /\ stage = "inspect" /\ OwnerIdle
    /\ stage' = "qualify"
    /\ \E active \in {broker, FALSE} : flags' = [flags EXCEPT !.brokerActive = active]
    /\ UNCHANGED <<outcome, host>>

\* The release is pulled and checked, then the owner is asked again.
Qualify ==
    /\ stage = "qualify"
    /\ IF OwnerIdle THEN stage' \in {"silence", "catch"} ELSE stage' = "catch"
    /\ UNCHANGED <<flags, outcome, host>>

SilenceBroker ==
    /\ Try("silence", "stop",
           IF flags.brokerActive
           THEN /\ broker' = FALSE /\ connected' = FALSE
                /\ UNCHANGED <<canary, state, recorded, compose, saved, rehearsal>>
           ELSE UNCHANGED host)
    /\ UNCHANGED flags

StopClaw ==
    /\ Try("stop", "checkpoint",
           /\ canary' = [canary EXCEPT !.up = FALSE] /\ connected' = FALSE
           /\ UNCHANGED <<state, recorded, compose, saved, rehearsal, broker>>)
    /\ flags' = [flags EXCEPT !.stopped = stage' = "checkpoint"]

\* checkpointOwnerImage commits the container's filesystem and records the image; it
\* asks once more whether the owner is idle, which she is in a Claw that is down.
Checkpoint ==
    /\ Try("checkpoint", "save",
           /\ recorded' = "checkpoint"
           /\ UNCHANGED <<canary, state, compose, saved, rehearsal, broker, connected>>)
    /\ UNCHANGED flags

Save ==
    /\ Try("save", "build",
           /\ saved' = TRUE
           /\ UNCHANGED <<canary, state, recorded, compose, rehearsal, broker, connected>>)
    /\ UNCHANGED flags

\* The image is built, the copy extracted and its schema repaired.
Build == Try("build", "rehearse", UNCHANGED host) /\ UNCHANGED flags

Rehearse ==
    /\ Try("rehearse", "pass",
           /\ rehearsal' = "up"
           /\ UNCHANGED <<canary, state, recorded, compose, saved, broker, connected>>)
    /\ UNCHANGED flags

RehearsalPasses ==
    /\ Try("pass", "record",
           /\ rehearsal' = "passed"
           /\ UNCHANGED <<canary, state, recorded, compose, saved, broker, connected>>)
    /\ UNCHANGED flags

Record ==
    /\ Try("record", "compose",
           /\ recorded' = "candidate"
           /\ UNCHANGED <<canary, state, compose, saved, rehearsal, broker, connected>>)
    /\ UNCHANGED flags

\* The flag by which the catch block knows that the old state must come back.
Activated == stage' = "migrate"

WriteCompose ==
    /\ Try("compose", "migrate",
           /\ compose' = "candidate"
           /\ UNCHANGED <<canary, state, recorded, saved, rehearsal, broker, connected>>)
    /\ flags' = [flags EXCEPT !.activated = Activated]

\* repairSchema on the live mounts, while the container is down.
Migrate ==
    /\ Try("migrate", "start",
           /\ state' \in IF stage' = "start" THEN {"migrated"} ELSE {"partly", "migrated"}
           /\ UNCHANGED <<canary, recorded, compose, saved, rehearsal, broker, connected>>)
    /\ UNCHANGED flags

\* compose up --force-recreate: the container is of the image in the file.
Recreated == [app |-> IF compose = "candidate" THEN "new" ELSE "old", up |-> TRUE, on |-> state]

StartNew ==
    /\ Try("start", "verify",
           /\ canary' \in IF stage' = "verify" THEN {Recreated} ELSE {Recreated, [Recreated EXCEPT !.up = FALSE]}
           /\ UNCHANGED <<state, recorded, compose, saved, rehearsal, broker, connected>>)
    /\ UNCHANGED flags

Verify ==
    /\ stage = "verify"
    /\ \/ stage' = "finally" /\ outcome' = "done"
       \/ stage' = "catch" /\ UNCHANGED outcome
    /\ UNCHANGED <<flags, host>>

------------------------------------------------------------------------------
(* catch and finally.                                                        *)

\* Which recovery the flags call for; writing failure.log may throw as well.
Catch ==
    /\ stage = "catch"
    /\ \/ /\ stage' = IF flags.activated THEN "halt" ELSE IF flags.stopped THEN "resume" ELSE "finally"
          /\ outcome' = IF stage' = "finally" THEN "untouched" ELSE outcome
       \/ stage' = "finally" /\ outcome' = "stuck"
    /\ UNCHANGED <<flags, host>>

\* Its failure is swallowed.
Halt ==
    /\ stage = "halt" /\ stage' = "move"
    /\ \E up \in {FALSE, canary.up} : canary' = [canary EXCEPT !.up = up]
    /\ UNCHANGED <<flags, outcome, state, recorded, compose, saved, rehearsal, broker, connected>>

\* A container that could not be stopped keeps the directories it has mounted.
MoveAway ==
    /\ Go("move", "extract", "finally",
          /\ state' = "gone"
          /\ UNCHANGED <<canary, recorded, compose, saved, rehearsal, broker, connected>>)
    /\ UNCHANGED flags

SkipExtract ==
    /\ Go("extract", "revert", "finally",
          /\ state' = "gone" /\ recorded' = "checkpoint" /\ compose' = "old"
          /\ UNCHANGED <<canary, saved, rehearsal, broker, connected>>)
    /\ UNCHANGED flags

\* The archive was made after the checkpoint and holds every file of the tenant.
Extract ==
    /\ Go("extract", "revert", "finally",
          /\ state' = "old" /\ recorded' = "checkpoint" /\ compose' = "old"
          /\ UNCHANGED <<canary, saved, rehearsal, broker, connected>>)
    /\ UNCHANGED flags

Restarted(ended, restart) ==
    /\ \/ stage' = "finally" /\ canary' = restart /\ outcome' = ended
       \/ stage' = "finally" /\ canary' \in {canary, restart} /\ outcome' = "stuck"
    /\ UNCHANGED <<flags, state, recorded, compose, saved, rehearsal, broker, connected>>

Revert == stage = "revert" /\ Restarted("restored", Recreated)

\* docker start: the old container as it was.
Resume == stage = "resume" /\ Restarted("resumed", [canary EXCEPT !.up = TRUE])

\* The rehearsal is removed, or not; the broker is started again if it was up.
Finally ==
    /\ stage = "finally" /\ stage' = "ended"
    /\ rehearsal' \in IF rehearsal = "up" THEN {"up", "none"} ELSE {rehearsal}
    /\ \/ broker' = (broker \/ flags.brokerActive) /\ UNCHANGED outcome
       \/ flags.brokerActive /\ UNCHANGED broker /\ outcome' = "stuck"
    /\ UNCHANGED <<flags, canary, state, recorded, compose, saved, connected>>

Killed ==
    /\ MayBeKilled /\ stage \notin {"ended", "killed"}
    /\ stage' = "killed" /\ outcome' = "stuck"
    /\ UNCHANGED <<flags, host>>

\* The owner uses her terminal, which ends with the container and with the broker.
OwnerComesAndGoes ==
    /\ connected \/ (broker /\ canary.up)
    /\ connected' = ~connected
    /\ UNCHANGED <<stage, flags, outcome, canary, state, recorded, compose, saved, rehearsal, broker>>

Next ==
    \/ Refuse \/ Inspect \/ Qualify \/ SilenceBroker \/ StopClaw \/ Checkpoint \/ Save \/ Build
    \/ Rehearse \/ RehearsalPasses \/ Record \/ WriteCompose \/ Migrate \/ StartNew \/ Verify
    \/ Catch \/ Halt \/ MoveAway \/ Extract \/ Revert \/ Resume \/ Finally \/ Killed
    \/ OwnerComesAndGoes

Spec == Init /\ [][Next]_vars

------------------------------------------------------------------------------
\* Whatever fails, and wherever the script is killed, an application that is up runs
\* on state of its own version, the new one only after the rehearsal, and state that
\* was changed or moved can be had back from the archive (README.md:80-83).
RunsWhole ==
    /\ canary.up => <<canary.app, canary.on>> \in {<<"old", "old">>, <<"new", "migrated">>}
    /\ canary.app = "new" => rehearsal = "passed"
    /\ state # "old" => saved

\* An upgrade ends with the new application on its state, or the old one on its own,
\* up and as the compose file names it, with the terminal broker as it was; unless
\* the recovery failed too (README.md:83, upgrade-canary.mjs:223-229).
EndsWhole ==
    stage = "ended" /\ outcome # "stuck" =>
        /\ outcome # "untouched" => canary.up
        /\ IF outcome = "done" THEN canary.app = "new" /\ compose = "candidate" /\ recorded = "candidate"
           ELSE canary.app = "old" /\ state = "old"
        /\ outcome = "restored" => compose = "old" /\ recorded = "checkpoint"
        /\ flags.brokerActive => broker
------------------------------------------------------------------------------
(* What a command starts from: the invariant that the steps maintain.        *)

Before == {"inspect", "qualify", "silence", "stop"}
Copied == {"build", "rehearse", "pass", "record", "compose"}
Forward == {"migrate", "start", "verify"}
Back == {"halt", "move", "extract", "revert"}
Over == {"finally", "ended", "killed"}

\* The flags say what the script has done, and are all a recovery knows.
FlagsTold ==
    /\ stage \in Before => ~flags.stopped /\ ~flags.activated
    /\ stage = "inspect" => ~flags.brokerActive
    /\ stage \in {"checkpoint", "save"} \cup Copied => flags.stopped /\ ~flags.activated
    /\ stage \in Forward \cup Back => flags.activated
    /\ stage = "resume" => flags.stopped /\ ~flags.activated

\* The application and its state, as the flags and the archive have them.
StateTold ==
    /\ canary.on = IF canary.app = "old" THEN "old" ELSE "migrated"
    /\ flags.activated => saved /\ rehearsal = "passed"
    /\ ~flags.activated => canary.app = "old" /\ state = "old"
    /\ stage \in Copied => saved
    /\ stage \in {"record", "compose"} => rehearsal = "passed"

\* What each stage relies on.
StageTold ==
    /\ stage \in Before => canary.up
    /\ stage \in {"compose"} \cup Forward => recorded = "candidate"
    /\ stage \in Forward => compose = "candidate"
    /\ stage = "start" => state = "migrated"
    /\ stage = "verify" => canary.up /\ canary.app = "new"
    /\ stage = "revert" => state = "old" /\ compose = "old" /\ recorded = "checkpoint"

\* What an outcome promises, before the rehearsal and the broker are seen to.
OutcomeTold ==
    /\ outcome = "none" <=> stage \notin Over
    /\ outcome = "done" => /\ canary.up /\ canary.app = "new"
                           /\ compose = "candidate" /\ recorded = "candidate"
    /\ outcome \in {"refused", "untouched", "resumed", "restored"} => canary.app = "old" /\ state = "old"
    /\ outcome \in {"refused", "resumed", "restored"} => canary.up
    /\ outcome = "restored" => compose = "old" /\ recorded = "checkpoint"
    /\ stage = "ended" /\ outcome # "stuck" => (flags.brokerActive => broker)

Inductive == TypeOK /\ FlagsTold /\ StateTold /\ StageTold /\ OutcomeTold
=============================================================================
