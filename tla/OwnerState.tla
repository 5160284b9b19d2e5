------------------------------ MODULE OwnerState ------------------------------
(***************************************************************************)
(* One file that provisioning manages inside a Claw and the ledger of what *)
(* it proposed last: owner-state/index.mjs and its callers, renderTenant   *)
(* and the installers of the managed plugins.  The kind of file decides    *)
(* how the owner's version and a new default are reconciled:               *)
(*   options  openclaw.json, a three-way merge for every option            *)
(*   paths    the plugin path lists of openclaw.json, merged as sets       *)
(*   text     HEARTBEAT, skills, capability documents: replaced unchanged  *)
(*   block    a named block of AGENTS.md                                   *)
(*   body     the rest of AGENTS.md, which predates the ledger             *)
(* A provisioning pass reads the file and decides, writes the file, writes *)
(* the ledger; the owner, another process, edits at any moment, and the    *)
(* pass may be cut off.  The comparison before a replacement and the       *)
(* rename after it are one step.                                           *)
(***************************************************************************)
EXTENDS Naturals, FiniteSets

CONSTANTS
    None,            \* no ledger, no pass
    Kinds,           \* the kinds of file considered
    Options,         \* option names in openclaw.json
    Versions,        \* defaults, in the order they are shipped: 1 .. n
    MaxCuts,         \* bound on the passes cut off
    UncheckedEdits   \* whether the owner edits what a pass is about to write unchecked

Absent == 0
Own == 1000              \* anything the owner writes
Retired == 999           \* JSON null: a default that was withdrawn

\* What files with the parts P may hold, and passes that reconcile them.
Plain(P) == [P -> Versions \cup {Absent, Own, Retired}]
Lists(P) == [P -> SUBSET (Versions \cup {Own})]
Passes(F) == [seen : F, next : F, desired : F, wrote : BOOLEAN]

OwnerStateAssumption ==
    /\ Kinds \subseteq {"options", "paths", "text", "block", "body"}
    /\ Versions \subseteq 1 .. 998 /\ 1 \in Versions
    /\ MaxCuts \in Nat /\ UncheckedEdits \in BOOLEAN
    /\ \A P \in {Options} \cup {{k} : k \in Kinds} :
          None \notin Plain(P) \cup Lists(P) \cup Passes(Plain(P)) \cup Passes(Lists(P))

VARIABLES
    kind,            \* the kind of this file
    file,            \* its parts, as the Claw sees them
    ledger,          \* what was proposed last, .owner-state/<name>.json
    pass,            \* the provisioning pass under way
    shipped,         \* the version of the defaults now shipped
    cuts,
    edited,          \* history: the parts whose content is the owner's
    removed          \* history: whether the owner removed the managed plugin

vars == <<kind, file, ledger, pass, shipped, cuts, edited, removed>>

Parts == IF kind = "options" THEN Options ELSE {kind}

\* A path list holds at most the owner's plugin and revisions of the managed one.
Values == IF kind = "paths" THEN SUBSET (Versions \cup {Own}) ELSE Versions \cup {Absent, Own}
Nothing == IF kind = "paths" THEN {} ELSE Absent
\* What a pass may propose.
Proposals == CASE kind = "paths" -> Values
               [] kind = "text" -> Versions \cup {Retired}
               [] OTHER -> Versions \cup {Absent}

TypeOK ==
    /\ kind \in Kinds /\ file \in [Parts -> Values]
    /\ ledger = None \/ ledger \in [Parts -> Proposals]
    /\ shipped \in Versions /\ cuts \in 0 .. MaxCuts
    /\ edited \subseteq Parts /\ removed \in BOOLEAN
    /\ pass = None \/ pass \in [seen : [Parts -> Values], next : [Parts -> Values],
                                desired : [Parts -> Proposals], wrote : BOOLEAN]

\* A new Claw, or one rendered before there was a ledger: nobody knows whose its
\* content is, so it counts as the owner's.
Init ==
    /\ kind \in Kinds
    /\ shipped = 1 /\ cuts = 0 /\ ledger = None /\ pass = None /\ removed = FALSE
    /\ \/ file = [p \in Parts |-> Nothing] /\ edited = {}
       \/ /\ file \in [Parts -> IF kind = "paths" THEN {{Own}} ELSE {Absent, Own}]
          /\ edited = {p \in Parts : file[p] # Nothing}
       \/ kind = "body" /\ file = [p \in Parts |-> 1] /\ edited = Parts

------------------------------------------------------------------------------
(* What a pass makes of base (the ledger), current (the file) and desired.   *)

\* The managed plugin has one family: the revisions.
Family(paths) == paths \cap Versions

Reconcile(base, current, desired) ==
    IF current = base THEN desired ELSE current

ReconcilePathsAsUnion(base, current, desired) == current \cup desired

\* An owner's additions and removals stay, unchanged managed revisions are replaced.
ReconcilePaths(base, current, desired) ==
    IF desired = base THEN current
    ELSE LET kept == {v \in current : v \notin base \/ v \in desired}
             unwanted == IF Family(base) # {} /\ Family(current) = {}
                         THEN Family(desired) ELSE {}
         IN  kept \cup ((desired \ base) \ unwanted)

WithMissingDefault(current, desired) == IF current = Absent THEN desired ELSE current

\* A text is replaced only as it was left; so is a text that is to appear again.
TextIsOurs(current) ==
    IF current = Absent THEN ledger = None \/ ledger[kind] = Retired
    ELSE ledger # None /\ ledger[kind] = current

\* A block, or the body, is ours where it is the last one proposed.
BlockIsOurs(current) ==
    IF ledger = None THEN current = Absent ELSE ledger[kind] = current

Kept(desired) == IF desired = Retired THEN Absent ELSE desired

\* The installer builds what it desires from the owner's list.
Installed(current) == (current \ Versions) \cup {shipped}

\* The file after the pass.  A body without a ledger is left alone.
Decided(seen, desired) ==
    CASE kind = "options" ->
            [p \in Parts |-> IF ledger = None THEN WithMissingDefault(seen[p], desired[p])
                             ELSE Reconcile(ledger[p], seen[p], desired[p])]
      [] kind = "paths" ->
            IF ledger = None THEN desired
            ELSE [p \in Parts |-> ReconcilePaths(ledger[p], seen[p], desired[p])]
      [] kind = "text" ->
            IF TextIsOurs(seen[kind]) THEN [p \in Parts |-> Kept(desired[p])] ELSE seen
      [] OTHER -> IF BlockIsOurs(seen[kind]) THEN desired ELSE seen

Desires ==
    CASE kind = "paths" -> {[p \in Parts |-> Installed(file[p])]}
      [] kind = "text" -> {[p \in Parts |-> shipped], [p \in Parts |-> Retired]}
      [] kind = "options" -> [Parts -> {Absent, shipped}]
      [] OTHER -> {[p \in Parts |-> shipped]}

Unproven == kind = "body" /\ ledger = None /\ file[kind] # Absent

------------------------------------------------------------------------------
(* A pass.                                                                   *)

PassReads ==
    /\ pass = None /\ ~Unproven
    /\ \E desired \in Desires :
          pass' = [seen |-> file, next |-> Decided(file, desired), desired |-> desired, wrote |-> FALSE]
    /\ UNCHANGED <<kind, file, ledger, shipped, cuts, edited, removed>>

NeverIntervened == FALSE

\* updateBlock compares the file with itself, and a text is removed without a look.
Unchecked == pass # None /\ (kind = "block" \/ (kind = "text" /\ pass.desired[kind] = Retired))

Intervened == pass.next # pass.seen /\ file # pass.seen /\ ~Unchecked

PassWrites ==
    /\ pass # None /\ ~pass.wrote /\ ~Intervened
    /\ file' = IF pass.next = pass.seen THEN file ELSE pass.next
    /\ pass' = [pass EXCEPT !.wrote = TRUE]
    /\ edited' = {p \in edited : file'[p] = file[p]}
    /\ removed' = (removed /\ file' = file)
    /\ UNCHANGED <<kind, ledger, shipped, cuts>>

\* "Owner changed ... during provisioning": nothing is written, the ledger neither.
PassRefuses ==
    /\ pass # None /\ ~pass.wrote /\ Intervened
    /\ pass' = None
    /\ UNCHANGED <<kind, file, ledger, shipped, cuts, edited, removed>>

\* The baseline is what was proposed, never what the owner made of it.
PassRecords ==
    /\ pass # None /\ pass.wrote
    /\ ledger' = pass.desired
    /\ pass' = None
    /\ UNCHANGED <<kind, file, shipped, cuts, edited, removed>>

PassCut ==
    /\ pass # None /\ cuts < MaxCuts
    /\ pass' = None /\ cuts' = cuts + 1
    /\ UNCHANGED <<kind, file, ledger, shipped, edited, removed>>

\* adoptAgentBaselines: a body nobody recorded, or recorded wrongly, that is the
\* render most of the inventory shares (version 1 here) is taken as ours.
Adopt ==
    /\ kind = "body" /\ pass = None /\ file[kind] = 1
    /\ ledger # file
    /\ ledger' = file
    /\ edited' = {}
    /\ UNCHANGED <<kind, file, pass, shipped, cuts, removed>>

Ship ==
    /\ shipped + 1 \in Versions /\ shipped' = shipped + 1
    /\ UNCHANGED <<kind, file, ledger, pass, cuts, edited, removed>>

------------------------------------------------------------------------------
(* The owner.                                                                *)

Edit(p, v) ==
    /\ Unchecked => UncheckedEdits
    /\ file[p] # v
    /\ file' = [file EXCEPT ![p] = v]
    /\ edited' = edited \cup {p}
    /\ removed' = (removed \/ (kind = "paths" /\ Family(v) # Family(file[p])))
    /\ UNCHANGED <<kind, ledger, pass, shipped, cuts>>

\* She writes something of her own, or deletes; to a list she adds her plugin, or
\* removes plugins from it.
OwnerEdits ==
    \E p \in Parts :
        IF kind = "paths"
        THEN Edit(p, file[p] \cup {Own}) \/ Edit(p, file[p] \ Versions) \/ Edit(p, {})
        ELSE Edit(p, Own) \/ Edit(p, Absent)

Next ==
    \/ PassReads \/ PassWrites \/ PassRefuses \/ PassRecords \/ PassCut
    \/ Adopt \/ Ship \/ OwnerEdits

Spec == Init /\ [][Next]_vars

------------------------------------------------------------------------------
(* The properties, and what their proofs rest on.                            *)

\* A pass writes what it decided on what it read, and what it did not look at again did not
\* change.
PassKept ==
    pass # None =>
        /\ pass.next = Decided(pass.seen, pass.desired)
        /\ kind = "paths" => \E v \in Versions : \A p \in Parts :
              pass.desired[p] = (pass.seen[p] \ Versions) \cup {v}
        /\ ~pass.wrote => /\ Unchecked => file = pass.seen
                          /\ \A p \in Parts : IF kind = "paths"
                                THEN removed \/ Family(file[p]) = Family(pass.seen[p])
                                ELSE p \in edited \/ file[p] = pass.seen[p]

\* What the owner wrote is not anything that provisioning proposes, except for a body that
\* predates the ledger; without the managed plugin a list has none of its revisions.
OwnersWords ==
    /\ kind # "paths" => \A p \in edited :
          file[p] \in {Own, Absent} \/ (kind = "body" /\ ledger = None /\ pass = None)
    /\ kind = "paths" => \A p \in Parts :
          /\ removed => Family(file[p]) = {}
          /\ ledger # None => \E v \in Versions : Family(ledger[p]) = {v}

\* What she left alone is what was proposed last, unless a pass was cut off.
Left(p, proposed) ==
    IF kind = "paths" THEN removed \/ Family(file[p]) = Family(proposed)
    ELSE p \in edited \/ file[p] = Kept(proposed)
LeftAlone ==
    cuts = 0 => \A p \in Parts :
        IF pass # None /\ pass.wrote THEN Left(p, pass.desired[p])
        ELSE Left(p, IF ledger = None THEN Nothing ELSE ledger[p])

Inductive == TypeOK /\ PassKept /\ OwnersWords /\ LeftAlone

\* A deletion cannot be told from a default that never was when there is no ledger
\* yet, nor once the default was withdrawn.
Forgotten(p) == file[p] = Absent /\ (ledger = None \/ ledger[p] \in {Absent, Retired})

\* What the owner wrote or deleted is never replaced by provisioning, whatever she
\* did between its steps and wherever it was cut off (index.mjs:1, README.md:6-8, 20).
KeepsEdits ==
    PassWrites => \A p \in edited :
        IF kind = "paths"
        THEN /\ Own \in file[p] => Own \in file'[p]
             /\ removed /\ ledger # None => Family(file'[p]) \subseteq Family(file[p])
        ELSE file'[p] = file[p] \/ Forgotten(p)
OwnerEditsWin == [][KeepsEdits]_vars

\* A default the owner left alone is the shipped one after every pass, unless a pass
\* was cut off before, and a plugin is loaded in one revision (README.md:8, 13-15).
Advances ==
    PassRecords /\ cuts = 0 => \A p \in Parts :
        IF kind = "paths"
        THEN Cardinality(Family(file[p])) <= 1 /\ (~removed => Family(file[p]) = Family(pass.desired[p]))
        ELSE p \notin edited => file[p] = Kept(pass.desired[p])
DefaultsAdvance == [][Advances]_vars
=============================================================================
