----------------------------- MODULE GlassesRelay -----------------------------
(***************************************************************************)
(* The glasses relay (openclaw-meta-glasses/server): its SQLite store of   *)
(* requests, inbox events, devices and the notification outbox, the single *)
(* request worker and the notification loop (worker.mjs), the HTTP         *)
(* handlers that write to the store (app.mjs), and the process's start,    *)
(* stop and crash (index.mjs).                                             *)
(*                                                                         *)
(* A store method is one transaction and so one action; the two loops and  *)
(* the handlers interleave at their awaits.  A handler's own authentication*)
(* is the guard of its action.  Time is abstracted to whether an outbox    *)
(* row's next_at has come (due) and whether an event is a day old (aged).  *)
(* One Claw is modelled; its account may change.  Of a text only its       *)
(* identity would matter, and a reused id with another text is refused     *)
(* without effect.                                                         *)
(***************************************************************************)
EXTENDS Naturals, Sequences, FiniteSets

CONSTANTS
    Users, Ids, Slots,   \* accounts, request ids, an account's login sessions
    Owners,              \* accounts the Claw may belong to; None is unassigned
    Speakers,            \* bound: the accounts that submit requests
    Actions,             \* action ids of summaries the Claw publishes
    Installs, Tokens,    \* app installations and APNs device tokens
    None,
    MaxPending,          \* 10 in the code
    MaxAttempts,         \* 5 in the code
    MaxSeals,            \* bound on device registrations
    MaxCrashes           \* bound on crashes and broken workers

Jobs == Speakers \X Ids
Logins == Users \X Slots
Events == Jobs \cup Actions
Registrations == [login : Logins, token : Tokens, seal : 1 .. MaxSeals]
User(l) == l[1]

ASSUME RelayAssumption ==
    /\ Speakers \subseteq Users /\ Owners \subseteq Users \cup {None}
    /\ None \notin Users \cup Logins \cup Events \cup Installs \cup Registrations
    /\ Jobs \cap Actions = {}
    /\ MaxPending \in Nat /\ MaxAttempts \in Nat /\ MaxSeals \in Nat /\ MaxCrashes \in Nat

VARIABLES
    process,      \* recovering (listening, before recoverInterrupted), up, stopping, down
    status,       \* jobs.status; "none" before the request is accepted
    credential,   \* jobs.credential; None once erased
    accepted,     \* the jobs by created_at, rowid
    event,        \* kind of each inbox event; "none" before it is appended
    device,       \* devices: the registration of each installation
    outbox,       \* outbox rows
    worker,       \* where runOne stands, and with which job
    pusher,       \* where deliverPushes stands, its item and those still to come
    owner, revoked,          \* account service: the Claw's account, ended logins
    aged,         \* events a day old
    seals, crashes,
    runs          \* history: how often the Claw was made to run a job

jobVars == <<status, credential, accepted, worker, runs>>
pushVars == <<device, pusher, seals>>
account == <<owner, revoked>>
vars == <<process, status, credential, accepted, event, device, outbox, worker, pusher,
          owner, revoked, aged, seals, crashes, runs>>

Answers == {"failed", "replied", "uncertain"}
Rows == [event : Events, device : Installs, attempts : 0 .. MaxAttempts, due : BOOLEAN]
Items == [event : Events, device : Installs, attempts : 0 .. MaxAttempts, reg : Registrations]
Waiting == [at |-> "idle", job |-> None]
Rest == [at |-> "idle", item |-> None, todo |-> {}]

TypeOK ==
    /\ process \in {"recovering", "up", "stopping", "down"}
    /\ status \in [Jobs -> {"none", "queued", "running"} \cup Answers]
    /\ credential \in [Jobs -> Logins \cup {None}]
    /\ accepted \in Seq(Jobs)
    /\ event \in [Events -> {"none", "completed"} \cup Answers]
    /\ device \in [Installs -> Registrations \cup {None}]
    /\ outbox \subseteq Rows
    /\ worker \in [at : {"idle", "auth", "run"}, job : Jobs \cup {None}]
    /\ pusher.at \in {"idle", "auth", "push"}
    /\ pusher.item \in Items \cup {None} /\ pusher.todo \subseteq Items
    /\ owner \in Owners /\ revoked \subseteq Logins
    /\ aged \subseteq Events
    /\ seals \in 0 .. MaxSeals /\ crashes \in 0 .. MaxCrashes
    /\ runs \in [Jobs -> Nat]

Init ==
    /\ process = "up"
    /\ status = [j \in Jobs |-> "none"]
    /\ credential = [j \in Jobs |-> None]
    /\ accepted = <<>>
    /\ event = [e \in Events |-> "none"]
    /\ device = [i \in Installs |-> None]
    /\ outbox = {}
    /\ worker = Waiting
    /\ pusher = Rest
    /\ owner \in Owners /\ revoked = {}
    /\ aged = {}
    /\ seals = 0 /\ crashes = 0
    /\ runs = [j \in Jobs |-> 0]

------------------------------------------------------------------------------
(* append: an event once, with an outbox row for each device it concerns.    *)

EventUser(e) == IF e \in Jobs THEN User(e) ELSE None
Audience(e) == {i \in Installs : /\ device[i] # None
                                 /\ EventUser(e) \in {None, User(device[i].login)}}

Appended(e, kind) ==
    /\ event[e] = "none"
    /\ event' = [event EXCEPT ![e] = kind]
    /\ outbox' = outbox \cup
         {[event |-> e, device |-> i, attempts |-> 0, due |-> TRUE] : i \in Audience(e)}

\* An answered job's event, its status and the erased credential are one transaction.
Finish(j, kind) ==
    /\ Appended(j, kind)
    /\ status' = [status EXCEPT ![j] = kind]
    /\ credential' = [credential EXCEPT ![j] = None]

------------------------------------------------------------------------------
(* HTTP handlers, each for a caller whose login the account service accepts. *)

Serving == process # "down"
Pending(u) == {j \in Jobs : User(j) = u /\ status[j] \in {"queued", "running"}}

Enqueue(l, j) ==
    /\ Serving /\ l \notin revoked /\ User(l) = User(j) /\ owner = User(l)
    /\ status[j] = "none" /\ Cardinality(Pending(User(j))) < MaxPending
    /\ status' = [status EXCEPT ![j] = "queued"]
    /\ credential' = [credential EXCEPT ![j] = l]
    /\ accepted' = Append(accepted, j)
    /\ UNCHANGED <<process, event, outbox, worker, runs, pushVars, account, aged, crashes>>

\* The same request id again: a queued job takes the fresh credential, any other
\* job only reports its status.
Repeat(l, j) ==
    /\ Serving /\ l \notin revoked /\ User(l) = User(j) /\ owner = User(l)
    /\ status[j] = "queued"
    /\ credential' = [credential EXCEPT ![j] = l]
    /\ UNCHANGED <<process, status, accepted, event, outbox, worker, runs, pushVars,
                   account, aged, crashes>>

\* POST /v1/summaries by the Claw's publisher.
Publish(a) ==
    /\ Serving /\ Appended(a, "completed")
    /\ UNCHANGED <<process, jobVars, pushVars, account, aged, crashes>>

\* ON DELETE CASCADE.
WithoutRows(gone) == {row \in outbox : row.device \notin gone}

\* A refreshed registration keeps the rows of its device; a new account or token
\* replaces the device, and whichever device had the token before.
Register(i, l, p) ==
    LET new == [login |-> l, token |-> p, seal |-> seals + 1]
        same == device[i] # None /\ User(device[i].login) = User(l) /\ device[i].token = p
        gone == {d \in Installs : device[d] # None /\ (d = i \/ device[d].token = p)}
    IN  /\ Serving /\ l \notin revoked /\ seals < MaxSeals
        /\ seals' = seals + 1
        /\ device' = IF same THEN [device EXCEPT ![i] = new]
                     ELSE [d \in Installs |-> IF d = i THEN new
                                              ELSE IF d \in gone THEN None ELSE device[d]]
        /\ outbox' = IF same THEN outbox ELSE WithoutRows(gone)
        /\ UNCHANGED <<process, jobVars, event, pusher, account, aged, crashes>>

\* DELETE /v1/devices: only the login that registered the device unregisters it.
Unregister(i, l) ==
    /\ Serving /\ l \notin revoked
    /\ device[i] # None /\ device[i].login = l
    /\ device' = [device EXCEPT ![i] = None]
    /\ outbox' = WithoutRows({i})
    /\ UNCHANGED <<process, jobVars, event, pusher, seals, account, aged, crashes>>

------------------------------------------------------------------------------
(* runOne.                                                                   *)

ClaimedInMemory(j) == UNCHANGED status
ClaimedDurably(j) == status' = [status EXCEPT ![j] = "running"]

Oldest(j) ==
    /\ status[j] = "queued"
    /\ \E n \in DOMAIN accepted : /\ accepted[n] = j
                                 /\ \A m \in 1 .. n - 1 : status[accepted[m]] # "queued"

Claim(j) ==
    /\ process = "up" /\ worker.at = "idle" /\ Oldest(j)
    /\ ClaimedDurably(j)
    /\ worker' = [at |-> "auth", job |-> j]
    /\ UNCHANGED <<process, credential, accepted, event, outbox, runs, pushVars, account, aged, crashes>>

\* The stored login is still accepted and the Claw is still on its account.
Access(j) == credential[j] \notin revoked /\ owner = User(j)

RunStarts ==
    LET j == worker.job
    IN  /\ worker.at = "auth" /\ Access(j)
        /\ worker' = [worker EXCEPT !.at = "run"]
        /\ runs' = [runs EXCEPT ![j] = @ + 1]
        /\ UNCHANGED <<process, status, credential, accepted, event, outbox, pushVars,
                       account, aged, crashes>>

\* No access any more, or the account service could not be asked.
NotStarted ==
    /\ worker.at = "auth"
    /\ Finish(worker.job, "failed")
    /\ worker' = Waiting
    /\ UNCHANGED <<process, accepted, runs, pushVars, account, aged, crashes>>

Replies ==
    /\ worker.at = "run"
    /\ Finish(worker.job, "replied")
    /\ worker' = Waiting
    /\ UNCHANGED <<process, accepted, runs, pushVars, account, aged, crashes>>

\* The run timed out, broke off or its output was not understood, or the reply
\* could not be stored.
Unclear ==
    /\ worker.at = "run"
    /\ Finish(worker.job, "uncertain")
    /\ worker' = Waiting
    /\ UNCHANGED <<process, accepted, runs, pushVars, account, aged, crashes>>

\* The store refuses the answer as well: the worker ends, the job stays running.
WorkerBreaks ==
    /\ worker.at # "idle" /\ crashes < MaxCrashes
    /\ worker' = Waiting
    /\ process' = "stopping"
    /\ crashes' = crashes + 1
    /\ UNCHANGED <<status, credential, accepted, runs, event, outbox, pushVars, account, aged>>

------------------------------------------------------------------------------
(* deliverPushes: a snapshot of the due rows, then one item after another.   *)

Fetch ==
    LET dueRows == {row \in outbox : row.due}
    IN  /\ process = "up" /\ pusher = Rest /\ dueRows # {}
        /\ pusher' = [Rest EXCEPT !.todo =
              {[event |-> row.event, device |-> row.device, attempts |-> row.attempts,
                reg |-> device[row.device]] : row \in dueRows}]
        /\ UNCHANGED <<process, jobVars, event, outbox, device, seals, account, aged, crashes>>

Turn(item) ==
    /\ pusher.at = "idle" /\ item \in pusher.todo
    /\ pusher' = [at |-> "auth", item |-> item, todo |-> pusher.todo \ {item}]
    /\ UNCHANGED <<process, jobVars, event, outbox, device, seals, account, aged, crashes>>

Onward == pusher' = [pusher EXCEPT !.at = "idle", !.item = None]
Row(item) == {row \in outbox : row.event = item.event /\ row.device = item.device}
Same(item) == device[item.device] # None
IsCurrent(item) == device[item.device] = item.reg

PushDone(item) == outbox' = outbox \ Row(item)

RetryForever(item) ==
    outbox' = (outbox \ Row(item)) \cup {[row EXCEPT !.due = FALSE] : row \in Row(item)}

\* Given up after the attempts the snapshot counted.
PushRetry(item) ==
    IF item.attempts >= MaxAttempts THEN PushDone(item)
    ELSE outbox' = (outbox \ Row(item)) \cup
                     {[row EXCEPT !.attempts = @ + 1, !.due = FALSE] : row \in Row(item)}

RemoveIfCurrent(item) ==
    IF IsCurrent(item)
    THEN device' = [device EXCEPT ![item.device] = None] /\ outbox' = WithoutRows({item.device})
    ELSE UNCHANGED <<device, outbox>>

Authenticated == pusher.at = "auth" /\ pusher.item.reg.login \notin revoked
ForItsUser(item) ==
    LET u == User(item.reg.login)
    IN  /\ owner = u /\ EventUser(item.event) \in {None, u} /\ item.event \notin aged

PushDropped ==
    /\ Authenticated /\ ~ForItsUser(pusher.item)
    /\ PushDone(pusher.item) /\ Onward
    /\ UNCHANGED <<process, jobVars, event, device, seals, account, aged, crashes>>

\* Registered anew meanwhile: left for the next round.
PushSkipped ==
    /\ Authenticated /\ ForItsUser(pusher.item) /\ ~IsCurrent(pusher.item)
    /\ Onward
    /\ UNCHANGED <<process, jobVars, event, outbox, device, seals, account, aged, crashes>>

PushStarts ==
    /\ Authenticated /\ ForItsUser(pusher.item) /\ IsCurrent(pusher.item)
    /\ pusher' = [pusher EXCEPT !.at = "push"]
    /\ UNCHANGED <<process, jobVars, event, outbox, device, seals, account, aged, crashes>>

PushSent ==
    /\ pusher.at = "push"
    /\ PushDone(pusher.item) /\ Onward
    /\ UNCHANGED <<process, jobVars, event, device, seals, account, aged, crashes>>

\* The login has ended, or APNs does not know the device.
PushInvalid ==
    /\ \/ pusher.at = "auth" /\ pusher.item.reg.login \in revoked
       \/ pusher.at = "push"
    /\ RemoveIfCurrent(pusher.item) /\ Onward
    /\ UNCHANGED <<process, jobVars, event, seals, account, aged, crashes>>

\* The account service or APNs failed, or its answer was lost.
PushFails ==
    /\ pusher.at # "idle"
    /\ PushRetry(pusher.item) /\ Onward
    /\ UNCHANGED <<process, jobVars, event, device, seals, account, aged, crashes>>

------------------------------------------------------------------------------
(* The process.  It is restarted whenever it exits (compose.yml:5).          *)

Stop ==
    /\ process = "up" /\ crashes < MaxCrashes
    /\ process' = "stopping" /\ crashes' = crashes + 1
    /\ UNCHANGED <<jobVars, event, outbox, pushVars, account, aged>>

\* Both loops ended: the job in hand was answered, the snapshot worked off.
Exit ==
    /\ process = "stopping" /\ worker = Waiting /\ pusher = Rest
    /\ process' = "down"
    /\ UNCHANGED <<jobVars, event, outbox, pushVars, account, aged, crashes>>

Crash ==
    /\ process # "down" /\ crashes < MaxCrashes
    /\ process' = "down" /\ crashes' = crashes + 1
    /\ worker' = Waiting /\ pusher' = Rest
    /\ UNCHANGED <<status, credential, accepted, runs, event, outbox, device, seals, account, aged>>

Restart ==
    /\ process = "down" /\ process' = "recovering"
    /\ UNCHANGED <<jobVars, event, outbox, pushVars, account, aged, crashes>>

Recover(j) ==
    /\ process = "recovering" /\ status[j] = "running"
    /\ Finish(j, "uncertain")
    /\ UNCHANGED <<process, accepted, worker, runs, pushVars, account, aged, crashes>>

RecoveredEarly == TRUE
NoneInterrupted == \A j \in Jobs : status[j] # "running"

Recovered ==
    /\ process = "recovering" /\ NoneInterrupted
    /\ process' = "up"
    /\ UNCHANGED <<jobVars, event, outbox, pushVars, account, aged, crashes>>

------------------------------------------------------------------------------
(* The account service and time.                                             *)

SignOut(l) ==
    /\ l \notin revoked /\ revoked' = revoked \cup {l}
    /\ UNCHANGED <<process, jobVars, event, outbox, pushVars, owner, aged, crashes>>

Reassign(u) ==
    /\ owner # u /\ owner' = u
    /\ UNCHANGED <<process, jobVars, event, outbox, pushVars, revoked, aged, crashes>>

\* A day passes while a notification about e waits.
Age(e) ==
    /\ e \notin aged /\ (\E row \in outbox : row.event = e) /\ aged' = aged \cup {e}
    /\ UNCHANGED <<process, jobVars, event, outbox, pushVars, account, crashes>>

\* next_at has come.
Due(row) ==
    /\ row \in outbox /\ ~row.due
    /\ outbox' = (outbox \ {row}) \cup {[row EXCEPT !.due = TRUE]}
    /\ UNCHANGED <<process, jobVars, event, pushVars, account, aged, crashes>>

------------------------------------------------------------------------------
Work == (\E j \in Jobs : Claim(j)) \/ RunStarts \/ NotStarted \/ Replies \/ Unclear
Deliver == \/ Fetch \/ PushDropped \/ PushSkipped \/ PushStarts \/ PushSent
           \/ PushInvalid \/ PushFails \/ \E item \in pusher.todo : Turn(item)
Boot == Exit \/ Restart \/ Recovered \/ \E j \in Jobs : Recover(j)

Next ==
    \/ Work \/ Deliver \/ Boot \/ WorkerBreaks \/ Stop \/ Crash
    \/ \E l \in Logins :
          \/ \E j \in Jobs : Enqueue(l, j) \/ Repeat(l, j)
          \/ \E i \in Installs : Unregister(i, l) \/ \E p \in Tokens : Register(i, l, p)
          \/ SignOut(l)
    \/ \E a \in Actions : Publish(a)
    \/ \E u \in Owners : Reassign(u)
    \/ \E e \in Events : Age(e)
    \/ \E row \in outbox : Due(row)

\* Every await in the two loops has a timeout, next_at comes, and the container
\* runtime restarts the process.
Fairness == /\ WF_vars(Work) /\ WF_vars(Deliver) /\ WF_vars(Boot)
            /\ WF_vars(\E row \in outbox : Due(row))

Spec == Init /\ [][Next]_vars
FairSpec == Spec /\ Fairness

------------------------------------------------------------------------------
\* The relay implements the promise of AtMostOnce: across retries of a request,
\* crashes at any step, broken workers and restarts, a request runs at most once
\* and its one answer says truly whether it ran.
Promise == INSTANCE AtMostOnce WITH
    Requests <- Jobs,
    answer <- [j \in Jobs |-> IF status[j] \in {"queued", "running"} THEN "open" ELSE status[j]]
RunsAtMostOnce == Promise!Spec

\* A push starts only to the registration its phone has at that moment, and only
\* with a summary its account may see (README: ownership is rechecked before each
\* push), however long the account service took to answer.
PushedToItsOwner ==
    [][pusher.at = "auth" /\ pusher'.at = "push" =>
         LET item == pusher.item
             now == device[item.device]
         IN  /\ now # None /\ now.token = item.reg.token
             /\ User(now.login) = owner
             /\ item.event \in Jobs => User(now.login) = User(item.event)]_vars

\* An accepted request is answered in the end.
RequestAnswered == \A j \in Jobs : status[j] = "queued" ~> status[j] \in Answers

\* No notification waits in the outbox for ever: it is delivered, dropped, given
\* up or goes with its device.
Waits(e, i) == \E row \in outbox : row.event = e /\ row.device = i
OutboxDrains == \A e \in Events, i \in Installs : Waits(e, i) ~> ~Waits(e, i)
=============================================================================
