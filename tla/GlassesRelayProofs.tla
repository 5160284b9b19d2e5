-------------------------- MODULE GlassesRelayProofs --------------------------
(* Proofs about GlassesRelay, for every value of its constants. *)
EXTENDS GlassesRelay, TLAPS

\* The job in the worker's hands is marked running, and the process that runs the worker is
\* not the one that recovers what an earlier worker left behind.
Working ==
    worker.at # "idle" =>
        /\ worker.job \in Jobs /\ status[worker.job] = "running"
        /\ process \in {"up", "stopping"}
        /\ worker.at = "auth" => runs[worker.job] = 0
        /\ worker.at = "run" => runs[worker.job] = 1

\* A request has run once at the most, and not before it was claimed.
Ran ==
    \A j \in Jobs : /\ runs[j] \in {0, 1}
                    /\ status[j] \in {"none", "queued"} => runs[j] = 0

\* The inbox holds a request's answer and nothing else about it, and the credential is
\* kept no longer than until then.
Told ==
    \A j \in Jobs :
        /\ event[j] = IF status[j] \in Answers THEN status[j] ELSE "none"
        /\ credential[j] # None => status[j] \in {"queued", "running"}

RequestTypes ==
    /\ process \in {"recovering", "up", "stopping", "down"}
    /\ status \in [Jobs -> {"none", "queued", "running"} \cup Answers]
    /\ credential \in [Jobs -> Logins \cup {None}]
    /\ accepted \in Seq(Jobs)
    /\ event \in [Events -> {"none", "completed"} \cup Answers]
    /\ worker \in [at : {"idle", "auth", "run"}, job : Jobs \cup {None}]
    /\ runs \in [Jobs -> Nat]

RequestInv == RequestTypes /\ Working /\ Ran /\ Told

\* Two notifications of one event to one device are one.
Distinct(S) == \A x, y \in S : x.event = y.event /\ x.device = y.device => x = y

\* What the pusher works off.
InHand == pusher.todo \cup (IF pusher.at = "idle" THEN {} ELSE {pusher.item})

PushTypes ==
    /\ device \in [Installs -> Registrations \cup {None}]
    /\ outbox \subseteq Rows
    /\ pusher \in [at : {"idle", "auth", "push"}, item : Items \cup {None}, todo : SUBSET Items]
    /\ InHand \subseteq Items
    /\ seals \in 0 .. MaxSeals

\* A notification is of an event in the inbox, for a device that is registered.
Addressed ==
    \A row \in outbox : event[row.event] # "none" /\ device[row.device] \in Registrations

\* The pusher works on a row once in a round, and counts no fewer attempts than the row.
Counted == \A x \in InHand : \A row \in Row(x) : row.attempts <= x.attempts

PushInv ==
    /\ PushTypes /\ Addressed /\ Counted /\ Distinct(outbox) /\ Distinct(InHand)
    /\ IF pusher.at = "idle" THEN pusher.item = None ELSE pusher.item \notin pusher.todo

OtherTypes ==
    owner \in Owners /\ revoked \subseteq Logins /\ aged \subseteq Events /\ crashes \in 0 .. MaxCrashes

IInv == RequestInv /\ PushInv /\ OtherTypes

------------------------------------------------------------------------------
(* Requests.                                                                 *)

Kinds == {"none", "queued", "running"} \cup Answers

\* A request is not an account, a login or the absence of one.
LEMMA Names ==
    /\ None \notin Jobs /\ None \notin Logins /\ Jobs \subseteq Events /\ Actions \subseteq Events
    /\ Jobs \cap Actions = {}
    /\ "none" \notin Answers /\ "queued" \notin Answers /\ "running" \notin Answers
BY RelayAssumption DEF Events, Answers

\* A step that leaves requests alone, or only starts and ends the process.
LEMMA RequestsRest ==
    ASSUME RequestInv, UNCHANGED <<status, credential, accepted, event, runs>>,
           process' \in {"recovering", "up", "stopping", "down"},
           \/ worker' = Waiting
           \/ worker' = worker /\ (process \in {"up", "stopping"} => process' \in {"up", "stopping"})
    PROVE  RequestInv' /\ [Promise!Next]_(Promise!vars)
<1>1. worker' \in [at : {"idle", "auth", "run"}, job : Jobs \cup {None}] /\ Working'
    BY DEF RequestInv, RequestTypes, Working, Waiting
<1>2. RequestTypes' /\ Ran' /\ Told'
    BY <1>1 DEF RequestInv, RequestTypes, Ran, Told
<1>3. UNCHANGED Promise!vars
    BY DEF Promise!vars
<1> QED BY <1>1, <1>2, <1>3 DEF RequestInv

\* An answer is given in one transaction: event, status and the erased credential.
LEMMA FinishTells ==
    ASSUME RequestInv, NEW j \in Jobs, NEW kind \in Answers, status[j] = "running",
           Finish(j, kind)
    PROVE  /\ status' \in [Jobs -> Kinds] /\ credential' \in [Jobs -> Logins \cup {None}]
           /\ event' \in [Events -> {"none", "completed"} \cup Answers]
           /\ status'[j] = kind /\ \A i \in Jobs : i # j => status'[i] = status[i]
           /\ Told'
<1>1. /\ event' = [event EXCEPT ![j] = kind] /\ status' = [status EXCEPT ![j] = kind]
      /\ credential' = [credential EXCEPT ![j] = None]
    BY DEF Finish, Appended
<1>2. /\ status' \in [Jobs -> Kinds] /\ credential' \in [Jobs -> Logins \cup {None}]
      /\ event' \in [Events -> {"none", "completed"} \cup Answers]
    BY <1>1 DEF RequestInv, RequestTypes, Kinds
<1>3. /\ status'[j] = kind /\ credential'[j] = None /\ event'[j] = kind
      /\ \A i \in Jobs : i # j => /\ status'[i] = status[i] /\ credential'[i] = credential[i]
                                  /\ event'[i] = event[i]
    BY <1>1, Names DEF RequestInv, RequestTypes
<1>4. Told'
    BY <1>3 DEF RequestInv, Told
<1> QED BY <1>2, <1>3, <1>4

\* An answer that says truly whether the request ran is one AtMostOnce allows.
LEMMA FinishAnswers ==
    ASSUME RequestInv, NEW j \in Jobs, NEW kind \in Answers, status[j] = "running",
           Finish(j, kind), UNCHANGED runs,
           \/ kind = "failed" /\ runs[j] = 0
           \/ kind = "replied" /\ runs[j] = 1
           \/ kind = "uncertain"
    PROVE  [Promise!Next]_(Promise!vars)
<1> DEFINE answer == [i \in Jobs |-> IF status[i] \in {"queued", "running"} THEN "open" ELSE status[i]]
<1>1. /\ status'[j] = kind /\ \A i \in Jobs : i # j => status'[i] = status[i]
    BY FinishTells
<1>2. answer' = [answer EXCEPT ![j] = kind]
    BY <1>1, Names
<1>3. answer[j] = "open"
    OBVIOUS
<1>4. Promise!Answer(j, kind)
    BY <1>2, <1>3 DEF Promise!Answer
<1>5. kind \in {"failed", "replied", "uncertain"}
    BY DEF Answers
<1> QED BY <1>4, <1>5 DEF Promise!Next

\* A job that is claimed or answered leaves the promise of the others as it was.
LEMMA EnqueueKeeps ==
    ASSUME RequestInv, NEW l \in Logins, NEW j \in Jobs, Enqueue(l, j)
    PROVE  RequestInv' /\ [Promise!Next]_(Promise!vars)
<1> DEFINE answer == [i \in Jobs |-> IF status[i] \in {"queued", "running"} THEN "open" ELSE status[i]]
<1>1. /\ status[j] = "none" /\ status' = [status EXCEPT ![j] = "queued"]
      /\ credential' = [credential EXCEPT ![j] = l] /\ accepted' = Append(accepted, j)
      /\ UNCHANGED <<process, event, worker, runs>>
    BY DEF Enqueue
<1>2. accepted' \in Seq(Jobs)
    BY <1>1 DEF RequestInv, RequestTypes
<1>3. RequestTypes'
    BY <1>1, <1>2 DEF RequestInv, RequestTypes
<1>4. /\ status'[j] = "queued" /\ \A i \in Jobs : i # j => status'[i] = status[i]
      /\ \A i \in Jobs : i # j => credential'[i] = credential[i]
    BY <1>1 DEF RequestInv, RequestTypes
<1>5. Working'
    <2>1. worker.at # "idle" => worker.job # j
        BY <1>1 DEF RequestInv, Working
    <2> QED BY <1>1, <1>4, <2>1 DEF RequestInv, Working
<1>6. Ran' /\ Told'
    BY <1>1, <1>4, Names DEF RequestInv, Ran, Told
<1>7. Promise!Accept(j)
    <2>1. answer' = [answer EXCEPT ![j] = "open"] /\ answer[j] = "none"
        BY <1>1, <1>4
    <2> QED BY <1>1, <2>1 DEF Promise!Accept
<1> QED BY <1>3, <1>5, <1>6, <1>7 DEF RequestInv, Promise!Next

\* A repeated request changes no more than the credential of a queued job.
LEMMA RepeatKeeps ==
    ASSUME RequestInv, NEW l \in Logins, NEW j \in Jobs, Repeat(l, j)
    PROVE  RequestInv' /\ [Promise!Next]_(Promise!vars)
<1>1. /\ status[j] = "queued" /\ credential' = [credential EXCEPT ![j] = l]
      /\ UNCHANGED <<process, status, accepted, event, worker, runs>>
    BY DEF Repeat
<1>2. RequestTypes' /\ Told'
    BY <1>1 DEF RequestInv, RequestTypes, Told
<1>3. Working' /\ Ran'
    BY <1>1 DEF RequestInv, Working, Ran
<1>4. UNCHANGED Promise!vars
    BY <1>1 DEF Promise!vars
<1> QED BY <1>2, <1>3, <1>4 DEF RequestInv

\* A claimed job has not run yet.
LEMMA ClaimKeeps ==
    ASSUME RequestInv, NEW j \in Jobs, Claim(j)
    PROVE  RequestInv' /\ [Promise!Next]_(Promise!vars)
<1>1. /\ status[j] = "queued" /\ status' = [status EXCEPT ![j] = "running"]
      /\ worker' = [at |-> "auth", job |-> j] /\ process = "up" /\ worker.at = "idle"
      /\ UNCHANGED <<process, credential, accepted, event, runs>>
    BY DEF Claim, Oldest, ClaimedDurably
<1>2. RequestTypes'
    BY <1>1 DEF RequestInv, RequestTypes
<1>3. status'[j] = "running" /\ \A i \in Jobs : i # j => status'[i] = status[i]
    BY <1>1 DEF RequestInv, RequestTypes
<1>4. Working' /\ Ran' /\ Told'
    BY <1>1, <1>3, Names DEF RequestInv, Working, Ran, Told
<1>5. UNCHANGED Promise!vars
    BY <1>1, <1>3 DEF Promise!vars
<1> QED BY <1>2, <1>4, <1>5 DEF RequestInv

\* Only the worker runs a job, and only the one it has just claimed.
LEMMA RunStartsKeeps ==
    ASSUME RequestInv, RunStarts
    PROVE  RequestInv' /\ [Promise!Next]_(Promise!vars)
<1> DEFINE j == worker.job
           answer == [i \in Jobs |-> IF status[i] \in {"queued", "running"} THEN "open" ELSE status[i]]
<1>1. /\ worker.at = "auth" /\ worker' = [worker EXCEPT !.at = "run"]
      /\ runs' = [runs EXCEPT ![j] = @ + 1]
      /\ UNCHANGED <<process, status, credential, accepted, event>>
    BY DEF RunStarts
<1>2. /\ j \in Jobs /\ status[j] = "running" /\ process \in {"up", "stopping"} /\ runs[j] = 0
    BY <1>1 DEF RequestInv, Working
<1>3. /\ runs' = [runs EXCEPT ![j] = 1] /\ runs'[j] = 1
      /\ \A i \in Jobs : i # j => runs'[i] = runs[i]
    BY <1>1, <1>2 DEF RequestInv, RequestTypes
<1>4. worker'.at = "run" /\ worker'.job = j /\ RequestTypes'
    <2>1. /\ worker' \in [at : {"idle", "auth", "run"}, job : Jobs \cup {None}]
          /\ worker'.at = "run" /\ worker'.job = j
        BY <1>1 DEF RequestInv, RequestTypes
    <2>2. runs' \in [Jobs -> Nat]
        BY <1>3 DEF RequestInv, RequestTypes
    <2> QED BY <1>1, <2>1, <2>2 DEF RequestInv, RequestTypes
<1>5. Working' /\ Ran' /\ Told'
    BY <1>1, <1>2, <1>3, <1>4, Names DEF RequestInv, Working, Ran, Told
<1>6. Promise!Run(j)
    <2>1. answer' = answer /\ answer[j] = "open"
        BY <1>1, <1>2
    <2> QED BY <1>2, <1>3, <2>1 DEF Promise!Run
<1> QED BY <1>2, <1>4, <1>5, <1>6 DEF RequestInv, Promise!Next

\* The worker's answer is true of whether it ran the job.
LEMMA WorkerAnswers ==
    ASSUME RequestInv, NotStarted \/ Replies \/ Unclear
    PROVE  RequestInv' /\ [Promise!Next]_(Promise!vars)
<1> DEFINE j == worker.job
<1>1. PICK kind \in Answers :
        /\ Finish(j, kind) /\ worker' = Waiting
        /\ \/ worker.at = "auth" /\ kind = "failed"
           \/ worker.at = "run" /\ kind \in {"replied", "uncertain"}
        /\ UNCHANGED <<process, accepted, runs>>
    BY DEF NotStarted, Replies, Unclear, Answers
<1>2. /\ j \in Jobs /\ status[j] = "running"
      /\ worker.at = "auth" => runs[j] = 0
      /\ worker.at = "run" => runs[j] = 1
    BY <1>1 DEF RequestInv, Working
<1> HIDE DEF j
<1>3. /\ status' \in [Jobs -> Kinds] /\ credential' \in [Jobs -> Logins \cup {None}]
      /\ event' \in [Events -> {"none", "completed"} \cup Answers]
      /\ status'[j] = kind /\ \A i \in Jobs : i # j => status'[i] = status[i]
      /\ Told'
    BY <1>1, <1>2, FinishTells
<1>4. RequestTypes' /\ Working'
    BY <1>1, <1>3 DEF RequestInv, RequestTypes, Working, Waiting, Kinds
<1>5. Ran'
    BY <1>1, <1>3, Names DEF RequestInv, Ran
<1>6. [Promise!Next]_(Promise!vars)
    BY <1>1, <1>2, FinishAnswers
<1> QED BY <1>3, <1>4, <1>5, <1>6 DEF RequestInv

\* Recovery answers a job of no worker: the process does not run its worker yet.
LEMMA RecoverKeeps ==
    ASSUME RequestInv, NEW j \in Jobs, Recover(j)
    PROVE  RequestInv' /\ [Promise!Next]_(Promise!vars)
<1>1. /\ process = "recovering" /\ status[j] = "running" /\ Finish(j, "uncertain")
      /\ UNCHANGED <<process, accepted, worker, runs>> /\ "uncertain" \in Answers
    BY DEF Recover, jobVars, Answers
<1>2. /\ status' \in [Jobs -> Kinds] /\ credential' \in [Jobs -> Logins \cup {None}]
      /\ event' \in [Events -> {"none", "completed"} \cup Answers]
      /\ status'[j] = "uncertain" /\ \A i \in Jobs : i # j => status'[i] = status[i]
      /\ Told'
    BY <1>1, FinishTells
<1>3. worker.at = "idle"
    BY <1>1 DEF RequestInv, Working, RequestTypes
<1>4. RequestTypes' /\ Working'
    BY <1>1, <1>2, <1>3 DEF RequestInv, RequestTypes, Working, Kinds
<1>5. Ran'
    BY <1>1, <1>2, Names DEF RequestInv, Ran
<1>6. [Promise!Next]_(Promise!vars)
    BY <1>1, FinishAnswers
<1> QED BY <1>2, <1>4, <1>5, <1>6 DEF RequestInv

\* The Claw's publisher appends an event that is no request's.
LEMMA PublishKeeps ==
    ASSUME RequestInv, NEW a \in Actions, Publish(a)
    PROVE  RequestInv' /\ [Promise!Next]_(Promise!vars)
<1>1. /\ event' = [event EXCEPT ![a] = "completed"]
      /\ UNCHANGED <<process, status, credential, accepted, worker, runs>>
    BY DEF Publish, Appended, jobVars
<1>2. event' \in [Events -> {"none", "completed"} \cup Answers]
    BY <1>1 DEF RequestInv, RequestTypes
<1>3. \A j \in Jobs : event'[j] = event[j]
    BY <1>1, Names DEF RequestInv, RequestTypes
<1>4. RequestTypes' /\ Working' /\ Ran' /\ Told'
    BY <1>1, <1>2, <1>3 DEF RequestInv, RequestTypes, Working, Ran, Told
<1>5. UNCHANGED Promise!vars
    BY <1>1 DEF Promise!vars
<1> QED BY <1>4, <1>5 DEF RequestInv

------------------------------------------------------------------------------
(* Notifications.                                                            *)

\* A step that concerns no notification.
LEMMA PushesRest ==
    ASSUME PushInv, UNCHANGED <<outbox, device, pusher, seals>>,
           \A e \in Events : event[e] # "none" => event'[e] # "none"
    PROVE  PushInv'
BY DEF PushInv, PushTypes, Addressed, Counted, InHand, Distinct, Row, Rows

\* A new event has one notification for each device it concerns.
LEMMA AppendedKeeps ==
    ASSUME RequestInv, PushInv, NEW e \in Events, NEW kind \in {"completed"} \cup Answers,
           Appended(e, kind), UNCHANGED <<device, pusher, seals>>
    PROVE  PushInv'
<1> DEFINE new(i) == [event |-> e, device |-> i, attempts |-> 0, due |-> TRUE]
<1>1. /\ event[e] = "none" /\ event' = [event EXCEPT ![e] = kind]
      /\ outbox' = outbox \cup {new(i) : i \in Audience(e)}
    BY DEF Appended
<1>2. /\ event'[e] # "none" /\ \A f \in Events : event[f] # "none" => event'[f] # "none"
    BY <1>1, Names DEF RequestInv, RequestTypes
<1>3. \A i \in Audience(e) : /\ device[i] \in Registrations /\ new(i) \in Rows
                             /\ new(i).event = e /\ new(i).device = i /\ new(i).attempts = 0
    BY RelayAssumption DEF Audience, PushInv, PushTypes, Rows
<1> HIDE DEF new
<1>4. PushTypes'
    BY <1>1, <1>3 DEF PushInv, PushTypes, InHand
<1>5. Addressed'
    BY <1>1, <1>2, <1>3 DEF PushInv, Addressed, PushTypes, Rows
<1>6. Counted'
    <2> SUFFICES ASSUME NEW x \in InHand, NEW row \in outbox', row.event = x.event,
                        row.device = x.device
                 PROVE  row.attempts <= x.attempts
        BY DEF Counted, InHand, Row
    <2>1. x \in Items
        BY DEF PushInv, PushTypes
    <2>2. CASE row \in outbox
        BY <2>2 DEF PushInv, Counted, Row
    <2>3. CASE row \notin outbox
        BY <1>1, <1>3, <2>1, <2>3, RelayAssumption DEF Items
    <2> QED BY <2>2, <2>3
<1>7. Distinct(outbox')
    BY <1>1, <1>3 DEF PushInv, Distinct, Addressed
<1> QED BY <1>4, <1>5, <1>6, <1>7 DEF PushInv, InHand

\* Fewer notifications, of devices that are still registered; the pusher keeps what it has.
LEMMA Fewer ==
    ASSUME PushInv, outbox' \subseteq outbox, UNCHANGED <<event, pusher>>,
           device' \in [Installs -> Registrations \cup {None}], seals' \in 0 .. MaxSeals,
           \A row \in outbox' : device'[row.device] \in Registrations
    PROVE  PushInv'
<1>1. PushTypes' /\ Addressed'
    BY DEF PushInv, PushTypes, Addressed, InHand
<1>2. Counted' /\ Distinct(outbox')
    BY DEF PushInv, Counted, InHand, Row, Distinct
<1> QED BY <1>1, <1>2 DEF PushInv, InHand, Distinct

\* A device is registered, registered anew or replaced; a replaced device's notifications go.
LEMMA RegisterKeeps ==
    ASSUME PushInv, NEW i \in Installs, NEW l \in Logins, NEW p \in Tokens, Register(i, l, p)
    PROVE  PushInv'
<1> DEFINE new == [login |-> l, token |-> p, seal |-> seals + 1]
           same == device[i] # None /\ User(device[i].login) = User(l) /\ device[i].token = p
           gone == {d \in Installs : device[d] # None /\ (d = i \/ device[d].token = p)}
<1>1. /\ seals < MaxSeals /\ seals' = seals + 1 /\ UNCHANGED <<event, pusher>>
      /\ device' = IF same THEN [device EXCEPT ![i] = new]
                   ELSE [d \in Installs |-> IF d = i THEN new
                                            ELSE IF d \in gone THEN None ELSE device[d]]
      /\ outbox' = IF same THEN outbox ELSE WithoutRows(gone)
    BY DEF Register, jobVars
<1>2. new \in Registrations /\ seals' \in 0 .. MaxSeals
    BY <1>1, RelayAssumption DEF Registrations, PushInv, PushTypes
<1> HIDE DEF new, same
<1>3. device' \in [Installs -> Registrations \cup {None}]
    BY <1>1, <1>2 DEF PushInv, PushTypes
<1>4. outbox' \subseteq outbox
    BY <1>1 DEF WithoutRows
<1>5. ASSUME NEW row \in outbox' PROVE device'[row.device] \in Registrations
    <2>1. row \in outbox /\ row.device \in Installs /\ device[row.device] \in Registrations
        BY <1>4 DEF PushInv, PushTypes, Rows, Addressed
    <2>2. CASE same
        BY <1>1, <1>2, <2>1, <2>2 DEF PushInv, PushTypes
    <2>3. CASE ~same
        BY <1>1, <1>2, <2>1, <2>3 DEF WithoutRows
    <2> QED BY <2>2, <2>3
<1> QED BY <1>1, <1>2, <1>3, <1>4, <1>5, Fewer

\* Its notifications go with a device.
LEMMA DeviceGone ==
    ASSUME PushInv, NEW i \in Installs, device' = [device EXCEPT ![i] = None],
           outbox' = WithoutRows({i}), UNCHANGED event
    PROVE  /\ outbox' \subseteq outbox /\ device' \in [Installs -> Registrations \cup {None}]
           /\ \A row \in outbox' : device'[row.device] \in Registrations
<1>1. outbox' \subseteq outbox /\ \A row \in outbox' : row.device # i
    BY DEF WithoutRows
<1>2. device' \in [Installs -> Registrations \cup {None}]
    BY DEF PushInv, PushTypes
<1>3. ASSUME NEW row \in outbox' PROVE device'[row.device] \in Registrations
    <2>1. row \in outbox /\ row.device \in Installs /\ device[row.device] \in Registrations
        BY <1>1 DEF PushInv, PushTypes, Rows, Addressed
    <2> QED BY <1>1, <2>1 DEF PushInv, PushTypes
<1> QED BY <1>1, <1>2, <1>3

\* An unregistered device takes its notifications along.
LEMMA UnregisterKeeps ==
    ASSUME PushInv, NEW i \in Installs, NEW l \in Logins, Unregister(i, l)
    PROVE  PushInv'
BY DeviceGone, Fewer DEF Unregister, jobVars, PushInv, PushTypes

\* A round begins with what is due.
LEMMA FetchKeeps ==
    ASSUME PushInv, Fetch
    PROVE  PushInv'
<1> DEFINE item(row) == [event |-> row.event, device |-> row.device, attempts |-> row.attempts,
                         reg |-> device[row.device]]
           dueRows == {row \in outbox : row.due}
<1>1. /\ pusher' = [Rest EXCEPT !.todo = {item(row) : row \in dueRows}]
      /\ UNCHANGED <<event, outbox, device, seals>>
    BY DEF Fetch
<1>2. \A row \in outbox : /\ item(row) \in Items /\ item(row).event = row.event
                          /\ item(row).device = row.device /\ item(row).attempts = row.attempts
    BY DEF PushInv, PushTypes, Addressed, Rows, Items
<1>3. /\ pusher'.at = "idle" /\ pusher'.item = None
      /\ pusher'.todo = {item(row) : row \in dueRows}
      /\ pusher' = [at |-> "idle", item |-> None, todo |-> {item(row) : row \in dueRows}]
    BY <1>1 DEF Rest
<1> HIDE DEF item
<1>4. InHand' = {item(row) : row \in dueRows}
    BY <1>3 DEF InHand
<1>5. {item(row) : row \in dueRows} \subseteq Items
    BY <1>2
<1>6. PushTypes'
    BY <1>1, <1>3, <1>4, <1>5 DEF PushInv, PushTypes
<1>7. Counted'
    <2> SUFFICES ASSUME NEW row \in dueRows, NEW other \in outbox,
                        other.event = row.event, other.device = row.device
                 PROVE  other.attempts <= row.attempts
        BY <1>1, <1>2, <1>4 DEF Counted, Row
    <2>1. other = row /\ row.attempts \in Nat
        BY RelayAssumption DEF PushInv, PushTypes, Distinct, Rows
    <2> QED BY <2>1
<1>8. Distinct(InHand')
    BY <1>2, <1>4 DEF PushInv, Distinct
<1> QED BY <1>1, <1>3, <1>6, <1>7, <1>8 DEF PushInv, Addressed

\* The pusher takes the next of them in hand.
LEMMA TurnKeeps ==
    ASSUME PushInv, NEW item \in pusher.todo, Turn(item)
    PROVE  PushInv'
<1>1. /\ pusher.at = "idle" /\ UNCHANGED <<event, outbox, device, seals>>
      /\ pusher' = [at |-> "auth", item |-> item, todo |-> pusher.todo \ {item}]
    BY DEF Turn
<1>2. InHand' = InHand /\ item \in Items
    BY <1>1 DEF InHand, PushInv, PushTypes
<1>3. PushTypes'
    BY <1>1, <1>2 DEF PushInv, PushTypes
<1> QED BY <1>1, <1>2, <1>3 DEF PushInv, Addressed, Counted, Row

\* What a step that is done with its item does to the pusher.
LEMMA Done ==
    ASSUME PushInv, pusher.at # "idle", Onward
    PROVE  /\ pusher' \in [at : {"idle", "auth", "push"}, item : Items \cup {None},
                           todo : SUBSET Items]
           /\ pusher'.at = "idle" /\ pusher'.item = None /\ InHand' = pusher.todo
           /\ InHand' \subseteq InHand /\ pusher.item \in Items /\ pusher.item \in InHand
           /\ Distinct(InHand')
<1>1. /\ pusher' \in [at : {"idle", "auth", "push"}, item : Items \cup {None},
                      todo : SUBSET Items]
      /\ pusher'.at = "idle" /\ pusher'.item = None /\ pusher'.todo = pusher.todo
    BY DEF Onward, PushInv, PushTypes
<1>2. /\ InHand' = pusher.todo /\ InHand' \subseteq InHand /\ pusher.item \in InHand
      /\ pusher.item \in Items
    BY <1>1 DEF InHand, PushInv, PushTypes
<1> QED BY <1>1, <1>2 DEF PushInv, Distinct

\* A notification that was delivered, dropped or skipped, or whose device is gone.
LEMMA DoneKeeps ==
    ASSUME PushInv, PushDropped \/ PushSkipped \/ PushSent \/ PushInvalid
    PROVE  PushInv'
<1>1. pusher.at # "idle" /\ Onward /\ UNCHANGED <<event, seals>>
    BY DEF PushDropped, PushSkipped, PushSent, PushInvalid, Authenticated
<1>2. /\ outbox' \subseteq outbox /\ device' \in [Installs -> Registrations \cup {None}]
      /\ \A row \in outbox' : device'[row.device] \in Registrations
    <2>1. CASE outbox' \subseteq outbox /\ UNCHANGED device
        BY <2>1 DEF PushInv, PushTypes, Addressed
    <2>2. CASE PushInvalid /\ IsCurrent(pusher.item)
        <3>1. pusher.item.device \in Installs
            BY <1>1, Done DEF Items
        <3> QED BY <1>1, <2>2, <3>1, DeviceGone DEF PushInvalid, RemoveIfCurrent
    <2> QED BY <2>1, <2>2 DEF PushDropped, PushSkipped, PushSent, PushInvalid, PushDone,
                              RemoveIfCurrent
<1>3. PushTypes' /\ Addressed'
    BY <1>1, <1>2, Done DEF PushInv, PushTypes, Addressed
<1>4. Counted' /\ Distinct(outbox')
    <2>1. InHand' \subseteq InHand
        BY <1>1, Done
    <2> QED BY <1>2, <2>1 DEF PushInv, Counted, Row, Distinct
<1> QED BY <1>1, <1>3, <1>4, Done DEF PushInv

\* A notification that is put off is the only one of its event and device, and no other of
\* the round is.
LEMMA PutOff ==
    ASSUME PushInv, pusher.at # "idle", Onward, PushRetry(pusher.item),
           UNCHANGED <<event, device, seals>>
    PROVE  PushInv'
<1> DEFINE item == pusher.item
           later(row) == [row EXCEPT !.attempts = @ + 1, !.due = FALSE]
<1>1. /\ item \in Items /\ item \in InHand /\ InHand' = pusher.todo /\ InHand' \subseteq InHand
      /\ pusher' \in [at : {"idle", "auth", "push"}, item : Items \cup {None},
                      todo : SUBSET Items]
      /\ pusher'.at = "idle" /\ pusher'.item = None /\ Distinct(InHand')
    BY Done
<1>2. CASE item.attempts >= MaxAttempts
    <2>1. outbox' \subseteq outbox
        BY <1>2 DEF PushRetry, PushDone
    <2> QED BY <1>1, <2>1 DEF PushInv, PushTypes, Addressed, Counted, Row, Distinct
<1>3. CASE ~(item.attempts >= MaxAttempts)
    <2>1. outbox' = (outbox \ Row(item)) \cup {later(row) : row \in Row(item)}
        BY <1>3 DEF PushRetry
    <2>2. ASSUME NEW row \in Row(item)
          PROVE  /\ later(row) \in Rows /\ later(row).event = item.event
                 /\ later(row).device = item.device
                 /\ row \in outbox /\ row.event = item.event /\ row.device = item.device
        <3>1. row \in outbox /\ row \in Rows /\ row.event = item.event /\ row.device = item.device
            BY <2>2 DEF Row, PushInv, PushTypes
        <3>2. row.attempts <= item.attempts
            BY <1>1, <2>2 DEF PushInv, Counted
        <3>3. row.attempts \in 0 .. MaxAttempts /\ item.attempts \in 0 .. MaxAttempts
            BY <1>1, <3>1 DEF Rows, Items
        <3>4. row.attempts + 1 \in 0 .. MaxAttempts
            BY <1>3, <3>2, <3>3, RelayAssumption
        <3>5. \A n \in 0 .. MaxAttempts :
                 LET new == [row EXCEPT !.attempts = n, !.due = FALSE]
                 IN  new \in Rows /\ new.event = row.event /\ new.device = row.device
            BY <3>1 DEF Rows
        <3>6. later(row) = [row EXCEPT !.attempts = row.attempts + 1, !.due = FALSE]
            OBVIOUS
        <3> QED BY <3>1, <3>4, <3>5, <3>6
    <2> HIDE DEF later, item
    <2>3. \A row \in outbox' : \E old \in outbox :
             row.event = old.event /\ row.device = old.device /\ row \in Rows
        BY <2>1, <2>2 DEF PushInv, PushTypes
    <2>4. PushTypes' /\ Addressed'
        BY <1>1, <2>3 DEF PushInv, PushTypes, Addressed
    <2>5. Counted'
        <3> SUFFICES ASSUME NEW x \in pusher.todo, NEW row \in outbox', row.event = x.event,
                            row.device = x.device
                     PROVE  row.attempts <= x.attempts
            BY <1>1 DEF Counted, Row
        <3>1. x # item /\ x \in InHand
            BY <1>1 DEF PushInv, item
        <3>2. ~(x.event = item.event /\ x.device = item.device)
            BY <1>1, <3>1 DEF PushInv, Distinct
        <3>3. row \in outbox
            BY <2>1, <2>2, <3>2
        <3> QED BY <3>1, <3>3 DEF PushInv, Counted, Row
    <2>6. Distinct(outbox')
        <3>1. \A r1, r2 \in Row(item) : r1 = r2
            BY <2>2 DEF PushInv, Distinct
        <3>2. \A row \in outbox \ Row(item) : ~(row.event = item.event /\ row.device = item.device)
            BY DEF Row
        <3> QED BY <2>1, <2>2, <3>1, <3>2 DEF PushInv, Distinct
    <2> QED BY <1>1, <2>4, <2>5, <2>6 DEF PushInv
<1> QED BY <1>2, <1>3

\* next_at comes for one notification.
LEMMA DueKeeps ==
    ASSUME PushInv, NEW row \in outbox, Due(row)
    PROVE  PushInv'
<1> DEFINE new == [row EXCEPT !.due = TRUE]
<1>1. outbox' = (outbox \ {row}) \cup {new} /\ UNCHANGED <<event, device, pusher, seals>>
    BY DEF Due, pushVars
<1>2. row \in Rows
    BY DEF PushInv, PushTypes
<1>3. /\ new \in Rows /\ new.event = row.event /\ new.device = row.device
      /\ new.attempts = row.attempts
    BY <1>2 DEF Rows
<1> HIDE DEF new
<1>4. PushTypes' /\ Addressed'
    BY <1>1, <1>3 DEF PushInv, PushTypes, Addressed, InHand
<1>5. Counted' /\ Distinct(outbox') /\ Distinct(InHand')
    BY <1>1, <1>3 DEF PushInv, Counted, InHand, Row, Distinct
<1> QED BY <1>1, <1>4, <1>5 DEF PushInv

\* A crash ends the round; the notifications are still there.
LEMMA RoundEnds ==
    ASSUME PushInv, pusher' = Rest, UNCHANGED <<event, outbox, device, seals>>
    PROVE  PushInv'
<1>1. pusher'.at = "idle" /\ pusher'.item = None /\ InHand' = {}
    BY DEF Rest, InHand
<1>2. PushTypes'
    BY <1>1 DEF PushInv, PushTypes, Rest
<1> QED BY <1>1, <1>2 DEF PushInv, Addressed, Counted, Distinct

\* Before a push the account service is asked; only then it starts.
LEMMA PushStartsKeeps ==
    ASSUME PushInv, PushStarts
    PROVE  PushInv'
<1>1. /\ pusher.at = "auth" /\ pusher' = [pusher EXCEPT !.at = "push"]
      /\ UNCHANGED <<event, outbox, device, seals>>
    BY DEF PushStarts, Authenticated
<1>2. /\ pusher' \in [at : {"idle", "auth", "push"}, item : Items \cup {None}, todo : SUBSET Items]
      /\ pusher'.at = "push" /\ pusher'.item = pusher.item /\ pusher'.todo = pusher.todo
    BY <1>1 DEF PushInv, PushTypes
<1>3. InHand' = InHand
    BY <1>1, <1>2 DEF InHand
<1> QED BY <1>1, <1>2, <1>3 DEF PushInv, PushTypes, Addressed, Counted, Row

------------------------------------------------------------------------------
(* The steps together.                                                       *)

\* What the worker, the handlers and the process do to requests.
LEMMA RequestsKept ==
    ASSUME RequestInv, [Next]_vars
    PROVE  RequestInv' /\ [Promise!Next]_(Promise!vars)
<1>1. CASE UNCHANGED vars
    BY <1>1, RequestsRest DEF vars, RequestInv, RequestTypes
<1>2. CASE Work
    BY <1>2, ClaimKeeps, RunStartsKeeps, WorkerAnswers DEF Work
<1>3. CASE Deliver
    <2>1. UNCHANGED <<process, status, credential, accepted, event, worker, runs>>
        BY <1>3 DEF Deliver, Fetch, PushDropped, PushSkipped, PushStarts, PushSent, PushInvalid,
                    PushFails, Turn, jobVars
    <2> QED BY <2>1, RequestsRest DEF RequestInv, RequestTypes
<1>4. CASE Boot
    <2>1. ASSUME Exit \/ Restart \/ Recovered PROVE RequestInv' /\ [Promise!Next]_(Promise!vars)
        <3>1. /\ UNCHANGED <<status, credential, accepted, event, worker, runs>>
              /\ process' \in {"recovering", "up", "down"}
              /\ process = "stopping" => worker = Waiting
              /\ process = "up" => process' = "up"
            BY <2>1 DEF Exit, Restart, Recovered, jobVars
        <3> QED BY <3>1, RequestsRest
    <2> QED BY <1>4, <2>1, RecoverKeeps DEF Boot
<1>5. CASE WorkerBreaks \/ Stop \/ Crash
    <2>1. /\ UNCHANGED <<status, credential, accepted, event, runs>>
          /\ process' \in {"stopping", "down"}
          /\ worker' = Waiting \/ (worker' = worker /\ process' = "stopping")
        BY <1>5 DEF WorkerBreaks, Stop, Crash, jobVars
    <2> QED BY <2>1, RequestsRest
<1>6. ASSUME NEW l \in Logins,
             \/ \E j \in Jobs : Enqueue(l, j) \/ Repeat(l, j)
             \/ \E i \in Installs : Unregister(i, l) \/ \E p \in Tokens : Register(i, l, p)
             \/ SignOut(l)
      PROVE  RequestInv' /\ [Promise!Next]_(Promise!vars)
    <2>1. ASSUME \/ \E i \in Installs : Unregister(i, l) \/ \E p \in Tokens : Register(i, l, p)
                 \/ SignOut(l)
          PROVE  UNCHANGED <<process, status, credential, accepted, event, worker, runs>>
        BY <2>1 DEF Unregister, Register, SignOut, jobVars
    <2>2. UNCHANGED <<process, status, credential, accepted, event, worker, runs>> =>
             RequestInv' /\ [Promise!Next]_(Promise!vars)
        BY RequestsRest DEF RequestInv, RequestTypes
    <2> QED BY <1>6, <2>1, <2>2, EnqueueKeeps, RepeatKeeps
<1>7. ASSUME NEW a \in Actions, Publish(a)
      PROVE  RequestInv' /\ [Promise!Next]_(Promise!vars)
    BY <1>7, PublishKeeps
<1>8. CASE (\E u \in Owners : Reassign(u)) \/ (\E e \in Events : Age(e)) \/ \E row \in outbox : Due(row)
    <2>1. UNCHANGED <<process, status, credential, accepted, event, worker, runs>>
        BY <1>8 DEF Reassign, Age, Due, jobVars
    <2> QED BY <2>1, RequestsRest DEF RequestInv, RequestTypes
<1> QED BY <1>1, <1>2, <1>3, <1>4, <1>5, <1>6, <1>7, <1>8 DEF Next

\* What the pusher, the handlers and the answers do to notifications.
LEMMA PushesKept ==
    ASSUME RequestInv, PushInv, [Next]_vars
    PROVE  PushInv'
<1>1. UNCHANGED <<event, outbox, device, pusher, seals>> => PushInv'
    BY PushesRest
<1>2. ASSUME NEW j \in Jobs, NEW kind \in Answers, Finish(j, kind),
             UNCHANGED <<device, pusher, seals>>
      PROVE  PushInv'
    BY <1>2, Names, AppendedKeeps DEF Finish
<1>3. CASE UNCHANGED vars
    BY <1>1, <1>3 DEF vars
<1>4. CASE Work
    <2>1. ASSUME NotStarted \/ Replies \/ Unclear
          PROVE  PushInv'
        <3>1. \E kind \in Answers : Finish(worker.job, kind) /\ UNCHANGED <<device, pusher, seals>>
            BY <2>1 DEF NotStarted, Replies, Unclear, Answers, pushVars
        <3>2. worker.job \in Jobs
            BY <2>1 DEF NotStarted, Replies, Unclear, RequestInv, Working
        <3> QED BY <1>2, <3>1, <3>2
    <2>2. ASSUME RunStarts \/ \E j \in Jobs : Claim(j)
          PROVE  UNCHANGED <<event, outbox, device, pusher, seals>>
        BY <2>2 DEF RunStarts, Claim, pushVars
    <2> QED BY <1>1, <1>4, <2>1, <2>2 DEF Work
<1>5. CASE Deliver
    <2>1. ASSUME PushFails PROVE PushInv'
        BY <2>1, PutOff DEF PushFails
    <2> QED BY <1>5, <2>1, FetchKeeps, TurnKeeps, DoneKeeps, PushStartsKeeps DEF Deliver
<1>6. CASE Boot
    <2>1. ASSUME NEW j \in Jobs, Recover(j) PROVE PushInv'
        BY <1>2, <2>1 DEF Recover, pushVars, Answers
    <2>2. ASSUME Exit \/ Restart \/ Recovered
          PROVE  UNCHANGED <<event, outbox, device, pusher, seals>>
        BY <2>2 DEF Exit, Restart, Recovered, pushVars
    <2> QED BY <1>1, <1>6, <2>1, <2>2 DEF Boot
<1>7. CASE WorkerBreaks \/ Stop
    BY <1>1, <1>7 DEF WorkerBreaks, Stop, pushVars
<1>8. CASE Crash
    BY <1>8, RoundEnds DEF Crash
<1>9. ASSUME NEW l \in Logins,
             \/ \E j \in Jobs : Enqueue(l, j) \/ Repeat(l, j)
             \/ \E i \in Installs : Unregister(i, l) \/ \E p \in Tokens : Register(i, l, p)
             \/ SignOut(l)
      PROVE  PushInv'
    <2>1. ASSUME SignOut(l) \/ \E j \in Jobs : Enqueue(l, j) \/ Repeat(l, j)
          PROVE  UNCHANGED <<event, outbox, device, pusher, seals>>
        BY <2>1 DEF SignOut, Enqueue, Repeat, pushVars
    <2> QED BY <1>1, <1>9, <2>1, RegisterKeeps, UnregisterKeeps
<1>10. ASSUME NEW a \in Actions, Publish(a)
       PROVE  PushInv'
    BY <1>10, Names, AppendedKeeps DEF Publish, pushVars
<1>11. CASE (\E u \in Owners : Reassign(u)) \/ \E e \in Events : Age(e)
    BY <1>1, <1>11 DEF Reassign, Age, pushVars
<1>12. ASSUME NEW row \in outbox, Due(row)
       PROVE  PushInv'
    BY <1>12, DueKeeps
<1> QED BY <1>3, <1>4, <1>5, <1>6, <1>7, <1>8, <1>9, <1>10, <1>11, <1>12 DEF Next

\* Accounts, logins and crashes stay what they are.
LEMMA OthersKept ==
    ASSUME OtherTypes, [Next]_vars
    PROVE  OtherTypes'
<1> USE DEF OtherTypes
<1>1. CASE UNCHANGED <<owner, revoked, aged>> /\ crashes' \in {crashes, crashes + 1}
           /\ (crashes' = crashes \/ crashes < MaxCrashes)
    BY <1>1, RelayAssumption
<1>2. CASE \E l \in Logins : SignOut(l)
    BY <1>2 DEF SignOut
<1>3. CASE \E u \in Owners : Reassign(u)
    BY <1>3 DEF Reassign
<1>4. CASE \E e \in Events : Age(e)
    BY <1>4 DEF Age, account
<1>5. CASE Work \/ Deliver
    <2>1. UNCHANGED <<owner, revoked, aged, crashes>>
        BY <1>5 DEF Work, Deliver, Claim, RunStarts, NotStarted, Replies, Unclear, Fetch,
                    PushDropped, PushSkipped, PushStarts, PushSent, PushInvalid, PushFails, Turn,
                    account
    <2> QED BY <1>1, <2>1
<1>6. CASE Boot \/ WorkerBreaks \/ Stop \/ Crash
    <2>1. /\ UNCHANGED <<owner, revoked, aged>> /\ crashes' \in {crashes, crashes + 1}
          /\ (crashes' = crashes \/ crashes < MaxCrashes)
        BY <1>6 DEF Boot, Exit, Restart, Recovered, Recover, WorkerBreaks, Stop, Crash, account
    <2> QED BY <1>1, <2>1
<1>7. ASSUME NEW l \in Logins,
             \/ \E j \in Jobs : Enqueue(l, j) \/ Repeat(l, j)
             \/ \E i \in Installs : Unregister(i, l) \/ \E p \in Tokens : Register(i, l, p)
      PROVE  OtherTypes'
    BY <1>7 DEF Enqueue, Repeat, Unregister, Register, account
<1>8. CASE (\E a \in Actions : Publish(a)) \/ \E row \in outbox : Due(row)
    BY <1>8 DEF Publish, Due, account
<1>9. CASE UNCHANGED vars
    BY <1>9 DEF vars
<1> QED BY <1>2, <1>3, <1>4, <1>5, <1>6, <1>7, <1>8, <1>9 DEF Next

\* At first nothing is asked for and nobody is registered.
LEMMA InitIInv == Init => IInv
<1> SUFFICES ASSUME Init PROVE IInv
    OBVIOUS
<1>1. RequestInv
    BY Names DEF Init, RequestInv, RequestTypes, Working, Ran, Told, Waiting
<1>2. InHand = {}
    BY DEF Init, Rest, InHand
<1>3. PushInv
    BY <1>2, RelayAssumption
       DEF Init, PushInv, PushTypes, Addressed, Counted, Distinct, Rest
<1>4. OtherTypes
    BY RelayAssumption DEF Init, OtherTypes
<1> QED BY <1>1, <1>3, <1>4 DEF IInv

\* What the worker has in hand, what the inbox tells and what waits in the outbox are as
\* the invariant says in every state the relay reaches.
THEOREM Invariant == Spec => []IInv
<1>1. IInv /\ [Next]_vars => IInv'
    BY RequestsKept, PushesKept, OthersKept DEF IInv
<1> QED BY <1>1, InitIInv, PTL DEF Spec

\* The variables keep their types; no notification is tried more than MaxAttempts times.
THEOREM TypeCorrect == Spec => []TypeOK
<1>1. IInv => TypeOK
    BY DEF IInv, RequestInv, RequestTypes, PushInv, PushTypes, OtherTypes, TypeOK
<1> QED BY <1>1, Invariant, PTL

\* The relay implements the promise of AtMostOnce, step by step: a request is accepted,
\* run at most once and answered once, truly, whatever crashes, breaks or is repeated.
THEOREM Implements == Spec => RunsAtMostOnce
<1>1. Init => Promise!Init
    <2> SUFFICES ASSUME Init PROVE Promise!Init
        OBVIOUS
    <2>1. \A j \in Jobs : status[j] = "none"
        BY DEF Init
    <2> QED BY <2>1 DEF Init, Promise!Init
<1>2. IInv /\ [Next]_vars => [Promise!Next]_(Promise!vars)
    BY RequestsKept DEF IInv
<1> QED BY <1>1, <1>2, Invariant, PTL DEF Spec, RunsAtMostOnce, Promise!Spec

\* A push starts to the registration its phone has at that moment and with a summary its
\* account may see, however the handlers changed either since the round began.
THEOREM Pushes == Spec => PushedToItsOwner
<1>1. ASSUME IInv, [Next]_vars, pusher.at = "auth", pusher'.at = "push"
      PROVE  LET item == pusher.item
                 now == device[item.device]
             IN  /\ now # None /\ now.token = item.reg.token
                 /\ User(now.login) = owner
                 /\ item.event \in Jobs => User(now.login) = User(item.event)
    <2>1. pusher.item \in Items
        BY <1>1 DEF IInv, PushInv, PushTypes, InHand
    <2>2. PushStarts
        <3>1. ASSUME Work \/ Boot \/ WorkerBreaks \/ Stop PROVE pusher' = pusher
            BY <3>1 DEF Work, Claim, RunStarts, NotStarted, Replies, Unclear, Boot, Exit, Restart,
                        Recovered, Recover, WorkerBreaks, Stop, pushVars
        <3>2. ASSUME NEW l \in Logins,
                     \/ \E j \in Jobs : Enqueue(l, j) \/ Repeat(l, j)
                     \/ \E i \in Installs : Unregister(i, l) \/ \E p \in Tokens : Register(i, l, p)
                     \/ SignOut(l)
              PROVE  pusher' = pusher
            BY <3>2 DEF Enqueue, Repeat, Unregister, Register, SignOut, pushVars
        <3>3. ASSUME \/ \E a \in Actions : Publish(a)
                     \/ \E u \in Owners : Reassign(u)
                     \/ \E e \in Events : Age(e)
                     \/ \E row \in outbox : Due(row)
              PROVE  pusher' = pusher
            BY <3>3 DEF Publish, Reassign, Age, Due, pushVars
        <3>4. ~Crash
            BY <1>1 DEF Crash, Rest
        <3>5. ASSUME PushDropped \/ PushSkipped \/ PushSent \/ PushInvalid \/ PushFails PROVE FALSE
            <4>1. Onward
                BY <3>5 DEF PushDropped, PushSkipped, PushSent, PushInvalid, PushFails
            <4> QED BY <1>1, <4>1, Done DEF IInv
        <3>6. ~Fetch /\ \A item \in pusher.todo : ~Turn(item)
            BY <1>1 DEF Fetch, Rest, Turn
        <3>7. pusher' # pusher
            BY <1>1
        <3> QED BY <1>1, <3>1, <3>2, <3>3, <3>4, <3>5, <3>6, <3>7 DEF Next, Deliver, vars
    <2>3. /\ IsCurrent(pusher.item) /\ ForItsUser(pusher.item)
        BY <2>2 DEF PushStarts
    <2>4. pusher.item.reg \in Registrations /\ pusher.item.reg # None
        BY <2>1, RelayAssumption DEF Items
    <2>5. \A j \in Jobs : User(j) # None
        BY RelayAssumption DEF Jobs, User
    <2> QED BY <2>3, <2>4, <2>5 DEF IsCurrent, ForItsUser, EventUser
<1>2. IInv /\ [Next]_vars =>
        [pusher.at = "auth" /\ pusher'.at = "push" =>
           LET item == pusher.item
               now == device[item.device]
           IN  /\ now # None /\ now.token = item.reg.token
               /\ User(now.login) = owner
               /\ item.event \in Jobs => User(now.login) = User(item.event)]_vars
    BY <1>1
<1> QED BY <1>2, Invariant, PTL DEF Spec, PushedToItsOwner
=============================================================================
