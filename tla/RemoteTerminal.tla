---------------------------- MODULE RemoteTerminal ----------------------------
(***************************************************************************)
(* The remote terminal broker (remote-terminal/broker.mjs) with the PTY    *)
(* transports it owns (transport.mjs, pty-bridge.py).                      *)
(*                                                                         *)
(* The broker is one Node process: what a handler does between two awaits  *)
(* is one action, and a request that waits is a record in req.  Every      *)
(* handler block starts with sweep(), so sweeping is part of its action.   *)
(* assigned(s) repeats sweep's credential test in the same block and has   *)
(* no effect of its own.  A request that is refused and changes nothing    *)
(* but the sweep is a Sweep step.                                          *)
(*                                                                         *)
(* Time is abstracted to what the code compares it with: clock[s] is       *)
(* "idle" after idleMs without a viewer request, "due" from s.expires.     *)
(* Deleting a session's record an hour later is left out: a session that   *)
(* ended and one that is not found are refused alike.  Shell mode, URLs,   *)
(* output and terminal size are data no property tells apart.              *)
(***************************************************************************)
EXTENDS Naturals, Sequences, FiniteSets

CONSTANTS
    Tenants,      \* the Claws
    Sessions,     \* identities of sessions: a bound on how many are created
    Shells,       \* identities of transports: a bound on how many are opened
    Requests,     \* slots for HTTP requests in flight at the same time
    Keys,         \* values a tenant's terminal credential takes
    None,         \* no credential, no session, no transport
    MaxActive,    \* 100 in the code
    MaxAttempts,  \* 5 in the code
    MaxRate,      \* 10 in the code
    MaxSeq,       \* bound on input sequence numbers
    MaxGen        \* bound on shell generations

ASSUME BrokerAssumption ==
    /\ None \notin Keys \cup Sessions \cup Shells \cup Tenants
    /\ MaxActive \in Nat \ {0} /\ MaxAttempts \in Nat \ {0} /\ MaxRate \in Nat
    /\ MaxSeq \in Nat /\ MaxGen \in Nat
    /\ IsFiniteSet(Sessions) /\ IsFiniteSet(Tenants)

VARIABLES
    phase,        \* the HTTP server: up, stopping (server.close called), closed
    key,          \* tenantCredential(tenant), owned by the control plane
    status,       \* s.status; "free" before the session exists
    tenantOf, ownerKey, attempts, transport, generation, lastInput,
    changing, inputTail,     \* s.changing, the requests chained on s.inputTail
    clock,        \* where now() stands against s.lastSeen and s.expires
    shell,        \* what became of each transport
    pipe,         \* inputs written to a shell's stdin and not yet to its PTY
    req, creating, rate,
    \* history: what the shells were made to type, the generation each shell
    \* was installed as, and how often each session's code was redeemed
    typed, installed, redeemed

sessionVars == <<tenantOf, ownerKey, transport, generation, lastInput>>
history == <<typed, installed, redeemed>>
vars == <<phase, key, status, tenantOf, ownerKey, attempts, transport, generation,
          lastInput, changing, inputTail, clock, shell, pipe, req, creating, rate,
          typed, installed, redeemed>>

Live == {"waiting", "connected"}
Ended == {"replaced", "revoked", "expired", "locked", "completed", "disconnected"}
Statuses == {"free"} \cup Live \cup Ended
ShellStates == {"none", "starting", "running", "dead", "closed"}
Stages == {"idle", "ready", "unlock", "body", "queued", "typing", "drain", "opening"}
Inputs == [seq : 1 .. MaxSeq, gen : 0 .. MaxGen]
InFlight == [at : Stages, tenant : Tenants \cup {None}, key : Keys \cup {None},
             session : Sessions \cup {None}, shell : Shells \cup {None},
             seq : 0 .. MaxSeq, gen : 0 .. MaxGen]
Idle == [at |-> "idle", tenant |-> None, key |-> None, session |-> None,
         shell |-> None, seq |-> 0, gen |-> 0]

TypeOK ==
    /\ phase \in {"up", "stopping", "closed"}
    /\ key \in [Tenants -> Keys \cup {None}]
    /\ status \in [Sessions -> Statuses]
    /\ tenantOf \in [Sessions -> Tenants \cup {None}]
    /\ ownerKey \in [Sessions -> Keys \cup {None}]
    /\ attempts \in [Sessions -> 0 .. MaxAttempts]
    /\ transport \in [Sessions -> Shells \cup {None}]
    /\ generation \in [Sessions -> 0 .. MaxGen]
    /\ lastInput \in [Sessions -> 0 .. MaxSeq]
    /\ changing \in [Sessions -> BOOLEAN]
    /\ inputTail \in [Sessions -> Seq(Requests)]
    /\ clock \in [Sessions -> {"fresh", "idle", "due"}]
    /\ shell \in [Shells -> ShellStates]
    /\ pipe \in [Shells -> Seq(Inputs)]
    /\ req \in [Requests -> InFlight]
    /\ creating \in SUBSET Tenants
    /\ rate \in [Tenants -> 0 .. MaxRate]
    /\ typed \in [Shells -> Seq(Inputs)]
    /\ installed \in [Shells -> 0 .. MaxGen]
    /\ redeemed \in [Sessions -> Nat]

Init ==
    /\ phase = "up"
    /\ key \in [Tenants -> Keys \cup {None}]
    /\ status = [s \in Sessions |-> "free"]
    /\ tenantOf = [s \in Sessions |-> None]
    /\ ownerKey = [s \in Sessions |-> None]
    /\ attempts = [s \in Sessions |-> 0]
    /\ transport = [s \in Sessions |-> None]
    /\ generation = [s \in Sessions |-> 0]
    /\ lastInput = [s \in Sessions |-> 0]
    /\ changing = [s \in Sessions |-> FALSE]
    /\ inputTail = [s \in Sessions |-> <<>>]
    /\ clock = [s \in Sessions |-> "fresh"]
    /\ shell = [h \in Shells |-> "none"]
    /\ pipe = [h \in Shells |-> <<>>]
    /\ req = [r \in Requests |-> Idle]
    /\ creating = {}
    /\ rate = [t \in Tenants |-> 0]
    /\ typed = [h \in Shells |-> <<>>]
    /\ installed = [h \in Shells |-> 0]
    /\ redeemed = [s \in Sessions |-> 0]

------------------------------------------------------------------------------
(* Sessions end through end(s, reason), which closes the transport of a      *)
(* session that was still live.                                              *)

Active(s) == status[s] \in Live
ActiveSessions == {s \in Sessions : Active(s)}
Entitled(s) == ownerKey[s] = key[tenantOf[s]]
Overdue(s) == \/ clock[s] = "due"
              \/ status[s] = "connected" /\ clock[s] = "idle"

VerdictByTimeOnly(s) ==
    IF Active(s) /\ Overdue(s) THEN "expired" ELSE status[s]

\* The status sweep() leaves a session with.
Verdict(s) ==
    IF Active(s) /\ ~Entitled(s) THEN "revoked"
    ELSE IF Active(s) /\ Overdue(s) THEN "expired"
    ELSE status[s]

Swept == [s \in Sessions |-> Verdict(s)]

LeftOpen(st) == shell

\* The transports once the sessions' statuses are st: a session that st ends is closed.
ClosedBy(st) ==
    [h \in Shells |->
        IF \E s \in ActiveSessions : transport[s] = h /\ st[s] \notin Live
        THEN "closed" ELSE shell[h]]

Become(st) == status' = st /\ shell' = ClosedBy(st)

Sweep ==
    /\ phase # "closed"
    /\ Become(Swept)
    /\ UNCHANGED <<phase, key, sessionVars, attempts, changing, inputTail, clock,
                   pipe, req, creating, rate, history>>

Answer(r) == req' = [req EXCEPT ![r] = Idle]

\* Bound: a transport is only asked for while one is left for each shell request
\* that already waits for its own.
SpareShell == Cardinality({h \in Shells : shell[h] = "none"})
                > Cardinality({r \in Requests : req[r].at = "drain"})

------------------------------------------------------------------------------
(* POST /sessions and /account/sessions.  The handler block starts after the *)
(* body was read, without a sweep.                                           *)

BusyButForCreating == Cardinality(ActiveSessions)

Busy == Cardinality(ActiveSessions) + Cardinality(creating)

Create(r, t, h) ==
    /\ phase # "closed" /\ req[r].at = "idle"
    /\ key[t] # None
    /\ t \notin creating
    /\ Busy < MaxActive
    /\ rate[t] < MaxRate
    /\ SpareShell /\ shell[h] = "none"
    /\ rate' = [rate EXCEPT ![t] = @ + 1]
    /\ creating' = creating \cup {t}
    /\ shell' = [shell EXCEPT ![h] = "starting"]
    /\ req' = [req EXCEPT ![r] =
                 [Idle EXCEPT !.at = "ready", !.tenant = t, !.key = key[t], !.shell = h]]
    /\ UNCHANGED <<phase, key, status, sessionVars, attempts, changing, inputTail,
                   clock, pipe, history>>

\* The credential the request was admitted with is still the tenant's.
StillEntitled(r) == key[req[r].tenant] = req[r].key

Alongside(t, id) == [status EXCEPT ![id] = "waiting"]

\* The statuses once id replaces the tenant's other sessions.
Replacing(t, id) == [s \in Sessions |-> IF s = id THEN "waiting"
                                        ELSE IF Active(s) /\ tenantOf[s] = t THEN "replaced"
                                        ELSE status[s]]

\* transport.ready resolved: recheck the credential, end the tenant's other
\* sessions, issue the new one.
Issue(r, id) ==
    LET t == req[r].tenant
        h == req[r].shell
    IN  /\ req[r].at = "ready" /\ shell[h] = "running"
        /\ StillEntitled(r)
        /\ status[id] = "free"
        /\ Become(Replacing(t, id))
        /\ tenantOf' = [tenantOf EXCEPT ![id] = t]
        /\ ownerKey' = [ownerKey EXCEPT ![id] = req[r].key]
        /\ transport' = [transport EXCEPT ![id] = h]
        /\ creating' = creating \ {t}
        /\ Answer(r)
        /\ UNCHANGED <<phase, key, attempts, generation, lastInput, changing, inputTail,
                       clock, pipe, rate, history>>

\* The credential changed while the transport started, or it did not start.
CreateFails(r) ==
    LET h == req[r].shell
    IN  /\ req[r].at = "ready"
        /\ \/ shell[h] \in {"dead", "closed"}
           \/ shell[h] = "running" /\ ~StillEntitled(r)
        /\ shell' = [shell EXCEPT ![h] = "closed"]
        /\ creating' = creating \ {req[r].tenant}
        /\ Answer(r)
        /\ UNCHANGED <<phase, key, status, sessionVars, attempts, changing, inputTail,
                       clock, pipe, rate, history>>

\* DELETE /sessions/<id> by the Claw that owns it.
Revoke(s) ==
    /\ phase = "up" /\ status[s] # "free"
    /\ key[tenantOf[s]] # None
    /\ Become([Swept EXCEPT ![s] = IF @ \in Live THEN "revoked" ELSE @])
    /\ UNCHANGED <<phase, key, sessionVars, attempts, changing, inputTail, clock,
                   pipe, req, creating, rate, history>>

------------------------------------------------------------------------------
(* POST /<id>/unlock: admitted, waits for its body, then decided.            *)

UnlockArrives(r, s) ==
    /\ phase = "up" /\ req[r].at = "idle"
    /\ Swept[s] \in Live
    /\ Become(Swept)
    /\ req' = [req EXCEPT ![r] = [Idle EXCEPT !.at = "unlock", !.session = s]]
    /\ UNCHANGED <<phase, key, sessionVars, attempts, changing, inputTail, clock,
                   pipe, creating, rate, history>>

StillOpen(r) == Swept[req[r].session] \in Live

\* Checked again after the body: the code has not been used meanwhile.
Redeemable(r) == Swept[req[r].session] = "waiting"

UnlockRight(r) ==
    LET s == req[r].session
    IN  /\ req[r].at = "unlock" /\ Redeemable(r)
        /\ Become([Swept EXCEPT ![s] = "connected"])
        /\ clock' = [clock EXCEPT ![s] = "fresh"]
        /\ redeemed' = [redeemed EXCEPT ![s] = @ + 1]
        /\ Answer(r)
        /\ UNCHANGED <<phase, key, sessionVars, attempts, changing, inputTail,
                       pipe, creating, rate, typed, installed>>

LocksLate(s) == attempts[s] + 1 > MaxAttempts

\* The wrong code that locks the session.
Locks(s) == attempts[s] + 1 >= MaxAttempts

UnlockWrong(r) ==
    LET s == req[r].session
    IN  /\ req[r].at = "unlock" /\ Redeemable(r)
        /\ attempts' = [attempts EXCEPT ![s] = @ + 1]
        /\ Become([Swept EXCEPT ![s] = IF Locks(s) THEN "locked" ELSE @])
        /\ Answer(r)
        /\ UNCHANGED <<phase, key, sessionVars, changing, inputTail, clock,
                       pipe, creating, rate, history>>

UnlockLate(r) ==
    /\ req[r].at = "unlock" /\ ~Redeemable(r)
    /\ Become(Swept) /\ Answer(r)
    /\ UNCHANGED <<phase, key, sessionVars, attempts, changing, inputTail, clock,
                   pipe, creating, rate, history>>

------------------------------------------------------------------------------
(* Requests of the viewer who redeemed the code.                             *)

\* GET state and output.
Poll(s) ==
    /\ phase = "up" /\ Swept[s] = "connected"
    /\ Become(Swept)
    /\ clock' = [clock EXCEPT ![s] = "fresh"]
    /\ UNCHANGED <<phase, key, sessionVars, attempts, changing, inputTail,
                   pipe, req, creating, rate, history>>

\* The time of this last request is never read again.
Complete(s) ==
    /\ phase = "up" /\ Swept[s] = "connected"
    /\ Become([Swept EXCEPT ![s] = "completed"])
    /\ UNCHANGED <<phase, key, sessionVars, attempts, changing, inputTail, clock,
                   pipe, req, creating, rate, history>>

\* input, resize and shell are admitted, then wait for their body.
ViewerArrives(r, s) ==
    /\ phase = "up" /\ req[r].at = "idle"
    /\ Swept[s] = "connected"
    /\ Become(Swept)
    /\ clock' = [clock EXCEPT ![s] = "fresh"]
    /\ req' = [req EXCEPT ![r] = [Idle EXCEPT !.at = "body", !.session = s]]
    /\ UNCHANGED <<phase, key, sessionVars, attempts, changing, inputTail,
                   pipe, creating, rate, history>>

\* The body of an unlock or viewer request is too large or no JSON object.
BodyRefused(r) ==
    /\ req[r].at \in {"unlock", "body"}
    /\ Answer(r)
    /\ UNCHANGED <<phase, key, status, sessionVars, attempts, changing, inputTail, clock,
                   shell, pipe, creating, rate, history>>

\* Refused after its body, or a resize: it has no effect on the session (a resize
\* the bridge does not answer in time closes the transport, see ShellGivenUp).
ViewerAnswered(r) ==
    /\ req[r].at = "body"
    /\ Become(Swept) /\ Answer(r)
    /\ UNCHANGED <<phase, key, sessionVars, attempts, changing, inputTail, clock,
                   pipe, creating, rate, history>>

AcceptsAnyGeneration(s, g) == ~changing[s]

Accepts(s, g) == ~changing[s] /\ g = generation[s]

\* An input is accepted for the shell generation its sender saw and chained
\* behind the inputs before it.
InputAccepted(r, n, g) ==
    LET s == req[r].session
    IN  /\ req[r].at = "body" /\ Swept[s] = "connected"
        /\ Accepts(s, g)
        /\ Become(Swept)
        /\ req' = [req EXCEPT ![r].at = "queued", ![r].seq = n, ![r].gen = g]
        /\ inputTail' = [inputTail EXCEPT ![s] = Append(@, r)]
        /\ UNCHANGED <<phase, key, sessionVars, attempts, changing, clock,
                       pipe, creating, rate, history>>

\* The chained continuation of an input starts once those before it settled.
Turn(r) == /\ req[r].at = "queued"
           /\ Head(inputTail[req[r].session]) = r

SettleForgetful(r) == Answer(r) /\ UNCHANGED inputTail

Settle(r) ==
    /\ Answer(r)
    /\ inputTail' = [inputTail EXCEPT ![req[r].session] = Tail(@)]

\* The session ended, a retry of the last input, or a sequence gap.
InputRefused(r) ==
    LET s == req[r].session
    IN  /\ Turn(r)
        /\ Swept[s] # "connected" \/ req[r].seq # lastInput[s] + 1
        /\ Become(Swept) /\ Settle(r)
        /\ UNCHANGED <<phase, key, sessionVars, attempts, changing, clock,
                       pipe, creating, rate, history>>

InputSent(r) ==
    LET s == req[r].session
        h == transport[s]
    IN  /\ Turn(r)
        /\ Swept[s] = "connected" /\ req[r].seq = lastInput[s] + 1
        /\ shell[h] = "running"
        /\ Become(Swept)
        /\ pipe' = [pipe EXCEPT ![h] = Append(@, [seq |-> req[r].seq, gen |-> req[r].gen])]
        /\ req' = [req EXCEPT ![r].at = "typing", ![r].shell = h]
        /\ UNCHANGED <<phase, key, sessionVars, attempts, changing, inputTail, clock,
                       creating, rate, history>>

\* The transport has gone by the time the input's turn comes.
InputUnsendable(r) ==
    LET s == req[r].session
    IN  /\ Turn(r)
        /\ Swept[s] = "connected" /\ req[r].seq = lastInput[s] + 1
        /\ shell[transport[s]] # "running"
        /\ Become([Swept EXCEPT ![s] = "disconnected"]) /\ Settle(r)
        /\ UNCHANGED <<phase, key, sessionVars, attempts, changing, clock,
                       pipe, creating, rate, history>>

NotAwaited(h) == shell[h] = "running"

\* The bridge replies once it wrote the whole input to the PTY.
Replied(h) == shell[h] = "running" /\ pipe[h] = <<>>

InputAcked(r) ==
    /\ req[r].at = "typing" /\ Replied(req[r].shell)
    /\ lastInput' = [lastInput EXCEPT ![req[r].session] = req[r].seq]
    /\ Settle(r)
    /\ UNCHANGED <<phase, key, status, tenantOf, ownerKey, transport, generation,
                   attempts, changing, clock, shell, pipe, creating, rate, history>>

LoseUnguarded(s) == "disconnected"

\* end(s, 'disconnected'), which leaves an ended session as it is.
Lose(s) == IF Active(s) THEN "disconnected" ELSE status[s]

\* The bridge did not answer: it exited, was closed, or the request timed out and
\* closed it.  The session is ended unless it has ended already.
InputFails(r) ==
    LET s == req[r].session
        h == req[r].shell
    IN  /\ req[r].at = "typing"
        /\ status' = [status EXCEPT ![s] = Lose(s)]
        /\ shell' = [shell EXCEPT ![h] = "closed"]
        /\ Settle(r)
        /\ UNCHANGED <<phase, key, sessionVars, attempts, changing, clock,
                       pipe, creating, rate, history>>

------------------------------------------------------------------------------
(* POST /<id>/shell: drain the inputs, open the next shell, swap.            *)

ShellAsked(r) ==
    LET s == req[r].session
    IN  /\ req[r].at = "body" /\ Swept[s] = "connected"
        /\ ~changing[s]
        /\ SpareShell /\ generation[s] < MaxGen
        /\ Become(Swept)
        /\ changing' = [changing EXCEPT ![s] = TRUE]
        /\ req' = [req EXCEPT ![r].at = "drain"]
        /\ UNCHANGED <<phase, key, sessionVars, attempts, inputTail, clock,
                       pipe, creating, rate, history>>

ShellOpening(r, h) ==
    /\ req[r].at = "drain" /\ inputTail[req[r].session] = <<>>
    /\ shell[h] = "none"
    /\ shell' = [shell EXCEPT ![h] = "starting"]
    /\ req' = [req EXCEPT ![r].at = "opening", ![r].shell = h]
    /\ UNCHANGED <<phase, key, status, sessionVars, attempts, changing, inputTail,
                   clock, pipe, creating, rate, history>>

ShellSwapped(r) ==
    LET s == req[r].session
        h == req[r].shell
    IN  /\ req[r].at = "opening" /\ shell[h] = "running"
        /\ Swept[s] = "connected"
        /\ status' = Swept
        /\ shell' = [ClosedBy(Swept) EXCEPT ![transport[s]] = "closed"]
        /\ transport' = [transport EXCEPT ![s] = h]
        /\ lastInput' = [lastInput EXCEPT ![s] = 0]
        /\ generation' = [generation EXCEPT ![s] = @ + 1]
        /\ installed' = [installed EXCEPT ![h] = generation[s] + 1]
        /\ changing' = [changing EXCEPT ![s] = FALSE]
        /\ Answer(r)
        /\ UNCHANGED <<phase, key, tenantOf, ownerKey, attempts, inputTail, clock,
                       pipe, creating, rate, typed, redeemed>>

Stuck(s) == changing

\* The finally block of the shell change.
NoLonger(s) == [changing EXCEPT ![s] = FALSE]

\* The new shell did not start, or the session ended meanwhile: close the new one.
ShellNotSwapped(r) ==
    LET s == req[r].session
        h == req[r].shell
        st == IF shell[h] = "running" THEN Swept ELSE status
    IN  /\ req[r].at = "opening"
        /\ \/ shell[h] \in {"dead", "closed"}
           \/ shell[h] = "running" /\ Swept[s] # "connected"
        /\ status' = st
        /\ shell' = [ClosedBy(st) EXCEPT ![h] = "closed"]
        /\ changing' = NoLonger(s)
        /\ Answer(r)
        /\ UNCHANGED <<phase, key, sessionVars, attempts, inputTail, clock,
                       pipe, creating, rate, history>>

------------------------------------------------------------------------------
(* The transports.                                                           *)

ShellReady(h) ==
    /\ shell[h] = "starting"
    /\ shell' = [shell EXCEPT ![h] = "running"]
    /\ UNCHANGED <<phase, key, status, sessionVars, attempts, changing, inputTail,
                   clock, pipe, req, creating, rate, history>>

\* The bridge exits, and what was in its stdin is lost.
ShellDies(h) ==
    /\ shell[h] \in {"starting", "running"}
    /\ shell' = [shell EXCEPT ![h] = "dead"]
    /\ pipe' = [pipe EXCEPT ![h] = <<>>]
    /\ UNCHANGED <<phase, key, status, sessionVars, attempts, changing, inputTail,
                   clock, req, creating, rate, history>>

\* The transport closes itself: the bridge was not ready in time, left a resize
\* unanswered or sent what cannot be read.
ShellGivenUp(h) ==
    /\ shell[h] \in {"starting", "running"}
    /\ shell' = [shell EXCEPT ![h] = "closed"]
    /\ UNCHANGED <<phase, key, status, sessionVars, attempts, changing, inputTail,
                   clock, pipe, req, creating, rate, history>>

\* The bridge writes a pending input to the PTY and replies.  Input that was in
\* its stdin before a close may still be written.
ShellTypes(h) ==
    /\ shell[h] \in {"running", "closed"}
    /\ pipe[h] # <<>>
    /\ typed' = [typed EXCEPT ![h] = Append(@, Head(pipe[h]))]
    /\ pipe' = [pipe EXCEPT ![h] = Tail(@)]
    /\ UNCHANGED <<phase, key, status, sessionVars, attempts, changing, inputTail,
                   clock, shell, req, creating, rate, installed, redeemed>>

------------------------------------------------------------------------------
(* The environment: the control plane changes a credential (assignment,      *)
(* suppression, offboarding, rotation), time passes, the process is stopped. *)

Rotate(t, k) ==
    /\ key[t] # k
    /\ key' = [key EXCEPT ![t] = k]
    /\ UNCHANGED <<phase, status, sessionVars, attempts, changing, inputTail, clock,
                   shell, pipe, req, creating, rate, history>>

Age(s) ==
    /\ \/ /\ status[s] = "connected" /\ clock[s] = "fresh"
          /\ clock' = [clock EXCEPT ![s] = "idle"]
       \/ /\ Active(s) /\ clock[s] # "due"
          /\ clock' = [clock EXCEPT ![s] = "due"]
    /\ UNCHANGED <<phase, key, status, sessionVars, attempts, changing, inputTail,
                   shell, pipe, req, creating, rate, history>>

\* sweep() drops a tenant's rate record once its ten minutes are over.
RateForgotten(t) ==
    /\ rate[t] > 0
    /\ rate' = [rate EXCEPT ![t] = 0]
    /\ UNCHANGED <<phase, key, status, sessionVars, attempts, changing, inputTail,
                   clock, shell, pipe, req, creating, history>>

KeepSessions == status

Disconnected == [s \in Sessions |-> IF Active(s) THEN "disconnected" ELSE status[s]]

Shutdown ==
    /\ phase = "up" /\ phase' = "stopping"
    /\ Become(Disconnected)
    /\ UNCHANGED <<key, sessionVars, attempts, changing, inputTail, clock,
                   pipe, req, creating, rate, history>>

\* The server's close event, once every request in flight has been answered.
ServerClosed ==
    /\ phase = "stopping" /\ \A r \in Requests : req[r].at = "idle"
    /\ phase' = "closed"
    /\ Become(Disconnected)
    /\ UNCHANGED <<key, sessionVars, attempts, changing, inputTail, clock,
                   pipe, req, creating, rate, history>>

------------------------------------------------------------------------------
\* What a request in flight does next; each await in the code has its own timeout.
Proceed(r) ==
    \/ \E id \in Sessions : Issue(r, id)
    \/ CreateFails(r)
    \/ UnlockRight(r) \/ UnlockWrong(r) \/ UnlockLate(r)
    \/ BodyRefused(r) \/ ViewerAnswered(r)
    \/ InputRefused(r) \/ InputSent(r) \/ InputUnsendable(r)
    \/ InputAcked(r) \/ InputFails(r)
    \/ \E h \in Shells : ShellOpening(r, h)
    \/ ShellSwapped(r) \/ ShellNotSwapped(r)

Next ==
    \/ Sweep \/ Shutdown \/ ServerClosed
    \/ \E r \in Requests :
          \/ Proceed(r)
          \/ \E t \in Tenants, h \in Shells : Create(r, t, h)
          \/ \E s \in Sessions : UnlockArrives(r, s) \/ ViewerArrives(r, s)
          \/ \E n \in 1 .. MaxSeq, g \in 0 .. MaxGen : InputAccepted(r, n, g)
          \/ ShellAsked(r)
    \/ \E s \in Sessions : Revoke(s) \/ Poll(s) \/ Complete(s) \/ Age(s)
    \/ \E h \in Shells : ShellReady(h) \/ ShellDies(h) \/ ShellGivenUp(h) \/ ShellTypes(h)
    \/ \E t \in Tenants : RateForgotten(t) \/ \E k \in Keys \cup {None} : Rotate(t, k)

\* A transport becomes ready or fails within its ten seconds, and every await of a
\* request in flight is bounded by a timer.
Fairness ==
    /\ \A r \in Requests : WF_vars(Proceed(r))
    /\ \A h \in Shells : WF_vars(ShellReady(h) \/ ShellDies(h) \/ ShellGivenUp(h))

Spec == Init /\ [][Next]_vars
FairSpec == Spec /\ Fairness

------------------------------------------------------------------------------
\* A Claw has at most one live terminal, although creation awaits its transport
\* while other requests of the same Claw are served (broker.mjs:56-69).
OneTerminalPerTenant ==
    \A s1, s2 \in ActiveSessions : tenantOf[s1] = tenantOf[s2] => s1 = s2

\* Every shell that runs is the transport of a live session or is being opened by
\* a request in flight: no failure or race leaves a shell nobody can close.
Holders(h) == {s \in ActiveSessions : transport[s] = h}
Openers(h) == {r \in Requests : req[r].at \in {"ready", "opening"} /\ req[r].shell = h}
ShellsAreHeld ==
    \A h \in Shells : shell[h] \in {"starting", "running"} => Holders(h) \cup Openers(h) # {}

\* What a shell is made to type is the inputs 1, 2, 3 ... in order, each once, and
\* each sent for the generation this shell was opened as: retries, overlapping
\* requests and requests delayed across a shell change type nothing else.
TypedOnceInOrder ==
    \A h \in Shells : \A i \in DOMAIN typed[h] :
        typed[h][i] = [seq |-> i, gen |-> installed[h]]

\* An acknowledged input has been typed into the session's current shell.
AckedWasTyped ==
    \A s \in Sessions : transport[s] # None => lastInput[s] <= Len(typed[transport[s]])

\* Live and prepared terminals together stay within the broker's limit.
CapacityKept == Cardinality(ActiveSessions) + Cardinality(creating) <= MaxActive

\* A session's code is redeemed at most once, by whichever request wins.
CodeRedeemedOnce == \A s \in Sessions : redeemed[s] <= 1

\* A session refuses further shell changes only while a request is making one.
ChangingIsOwned ==
    \A s \in Sessions : changing[s] <=>
        \E r \in Requests : req[r].at \in {"drain", "opening"} /\ req[r].session = s

\* A stopped broker leaves no shell running, also when it was stopped while
\* shells were being opened.
ClosedLeavesNoShell ==
    phase = "closed" => \A h \in Shells : shell[h] \notin {"starting", "running"}

\* The reason a session ended for is never overwritten by a later event.
EndedIsFinal ==
    [][\A s \in Sessions : status[s] \in Ended => status'[s] = status[s]]_vars

\* A session is issued, and input is handed to its shell, only while the tenant's
\* credential is the one the session was created under, however long the request
\* waited for a transport, a body or the inputs before it.
RevokedGetsNothing ==
    [][\A s \in Sessions :
         \/ status[s] = "free" /\ status'[s] = "waiting"
         \/ Active(s) /\ Len(pipe'[transport[s]]) > Len(pipe[transport[s]])
         => ownerKey'[s] = key[tenantOf'[s]]]_vars

\* Every request is answered: no await waits forever on another one.
EveryRequestAnswered == \A r \in Requests : req[r].at # "idle" ~> req[r].at = "idle"
=============================================================================
