----------------------------- MODULE RemoteConnect -----------------------------
(***************************************************************************)
(* The broker of remote browser logins and of remote dashboards            *)
(* (remote-connect/broker.mjs, used by both servers) with the connections  *)
(* it opens into the Claw's container (remote-connect/transport.mjs and    *)
(* remote-dashboard/proxy-transport.mjs).                                  *)
(*                                                                         *)
(* As in RemoteTerminal, an action is what a handler does between two      *)
(* awaits and a request that waits is a record in req; route() sweeps      *)
(* first, so sweeping is part of the action of every request that arrives. *)
(* Unlike the terminal's, this broker's end(s, status) has no guard.       *)
(*                                                                         *)
(* A connection is open from the moment its process or sockets are asked   *)
(* for.  Whoever waits for a reconnection goes on with it in the same      *)
(* step: only promise continuations lie between.  A ticket that has        *)
(* expired is one that is no longer there.  Tabs, pixels, the texts of     *)
(* errors, the rates of creation and of frames, which only refuse, are     *)
(* left out, and so is the deletion of a record an hour after its session. *)
(***************************************************************************)
EXTENDS Naturals, FiniteSets

CONSTANTS
    Tenants,
    Sessions,     \* identities of sessions: a bound on how many are created
    Conns,        \* identities of connections: a bound on how many are opened
    Requests,     \* slots for HTTP requests in flight at the same time
    Keys,         \* values a tenant's credential takes
    None,
    MaxActive,    \* 100 in the code
    MaxAttempts,  \* 5 in the code
    MaxTickets    \* bound on the tickets issued for a session

ASSUME ConnectAssumption ==
    /\ None \notin Tenants \cup Sessions \cup Conns \cup Keys
    /\ MaxActive \in Nat \ {0} /\ MaxAttempts \in Nat \ {0}
    /\ MaxTickets \in Nat
    /\ IsFiniteSet(Sessions)

VARIABLES
    kind,         \* publicPath: which of the two brokers this is
    phase,        \* the HTTP server: up, stopping, closed
    key,          \* tenantCredential(tenant)
    status,       \* s.status; "free" before the session exists
    tenantOf, ownerKey, attempts, transport, ticket,
    reconnecting, \* the connection s.reconnecting waits for
    framePending,
    clock,        \* where now() stands against s.lastSeen and s.expires
    conn,         \* what became of each connection
    file,         \* what onStatus last wrote for the Claw: a session and its status
    req, creating,
    \* history: how often a session's code and each of its tickets were redeemed,
    \* and how many tickets it was given
    redeemed, entered, issued

sessionVars == <<tenantOf, ownerKey, attempts, reconnecting, framePending>>
history == <<redeemed, entered, issued>>
vars == <<kind, phase, key, status, tenantOf, ownerKey, attempts, transport, ticket,
          reconnecting, framePending, clock, conn, file, req, creating,
          redeemed, entered, issued>>

Live == {"waiting", "connected"}
Ended == {"replaced", "revoked", "expired", "locked", "completed", "disconnected"}
Statuses == {"free"} \cup Live \cup Ended
Stages == {"idle", "select", "unlock", "enter", "body", "reconnect", "sent"}
Actions == {"tabs", "frame", "input", "tab"}
InFlight == [at : Stages, tenant : Tenants \cup {None}, key : Keys \cup {None},
             session : Sessions \cup {None}, conn : Conns \cup {None},
             action : Actions \cup {None}]
Idle == [at |-> "idle", tenant |-> None, key |-> None, session |-> None,
         conn |-> None, action |-> None]

TypeOK ==
    /\ kind \in {"connect", "dashboard"} /\ phase \in {"up", "stopping", "closed"}
    /\ key \in [Tenants -> Keys \cup {None}]
    /\ status \in [Sessions -> Statuses]
    /\ tenantOf \in [Sessions -> Tenants \cup {None}]
    /\ ownerKey \in [Sessions -> Keys \cup {None}]
    /\ attempts \in [Sessions -> 0 .. MaxAttempts]
    /\ transport \in [Sessions -> Conns \cup {None}]
    /\ ticket \in [Sessions -> 0 .. MaxTickets]
    /\ reconnecting \in [Sessions -> Conns \cup {None}]
    /\ framePending \in [Sessions -> BOOLEAN]
    /\ clock \in [Sessions -> {"fresh", "idle", "due"}]
    /\ conn \in [Conns -> {"none", "open", "closed"}]
    /\ file \in [Tenants -> [session : Sessions \cup {None}, status : Statuses]]
    /\ req \in [Requests -> InFlight]
    /\ creating \subseteq Tenants
    /\ redeemed \in [Sessions -> Nat]
    /\ entered \in [Sessions -> [1 .. MaxTickets -> Nat]]
    /\ issued \in [Sessions -> 0 .. MaxTickets]

Init ==
    /\ kind \in {"connect", "dashboard"} /\ phase = "up"
    /\ key \in [Tenants -> Keys \cup {None}]
    /\ status = [s \in Sessions |-> "free"]
    /\ tenantOf = [s \in Sessions |-> None]
    /\ ownerKey = [s \in Sessions |-> None]
    /\ attempts = [s \in Sessions |-> 0]
    /\ transport = [s \in Sessions |-> None]
    /\ ticket = [s \in Sessions |-> 0]
    /\ reconnecting = [s \in Sessions |-> None]
    /\ framePending = [s \in Sessions |-> FALSE]
    /\ clock = [s \in Sessions |-> "fresh"]
    /\ conn = [h \in Conns |-> "none"]
    /\ file = [t \in Tenants |-> [session |-> None, status |-> "free"]]
    /\ req = [r \in Requests |-> Idle]
    /\ creating = {}
    /\ redeemed = [s \in Sessions |-> 0]
    /\ entered = [s \in Sessions |-> [n \in 1 .. MaxTickets |-> 0]]
    /\ issued = [s \in Sessions |-> 0]

------------------------------------------------------------------------------
(* Sessions end through end(s, reason), whatever their status was.           *)

Active(s) == status[s] \in Live
ActiveSessions == {s \in Sessions : Active(s)}
Entitled(s) == ownerKey[s] = key[tenantOf[s]]
Overdue(s) == \/ clock[s] = "due"
              \/ status[s] = "connected" /\ clock[s] = "idle"

\* The statuses sweep() leaves the sessions with.
Verdict(s) ==
    IF Active(s) /\ ~Entitled(s) THEN "revoked"
    ELSE IF Active(s) /\ Overdue(s) THEN "expired"
    ELSE status[s]
Swept == [s \in Sessions |-> Verdict(s)]

NoneClosed(st) == conn

\* The connections once the sessions' statuses are st.
ClosedBy(st) ==
    [h \in Conns |-> IF \E s \in Sessions : transport[s] = h /\ st[s] \notin Live
                     THEN "closed" ELSE conn[h]]

\* What onStatus has written once the statuses are st, that of last (if any) last.
Written(st, last) ==
    [t \in Tenants |->
        IF last # None /\ tenantOf[last] = t THEN [session |-> last, status |-> st[last]]
        ELSE LET changed == {s \in Sessions : tenantOf[s] = t /\ st[s] # status[s]}
             IN  IF changed = {} THEN file[t]
                 ELSE LET s == CHOOSE s \in changed : TRUE
                      IN  [session |-> s, status |-> st[s]]]

WhileLive(st, f, ended) == [s \in Sessions |-> IF st[s] \in Live THEN f[s] ELSE ended]

Become(st, last) ==
    /\ status' = st /\ conn' = ClosedBy(st) /\ file' = Written(st, last)
    /\ transport' = WhileLive(st, transport, None)
    /\ ticket' = WhileLive(st, ticket, 0)

Sweep ==
    /\ phase # "closed"
    /\ Become(Swept, None)
    /\ UNCHANGED <<kind, phase, key, sessionVars, clock, req, creating, history>>

Answer(r) == req' = [req EXCEPT ![r] = Idle]

------------------------------------------------------------------------------
(* POST /sessions: the handler block starts after the body, without a sweep. *)

Create(r, t, h) ==
    /\ phase # "closed" /\ req[r].at = "idle"
    /\ key[t] # None /\ t \notin creating
    /\ Cardinality(ActiveSessions) < MaxActive
    /\ conn[h] = "none"
    /\ creating' = creating \cup {t}
    /\ conn' = [conn EXCEPT ![h] = "open"]
    /\ req' = [req EXCEPT ![r] =
                 [Idle EXCEPT !.at = "select", !.tenant = t, !.key = key[t], !.conn = h]]
    /\ UNCHANGED <<kind, phase, key, status, sessionVars, transport, ticket, clock, file, history>>

StillEntitled(r) == key[req[r].tenant] = req[r].key

Alongside(t, id) == [status EXCEPT ![id] = "waiting"]

Replacing(t, id) == [s \in Sessions |-> IF s = id THEN "waiting"
                                        ELSE IF Active(s) /\ tenantOf[s] = t THEN "replaced"
                                        ELSE status[s]]

\* The tab was reached: recheck the credential, end the tenant's other sessions,
\* issue the new one.
Issue(r, id) ==
    LET t == req[r].tenant
        st == Replacing(t, id)
    IN  /\ req[r].at = "select" /\ conn[req[r].conn] = "open" /\ StillEntitled(r)
        /\ status[id] = "free"
        /\ status' = st /\ conn' = ClosedBy(st)
        /\ transport' = [WhileLive(st, transport, None) EXCEPT ![id] = req[r].conn]
        /\ ticket' = WhileLive(st, ticket, 0)
        /\ tenantOf' = [tenantOf EXCEPT ![id] = t]
        /\ ownerKey' = [ownerKey EXCEPT ![id] = req[r].key]
        /\ file' = [file EXCEPT ![t] = [session |-> id, status |-> "waiting"]]
        /\ creating' = creating \ {t}
        /\ Answer(r)
        /\ UNCHANGED <<kind, phase, key, attempts, reconnecting, framePending, clock, history>>

\* The tab could not be reached, or the credential changed meanwhile.
CreateFails(r) ==
    /\ req[r].at = "select"
    /\ conn' = [conn EXCEPT ![req[r].conn] = "closed"]
    /\ creating' = creating \ {req[r].tenant}
    /\ Answer(r)
    /\ UNCHANGED <<kind, phase, key, status, sessionVars, transport, ticket, clock, file, history>>

\* DELETE /sessions/<id> by the Claw it belongs to.
Revoke(s) ==
    /\ phase = "up" /\ status[s] # "free" /\ key[tenantOf[s]] # None
    /\ Become([Swept EXCEPT ![s] = "revoked"], s)
    /\ UNCHANGED <<kind, phase, key, sessionVars, clock, req, creating, history>>

------------------------------------------------------------------------------
(* POST /<id>/unlock and, for dashboards, /handoff and /enter.               *)

\* A request for a session that has ended is refused when its body has come.
Arrives(r, s, stage) ==
    /\ phase = "up" /\ req[r].at = "idle" /\ Swept[s] \in Live
    /\ Become(Swept, None)
    /\ req' = [req EXCEPT ![r] = [Idle EXCEPT !.at = stage, !.session = s]]
    /\ UNCHANGED <<kind, phase, key, sessionVars, clock, creating, history>>

UnlockArrives(r, s) == Arrives(r, s, "unlock")
EnterArrives(r, s) == kind = "dashboard" /\ Arrives(r, s, "enter")

NotConnected(r) == Swept[req[r].session] # "connected"

\* Checked after the body: nobody has used the code meanwhile.
Redeemable(r) == Swept[req[r].session] = "waiting"

UnlockRight(r) ==
    LET s == req[r].session
    IN  /\ req[r].at = "unlock" /\ Redeemable(r)
        /\ Become([Swept EXCEPT ![s] = "connected"], s)
        /\ clock' = [clock EXCEPT ![s] = "fresh"]
        /\ redeemed' = [redeemed EXCEPT ![s] = @ + 1]
        /\ Answer(r)
        /\ UNCHANGED <<kind, phase, key, sessionVars, creating, entered, issued>>

\* The wrong code that locks the session.
Locks(s) == attempts[s] + 1 >= MaxAttempts

UnlockWrong(r) ==
    LET s == req[r].session
    IN  /\ req[r].at = "unlock" /\ Redeemable(r)
        /\ attempts' = [attempts EXCEPT ![s] = @ + 1]
        /\ IF Locks(s) THEN Become([Swept EXCEPT ![s] = "locked"], s) ELSE Become(Swept, None)
        /\ Answer(r)
        /\ UNCHANGED <<kind, phase, key, tenantOf, ownerKey, reconnecting, framePending, clock,
                       creating, history>>

UnlockLate(r) ==
    /\ req[r].at = "unlock" /\ ~Redeemable(r)
    /\ Become(Swept, None) /\ Answer(r)
    /\ UNCHANGED <<kind, phase, key, sessionVars, clock, creating, history>>

Handoff(s) ==
    /\ phase = "up" /\ kind = "dashboard" /\ Swept[s] = "connected"
    /\ issued[s] < MaxTickets
    /\ issued' = [issued EXCEPT ![s] = @ + 1]
    /\ status' = Swept /\ conn' = ClosedBy(Swept) /\ file' = Written(Swept, None)
    /\ transport' = WhileLive(Swept, transport, None)
    /\ ticket' = [WhileLive(Swept, ticket, 0) EXCEPT ![s] = issued[s] + 1]
    /\ clock' = [clock EXCEPT ![s] = "fresh"]
    /\ UNCHANGED <<kind, phase, key, sessionVars, req, creating, redeemed, entered>>

TicketExpires(s) ==
    /\ ticket[s] # 0
    /\ ticket' = [ticket EXCEPT ![s] = 0]
    /\ UNCHANGED <<kind, phase, key, status, sessionVars, transport, clock, conn, file, req,
                   creating, history>>

Seen(s) == [clock EXCEPT ![s] = IF @ = "due" THEN "due" ELSE "fresh"]

KeepTicket(s) == ticket
Tear(s) == [ticket EXCEPT ![s] = 0]

\* The right ticket, before it expired, for a session that is still connected.
Enter(r) ==
    LET s == req[r].session
    IN  /\ req[r].at = "enter" /\ status[s] = "connected" /\ ticket[s] # 0
        /\ IF Entitled(s)
           THEN /\ ticket' = Tear(s) /\ clock' = Seen(s)
                /\ entered' = [entered EXCEPT ![s][ticket[s]] = @ + 1]
                /\ UNCHANGED <<status, transport, conn, file>>
           ELSE /\ Become([status EXCEPT ![s] = "revoked"], s)
                /\ UNCHANGED <<clock, entered>>
        /\ Answer(r)
        /\ UNCHANGED <<kind, phase, key, sessionVars, creating, redeemed, issued>>

\* A body that cannot be used, or no (longer a) right ticket.
Refused(r) ==
    /\ req[r].at \in {"unlock", "enter", "body"}
    /\ Answer(r)
    /\ UNCHANGED <<kind, phase, key, status, sessionVars, transport, ticket, clock, conn, file,
                   creating, history>>

------------------------------------------------------------------------------
(* Requests of the viewer who redeemed the code.                             *)

\* The owner returned control.
Complete(s) ==
    /\ phase = "up" /\ Swept[s] = "connected"
    /\ Become([Swept EXCEPT ![s] = "completed"], s)
    /\ UNCHANGED <<kind, phase, key, sessionVars, clock, req, creating, history>>

\* authorizeViewer, for each request and message the dashboard proxy passes on.
Proxied(s) ==
    /\ phase = "up" /\ kind = "dashboard" /\ Swept[s] = "connected"
    /\ Become(Swept, None)
    /\ clock' = [clock EXCEPT ![s] = "fresh"]
    /\ UNCHANGED <<kind, phase, key, sessionVars, req, creating, history>>

\* input and tab are admitted, then wait for their body.
ViewerArrives(r, s, action) ==
    /\ phase = "up" /\ req[r].at = "idle" /\ Swept[s] = "connected"
    /\ Become(Swept, None)
    /\ clock' = [clock EXCEPT ![s] = "fresh"]
    /\ req' = [req EXCEPT ![r] = [Idle EXCEPT !.at = "body", !.session = s, !.action = action]]
    /\ UNCHANGED <<kind, phase, key, sessionVars, creating, history>>

Lost(s) == [status EXCEPT ![s] = "disconnected"]

\* The request was cut off before its body was complete: an error like any other.
BodyLost(r) ==
    /\ req[r].at = "body"
    /\ Become(Lost(req[r].session), req[r].session)
    /\ Answer(r)
    /\ UNCHANGED <<kind, phase, key, sessionVars, clock, creating, history>>

FrameFree(s) == ~framePending[s]

\* The requests that have come as far as transportRequest: state and frame at
\* once, input and tab with their body and without another look at the session.
Asks(r, s, action) ==
    \/ /\ req[r].at = "idle" /\ phase = "up" /\ Swept[s] = "connected"
       /\ \/ action = "tabs"
          \/ action = "frame" /\ FrameFree(s)
    \/ req[r].at = "body" /\ req[r].session = s /\ req[r].action = action
Before(r) == IF req[r].at = "idle" THEN Swept ELSE status
Noticed(r, s) == IF req[r].at = "idle" THEN [clock EXCEPT ![s] = "fresh"] ELSE clock

Usable(s) == transport[s] # None /\ conn[transport[s]] = "open"
InHand(s, action, stage, h) ==
    [Idle EXCEPT !.at = stage, !.session = s, !.conn = h, !.action = action]

Send(r, s, action) ==
    /\ Asks(r, s, action) /\ Usable(s)
    /\ Become(Before(r), None) /\ clock' = Noticed(r, s)
    /\ framePending' = [framePending EXCEPT ![s] = @ \/ action = "frame"]
    /\ req' = [req EXCEPT ![r] = InHand(s, action, "sent", transport[s])]
    /\ UNCHANGED <<kind, phase, key, tenantOf, ownerKey, attempts, reconnecting, creating, history>>

MayReconnect(action) == kind = "connect" /\ action # "input"

\* The connection is gone: open another or wait for the one that is being opened.
Reconnect(r, s, action) ==
    /\ Asks(r, s, action) /\ ~Usable(s)
    /\ MayReconnect(action)
    /\ status' = Before(r) /\ file' = Written(Before(r), None)
    /\ ticket' = WhileLive(Before(r), ticket, 0)
    /\ transport' = [WhileLive(Before(r), transport, None) EXCEPT ![s] = None]
    /\ clock' = Noticed(r, s)
    /\ IF reconnecting[s] = None
       THEN \E h \in Conns : /\ conn[h] = "none"
                             /\ conn' = [ClosedBy(Before(r)) EXCEPT ![h] = "open"]
                             /\ reconnecting' = [reconnecting EXCEPT ![s] = h]
       ELSE conn' = ClosedBy(Before(r)) /\ UNCHANGED reconnecting
    /\ framePending' = [framePending EXCEPT ![s] = @ \/ action = "frame"]
    /\ req' = [req EXCEPT ![r] = InHand(s, action, "reconnect", None)]
    /\ UNCHANGED <<kind, phase, key, tenantOf, ownerKey, attempts, creating, history>>

\* Input is never sent over a connection still to be made, and a dashboard is
\* never connected again.  A viewer who is still connected may retry an input.
Unavailable(r, s, action) ==
    /\ req[r].at = "body" /\ Asks(r, s, action)
    /\ ~Usable(s) /\ ~MayReconnect(action)
    /\ IF kind = "connect" /\ status[s] = "connected"
       THEN /\ transport' = [transport EXCEPT ![s] = None]
            /\ UNCHANGED <<status, ticket, conn, file>>
       ELSE Become(Lost(s), s)
    /\ Answer(r)
    /\ UNCHANGED <<kind, phase, key, sessionVars, clock, creating, history>>

\* The finally block of the frames among the requests R.
FrameDone(R) ==
    [s \in Sessions |->
        framePending[s] /\ ~\E r \in R : req[r].session = s /\ req[r].action = "frame"]

\* The reply of an open connection.  A dashboard's only knows tabs and select.
Replied(r) ==
    /\ req[r].at = "sent" /\ conn[req[r].conn] = "open"
    /\ kind = "connect" \/ req[r].action \in {"tabs", "tab"}
    /\ framePending' = FrameDone({r})
    /\ Answer(r)
    /\ UNCHANGED <<kind, phase, key, status, tenantOf, ownerKey, attempts, transport, ticket,
                   reconnecting, clock, conn, file, creating, history>>

\* The failures of a browser connection may all be retried, while the viewer is
\* connected; anything else ends the session.
Outcome(s) == IF kind = "connect" /\ status[s] = "connected" THEN status ELSE Lost(s)

\* An error was the reply, or the connection was closed with the request pending.
RequestFails(r) ==
    LET s == req[r].session
    IN  /\ req[r].at = "sent"
        /\ Become(Outcome(s), IF Outcome(s) = status /\ Active(s) THEN None ELSE s)
        /\ framePending' = FrameDone({r})
        /\ Answer(r)
        /\ UNCHANGED <<kind, phase, key, tenantOf, ownerKey, attempts, reconnecting, clock,
                       creating, history>>

Waiting(s) == {r \in Requests : req[r].at = "reconnect" /\ req[r].session = s}

WhateverBecame(s) == status[s] # "free"

\* Checked once the new connection is there, which may take as long as a timeout.
StillWanted(s) == status[s] = "connected"

\* The new connection found a tab: all that waited for it send their request.
Reconnected(s) ==
    LET h == reconnecting[s]
    IN  /\ h # None /\ conn[h] = "open" /\ StillWanted(s)
        /\ transport' = [transport EXCEPT ![s] = h]
        /\ reconnecting' = [reconnecting EXCEPT ![s] = None]
        /\ req' = [r \in Requests |-> IF r \in Waiting(s)
                                      THEN InHand(s, req[r].action, "sent", h) ELSE req[r]]
        /\ UNCHANGED <<kind, phase, key, status, tenantOf, ownerKey, attempts, ticket,
                       framePending, clock, conn, file, creating, history>>

Dismissed(s) == [r \in Requests |-> IF r \in Waiting(s) THEN Idle ELSE req[r]]

\* It found one, but the session has ended.
ReconnectedLate(s) ==
    LET h == reconnecting[s]
    IN  /\ h # None /\ conn[h] = "open" /\ ~StillWanted(s)
        /\ conn' = [conn EXCEPT ![h] = "closed"]
        /\ reconnecting' = [reconnecting EXCEPT ![s] = None]
        /\ framePending' = FrameDone(Waiting(s))
        /\ req' = Dismissed(s)
        /\ UNCHANGED <<kind, phase, key, status, tenantOf, ownerKey, attempts, transport, ticket,
                       clock, file, creating, history>>

\* It found none, or was lost itself: an error for all that waited.
ReconnectFails(s) ==
    LET h == reconnecting[s]
        st == Outcome(s)
    IN  /\ h # None
        /\ status' = st
        /\ conn' = [ClosedBy(st) EXCEPT ![h] = "closed"]
        /\ file' = Written(st, IF st = status /\ Active(s) THEN None ELSE s)
        /\ reconnecting' = [reconnecting EXCEPT ![s] = None]
        /\ framePending' = FrameDone(Waiting(s))
        /\ req' = Dismissed(s)
        /\ UNCHANGED <<kind, phase, key, tenantOf, ownerKey, attempts, transport, ticket, clock,
                       creating, history>>

------------------------------------------------------------------------------
(* The environment.                                                          *)

\* The process that carries a browser connection exits, prints what cannot be read
\* or leaves a request unanswered for 25 seconds: the connection closes itself.
ConnLost(h) ==
    /\ kind = "connect" /\ conn[h] = "open"
    /\ conn' = [conn EXCEPT ![h] = "closed"]
    /\ UNCHANGED <<kind, phase, key, status, sessionVars, transport, ticket, clock, file, req,
                   creating, history>>

Rotate(t, k) ==
    /\ key[t] # k
    /\ key' = [key EXCEPT ![t] = k]
    /\ UNCHANGED <<kind, phase, status, sessionVars, transport, ticket, clock, conn, file, req,
                   creating, history>>

Age(s) ==
    /\ \/ status[s] = "connected" /\ clock[s] = "fresh" /\ clock' = [clock EXCEPT ![s] = "idle"]
       \/ Active(s) /\ clock[s] # "due" /\ clock' = [clock EXCEPT ![s] = "due"]
    /\ UNCHANGED <<kind, phase, key, status, sessionVars, transport, ticket, conn, file, req,
                   creating, history>>

Disconnected == [s \in Sessions |-> IF Active(s) THEN "disconnected" ELSE status[s]]

\* Only the dashboard's server ends its sessions before it stops listening.
Stop ==
    /\ phase = "up" /\ phase' = "stopping"
    /\ Become(IF kind = "dashboard" THEN Disconnected ELSE status, None)
    /\ UNCHANGED <<kind, key, sessionVars, clock, req, creating, history>>

\* The server's close event, once every request in flight has been answered.
ServerClosed ==
    /\ phase = "stopping" /\ \A r \in Requests : req[r].at = "idle"
    /\ phase' = "closed"
    /\ Become(Disconnected, None)
    /\ UNCHANGED <<kind, key, sessionVars, clock, req, creating, history>>

------------------------------------------------------------------------------
Next ==
    \/ Sweep \/ Stop \/ ServerClosed
    \/ \E t \in Tenants : \E k \in Keys \cup {None} : Rotate(t, k)
    \/ \E r \in Requests :
          \/ CreateFails(r) \/ UnlockRight(r) \/ UnlockWrong(r) \/ UnlockLate(r)
          \/ Enter(r) \/ Refused(r) \/ BodyLost(r) \/ Replied(r) \/ RequestFails(r)
          \/ \E t \in Tenants, h \in Conns : Create(r, t, h)
          \/ \E s \in Sessions :
                \/ Issue(r, s) \/ UnlockArrives(r, s) \/ EnterArrives(r, s)
                \/ \E action \in {"input", "tab"} : ViewerArrives(r, s, action)
                \/ \E action \in Actions :
                      Send(r, s, action) \/ Reconnect(r, s, action) \/ Unavailable(r, s, action)
    \/ \E s \in Sessions :
          \/ Revoke(s) \/ Handoff(s) \/ TicketExpires(s) \/ Complete(s) \/ Proxied(s)
          \/ Reconnected(s) \/ ReconnectedLate(s) \/ ReconnectFails(s) \/ Age(s)
    \/ \E h \in Conns : ConnLost(h)

Spec == Init /\ [][Next]_vars

------------------------------------------------------------------------------
\* A Claw has at most one session, although creation awaits the browser while
\* other requests of the Claw are served (README: one session per Claw).
OneSessionPerTenant ==
    \A s1, s2 \in ActiveSessions : tenantOf[s1] = tenantOf[s2] => s1 = s2

\* An open connection is the one of a live session, or is in the hands of a creation
\* or a reconnection that still waits for its tab; a session never has two, and refuses
\* frames as pending only while a frame request holds the connection or waits for it.
Holders(h) == {s \in ActiveSessions : transport[s] = h}
Rebuilders(h) == {s \in Sessions : reconnecting[s] = h}
Creators(h) == {r \in Requests : req[r].at = "select" /\ req[r].conn = h}
ConnectionsHeld ==
    /\ \A h \in Conns : conn[h] = "open" => Holders(h) \cup Rebuilders(h) \cup Creators(h) # {}
    /\ \A s \in Sessions : Usable(s) => reconnecting[s] = None
    /\ \A s \in Sessions : framePending[s] <=>
          \E r \in Requests : /\ req[r].at \in {"sent", "reconnect"}
                              /\ req[r].session = s /\ req[r].action = "frame"

\* What waits for the reply of an open connection belongs to the live session whose
\* connection it is: no input or tab goes to the browser for a session that ended
\* while the body was on its way, or that was connected again meanwhile.
CommandsOfItsSession ==
    \A r \in Requests : req[r].at = "sent" /\ conn[req[r].conn] = "open" =>
        status[req[r].session] = "connected" /\ transport[req[r].session] = req[r].conn

\* A session's code, and each ticket it issues, is redeemed at most once, by
\* whichever request wins.
RedeemedOnce ==
    \A s \in Sessions : redeemed[s] <= 1 /\ \A n \in 1 .. MaxTickets : entered[s][n] <= 1

\* A session that ended stays ended, whatever its requests in flight still do.
EndedStaysEnded ==
    [][\A s \in Sessions : status[s] \in Ended => status'[s] \in Ended]_vars

\* While a viewer is connected the Claw's own file says so, unless the Claw itself
\* revoked an older session since: its plugin reads the file so that it does "not
\* disconnect somebody currently signing in" (plugin/index.mjs:87-90).
ConnectedIsOnFile ==
    \A s \in Sessions : status[s] = "connected" =>
        LET shown == file[tenantOf[s]]
        IN  shown = [session |-> s, status |-> "connected"] \/ shown.status = "revoked"
=============================================================================
