-------------------------- MODULE RemoteConnectProofs --------------------------
(* Proofs about RemoteConnect, for every value of its constants. *)
EXTENDS RemoteConnect, FiniteSetTheorems, TLAPS

\* What a request in each stage has in hand.
Staged ==
    \A r \in Requests :
        /\ req[r].at \in {"unlock", "enter", "body", "reconnect", "sent"} =>
              req[r].session \in Sessions
        /\ req[r].at = "body" => req[r].action \in {"input", "tab"}
        /\ req[r].at = "select" =>
              req[r].tenant \in Tenants /\ req[r].key \in Keys /\ req[r].conn \in Conns
        /\ req[r].at = "sent" => req[r].conn \in Conns /\ conn[req[r].conn] # "none"

\* A viewer's requests are of a session whose code has been redeemed.
PastCode ==
    \A r \in Requests : req[r].at \in {"body", "reconnect", "sent"} =>
        status[req[r].session] \notin {"free", "waiting"}

\* A session that can still be unlocked has an attempt left.
Tries == \A s \in Sessions : status[s] \in {"free", "waiting"} => attempts[s] < MaxAttempts

\* Only a live session has a connection, and none while another is being opened for it.
Connected ==
    \A s \in Sessions :
        /\ transport[s] # None => Active(s) /\ conn[transport[s]] # "none"
        /\ reconnecting[s] # None => transport[s] = None /\ status[s] # "free"

\* Every open connection is in somebody's hands.
Held == \A h \in Conns : conn[h] = "open" => Holders(h) \cup Rebuilders(h) \cup Creators(h) # {}

\* The one frame request of a session is what makes its next ones be refused.
Framing(r) == req[r].at \in {"sent", "reconnect"} /\ req[r].action = "frame"
Frames ==
    /\ \A s \in Sessions : framePending[s] <=> \E r \in Requests : Framing(r) /\ req[r].session = s
    /\ \A r1, r2 \in Requests :
          Framing(r1) /\ Framing(r2) /\ req[r1].session = req[r2].session => r1 = r2

\* A code that can still be redeemed has not been; nor has a ticket that is still
\* there, or is yet to be issued.
Unredeemed ==
    \A s \in Sessions :
        /\ status[s] \in {"free", "waiting"} => redeemed[s] = 0
        /\ ticket[s] <= issued[s]
        /\ \A n \in 1 .. MaxTickets : n = ticket[s] \/ n > issued[s] => entered[s][n] = 0

IInv ==
    /\ TypeOK /\ Staged /\ PastCode /\ Tries /\ Connected /\ Held /\ Frames /\ Unredeemed
    /\ OneSessionPerTenant /\ CommandsOfItsSession /\ RedeemedOnce

------------------------------------------------------------------------------
(* What the helpers of the actions return.                                   *)

\* The names of statuses, stages and states of connections that the steps below mention.
LEMMA Names ==
    /\ Live = {"waiting", "connected"} /\ Live \cap Ended = {}
    /\ {"replaced", "revoked", "expired", "locked", "completed", "disconnected"} = Ended
    /\ Live \subseteq Statuses /\ Ended \subseteq Statuses /\ "free" \in Statuses
    /\ "free" \notin Live \cup Ended
    /\ {"idle", "select", "unlock", "enter", "body", "reconnect", "sent"} = Stages
    /\ {"tabs", "frame", "input", "tab"} = Actions
    /\ None \notin Tenants \cup Sessions \cup Conns \cup Keys
BY ConnectAssumption DEF Statuses, Live, Ended, Stages, Actions

\* Statuses that leave every session as it is, redeem its code or end it.
Lawful(st) ==
    /\ st \in [Sessions -> Statuses]
    /\ \A s \in Sessions : \/ st[s] = status[s] \/ st[s] \in Ended
                           \/ status[s] = "waiting" /\ st[s] = "connected"

\* The helpers of the actions compute such statuses.
LEMMA LawfulStatuses ==
    ASSUME TypeOK
    PROVE  /\ Lawful(status) /\ Lawful(Swept) /\ Lawful(Disconnected)
           /\ \A s \in Sessions : Swept[s] \in Live => Swept[s] = status[s]
           /\ \A s \in Sessions :
                 /\ Lawful(Lost(s)) /\ Lawful(Outcome(s))
                 /\ \A e \in Ended : /\ Lawful([Swept EXCEPT ![s] = e])
                                     /\ Lawful([status EXCEPT ![s] = e])
                 /\ status[s] = "waiting" => Lawful([Swept EXCEPT ![s] = "connected"])
<1>1. Lawful(status)
    BY DEF TypeOK, Lawful
<1>2. Lawful(Swept) /\ \A s \in Sessions : Swept[s] \in Live => Swept[s] = status[s]
    BY Names DEF TypeOK, Lawful, Swept, Verdict
<1>3. Lawful(Disconnected)
    BY Names DEF TypeOK, Lawful, Disconnected
<1>4. ASSUME NEW s \in Sessions, NEW e \in Ended
      PROVE  Lawful([Swept EXCEPT ![s] = e]) /\ Lawful([status EXCEPT ![s] = e])
    BY <1>1, <1>2, Names DEF Lawful
<1>5. ASSUME NEW s \in Sessions
      PROVE  Lawful(Lost(s)) /\ Lawful(Outcome(s))
    BY <1>1, <1>4, Names DEF Lost, Outcome
<1>6. ASSUME NEW s \in Sessions, status[s] = "waiting"
      PROVE  Lawful([Swept EXCEPT ![s] = "connected"])
    BY <1>2, <1>6, Names DEF Lawful
<1> QED BY <1>1, <1>2, <1>3, <1>4, <1>5, <1>6

\* What a step that gives sessions new statuses does to their connections: those of the
\* sessions it ended are closed, and no connection that is open is let go.
Settling ==
    /\ \A s \in Sessions : \/ status'[s] = status[s] \/ status'[s] \in Ended
                           \/ status[s] = "waiting" /\ status'[s] = "connected"
    /\ \A h \in Conns : \/ conn'[h] = conn[h] \/ conn'[h] = "closed"
                        \/ conn[h] = "none" /\ conn'[h] = "open"
    /\ \A s \in Sessions :
          \/ transport'[s] = transport[s] /\ (transport[s] # None => status'[s] \in Live)
          \/ transport'[s] = None /\ (transport[s] # None => conn'[transport[s]] # "open")

NothingOpened == \A h \in Conns : conn'[h] = "open" => conn[h] = "open"

\* The types of the variables that Become assigns.
SessionTypes ==
    /\ status \in [Sessions -> Statuses]
    /\ transport \in [Sessions -> Conns \cup {None}]
    /\ ticket \in [Sessions -> 0 .. MaxTickets]
    /\ conn \in [Conns -> {"none", "open", "closed"}]
    /\ file \in [Tenants -> [session : Sessions \cup {None}, status : Statuses]]

\* The Claw's file names one of its sessions.
LEMMA WrittenType ==
    ASSUME TypeOK, NEW st \in [Sessions -> Statuses], NEW last \in Sessions \cup {None}
    PROVE  Written(st, last) \in [Tenants -> [session : Sessions \cup {None}, status : Statuses]]
<1> DEFINE Entry == [session : Sessions \cup {None}, status : Statuses]
           changed(t) == {s \in Sessions : tenantOf[s] = t /\ st[s] # status[s]}
           some(t) == CHOOSE s \in changed(t) : TRUE
<1>1. \A t \in Tenants : changed(t) # {} => some(t) \in changed(t)
    OBVIOUS
<1>2. \A t \in Tenants : changed(t) # {} => [session |-> some(t), status |-> st[some(t)]] \in Entry
    BY <1>1
<1>3. last # None => [session |-> last, status |-> st[last]] \in Entry
    OBVIOUS
<1>4. \A t \in Tenants : file[t] \in Entry
    BY DEF TypeOK
<1> HIDE DEF Entry, some
<1>5. Written(st, last) =
        [t \in Tenants |->
            IF last # None /\ tenantOf[last] = t THEN [session |-> last, status |-> st[last]]
            ELSE IF changed(t) = {} THEN file[t]
                 ELSE [session |-> some(t), status |-> st[some(t)]]]
    BY DEF Written, some
<1>6. Written(st, last) \in [Tenants -> Entry]
    BY <1>2, <1>3, <1>4, <1>5
<1> QED BY <1>6 DEF Entry

\* Ending sessions closes their connections.
LEMMA EndsSettle ==
    ASSUME TypeOK, Connected, NEW st, Lawful(st),
           status' = st, conn' = ClosedBy(st), transport' = WhileLive(st, transport, None)
    PROVE  /\ Settling /\ NothingOpened
           /\ status' \in [Sessions -> Statuses]
           /\ transport' \in [Sessions -> Conns \cup {None}]
           /\ conn' \in [Conns -> {"none", "open", "closed"}]
<1>1. status' \in [Sessions -> Statuses] /\ transport' \in [Sessions -> Conns \cup {None}]
    BY DEF Lawful, WhileLive, TypeOK
<1>2. conn' \in [Conns -> {"none", "open", "closed"}]
    BY DEF ClosedBy, TypeOK
<1>3. Settling /\ NothingOpened
    BY DEF TypeOK, Connected, Active, Lawful, ClosedBy, WhileLive, Settling, NothingOpened
<1> QED BY <1>1, <1>2, <1>3

\* ... and tears up their tickets.
LEMMA BecomeSettles ==
    ASSUME TypeOK, Connected, NEW st, Lawful(st), NEW last \in Sessions \cup {None},
           Become(st, last)
    PROVE  /\ Settling /\ NothingOpened
           /\ SessionTypes' /\ \A s \in Sessions : ticket'[s] \in {ticket[s], 0}
<1>1. ticket' \in [Sessions -> 0 .. MaxTickets] /\ \A s \in Sessions : ticket'[s] \in {ticket[s], 0}
    BY ConnectAssumption DEF Become, WhileLive, TypeOK
<1>2. file' \in [Tenants -> [session : Sessions \cup {None}, status : Statuses]]
    BY WrittenType DEF Become, Lawful
<1> QED BY <1>1, <1>2, EndsSettle DEF Become, SessionTypes

\* A step that touches neither statuses nor connections ends nothing.
LEMMA NothingSettles ==
    ASSUME TypeOK, Connected, UNCHANGED <<status, conn, transport>>
    PROVE  Settling /\ NothingOpened
BY DEF TypeOK, Connected, Active, Settling, NothingOpened

------------------------------------------------------------------------------
(* Most steps only end sessions and move requests that hold no connection.   *)

Quiet ==
    /\ Settling /\ UNCHANGED <<tenantOf, reconnecting, framePending>>
    /\ NothingOpened
    /\ \A q \in Requests : req'[q] # req[q] =>
          /\ ~Framing(q) /\ req[q].at # "select"
          /\ req'[q].at \in {"idle", "unlock", "enter", "body"}
          /\ req'[q].at # "idle" => req'[q].session \in Sessions
          /\ req'[q].at = "body" => /\ req'[q].action \in {"input", "tab"}
                                    /\ status'[req'[q].session] \notin {"free", "waiting"}

\* What the other steps, but for two, do as well: who opens a connection keeps it in
\* hand, and an open one is only let go by whom it is not needed any more.
Handling ==
    /\ Settling /\ UNCHANGED tenantOf
    /\ \A h \in Conns : conn[h] = "none" /\ conn'[h] = "open" =>
          (Rebuilders(h) \cup Creators(h) # {})'
    /\ \A q \in Requests : req[q].at = "select" =>
          req'[q] = req[q] \/ conn'[req[q].conn] # "open"
    /\ \A s \in Sessions :
          \/ reconnecting'[s] = reconnecting[s]
          \/ /\ reconnecting[s] # None => conn'[reconnecting[s]] # "open"
             /\ reconnecting'[s] # None => transport'[s] = None /\ status'[s] # "free"
    /\ \A q \in Requests : req'[q].at = "sent" =>
          \/ req'[q] = req[q]
          \/ /\ req'[q].session \in Sessions /\ req'[q].conn \in Conns
             /\ conn[req'[q].conn] = "open"
             /\ status[req'[q].session] = "connected"
             /\ transport[req'[q].session] = req'[q].conn

\* A step that handles connections so keeps them held, and each command with its session.
LEMMA HandlingKeeps ==
    ASSUME IInv, Handling
    PROVE  Connected' /\ Held' /\ OneSessionPerTenant' /\ CommandsOfItsSession'
<1> USE Names DEF IInv, Handling
<1>1. \A s \in Sessions : Active(s)' => Active(s)
    BY DEF Settling, Active
<1>2. Connected'
    <2>1. \A s \in Sessions : transport[s] \in Conns \cup {None}
        BY DEF TypeOK
    <2>2. ASSUME NEW s \in Sessions, transport'[s] # None
          PROVE  Active(s)' /\ conn'[transport'[s]] # "none"
        BY <2>1, <2>2 DEF Connected, Settling, Active
    <2>3. ASSUME NEW s \in Sessions, reconnecting'[s] # None
          PROVE  transport'[s] = None /\ status'[s] # "free"
        BY <2>3 DEF Connected, Settling
    <2> QED BY <2>2, <2>3 DEF Connected
<1>3. Held'
    <2> SUFFICES ASSUME NEW h \in Conns, conn'[h] = "open"
                 PROVE  (Holders(h) \cup Rebuilders(h) \cup Creators(h) # {})'
        BY DEF Held
    <2>1. CASE conn[h] = "open"
        <3>1. ASSUME NEW s \in Holders(h) PROVE s \in Holders(h)'
            BY <2>1 DEF Holders, ActiveSessions, Active, Settling, TypeOK
        <3>2. ASSUME NEW s \in Rebuilders(h) PROVE s \in Rebuilders(h)'
            BY DEF Rebuilders
        <3>3. ASSUME NEW r \in Creators(h) PROVE r \in Creators(h)'
            BY DEF Creators
        <3> QED BY <2>1, <3>1, <3>2, <3>3 DEF Held
    <2>2. CASE conn[h] # "open"
        BY <2>2 DEF Settling
    <2> QED BY <2>1, <2>2
<1>4. OneSessionPerTenant'
    BY <1>1 DEF OneSessionPerTenant, ActiveSessions
<1>5. CommandsOfItsSession'
    <2> SUFFICES ASSUME NEW r \in Requests, req'[r].at = "sent", conn'[req'[r].conn] = "open"
                 PROVE  /\ status'[req'[r].session] = "connected"
                        /\ transport'[req'[r].session] = req'[r].conn
        BY DEF CommandsOfItsSession
    <2>1. req'[r].session \in Sessions /\ req'[r].conn \in Conns /\ conn[req'[r].conn] = "open"
        BY DEF Staged, Settling
    <2>2. /\ status[req'[r].session] = "connected"
          /\ transport[req'[r].session] = req'[r].conn
        BY <2>1 DEF CommandsOfItsSession
    <2> QED BY <2>1, <2>2 DEF Settling
<1> QED BY <1>2, <1>3, <1>4, <1>5

\* A quiet step keeps what relates sessions, connections and requests.
LEMMA QuietKeeps ==
    ASSUME IInv, Quiet
    PROVE  /\ Staged' /\ PastCode' /\ Connected' /\ Held' /\ Frames'
           /\ OneSessionPerTenant' /\ CommandsOfItsSession'
<1> USE Names DEF IInv, Quiet
<1>1. Staged'
    BY DEF Staged, Settling
<1>2. PastCode'
    BY DEF PastCode, Settling, Staged
<1>3. Frames'
    BY DEF Frames, Framing
<1>4. Handling
    BY DEF Handling, NothingOpened
<1> QED BY <1>1, <1>2, <1>3, <1>4, HandlingKeeps

\* A step that redeems nothing and issues no ticket keeps what is said of both.
LEMMA NothingRedeemed ==
    ASSUME IInv, UNCHANGED history, \A s \in Sessions : ticket'[s] \in {ticket[s], 0},
           \A s \in Sessions : status'[s] \in {"free", "waiting"} =>
              status[s] \in {"free", "waiting"}
    PROVE  Unredeemed' /\ RedeemedOnce'
<1>1. RedeemedOnce'
    BY DEF IInv, RedeemedOnce, history
<1>2. ASSUME NEW s \in Sessions
      PROVE  /\ status'[s] \in {"free", "waiting"} => redeemed'[s] = 0
             /\ ticket'[s] <= issued'[s]
             /\ \A n \in 1 .. MaxTickets : n = ticket'[s] \/ n > issued'[s] => entered'[s][n] = 0
    <2>1. ticket[s] \in 0 .. MaxTickets /\ issued[s] \in 0 .. MaxTickets /\ MaxTickets \in Nat
        BY ConnectAssumption DEF IInv, TypeOK
    <2> QED BY <2>1 DEF IInv, Unredeemed, history
<1> QED BY <1>1, <1>2 DEF Unredeemed

------------------------------------------------------------------------------
(* The steps that move no connection, and no request that has one.           *)

QuietStep ==
    \/ Sweep \/ Stop \/ ServerClosed
    \/ \E t \in Tenants : \E k \in Keys \cup {None} : Rotate(t, k)
    \/ \E r \in Requests :
          \/ UnlockRight(r) \/ UnlockWrong(r) \/ UnlockLate(r)
          \/ Enter(r) \/ Refused(r) \/ BodyLost(r)
          \/ \E s \in Sessions :
                \/ UnlockArrives(r, s) \/ EnterArrives(r, s)
                \/ \E action \in {"input", "tab"} : ViewerArrives(r, s, action)
    \/ \E s \in Sessions :
          Revoke(s) \/ Handoff(s) \/ TicketExpires(s) \/ Complete(s) \/ Proxied(s) \/ Age(s)

\* A free slot, and a request that has only come as far as its session, are requests.
LEMMA RequestTypes ==
    /\ Idle \in InFlight /\ Idle.at = "idle"
    /\ \A s \in Sessions, stage \in Stages, action \in Actions :
          /\ [Idle EXCEPT !.at = stage, !.session = s] \in InFlight
          /\ [Idle EXCEPT !.at = stage, !.session = s, !.action = action] \in InFlight
BY Names DEF Idle, InFlight

\* An answered request frees its slot.
LEMMA AnswerType ==
    ASSUME TypeOK, NEW r \in Requests, Answer(r)
    PROVE  /\ req' \in [Requests -> InFlight]
           /\ req'[r].at = "idle"
           /\ \A q \in Requests \ {r} : req'[q] = req[q]
BY RequestTypes DEF TypeOK, Answer

\* What has to be shown of each quiet step.
LEMMA QuietSteps ==
    ASSUME IInv, QuietStep
    PROVE  Quiet /\ TypeOK'
<1> USE Names
<1>0. TypeOK /\ Connected /\ Staged /\ PastCode
    BY DEF IInv
<1> USE <1>0
<1> DEFINE Moved(r) == \A q \in Requests \ {r} : req'[q] = req[q]
<1>1. CASE Sweep
    <2>1. Lawful(Swept)
        BY <1>1, LawfulStatuses DEF Sweep
    <2>2. Settling /\ NothingOpened /\ SessionTypes'
        BY <1>1, <2>1, BecomeSettles DEF Sweep
    <2> QED BY <1>1, <2>2 DEF Sweep, Quiet, SessionTypes, TypeOK, sessionVars, history
<1>2. CASE Stop
    <2>1. Lawful(IF kind = "dashboard" THEN Disconnected ELSE status)
        BY <1>2, LawfulStatuses DEF Stop
    <2>2. Settling /\ NothingOpened /\ SessionTypes'
        BY <1>2, <2>1, BecomeSettles DEF Stop
    <2> QED BY <1>2, <2>2 DEF Stop, Quiet, SessionTypes, TypeOK, sessionVars, history
<1>3. CASE ServerClosed
    <2>1. Lawful(Disconnected)
        BY <1>3, LawfulStatuses DEF ServerClosed
    <2>2. Settling /\ NothingOpened /\ SessionTypes'
        BY <1>3, <2>1, BecomeSettles DEF ServerClosed
    <2> QED BY <1>3, <2>2 DEF ServerClosed, Quiet, SessionTypes, TypeOK, sessionVars, history
<1>4. ASSUME NEW t \in Tenants, NEW k \in Keys \cup {None}, Rotate(t, k) PROVE Quiet /\ TypeOK'
    <2>1. Settling /\ NothingOpened
        BY <1>4, NothingSettles DEF Rotate
    <2> QED BY <1>4, <2>1 DEF Rotate, Quiet, TypeOK, sessionVars, history
<1>5. ASSUME NEW s \in Sessions, Revoke(s) PROVE Quiet /\ TypeOK'
    <2>1. Lawful([Swept EXCEPT ![s] = "revoked"])
        BY <1>5, LawfulStatuses DEF Revoke
    <2>2. Settling /\ NothingOpened /\ SessionTypes'
        BY <1>5, <2>1, BecomeSettles DEF Revoke
    <2> QED BY <1>5, <2>2 DEF Revoke, Quiet, SessionTypes, TypeOK, sessionVars, history
<1>6. ASSUME NEW s \in Sessions, Complete(s) PROVE Quiet /\ TypeOK'
    <2>1. Lawful([Swept EXCEPT ![s] = "completed"])
        BY <1>6, LawfulStatuses DEF Complete
    <2>2. Settling /\ NothingOpened /\ SessionTypes'
        BY <1>6, <2>1, BecomeSettles DEF Complete
    <2> QED BY <1>6, <2>2 DEF Complete, Quiet, SessionTypes, TypeOK, sessionVars, history
<1>7. ASSUME NEW s \in Sessions, Proxied(s) PROVE Quiet /\ TypeOK'
    <2>1. Settling /\ NothingOpened /\ SessionTypes'
        BY <1>7, LawfulStatuses, BecomeSettles DEF Proxied
    <2> QED BY <1>7, <2>1 DEF Proxied, Quiet, SessionTypes, TypeOK, sessionVars, history
<1>8. ASSUME NEW s \in Sessions, Handoff(s) PROVE Quiet /\ TypeOK'
    <2>1. Settling /\ NothingOpened /\ status' \in [Sessions -> Statuses]
          /\ conn' \in [Conns -> {"none", "open", "closed"}]
          /\ transport' \in [Sessions -> Conns \cup {None}]
        BY <1>8, LawfulStatuses, EndsSettle DEF Handoff
    <2>2. file' \in [Tenants -> [session : Sessions \cup {None}, status : Statuses]]
        BY <1>8, LawfulStatuses, WrittenType DEF Handoff, Lawful
    <2>3. issued[s] + 1 \in 1 .. MaxTickets
        BY <1>8, ConnectAssumption DEF Handoff, TypeOK
    <2>4. issued' \in [Sessions -> 0 .. MaxTickets]
        BY <1>8, <2>3 DEF Handoff, TypeOK
    <2>5. ticket' \in [Sessions -> 0 .. MaxTickets]
        <3>1. WhileLive(Swept, ticket, 0) \in [Sessions -> 0 .. MaxTickets]
            BY ConnectAssumption DEF WhileLive, TypeOK
        <3> QED BY <1>8, <2>3, <3>1 DEF Handoff
    <2>6. clock' \in [Sessions -> {"fresh", "idle", "due"}]
        BY <1>8 DEF Handoff, TypeOK
    <2> QED BY <1>8, <2>1, <2>2, <2>4, <2>5, <2>6 DEF Handoff, Quiet, TypeOK, sessionVars, history
<1>9. ASSUME NEW s \in Sessions, TicketExpires(s) PROVE Quiet /\ TypeOK'
    <2>1. Settling /\ NothingOpened
        BY <1>9, NothingSettles DEF TicketExpires
    <2>2. ticket' \in [Sessions -> 0 .. MaxTickets]
        BY <1>9, ConnectAssumption DEF TicketExpires, TypeOK
    <2> QED BY <1>9, <2>1, <2>2 DEF TicketExpires, Quiet, TypeOK, sessionVars, history
<1>10. ASSUME NEW s \in Sessions, Age(s) PROVE Quiet /\ TypeOK'
    <2>1. Settling /\ NothingOpened
        BY <1>10, NothingSettles DEF Age
    <2>2. clock' \in [Sessions -> {"fresh", "idle", "due"}]
        BY <1>10 DEF Age, TypeOK
    <2> QED BY <1>10, <2>1, <2>2 DEF Age, Quiet, TypeOK, sessionVars, history
<1>11. ASSUME NEW r \in Requests, NEW s \in Sessions, UnlockArrives(r, s) PROVE Quiet /\ TypeOK'
    <2>1. Settling /\ NothingOpened /\ SessionTypes'
        BY <1>11, LawfulStatuses, BecomeSettles DEF UnlockArrives, Arrives
    <2>2. req' \in [Requests -> InFlight] /\ Moved(r) /\ req[r].at = "idle"
          /\ req'[r].at = "unlock" /\ req'[r].session = s
        BY <1>11, RequestTypes DEF UnlockArrives, Arrives, TypeOK, Idle
    <2> QED BY <1>11, <2>1, <2>2 DEF UnlockArrives, Arrives, Quiet, Framing, SessionTypes, TypeOK,
                sessionVars, history
<1>12. ASSUME NEW r \in Requests, NEW s \in Sessions, EnterArrives(r, s) PROVE Quiet /\ TypeOK'
    <2>1. Settling /\ NothingOpened /\ SessionTypes'
        BY <1>12, LawfulStatuses, BecomeSettles DEF EnterArrives, Arrives
    <2>2. req' \in [Requests -> InFlight] /\ Moved(r) /\ req[r].at = "idle"
          /\ req'[r].at = "enter" /\ req'[r].session = s
        BY <1>12, RequestTypes DEF EnterArrives, Arrives, TypeOK, Idle
    <2> QED BY <1>12, <2>1, <2>2 DEF EnterArrives, Arrives, Quiet, Framing, SessionTypes, TypeOK,
                sessionVars, history
<1>13. ASSUME NEW r \in Requests, NEW s \in Sessions, NEW action \in {"input", "tab"}, ViewerArrives(r, s, action)
      PROVE  Quiet /\ TypeOK'
    <2>1. Settling /\ NothingOpened /\ SessionTypes' /\ status' = Swept
        BY <1>13, LawfulStatuses, BecomeSettles DEF ViewerArrives, Become
    <2>2. req' \in [Requests -> InFlight] /\ Moved(r) /\ req[r].at = "idle"
          /\ req'[r].at = "body" /\ req'[r].session = s /\ req'[r].action = action
        BY <1>13, RequestTypes DEF ViewerArrives, TypeOK, Idle
    <2> QED BY <1>13, <2>1, <2>2 DEF ViewerArrives, Quiet, Framing, SessionTypes, TypeOK,
                sessionVars, history
<1>14. ASSUME NEW r \in Requests, UnlockRight(r) PROVE Quiet /\ TypeOK'
    <2>1. req[r].session \in Sessions /\ status[req[r].session] = "waiting"
        BY <1>14, LawfulStatuses DEF UnlockRight, Redeemable, Staged
    <2>2. Settling /\ NothingOpened /\ SessionTypes'
        BY <1>14, <2>1, LawfulStatuses, BecomeSettles DEF UnlockRight
    <2>3. req' \in [Requests -> InFlight] /\ Moved(r) /\ req'[r].at = "idle"
        BY <1>14, AnswerType DEF UnlockRight
    <2>4. redeemed' \in [Sessions -> Nat]
        BY <1>14, <2>1 DEF UnlockRight, TypeOK
    <2> QED BY <1>14, <2>2, <2>3, <2>4 DEF UnlockRight, Quiet, Framing, SessionTypes, TypeOK,
                sessionVars
<1>15. ASSUME NEW r \in Requests, UnlockWrong(r) PROVE Quiet /\ TypeOK'
    <2>1. req[r].session \in Sessions /\ status[req[r].session] = "waiting"
        BY <1>15, LawfulStatuses DEF UnlockWrong, Redeemable, Staged
    <2>2. Settling /\ NothingOpened /\ SessionTypes'
        BY <1>15, <2>1, LawfulStatuses, BecomeSettles DEF UnlockWrong
    <2>3. req' \in [Requests -> InFlight] /\ Moved(r) /\ req'[r].at = "idle"
        BY <1>15, AnswerType DEF UnlockWrong
    <2>4. attempts[req[r].session] < MaxAttempts
        BY <2>1 DEF IInv, Tries
    <2>5. attempts' \in [Sessions -> 0 .. MaxAttempts]
        BY <1>15, <2>1, <2>4, ConnectAssumption DEF UnlockWrong, TypeOK
    <2> QED BY <1>15, <2>2, <2>3, <2>5 DEF UnlockWrong, Quiet, Framing, SessionTypes, TypeOK,
                history
<1>16. ASSUME NEW r \in Requests, UnlockLate(r) PROVE Quiet /\ TypeOK'
    <2>1. Settling /\ NothingOpened /\ SessionTypes'
        BY <1>16, LawfulStatuses, BecomeSettles DEF UnlockLate
    <2>2. req' \in [Requests -> InFlight] /\ Moved(r) /\ req'[r].at = "idle"
        BY <1>16, AnswerType DEF UnlockLate
    <2> QED BY <1>16, <2>1, <2>2 DEF UnlockLate, Quiet, Framing, SessionTypes, TypeOK,
                sessionVars, history
<1>17. ASSUME NEW r \in Requests, BodyLost(r) PROVE Quiet /\ TypeOK'
    <2>1. req[r].session \in Sessions
        BY <1>17 DEF BodyLost, Staged
    <2>2. Settling /\ NothingOpened /\ SessionTypes'
        BY <1>17, <2>1, LawfulStatuses, BecomeSettles DEF BodyLost
    <2>3. req' \in [Requests -> InFlight] /\ Moved(r) /\ req'[r].at = "idle"
        BY <1>17, AnswerType DEF BodyLost
    <2> QED BY <1>17, <2>2, <2>3 DEF BodyLost, Quiet, Framing, SessionTypes, TypeOK, sessionVars,
                history
<1>18. ASSUME NEW r \in Requests, Refused(r) PROVE Quiet /\ TypeOK'
    <2>1. Settling /\ NothingOpened
        BY <1>18, NothingSettles DEF Refused
    <2>2. req' \in [Requests -> InFlight] /\ Moved(r) /\ req'[r].at = "idle"
        BY <1>18, AnswerType DEF Refused
    <2> QED BY <1>18, <2>1, <2>2 DEF Refused, Quiet, Framing, TypeOK, sessionVars, history
<1>19. ASSUME NEW r \in Requests, Enter(r) PROVE Quiet /\ TypeOK'
    <2> DEFINE s == req[r].session
    <2>1. s \in Sessions
        BY <1>19 DEF Enter, Staged
    <2>2. req' \in [Requests -> InFlight] /\ Moved(r) /\ req'[r].at = "idle"
        BY <1>19, AnswerType DEF Enter
    <2>3. CASE Entitled(s)
        <3>1. Settling /\ NothingOpened
            BY <1>19, <2>3, NothingSettles DEF Enter
        <3>2. ticket' \in [Sessions -> 0 .. MaxTickets]
            BY <1>19, <2>3, ConnectAssumption DEF Enter, Tear, TypeOK
        <3>6. clock' \in [Sessions -> {"fresh", "idle", "due"}]
            <4>1. Seen(s) \in [Sessions -> {"fresh", "idle", "due"}]
                BY <2>1 DEF Seen, TypeOK
            <4> QED BY <1>19, <2>3, <4>1 DEF Enter
        <3>3. ticket[s] \in 1 .. MaxTickets
            BY <1>19, <2>1, ConnectAssumption DEF Enter, TypeOK
        <3>4. entered[s] \in [1 .. MaxTickets -> Nat] /\ entered[s][ticket[s]] + 1 \in Nat
            <4>1. entered[s] \in [1 .. MaxTickets -> Nat]
                BY <2>1 DEF TypeOK
            <4>2. entered[s][ticket[s]] \in Nat
                BY <3>3, <4>1
            <4> QED BY <4>1, <4>2
        <3>5. entered' \in [Sessions -> [1 .. MaxTickets -> Nat]]
            <4>1. [entered[s] EXCEPT ![ticket[s]] = @ + 1] \in [1 .. MaxTickets -> Nat]
                BY <3>4
            <4>2. entered' = [entered EXCEPT ![s] = [entered[s] EXCEPT ![ticket[s]] = @ + 1]]
                BY <1>19, <2>1, <2>3 DEF Enter, TypeOK
            <4> QED BY <4>1, <4>2 DEF TypeOK
        <3> QED BY <1>19, <2>2, <2>3, <3>1, <3>2, <3>5, <3>6 DEF Enter, Quiet, Framing, TypeOK,
                    sessionVars
    <2>4. CASE ~Entitled(s)
        <3>1. Settling /\ NothingOpened /\ SessionTypes'
            BY <1>19, <2>1, <2>4, LawfulStatuses, BecomeSettles DEF Enter
        <3> QED BY <1>19, <2>2, <2>4, <3>1 DEF Enter, Quiet, Framing, SessionTypes, TypeOK,
                    sessionVars
    <2> QED BY <2>3, <2>4
<1> QED BY <1>1, <1>2, <1>3, <1>4, <1>5, <1>6, <1>7, <1>8, <1>9, <1>10, <1>11, <1>12, <1>13,
            <1>14, <1>15, <1>16, <1>17, <1>18, <1>19 DEF QuietStep

\* A quiet step redeems a code or a ticket, issues a ticket, or only tears tickets up.
LEMMA QuietTickets ==
    ASSUME TypeOK, QuietStep,
           \A r \in Requests : ~UnlockRight(r) /\ ~Enter(r), \A s \in Sessions : ~Handoff(s)
    PROVE  UNCHANGED history /\ \A s \in Sessions : ticket'[s] \in {ticket[s], 0}
<1>1. ASSUME NEW st, NEW last, Become(st, last)
      PROVE  \A s \in Sessions : ticket'[s] \in {ticket[s], 0}
    BY <1>1 DEF Become, WhileLive
<1> DEFINE Goal == UNCHANGED history /\ \A s \in Sessions : ticket'[s] \in {ticket[s], 0}
<1>2. CASE Sweep
    BY <1>1, <1>2 DEF Sweep
<1>3. CASE Stop \/ ServerClosed
    BY <1>1, <1>3 DEF Stop, ServerClosed
<1>4. ASSUME NEW t \in Tenants, NEW k \in Keys \cup {None}, Rotate(t, k)
      PROVE  Goal
    BY <1>4 DEF Rotate
<1>5. ASSUME NEW r \in Requests, UnlockWrong(r) \/ UnlockLate(r) \/ BodyLost(r) \/ Refused(r)
      PROVE  Goal
    BY <1>1, <1>5 DEF UnlockWrong, UnlockLate, BodyLost, Refused
<1>6. ASSUME NEW r \in Requests, NEW s \in Sessions, UnlockArrives(r, s) \/ EnterArrives(r, s)
      PROVE  Goal
    BY <1>1, <1>6 DEF UnlockArrives, EnterArrives, Arrives
<1>7. ASSUME NEW r \in Requests, NEW s \in Sessions, NEW action \in {"input", "tab"},
             ViewerArrives(r, s, action)
      PROVE  Goal
    BY <1>1, <1>7 DEF ViewerArrives
<1>8. ASSUME NEW s \in Sessions, Revoke(s) \/ Complete(s) \/ Proxied(s)
      PROVE  Goal
    BY <1>1, <1>8 DEF Revoke, Complete, Proxied
<1>9. ASSUME NEW s \in Sessions, TicketExpires(s) \/ Age(s)
      PROVE  Goal
    BY <1>9 DEF TicketExpires, Age, TypeOK
<1> HIDE DEF Goal
<1>10. Goal
    BY <1>2, <1>3, <1>4, <1>5, <1>6, <1>7, <1>8, <1>9 DEF QuietStep, Goal
<1> QED BY <1>10 DEF Goal

\* A session that may still be unlocked was so before the step.
LEMMA StillLocked ==
    ASSUME IInv, Settling
    PROVE  \A s \in Sessions : status'[s] \in {"free", "waiting"} => status'[s] = status[s]
BY Names DEF Settling

\* Whatever a quiet step redeems is redeemed for the first time.
LEMMA QuietRedeems ==
    ASSUME IInv, QuietStep
    PROVE  Unredeemed' /\ RedeemedOnce'
<1>0. TypeOK /\ Staged /\ Unredeemed /\ RedeemedOnce /\ Settling
    BY QuietSteps DEF IInv, Quiet
<1>1. ASSUME NEW r \in Requests, UnlockRight(r)
      PROVE  Unredeemed' /\ RedeemedOnce'
    <2> DEFINE s == req[r].session
    <2>1. s \in Sessions /\ status[s] = "waiting"
        BY <1>0, <1>1, LawfulStatuses, Names DEF UnlockRight, Redeemable, Staged
    <2>2. redeemed' = [redeemed EXCEPT ![s] = 1] /\ status'[s] = "connected"
        <3>1. redeemed[s] = 0
            BY <1>0, <2>1 DEF Unredeemed
        <3>2. redeemed' = [redeemed EXCEPT ![s] = 1]
            BY <1>1, <3>1 DEF UnlockRight
        <3>3. status' = [Swept EXCEPT ![s] = "connected"]
            BY <1>1 DEF UnlockRight, Become
        <3> QED BY <1>0, <2>1, <3>2, <3>3, LawfulStatuses DEF Lawful
    <2>3. \A x \in Sessions : ticket'[x] \in {ticket[x], 0}
        BY <1>1 DEF UnlockRight, Become, WhileLive
    <2>4. RedeemedOnce'
        BY <1>0, <1>1, <2>2 DEF RedeemedOnce, UnlockRight, TypeOK
    <2>5. ASSUME NEW x \in Sessions
          PROVE  /\ status'[x] \in {"free", "waiting"} => redeemed'[x] = 0
                 /\ ticket'[x] <= issued'[x]
                
                 /\ \A n \in 1 .. MaxTickets : n = ticket'[x] \/ n > issued'[x] => entered'[x][n] = 0
        <3>1. ticket[x] \in 0 .. MaxTickets /\ issued[x] \in 0 .. MaxTickets /\ MaxTickets \in Nat
            BY <1>0, ConnectAssumption DEF TypeOK
        <3>2. status'[x] \in {"free", "waiting"} => redeemed'[x] = 0
            BY <1>0, <2>2, StillLocked DEF Unredeemed, TypeOK
        <3>3. issued' = issued /\ entered' = entered
            BY <1>1 DEF UnlockRight
        <3> QED BY <1>0, <2>3, <3>1, <3>2, <3>3 DEF Unredeemed
    <2> QED BY <2>4, <2>5 DEF Unredeemed
<1>2. ASSUME NEW s \in Sessions, Handoff(s)
      PROVE  Unredeemed' /\ RedeemedOnce'
    <2>1. RedeemedOnce'
        BY <1>0, <1>2 DEF RedeemedOnce, Handoff
    <2>2. ASSUME NEW x \in Sessions
          PROVE  /\ status'[x] \in {"free", "waiting"} => redeemed'[x] = 0
                 /\ ticket'[x] <= issued'[x]
                
                 /\ \A n \in 1 .. MaxTickets : n = ticket'[x] \/ n > issued'[x] => entered'[x][n] = 0
        <3>1. ticket[x] \in 0 .. MaxTickets /\ issued[x] \in 0 .. MaxTickets /\ MaxTickets \in Nat
            BY <1>0, ConnectAssumption DEF TypeOK
        <3>2. status'[x] \in {"free", "waiting"} => redeemed'[x] = 0
            BY <1>0, <1>2, StillLocked DEF Unredeemed, Handoff
        <3>3. entered' = entered
            BY <1>2 DEF Handoff
        <3>4. CASE x = s
            <4>1. ticket'[x] = issued[x] + 1 /\ issued'[x] = issued[x] + 1
                BY <1>0, <1>2, <3>4 DEF Handoff, TypeOK, WhileLive
            <4> QED BY <1>0, <3>1, <3>2, <3>3, <4>1 DEF Unredeemed
        <3>5. CASE x # s
            <4>1. ticket'[x] \in {ticket[x], 0} /\ issued'[x] = issued[x]
                BY <1>0, <1>2, <3>5 DEF Handoff, TypeOK, WhileLive
            <4> QED BY <1>0, <3>1, <3>2, <3>3, <4>1 DEF Unredeemed
        <3> QED BY <3>4, <3>5
    <2> QED BY <2>1, <2>2 DEF Unredeemed
<1>3. ASSUME NEW r \in Requests, Enter(r)
      PROVE  Unredeemed' /\ RedeemedOnce'
    <2> DEFINE s == req[r].session
    <2>1. s \in Sessions
        BY <1>0, <1>3 DEF Enter, Staged
    <2>2. CASE ~Entitled(s)
        <3>1. UNCHANGED history /\ \A x \in Sessions : ticket'[x] \in {ticket[x], 0}
            BY <1>3, <2>2 DEF Enter, Become, WhileLive, history
        <3> QED BY <1>0, <3>1, NothingRedeemed, StillLocked
    <2>3. CASE Entitled(s)
        <3>1. UNCHANGED <<status, redeemed, issued>>
            BY <1>3, <2>3 DEF Enter
        <3>2. ticket' = [ticket EXCEPT ![s] = 0]
            BY <1>3, <2>3 DEF Enter, Tear
        <3>3. ticket[s] \in 1 .. MaxTickets /\ ticket[s] <= issued[s] /\ entered[s][ticket[s]] = 0
            BY <1>0, <1>3, <2>1, ConnectAssumption DEF Enter, TypeOK, Unredeemed
        <3>4. entered' = [entered EXCEPT ![s] = [entered[s] EXCEPT ![ticket[s]] = 1]]
            <4>1. entered' = [entered EXCEPT ![s] = [entered[s] EXCEPT ![ticket[s]] = @ + 1]]
                BY <1>0, <1>3, <2>1, <2>3 DEF Enter, TypeOK
            <4>2. [entered[s] EXCEPT ![ticket[s]] = @ + 1] = [entered[s] EXCEPT ![ticket[s]] = 1]
                BY <3>3
            <4> QED BY <4>1, <4>2
        <3>5. ASSUME NEW x \in Sessions, NEW n \in 1 .. MaxTickets
              PROVE  entered'[x][n] = IF x = s /\ n = ticket[s] THEN 1 ELSE entered[x][n]
            <4>1. entered \in [Sessions -> [1 .. MaxTickets -> Nat]]
                BY <1>0 DEF TypeOK
            <4> QED BY <2>1, <3>3, <3>4, <4>1
        <3>6. RedeemedOnce'
            BY <1>0, <3>1, <3>5 DEF RedeemedOnce
        <3>7. ASSUME NEW x \in Sessions
              PROVE  /\ status'[x] \in {"free", "waiting"} => redeemed'[x] = 0
                     /\ ticket'[x] <= issued'[x]
                    
                     /\ \A n \in 1 .. MaxTickets : n = ticket'[x] \/ n > issued'[x] => entered'[x][n] = 0
            <4>1. ticket[x] \in 0 .. MaxTickets /\ issued[x] \in 0 .. MaxTickets
                  /\ MaxTickets \in Nat
                BY <1>0, ConnectAssumption DEF TypeOK
            <4>2. ticket'[x] = IF x = s THEN 0 ELSE ticket[x]
                BY <1>0, <3>2 DEF TypeOK
            <4> QED BY <1>0, <3>1, <3>3, <3>5, <4>1, <4>2 DEF Unredeemed
        <3> QED BY <3>6, <3>7 DEF Unredeemed
    <2> QED BY <2>2, <2>3
<1> QED BY <1>0, <1>1, <1>2, <1>3, QuietTickets, NothingRedeemed, StillLocked

\* The wrong code that leaves no attempt locks the session.
LEMMA QuietTries ==
    ASSUME IInv, QuietStep
    PROVE  Tries'
<1>0. TypeOK /\ Staged /\ Tries /\ Settling
    BY QuietSteps DEF IInv, Quiet
<1>1. ASSUME NEW r \in Requests, UnlockWrong(r)
      PROVE  Tries'
    <2> DEFINE s == req[r].session
    <2>1. s \in Sessions /\ status[s] = "waiting"
        BY <1>0, <1>1, LawfulStatuses, Names DEF UnlockWrong, Redeemable, Staged
    <2>2. attempts[s] \in Nat /\ attempts' = [attempts EXCEPT ![s] = attempts[s] + 1]
        BY <1>0, <1>1, <2>1 DEF UnlockWrong, TypeOK
    <2>3. Locks(s) => status'[s] = "locked"
        BY <1>0, <1>1, <2>1, LawfulStatuses DEF UnlockWrong, Become, Lawful
    <2>4. status'[s] = "waiting" => attempts[s] + 1 < MaxAttempts
        BY <2>2, <2>3, ConnectAssumption DEF Locks
    <2> QED BY <1>0, <2>1, <2>2, <2>4, StillLocked, ConnectAssumption DEF Tries, TypeOK
<1>2. CASE \A r \in Requests : ~UnlockWrong(r)
    <2>1. attempts' = attempts
        BY <1>2 DEF QuietStep, Sweep, Stop, ServerClosed, Rotate, UnlockRight, UnlockLate, Enter,
            Refused, BodyLost, UnlockArrives, EnterArrives, Arrives, ViewerArrives, Revoke,
            Handoff, TicketExpires, Complete, Proxied, Age, sessionVars
    <2> QED BY <1>0, <2>1, StillLocked DEF Tries
<1> QED BY <1>1, <1>2

------------------------------------------------------------------------------
(* The steps of the requests that hold a connection, or open one.            *)

\* The frames in flight are those that were, ...
LEMMA SameFrames ==
    ASSUME Frames, UNCHANGED framePending,
           \A q \in Requests : /\ Framing(q)' <=> Framing(q)
                               /\ Framing(q) => req'[q].session = req[q].session
    PROVE  Frames'
BY DEF Frames

\* ... or those but the ones of the requests R, that are done, ...
LEMMA FewerFrames ==
    ASSUME TypeOK, Frames, NEW R \in SUBSET Requests, framePending' = FrameDone(R),
           \A q \in R : req[q].at \in {"sent", "reconnect"} /\ req'[q].at = "idle",
           \A q \in Requests \ R : req'[q] = req[q]
    PROVE  Frames'
<1>1. \A q \in Requests : Framing(q)' <=> Framing(q) /\ q \notin R
    BY DEF Framing
<1>2. \A s \in Sessions :
         framePending'[s] <=> framePending[s] /\ ~\E r \in R : req[r].session = s /\ Framing(r)
    BY DEF FrameDone, Framing
<1> QED BY <1>1, <1>2 DEF Frames

\* ... or one more, of a session that had none.
LEMMA OneMoreFrame ==
    ASSUME TypeOK, Frames, NEW r \in Requests, NEW s \in Sessions, NEW action,
           ~Framing(r), action = "frame" => ~framePending[s],
           framePending' = [framePending EXCEPT ![s] = @ \/ action = "frame"],
           \A q \in Requests \ {r} : req'[q] = req[q],
           req'[r].at \in {"sent", "reconnect"}, req'[r].session = s, req'[r].action = action
    PROVE  Frames'
<1>1. \A q \in Requests : Framing(q)' <=> Framing(q) \/ (q = r /\ action = "frame")
    BY DEF Framing
<1>2. \A x \in Sessions : framePending'[x] <=> framePending[x] \/ (x = s /\ action = "frame")
    BY DEF TypeOK
<1> QED BY <1>1, <1>2 DEF Frames, Framing

\* A request that comes to use a connection is of a connected session, and may be a
\* frame only if no other is in flight.
LEMMA Asking ==
    ASSUME IInv, NEW r \in Requests, NEW s \in Sessions, NEW action \in Actions,
           Asks(r, s, action)
    PROVE  /\ Lawful(Before(r))
           /\ status[s] \notin {"free", "waiting"}
           /\ Before(r)[s] \notin {"free", "waiting"}
           /\ transport[s] # None => status[s] = "connected"
           /\ req[r].at \in {"idle", "body"} /\ ~Framing(r)
           /\ action = "frame" => ~framePending[s]
           /\ Noticed(r, s) \in [Sessions -> {"fresh", "idle", "due"}]
<1> USE Names
<1>0. TypeOK /\ Staged /\ PastCode /\ Connected
    BY DEF IInv
<1>1. Lawful(Before(r))
    BY <1>0, LawfulStatuses DEF Before
<1>2. CASE req[r].at = "idle"
    <2>1. Swept[s] = "connected" /\ status[s] = "connected"
        BY <1>0, <1>2, LawfulStatuses DEF Asks
    <2> QED BY <1>0, <1>1, <1>2, <2>1 DEF Asks, Before, FrameFree, Framing, Noticed, TypeOK
<1>3. CASE req[r].at = "body"
    <2>1. status[s] \notin {"free", "waiting"} /\ action \in {"input", "tab"}
        BY <1>0, <1>3 DEF Asks, PastCode, Staged
    <2> QED BY <1>0, <1>1, <1>3, <2>1 DEF Before, Framing, Noticed, TypeOK, Connected, Active
<1> QED BY <1>2, <1>3 DEF Asks

\* A request with a session in hand, and a connection or none, is a request.
LEMMA InHandType ==
    ASSUME NEW s \in Sessions, NEW action \in Actions \cup {None}, NEW stage \in Stages,
           NEW h \in Conns \cup {None}
    PROVE  /\ InHand(s, action, stage, h) \in InFlight
           /\ InHand(s, action, stage, h).at = stage
           /\ InHand(s, action, stage, h).session = s
           /\ InHand(s, action, stage, h).conn = h
           /\ InHand(s, action, stage, h).action = action
BY RequestTypes DEF InHand, Idle, InFlight

\* What such a step does to tickets, codes and attempts: it can only tear tickets up.
Untouched ==
    /\ UNCHANGED <<attempts, redeemed, entered, issued>>
    /\ \A s \in Sessions : ticket'[s] \in {ticket[s], 0}

\* What is said of codes, tickets and attempts outlives such a step.
LEMMA UntouchedKeeps ==
    ASSUME IInv, Untouched, Settling
    PROVE  Tries' /\ Unredeemed' /\ RedeemedOnce'
<1>1. Tries'
    BY StillLocked DEF IInv, Tries, Untouched
<1> QED BY <1>1, NothingRedeemed, StillLocked DEF Untouched, history

\* What has to be shown of a working step.
Worked == TypeOK' /\ Handling /\ Untouched /\ Staged' /\ PastCode' /\ Frames'

\* A creation opens a connection and keeps it in hand.
LEMMA CreateWorks ==
    ASSUME IInv, NEW r \in Requests, NEW t \in Tenants, NEW h \in Conns, Create(r, t, h)
    PROVE  Worked
<1> USE Names
<1>0. TypeOK /\ Staged /\ PastCode /\ Connected /\ Frames
    BY DEF IInv
<1> DEFINE new == [Idle EXCEPT !.at = "select", !.tenant = t, !.key = key[t], !.conn = h]
<1>1. key[t] \in Keys /\ req[r].at = "idle" /\ conn[h] = "none"
    BY <1>0 DEF Create, TypeOK
<1>2. new \in InFlight /\ new.at = "select" /\ new.tenant = t /\ new.key = key[t] /\ new.conn = h
    BY <1>1 DEF Idle, InFlight
<1> HIDE DEF new
<1>3. /\ req' \in [Requests -> InFlight] /\ req'[r] = new
      /\ \A q \in Requests \ {r} : req'[q] = req[q]
    BY <1>0, <1>2 DEF Create, TypeOK, new
<1>4. conn' \in [Conns -> {"none", "open", "closed"}] /\ creating' \subseteq Tenants
    BY <1>0 DEF Create, TypeOK
<1>5. TypeOK'
    BY <1>0, <1>3, <1>4 DEF Create, TypeOK, sessionVars, history
<1>6. Settling
    BY <1>0, <1>1 DEF Create, Settling, Connected, Active, TypeOK
<1>7. Handling
    <2>1. ASSUME NEW g \in Conns, conn[g] = "none", conn'[g] = "open"
          PROVE  (Rebuilders(g) \cup Creators(g) # {})'
        <3>1. g = h
            BY <1>0, <2>1 DEF Create, TypeOK
        <3> QED BY <1>2, <1>3, <3>1 DEF Creators
    <2> QED BY <1>1, <1>2, <1>3, <1>6, <2>1 DEF Handling, Create, sessionVars
<1>8. Untouched
    BY DEF Create, Untouched, sessionVars, history
<1>9. Staged'
    <2>1. \A g \in Conns : conn[g] # "none" => conn'[g] # "none"
        BY <1>6 DEF Settling
    <2> QED BY <1>0, <1>1, <1>2, <1>3, <2>1 DEF Staged
<1>10. PastCode'
    BY <1>0, <1>2, <1>3 DEF PastCode, Create
<1>11. Frames'
    BY <1>0, <1>1, <1>2, <1>3, SameFrames DEF Framing, Create, sessionVars
<1> QED BY <1>5, <1>7, <1>8, <1>9, <1>10, <1>11 DEF Worked

\* A creation that fails closes the connection that only it had.
LEMMA CreateFailsWorks ==
    ASSUME IInv, NEW r \in Requests, CreateFails(r)
    PROVE  Worked
<1> USE Names
<1>0. TypeOK /\ Staged /\ PastCode /\ Connected /\ Frames
    BY DEF IInv
<1>1. /\ req' \in [Requests -> InFlight] /\ req'[r].at = "idle"
      /\ \A q \in Requests \ {r} : req'[q] = req[q]
    BY <1>0, AnswerType DEF CreateFails
<1>2. req[r].at = "select" /\ req[r].conn \in Conns
    BY <1>0 DEF CreateFails, Staged
<1>3. /\ conn' \in [Conns -> {"none", "open", "closed"}] /\ creating' \subseteq Tenants
      /\ NothingOpened /\ Settling /\ conn'[req[r].conn] = "closed"
    BY <1>0, <1>2 DEF CreateFails, TypeOK, NothingOpened, Settling, Connected, Active
<1>4. TypeOK'
    BY <1>0, <1>1, <1>3 DEF CreateFails, TypeOK, sessionVars, history
<1>5. Handling
    BY <1>1, <1>3 DEF Handling, NothingOpened, CreateFails, sessionVars
<1>6. Untouched
    BY DEF CreateFails, Untouched, sessionVars, history
<1>7. Staged'
    BY <1>0, <1>1, <1>3 DEF Staged, Settling
<1>8. PastCode'
    BY <1>0, <1>1 DEF PastCode, CreateFails
<1>9. Frames'
    BY <1>0, <1>1, <1>2, SameFrames DEF Framing, CreateFails, sessionVars
<1> QED BY <1>4, <1>5, <1>6, <1>7, <1>8, <1>9 DEF Worked

\* A request is sent over the connection of its own connected session.
LEMMA SendWorks ==
    ASSUME IInv, NEW r \in Requests, NEW s \in Sessions, NEW action \in Actions,
           Send(r, s, action)
    PROVE  Worked
<1> USE Names
<1>0. TypeOK /\ Staged /\ PastCode /\ Connected /\ Frames
    BY DEF IInv
<1>1. /\ Lawful(Before(r)) /\ Before(r)[s] \notin {"free", "waiting"}
      /\ req[r].at \in {"idle", "body"} /\ ~Framing(r)
      /\ action = "frame" => ~framePending[s]
      /\ Noticed(r, s) \in [Sessions -> {"fresh", "idle", "due"}]
    BY Asking DEF Send
<1>2. transport[s] \in Conns /\ conn[transport[s]] = "open" /\ status[s] = "connected"
    BY <1>0, Asking DEF Send, Usable, TypeOK
<1>3. /\ Settling /\ NothingOpened /\ SessionTypes'
      /\ \A x \in Sessions : ticket'[x] \in {ticket[x], 0}
    BY <1>0, <1>1, BecomeSettles DEF Send
<1>4. /\ req' \in [Requests -> InFlight]
      /\ req'[r].at = "sent" /\ req'[r].session = s /\ req'[r].conn = transport[s]
      /\ req'[r].action = action
      /\ \A q \in Requests \ {r} : req'[q] = req[q]
    <2> DEFINE new == InHand(s, action, "sent", transport[s])
    <2>1. /\ new \in InFlight /\ new.at = "sent" /\ new.session = s
          /\ new.conn = transport[s] /\ new.action = action
        <3>1. "sent" \in Stages /\ transport[s] \in Conns \cup {None}
            BY <1>2
        <3> QED BY <3>1, InHandType
    <2>2. req' = [req EXCEPT ![r] = new]
        BY DEF Send
    <2> HIDE DEF new
    <2> QED BY <1>0, <2>1, <2>2 DEF TypeOK
<1>5. TypeOK'
    <2>1. framePending' \in [Sessions -> BOOLEAN]
        BY <1>0 DEF Send, TypeOK
    <2> QED BY <1>0, <1>1, <1>3, <1>4, <2>1 DEF Send, SessionTypes, TypeOK, history
<1>6. Handling
    BY <1>1, <1>2, <1>3, <1>4 DEF Handling, NothingOpened, Send
<1>7. Untouched
    BY <1>3 DEF Send, Untouched, history
<1>8. Staged'
    BY <1>0, <1>2, <1>3, <1>4 DEF Staged, Settling
<1>9. PastCode'
    BY <1>0, <1>1, <1>3, <1>4 DEF PastCode, Staged, Settling, Send, Become
<1>10. Frames'
    BY <1>0, <1>1, <1>4, OneMoreFrame DEF Send
<1> QED BY <1>5, <1>6, <1>7, <1>8, <1>9, <1>10 DEF Worked

\* A request with no connection to use gives up, and may end the session.
LEMMA UnavailableWorks ==
    ASSUME IInv, NEW r \in Requests, NEW s \in Sessions, NEW action \in Actions,
           Unavailable(r, s, action)
    PROVE  Worked
<1> USE Names
<1>0. TypeOK /\ Staged /\ PastCode /\ Connected /\ Frames
    BY DEF IInv
<1>1. /\ req' \in [Requests -> InFlight] /\ req'[r].at = "idle"
      /\ \A q \in Requests \ {r} : req'[q] = req[q]
    BY <1>0, AnswerType DEF Unavailable
<1>2. req[r].at = "body" /\ ~Usable(s)
    BY DEF Unavailable
<1>3. /\ Settling /\ NothingOpened /\ SessionTypes'
      /\ \A x \in Sessions : ticket'[x] \in {ticket[x], 0}
    <2>1. CASE kind = "connect" /\ status[s] = "connected"
        <3>1. UNCHANGED <<status, ticket, conn, file>>
              /\ transport' = [transport EXCEPT ![s] = None]
            BY <2>1 DEF Unavailable
        <3>2. transport[s] # None => conn[transport[s]] # "open"
            BY <1>2 DEF Usable
        <3>3. Settling /\ NothingOpened
            BY <1>0, <3>1, <3>2 DEF Settling, NothingOpened, Connected, Active, TypeOK
        <3> QED BY <1>0, <3>1, <3>3 DEF SessionTypes, TypeOK
    <2>2. CASE ~(kind = "connect" /\ status[s] = "connected")
        BY <1>0, <2>2, LawfulStatuses, BecomeSettles DEF Unavailable
    <2> QED BY <2>1, <2>2
<1>4. TypeOK'
    BY <1>0, <1>1, <1>3 DEF Unavailable, SessionTypes, TypeOK, sessionVars, history
<1>5. Handling
    BY <1>1, <1>2, <1>3 DEF Handling, NothingOpened, Unavailable, sessionVars
<1>6. Untouched
    BY <1>3 DEF Unavailable, Untouched, sessionVars, history
<1>7. Staged'
    BY <1>0, <1>1, <1>3 DEF Staged, Settling
<1>8. PastCode'
    BY <1>0, <1>1, <1>3 DEF PastCode, Staged, Settling
<1>9. Frames'
    BY <1>0, <1>1, <1>2, SameFrames DEF Framing, Unavailable, sessionVars
<1> QED BY <1>4, <1>5, <1>6, <1>7, <1>8, <1>9 DEF Worked

\* A request that opens a connection again holds it through its session.
LEMMA ReconnectWorks ==
    ASSUME IInv, NEW r \in Requests, NEW s \in Sessions, NEW action \in Actions,
           Reconnect(r, s, action)
    PROVE  Worked
<1> USE Names
<1>0. TypeOK /\ Staged /\ PastCode /\ Connected /\ Frames
    BY DEF IInv
<1> DEFINE st == Before(r)
<1>1. /\ Lawful(st) /\ st[s] \notin {"free", "waiting"}
      /\ req[r].at \in {"idle", "body"} /\ ~Framing(r)
      /\ action = "frame" => ~framePending[s]
      /\ Noticed(r, s) \in [Sessions -> {"fresh", "idle", "due"}]
    BY Asking DEF Reconnect
<1> HIDE DEF st
<1>2. /\ status' = st /\ file' = Written(st, None) /\ ticket' = WhileLive(st, ticket, 0)
      /\ transport' = [WhileLive(st, transport, None) EXCEPT ![s] = None]
      /\ clock' = Noticed(r, s)
      /\ framePending' = [framePending EXCEPT ![s] = @ \/ action = "frame"]
      /\ req' = [req EXCEPT ![r] = InHand(s, action, "reconnect", None)]
    BY DEF Reconnect, st
<1>3. /\ status' \in [Sessions -> Statuses]
      /\ transport' \in [Sessions -> Conns \cup {None}]
      /\ ticket' \in [Sessions -> 0 .. MaxTickets]
      /\ \A x \in Sessions : ticket'[x] \in {ticket[x], 0}
      /\ file' \in [Tenants -> [session : Sessions \cup {None}, status : Statuses]]
    <2>1. status' \in [Sessions -> Statuses] /\ transport' \in [Sessions -> Conns \cup {None}]
        BY <1>0, <1>1, <1>2 DEF Lawful, WhileLive, TypeOK
    <2>2. ticket' \in [Sessions -> 0 .. MaxTickets]
          /\ \A x \in Sessions : ticket'[x] \in {ticket[x], 0}
        BY <1>0, <1>2, ConnectAssumption DEF WhileLive, TypeOK
    <2>3. file' \in [Tenants -> [session : Sessions \cup {None}, status : Statuses]]
        BY <1>0, <1>1, <1>2, WrittenType DEF Lawful
    <2> QED BY <2>1, <2>2, <2>3
<1>4. /\ req' \in [Requests -> InFlight]
      /\ req'[r].at = "reconnect" /\ req'[r].session = s /\ req'[r].action = action
      /\ \A q \in Requests \ {r} : req'[q] = req[q]
    <2> DEFINE new == InHand(s, action, "reconnect", None)
    <2>1. new \in InFlight /\ new.at = "reconnect" /\ new.session = s /\ new.action = action
        <3>1. "reconnect" \in Stages /\ action \in Actions \cup {None} /\ None \in Conns \cup {None}
            OBVIOUS
        <3> QED BY <3>1, InHandType
    <2> HIDE DEF new
    <2> QED BY <1>0, <1>2, <2>1 DEF TypeOK, new
<1>5. /\ conn' \in [Conns -> {"none", "open", "closed"}]
      /\ reconnecting' \in [Sessions -> Conns \cup {None}]
      /\ \A h \in Conns : \/ conn'[h] = ClosedBy(st)[h]
                          \/ conn[h] = "none" /\ conn'[h] = "open" /\ reconnecting'[s] = h
      /\ \A x \in Sessions : \/ reconnecting'[x] = reconnecting[x]
                             \/ x = s /\ reconnecting[s] = None
    <2>1. ClosedBy(st) \in [Conns -> {"none", "open", "closed"}]
        BY <1>0 DEF ClosedBy, TypeOK
    <2>2. CASE reconnecting[s] = None
        <3>1. PICK h \in Conns : /\ conn[h] = "none" /\ conn' = [ClosedBy(st) EXCEPT ![h] = "open"]
                                 /\ reconnecting' = [reconnecting EXCEPT ![s] = h]
            BY <2>2 DEF Reconnect, st
        <3> QED BY <1>0, <2>1, <2>2, <3>1 DEF TypeOK
    <2>3. CASE reconnecting[s] # None
        BY <1>0, <2>1, <2>3 DEF Reconnect, st, TypeOK
    <2> QED BY <2>2, <2>3
<1>6. \A h \in Conns : /\ ClosedBy(st)[h] \in {conn[h], "closed"}
                       /\ (\E x \in Sessions : transport[x] = h /\ st[x] \notin Live) =>
                             ClosedBy(st)[h] = "closed"
    BY DEF ClosedBy
<1>7. TypeOK'
    <2>1. framePending' \in [Sessions -> BOOLEAN]
        BY <1>0, <1>2 DEF TypeOK
    <2> QED BY <1>0, <1>1, <1>2, <1>3, <1>4, <1>5, <2>1 DEF Reconnect, TypeOK, history
<1>8. Settling
    <2>1. \A h \in Conns : \/ conn'[h] = conn[h] \/ conn'[h] = "closed"
                           \/ conn[h] = "none" /\ conn'[h] = "open"
        BY <1>5, <1>6
    <2>2. transport[s] # None => conn[transport[s]] \notin {"none", "open"}
          /\ transport[s] \in Conns
        BY <1>0 DEF Reconnect, Usable, TypeOK, Connected
    <2>3. ASSUME NEW x \in Sessions
          PROVE  \/ transport'[x] = transport[x] /\ (transport[x] # None => status'[x] \in Live)
                 \/ transport'[x] = None /\ (transport[x] # None => conn'[transport[x]] # "open")
        <3>1. transport[x] \in Conns \cup {None}
            BY <1>0 DEF TypeOK
        <3>2. CASE x # s
            <4>1. transport'[x] = IF st[x] \in Live THEN transport[x] ELSE None
                BY <1>2, <3>2 DEF WhileLive
            <4>2. transport[x] # None /\ st[x] \notin Live => ClosedBy(st)[transport[x]] = "closed"
                BY <1>6, <3>1
            <4>3. transport[x] # None => conn[transport[x]] # "none"
                BY <1>0 DEF Connected
            <4>4. transport[x] # None /\ st[x] \notin Live => conn'[transport[x]] # "open"
                BY <1>5, <3>1, <4>2, <4>3
            <4> QED BY <1>2, <4>1, <4>4
        <3>3. CASE x = s
            <4>1. transport'[s] = None
                BY <1>2, <1>3 DEF WhileLive
            <4> QED BY <1>5, <1>6, <2>2, <3>3, <4>1
        <3> QED BY <3>2, <3>3
    <2> QED BY <1>1, <1>2, <2>1, <2>3 DEF Settling, Lawful
<1>9. Handling
    <2>1. ASSUME NEW h \in Conns, conn[h] = "none", conn'[h] = "open"
          PROVE  (Rebuilders(h) \cup Creators(h) # {})'
        BY <1>5, <1>6, <2>1 DEF Rebuilders
    <2>2. transport'[s] = None /\ status'[s] # "free"
        BY <1>1, <1>2, <1>3
    <2> QED BY <1>1, <1>4, <1>5, <1>8, <2>1, <2>2 DEF Handling, Reconnect
<1>10. Untouched
    BY <1>3 DEF Reconnect, Untouched, history
<1>11. Staged'
    BY <1>0, <1>4, <1>8 DEF Staged, Settling
<1>12. PastCode'
    BY <1>0, <1>1, <1>2, <1>4, <1>8 DEF PastCode, Staged, Settling
<1>13. Frames'
    BY <1>0, <1>1, <1>2, <1>4, OneMoreFrame
<1> QED BY <1>7, <1>9, <1>10, <1>11, <1>12, <1>13 DEF Worked

\* A reply ends the request and, if it was a frame, admits the next.
LEMMA RepliedWorks ==
    ASSUME IInv, NEW r \in Requests, Replied(r)
    PROVE  Worked
<1> USE Names
<1>0. TypeOK /\ Staged /\ PastCode /\ Connected /\ Frames
    BY DEF IInv
<1>1. /\ req' \in [Requests -> InFlight] /\ req'[r].at = "idle"
      /\ \A q \in Requests \ {r} : req'[q] = req[q]
    BY <1>0, AnswerType DEF Replied
<1>2. req[r].at = "sent"
    BY DEF Replied
<1>3. Settling
    BY <1>0, NothingSettles DEF Replied
<1>4. TypeOK'
    <2>1. framePending' \in [Sessions -> BOOLEAN]
        BY <1>0 DEF Replied, FrameDone, TypeOK
    <2> QED BY <1>0, <1>1, <2>1 DEF Replied, TypeOK, history
<1>5. Handling
    BY <1>1, <1>2, <1>3 DEF Handling, Replied
<1>6. Untouched
    BY DEF Replied, Untouched, history
<1>7. Staged'
    BY <1>0, <1>1, <1>3 DEF Staged, Settling
<1>8. PastCode'
    BY <1>0, <1>1, <1>3 DEF PastCode, Staged, Settling
<1>9. Frames'
    BY <1>0, <1>1, <1>2, FewerFrames DEF Replied
<1> QED BY <1>4, <1>5, <1>6, <1>7, <1>8, <1>9 DEF Worked

\* So does an error; one that is not retried ends the session as well.
LEMMA RequestFailsWorks ==
    ASSUME IInv, NEW r \in Requests, RequestFails(r)
    PROVE  Worked
<1> USE Names
<1>0. TypeOK /\ Staged /\ PastCode /\ Connected /\ Frames
    BY DEF IInv
<1>1. /\ req' \in [Requests -> InFlight] /\ req'[r].at = "idle"
      /\ \A q \in Requests \ {r} : req'[q] = req[q]
    BY <1>0, AnswerType DEF RequestFails
<1>2. req[r].at = "sent" /\ req[r].session \in Sessions
    BY <1>0 DEF RequestFails, Staged
<1>3. /\ Settling /\ NothingOpened /\ SessionTypes'
      /\ \A x \in Sessions : ticket'[x] \in {ticket[x], 0}
    BY <1>0, <1>2, LawfulStatuses, BecomeSettles DEF RequestFails
<1>4. TypeOK'
    <2>1. framePending' \in [Sessions -> BOOLEAN]
        BY <1>0 DEF RequestFails, FrameDone, TypeOK
    <2> QED BY <1>0, <1>1, <1>3, <2>1 DEF RequestFails, SessionTypes, TypeOK, history
<1>5. Handling
    BY <1>1, <1>2, <1>3 DEF Handling, NothingOpened, RequestFails
<1>6. Untouched
    BY <1>3 DEF RequestFails, Untouched, history
<1>7. Staged'
    BY <1>0, <1>1, <1>3 DEF Staged, Settling
<1>8. PastCode'
    BY <1>0, <1>1, <1>3 DEF PastCode, Staged, Settling
<1>9. Frames'
    BY <1>0, <1>1, <1>2, FewerFrames DEF RequestFails
<1> QED BY <1>4, <1>5, <1>6, <1>7, <1>8, <1>9 DEF Worked

\* The requests that waited for a connection are answered together.
LEMMA DismissedType ==
    ASSUME TypeOK, NEW s \in Sessions, req' = Dismissed(s)
    PROVE  /\ req' \in [Requests -> InFlight] /\ Waiting(s) \subseteq Requests
           /\ \A q \in Waiting(s) : req[q].at = "reconnect" /\ req'[q].at = "idle"
           /\ \A q \in Requests \ Waiting(s) : req'[q] = req[q]
BY RequestTypes DEF TypeOK, Dismissed, Waiting

\* A connection that comes too late for its session is closed.
LEMMA ReconnectedLateWorks ==
    ASSUME IInv, NEW s \in Sessions, ReconnectedLate(s)
    PROVE  Worked
<1> USE Names
<1>0. TypeOK /\ Staged /\ PastCode /\ Connected /\ Frames
    BY DEF IInv
<1> DEFINE h == reconnecting[s]
<1>1. /\ req' \in [Requests -> InFlight] /\ Waiting(s) \subseteq Requests
      /\ \A q \in Waiting(s) : req[q].at = "reconnect" /\ req'[q].at = "idle"
      /\ \A q \in Requests \ Waiting(s) : req'[q] = req[q]
    BY <1>0, DismissedType DEF ReconnectedLate
<1>2. h \in Conns /\ conn' = [conn EXCEPT ![h] = "closed"]
    BY <1>0 DEF ReconnectedLate, TypeOK
<1>3. Settling /\ NothingOpened
    BY <1>0, <1>2 DEF ReconnectedLate, Settling, NothingOpened, Connected, Active, TypeOK
<1>4. TypeOK'
    <2>1. framePending' \in [Sessions -> BOOLEAN]
        BY <1>0 DEF ReconnectedLate, FrameDone, TypeOK
    <2>2. reconnecting' \in [Sessions -> Conns \cup {None}]
        BY <1>0 DEF ReconnectedLate, TypeOK
    <2>3. conn' \in [Conns -> {"none", "open", "closed"}]
        BY <1>0, <1>2 DEF TypeOK
    <2> QED BY <1>0, <1>1, <2>1, <2>2, <2>3 DEF ReconnectedLate, TypeOK, history
<1>5. Handling
    <2>1. reconnecting' = [reconnecting EXCEPT ![s] = None] /\ conn'[h] = "closed"
        BY <1>0, <1>2 DEF ReconnectedLate, TypeOK
    <2> QED BY <1>0, <1>1, <1>2, <1>3, <2>1 DEF Handling, NothingOpened, ReconnectedLate, TypeOK
<1>6. Untouched
    BY DEF ReconnectedLate, Untouched, history
<1>7. Staged'
    BY <1>0, <1>1, <1>3 DEF Staged, Settling
<1>8. PastCode'
    BY <1>0, <1>1, <1>3 DEF PastCode, Staged, Settling
<1>9. Frames'
    BY <1>0, <1>1, FewerFrames DEF ReconnectedLate
<1> QED BY <1>4, <1>5, <1>6, <1>7, <1>8, <1>9 DEF Worked

\* One that never comes leaves nobody waiting for it.
LEMMA ReconnectFailsWorks ==
    ASSUME IInv, NEW s \in Sessions, ReconnectFails(s)
    PROVE  Worked
<1> USE Names
<1>0. TypeOK /\ Staged /\ PastCode /\ Connected /\ Frames
    BY DEF IInv
<1> DEFINE h == reconnecting[s]
           st == Outcome(s)
<1>1. /\ req' \in [Requests -> InFlight] /\ Waiting(s) \subseteq Requests
      /\ \A q \in Waiting(s) : req[q].at = "reconnect" /\ req'[q].at = "idle"
      /\ \A q \in Requests \ Waiting(s) : req'[q] = req[q]
    BY <1>0, DismissedType DEF ReconnectFails
<1>2. h \in Conns /\ transport[s] = None
    BY <1>0 DEF ReconnectFails, TypeOK, Connected
<1>3. Lawful(st) /\ \A x \in Sessions \ {s} : st[x] = status[x]
    <2>1. \A x \in Sessions \ {s} : st[x] = status[x]
        BY <1>0 DEF Outcome, Lost, TypeOK
    <2> QED BY <1>0, <2>1, LawfulStatuses
<1> HIDE DEF st
<1>4. /\ status' = st /\ conn' = [ClosedBy(st) EXCEPT ![h] = "closed"]
      /\ file' = Written(st, IF st = status /\ Active(s) THEN None ELSE s)
      /\ UNCHANGED <<transport, ticket>>
    BY DEF ReconnectFails, st
<1>5. /\ ClosedBy(st) \in [Conns -> {"none", "open", "closed"}]
      /\ \A g \in Conns : ClosedBy(st)[g] = conn[g] \/ ClosedBy(st)[g] = "closed"
    BY <1>0 DEF ClosedBy, TypeOK
<1>6. /\ conn' \in [Conns -> {"none", "open", "closed"}] /\ conn'[h] = "closed"
      /\ \A g \in Conns : conn'[g] = conn[g] \/ conn'[g] = "closed"
    BY <1>2, <1>4, <1>5
<1>7. Settling /\ NothingOpened
    <2>1. \A x \in Sessions : transport[x] # None => x # s /\ Active(x)
        BY <1>0, <1>2 DEF Connected
    <2> QED BY <1>3, <1>4, <1>6, <2>1 DEF Settling, NothingOpened, Lawful, Active
<1>8. TypeOK'
    <2>1. framePending' \in [Sessions -> BOOLEAN]
        BY <1>0 DEF ReconnectFails, FrameDone, TypeOK
    <2>2. reconnecting' \in [Sessions -> Conns \cup {None}]
        BY <1>0 DEF ReconnectFails, TypeOK
    <2>3. file' \in [Tenants -> [session : Sessions \cup {None}, status : Statuses]]
        BY <1>0, <1>3, <1>4, WrittenType DEF Lawful
    <2>4. status' \in [Sessions -> Statuses]
        BY <1>3, <1>4 DEF Lawful
    <2> QED BY <1>0, <1>1, <1>6, <2>1, <2>2, <2>3, <2>4 DEF ReconnectFails, TypeOK, history
<1>9. Handling
    <2>1. reconnecting' = [reconnecting EXCEPT ![s] = None]
        BY DEF ReconnectFails
    <2> QED BY <1>0, <1>1, <1>2, <1>6, <1>7, <2>1 DEF Handling, NothingOpened, ReconnectFails,
                TypeOK
<1>10. Untouched
    BY DEF ReconnectFails, Untouched, history
<1>11. Staged'
    BY <1>0, <1>1, <1>7 DEF Staged, Settling
<1>12. PastCode'
    BY <1>0, <1>1, <1>7 DEF PastCode, Staged, Settling
<1>13. Frames'
    BY <1>0, <1>1, FewerFrames DEF ReconnectFails
<1> QED BY <1>8, <1>9, <1>10, <1>11, <1>12, <1>13 DEF Worked

\* A connection that closes itself takes nothing else with it.
LEMMA ConnLostWorks ==
    ASSUME IInv, NEW h \in Conns, ConnLost(h)
    PROVE  Worked
<1> USE Names
<1>0. TypeOK /\ Staged /\ PastCode /\ Connected /\ Frames
    BY DEF IInv
<1>1. conn' \in [Conns -> {"none", "open", "closed"}] /\ Settling /\ NothingOpened
    BY <1>0 DEF ConnLost, Settling, NothingOpened, Connected, Active, TypeOK
<1>2. TypeOK'
    BY <1>0, <1>1 DEF ConnLost, TypeOK, sessionVars, history
<1>3. Handling
    BY <1>1 DEF Handling, NothingOpened, ConnLost, sessionVars
<1>4. Untouched
    BY DEF ConnLost, Untouched, sessionVars, history
<1>5. Staged' /\ PastCode'
    BY <1>0, <1>1 DEF Staged, PastCode, Settling, ConnLost
<1>6. Frames'
    BY <1>0, SameFrames DEF Framing, ConnLost, sessionVars
<1> QED BY <1>2, <1>3, <1>4, <1>5, <1>6 DEF Worked

\* A working step keeps the invariant.
LEMMA WorkedKeeps ==
    ASSUME IInv, Worked
    PROVE  IInv'
BY HandlingKeeps, UntouchedKeeps DEF Worked, Handling, IInv

\* The connection that was opened for a session is handed to all that waited for it.
LEMMA ReconnectedKeeps ==
    ASSUME IInv, NEW s \in Sessions, Reconnected(s)
    PROVE  IInv'
<1> USE Names
<1>0. /\ TypeOK /\ Staged /\ PastCode /\ Tries /\ Connected /\ Held /\ Frames /\ Unredeemed
      /\ OneSessionPerTenant /\ CommandsOfItsSession /\ RedeemedOnce
    BY DEF IInv
<1> DEFINE h == reconnecting[s]
<1>1. h \in Conns /\ conn[h] = "open" /\ status[s] = "connected" /\ transport[s] = None
    BY <1>0 DEF Reconnected, StillWanted, TypeOK, Connected
<1>2. /\ transport' = [transport EXCEPT ![s] = h]
      /\ reconnecting' = [reconnecting EXCEPT ![s] = None]
      /\ UNCHANGED <<status, conn>>
    BY DEF Reconnected
<1>3. /\ req' \in [Requests -> InFlight]
      /\ \A q \in Requests \ Waiting(s) : req'[q] = req[q]
      /\ \A q \in Waiting(s) : /\ req[q].at = "reconnect" /\ req[q].session = s
                               /\ req'[q].at = "sent" /\ req'[q].session = s
                               /\ req'[q].conn = h /\ req'[q].action = req[q].action
    <2>1. ASSUME NEW q \in Waiting(s)
          PROVE  /\ req[q].at = "reconnect" /\ req[q].session = s
                 /\ req[q].action \in Actions \cup {None}
        BY <1>0 DEF Waiting, TypeOK, InFlight
    <2>2. ASSUME NEW q \in Waiting(s)
          PROVE  LET new == InHand(s, req[q].action, "sent", h)
                 IN  /\ new \in InFlight /\ new.at = "sent" /\ new.session = s
                     /\ new.conn = h /\ new.action = req[q].action
        <3>1. "sent" \in Stages /\ h \in Conns \cup {None}
            BY <1>1
        <3> QED BY <2>1, <3>1, InHandType
    <2>3. req' = [q \in Requests |-> IF q \in Waiting(s)
                                    THEN InHand(s, req[q].action, "sent", h) ELSE req[q]]
        BY DEF Reconnected
    <2>4. Waiting(s) \subseteq Requests /\ req \in [Requests -> InFlight]
        BY <1>0 DEF Waiting, TypeOK
    <2> QED BY <2>1, <2>2, <2>3, <2>4
<1>4. TypeOK'
    BY <1>0, <1>1, <1>2, <1>3 DEF Reconnected, TypeOK, history
<1>5. Staged'
    BY <1>0, <1>1, <1>2, <1>3 DEF Staged, Waiting
<1>6. PastCode'
    BY <1>0, <1>1, <1>2, <1>3 DEF PastCode, Staged
<1>7. Tries' /\ Unredeemed' /\ RedeemedOnce'
    BY <1>0, <1>2 DEF Tries, Unredeemed, RedeemedOnce, Reconnected, history
<1>8. Connected'
    BY <1>0, <1>1, <1>2 DEF Connected, Active, TypeOK
<1>9. Held'
    <2> SUFFICES ASSUME NEW g \in Conns, conn'[g] = "open"
                 PROVE  (Holders(g) \cup Rebuilders(g) \cup Creators(g) # {})'
        BY DEF Held
    <2>1. CASE g = h
        <3>1. transport'[s] = h
            BY <1>0, <1>2 DEF TypeOK
        <3>2. s \in Holders(g)'
            BY <1>1, <1>2, <2>1, <3>1 DEF Holders, ActiveSessions, Active
        <3> QED BY <3>2
    <2>2. CASE g # h
        <3>1. ASSUME NEW x \in Holders(g) PROVE x \in Holders(g)'
            BY <1>0, <1>1, <1>2 DEF Holders, ActiveSessions, Active, TypeOK
        <3>2. ASSUME NEW x \in Rebuilders(g) PROVE x \in Rebuilders(g)'
            BY <1>0, <1>2, <2>2 DEF Rebuilders, TypeOK
        <3>3. ASSUME NEW q \in Creators(g) PROVE q \in Creators(g)'
            BY <1>3 DEF Creators
        <3> QED BY <1>0, <1>2, <3>1, <3>2, <3>3 DEF Held
    <2> QED BY <2>1, <2>2
<1>10. Frames'
    <2>1. \A q \in Requests : /\ Framing(q)' <=> Framing(q)
                              /\ Framing(q) => req'[q].session = req[q].session
        BY <1>3 DEF Framing
    <2> QED BY <1>0, <2>1, SameFrames DEF Reconnected
<1>11. OneSessionPerTenant'
    BY <1>0, <1>2 DEF OneSessionPerTenant, ActiveSessions, Active, Reconnected
<1>12. CommandsOfItsSession'
    <2> SUFFICES ASSUME NEW q \in Requests, req'[q].at = "sent", conn'[req'[q].conn] = "open"
                 PROVE  /\ status'[req'[q].session] = "connected"
                        /\ transport'[req'[q].session] = req'[q].conn
        BY DEF CommandsOfItsSession
    <2>1. transport'[s] = h /\ \A x \in Sessions \ {s} : transport'[x] = transport[x]
        BY <1>0, <1>2 DEF TypeOK
    <2>2. CASE q \in Waiting(s)
        BY <1>1, <1>2, <1>3, <2>1, <2>2
    <2>3. CASE q \notin Waiting(s)
        <3>1. req'[q] = req[q] /\ req[q].session \in Sessions /\ req[q].conn \in Conns
            BY <1>0, <1>3, <2>3 DEF Staged
        <3>2. status[req[q].session] = "connected" /\ transport[req[q].session] = req[q].conn
            BY <1>0, <1>2, <3>1 DEF CommandsOfItsSession
        <3> QED BY <1>1, <1>2, <2>1, <3>1, <3>2
    <2> QED BY <2>2, <2>3
<1> QED BY <1>4, <1>5, <1>6, <1>7, <1>8, <1>9, <1>10, <1>11, <1>12 DEF IInv

\* The new session takes the creation's connection; the Claw's other sessions end.
LEMMA IssueKeeps ==
    ASSUME IInv, NEW r \in Requests, NEW id \in Sessions, Issue(r, id)
    PROVE  IInv'
<1> USE Names
<1>0. /\ TypeOK /\ Staged /\ PastCode /\ Tries /\ Connected /\ Held /\ Frames /\ Unredeemed
      /\ OneSessionPerTenant /\ CommandsOfItsSession /\ RedeemedOnce
    BY DEF IInv
<1> DEFINE t == req[r].tenant
           h == req[r].conn
           st == Replacing(t, id)
<1>1. /\ req[r].at = "select" /\ t \in Tenants /\ h \in Conns /\ req[r].key \in Keys
      /\ conn[h] = "open" /\ status[id] = "free"
    BY <1>0 DEF Issue, Staged
<1>2. /\ st \in [Sessions -> Statuses] /\ st[id] = "waiting"
      /\ \A x \in Sessions \ {id} :
            \/ st[x] = status[x] /\ ~(Active(x) /\ tenantOf[x] = t)
            \/ st[x] = "replaced" /\ Active(x)
    BY <1>0 DEF Replacing, TypeOK
<1> HIDE DEF st
<1>3. /\ status' = st /\ conn' = ClosedBy(st) /\ ticket' = WhileLive(st, ticket, 0)
      /\ transport' = [WhileLive(st, transport, None) EXCEPT ![id] = h]
      /\ tenantOf' = [tenantOf EXCEPT ![id] = t]
      /\ ownerKey' = [ownerKey EXCEPT ![id] = req[r].key]
      /\ file' = [file EXCEPT ![t] = [session |-> id, status |-> "waiting"]]
      /\ creating' = creating \ {t}
      /\ UNCHANGED <<kind, phase, key, attempts, reconnecting, framePending, clock,
                     redeemed, entered, issued>>
    BY DEF Issue, st, history
<1>4. /\ req' \in [Requests -> InFlight] /\ req'[r].at = "idle"
      /\ \A q \in Requests \ {r} : req'[q] = req[q]
    BY <1>0, AnswerType DEF Issue
<1>5. /\ conn' \in [Conns -> {"none", "open", "closed"}]
      /\ \A g \in Conns : conn'[g] \in {conn[g], "closed"}
      /\ \A x \in Sessions : transport[x] # None /\ st[x] \notin Live =>
            conn'[transport[x]] = "closed"
    BY <1>0, <1>3 DEF ClosedBy, TypeOK
<1>6. /\ transport' \in [Sessions -> Conns \cup {None}] /\ transport'[id] = h
      /\ \A x \in Sessions \ {id} :
            transport'[x] = IF st[x] \in Live THEN transport[x] ELSE None
    BY <1>0, <1>1, <1>3 DEF WhileLive, TypeOK
<1>7. TypeOK'
    <2>1. ticket' \in [Sessions -> 0 .. MaxTickets]
        BY <1>0, <1>3, ConnectAssumption DEF WhileLive, TypeOK
    <2>2. file' \in [Tenants -> [session : Sessions \cup {None}, status : Statuses]]
        <3>1. [session |-> id, status |-> "waiting"] \in [session : Sessions \cup {None}, status : Statuses]
            OBVIOUS
        <3> QED BY <1>0, <1>3, <3>1 DEF TypeOK
    <2>3. tenantOf' \in [Sessions -> Tenants \cup {None}]
          /\ ownerKey' \in [Sessions -> Keys \cup {None}]
        BY <1>0, <1>1, <1>3 DEF TypeOK
    <2>4. creating' \subseteq Tenants
        BY <1>0, <1>3 DEF TypeOK
    <2> QED BY <1>0, <1>2, <1>3, <1>4, <1>5, <1>6, <2>1, <2>2, <2>3, <2>4 DEF TypeOK
<1>8. Staged'
    BY <1>0, <1>4, <1>5 DEF Staged
<1>9. PastCode'
    BY <1>0, <1>1, <1>2, <1>3, <1>4 DEF PastCode, Staged
<1>10. Tries'
    BY <1>0, <1>1, <1>2, <1>3 DEF Tries
<1>11. Connected'
    <2>1. ASSUME NEW x \in Sessions, transport'[x] # None
          PROVE  Active(x)' /\ conn'[transport'[x]] # "none"
        <3>1. CASE x = id
            BY <1>1, <1>2, <1>3, <1>5, <1>6, <3>1 DEF Active
        <3>2. CASE x # id
            <4>1. st[x] \in Live /\ transport'[x] = transport[x] /\ transport[x] \in Conns
                BY <1>0, <1>6, <2>1, <3>2 DEF TypeOK
            <4> QED BY <1>0, <1>3, <1>5, <2>1, <4>1 DEF Connected, Active
        <3> QED BY <3>1, <3>2
    <2>2. ASSUME NEW x \in Sessions, reconnecting'[x] # None
          PROVE  transport'[x] = None /\ status'[x] # "free"
        <3>1. x # id /\ transport[x] = None /\ status[x] # "free"
            BY <1>0, <1>1, <1>3, <2>2 DEF Connected
        <3> QED BY <1>2, <1>3, <1>6, <3>1
    <2> QED BY <2>1, <2>2 DEF Connected
<1>12. Held'
    <2> SUFFICES ASSUME NEW g \in Conns, conn'[g] = "open"
                 PROVE  (Holders(g) \cup Rebuilders(g) \cup Creators(g) # {})'
        BY DEF Held
    <2>1. conn[g] = "open"
        BY <1>5
    <2>2. ASSUME NEW x \in Holders(g) PROVE x \in Holders(g)'
        <3>1. x \in Sessions /\ x # id /\ transport[x] = g /\ g # None /\ st[x] \in Live
            BY <1>1, <1>5 DEF Holders, ActiveSessions, Active
        <3> QED BY <1>3, <1>6, <3>1 DEF Holders, ActiveSessions, Active
    <2>3. ASSUME NEW x \in Rebuilders(g) PROVE x \in Rebuilders(g)'
        BY <1>3 DEF Rebuilders
    <2>4. ASSUME NEW q \in Creators(g) PROVE id \in Holders(g)' \/ q \in Creators(g)'
        BY <1>2, <1>3, <1>4, <1>6 DEF Creators, Holders, ActiveSessions, Active
    <2> QED BY <1>0, <2>1, <2>2, <2>3, <2>4 DEF Held
<1>13. Frames'
    BY <1>0, <1>1, <1>3, <1>4, SameFrames DEF Framing
<1>14. Unredeemed' /\ RedeemedOnce'
    <2>1. \A x \in Sessions : ticket'[x] \in {ticket[x], 0}
        BY <1>3 DEF WhileLive
    <2>2. \A x \in Sessions : status'[x] \in {"free", "waiting"} => status[x] \in {"free", "waiting"}
        BY <1>1, <1>2, <1>3
    <2> QED BY <1>3, <2>1, <2>2, NothingRedeemed DEF history
<1>15. OneSessionPerTenant'
    <2>1. ASSUME NEW x \in Sessions, Active(x)', x # id
          PROVE  Active(x) /\ tenantOf'[x] = tenantOf[x] /\ tenantOf'[x] # t
        BY <1>0, <1>2, <1>3, <2>1 DEF Active, TypeOK
    <2>2. tenantOf'[id] = t
        BY <1>0, <1>3 DEF TypeOK
    <2> QED BY <1>0, <2>1, <2>2 DEF OneSessionPerTenant, ActiveSessions
<1>16. CommandsOfItsSession'
    <2> SUFFICES ASSUME NEW q \in Requests, req'[q].at = "sent", conn'[req'[q].conn] = "open"
                 PROVE  /\ status'[req'[q].session] = "connected"
                        /\ transport'[req'[q].session] = req'[q].conn
        BY DEF CommandsOfItsSession
    <2>1. req'[q] = req[q] /\ req[q].session \in Sessions /\ req[q].conn \in Conns
        BY <1>0, <1>4 DEF Staged
    <2>2. status[req[q].session] = "connected" /\ transport[req[q].session] = req[q].conn
        BY <1>0, <1>5, <2>1 DEF CommandsOfItsSession
    <2> QED BY <1>1, <1>2, <1>3, <1>5, <1>6, <2>1, <2>2
<1> QED BY <1>7, <1>8, <1>9, <1>10, <1>11, <1>12, <1>13, <1>14, <1>15, <1>16 DEF IInv

------------------------------------------------------------------------------
\* Init establishes the invariant.
LEMMA InitIInv == Init => IInv
<1> SUFFICES ASSUME Init PROVE IInv
    OBVIOUS
<1>0. \A r \in Requests : req[r].at = "idle" /\ req[r] \in InFlight
    BY RequestTypes DEF Init
<1>1. TypeOK
    <2>1. req \in [Requests -> InFlight]
        BY <1>0 DEF Init
    <2>2. \A t \in Tenants : file[t] \in [session : Sessions \cup {None}, status : Statuses]
        BY Names DEF Init
    <2>3. entered \in [Sessions -> [1 .. MaxTickets -> Nat]]
        BY DEF Init
    <2>4. /\ attempts \in [Sessions -> 0 .. MaxAttempts] /\ ticket \in [Sessions -> 0 .. MaxTickets]
          /\ issued \in [Sessions -> 0 .. MaxTickets] /\ redeemed \in [Sessions -> Nat]
        BY ConnectAssumption DEF Init
    <2>5. file \in [Tenants -> [session : Sessions \cup {None}, status : Statuses]]
        BY <2>2 DEF Init
    <2> QED BY <2>1, <2>3, <2>4, <2>5, Names DEF Init, TypeOK
<1>2. Staged /\ PastCode
    BY <1>0 DEF Staged, PastCode
<1>3. Tries /\ Connected
    BY ConnectAssumption DEF Init, Tries, Connected
<1>4. Frames
    BY <1>0 DEF Init, Frames, Framing
<1>5. Held
    BY DEF Init, Held
<1>6. Unredeemed /\ RedeemedOnce
    BY ConnectAssumption DEF Init, Unredeemed, RedeemedOnce
<1>7. OneSessionPerTenant
    BY Names DEF Init, OneSessionPerTenant, ActiveSessions, Active
<1>8. CommandsOfItsSession
    BY <1>0 DEF CommandsOfItsSession
<1> QED BY <1>1, <1>2, <1>3, <1>4, <1>5, <1>6, <1>7, <1>8 DEF IInv

\* A step is quiet, or one of those that work with connections, or issues a session or
\* hands a new connection over.
LEMMA Steps ==
    ASSUME Next
    PROVE  \/ QuietStep
           \/ \E r \in Requests :
                 \/ CreateFails(r) \/ Replied(r) \/ RequestFails(r)
                 \/ \E t \in Tenants, h \in Conns : Create(r, t, h)
                 \/ \E s \in Sessions : Issue(r, s)
                 \/ \E s \in Sessions, action \in Actions :
                       Send(r, s, action) \/ Reconnect(r, s, action) \/ Unavailable(r, s, action)
           \/ \E s \in Sessions : Reconnected(s) \/ ReconnectedLate(s) \/ ReconnectFails(s)
           \/ \E h \in Conns : ConnLost(h)
BY DEF Next, QuietStep

\* Every step keeps the invariant.
LEMMA NextIInv == IInv /\ [Next]_vars => IInv'
<1> SUFFICES ASSUME IInv, [Next]_vars PROVE IInv'
    OBVIOUS
<1>1. CASE UNCHANGED vars
    <2>1. Quiet /\ UNCHANGED history /\ UNCHANGED <<ticket, attempts>>
        BY <1>1, NothingSettles DEF vars, Quiet, history, IInv
    <2>2. Untouched
        BY <2>1 DEF Untouched, history
    <2>3. Settling
        BY <2>1 DEF Quiet
    <2>4. TypeOK'
        BY <1>1 DEF vars, IInv, TypeOK
    <2> QED BY <2>1, <2>2, <2>3, <2>4, QuietKeeps, UntouchedKeeps DEF IInv
<1>2. CASE QuietStep
    BY <1>2, QuietSteps, QuietKeeps, QuietRedeems, QuietTries DEF IInv
<1>3. ASSUME NEW r \in Requests, CreateFails(r) \/ Replied(r) \/ RequestFails(r)
      PROVE  IInv'
    BY <1>3, CreateFailsWorks, RepliedWorks, RequestFailsWorks, WorkedKeeps
<1>4. ASSUME NEW r \in Requests, NEW t \in Tenants, NEW h \in Conns, Create(r, t, h)
      PROVE  IInv'
    BY <1>4, CreateWorks, WorkedKeeps
<1>5. ASSUME NEW r \in Requests, NEW s \in Sessions, Issue(r, s)
      PROVE  IInv'
    BY <1>5, IssueKeeps
<1>6. ASSUME NEW r \in Requests, NEW s \in Sessions, NEW action \in Actions,
             Send(r, s, action) \/ Reconnect(r, s, action) \/ Unavailable(r, s, action)
      PROVE  IInv'
    BY <1>6, SendWorks, ReconnectWorks, UnavailableWorks, WorkedKeeps
<1>7. ASSUME NEW s \in Sessions, Reconnected(s) \/ ReconnectedLate(s) \/ ReconnectFails(s)
      PROVE  IInv'
    BY <1>7, ReconnectedKeeps, ReconnectedLateWorks, ReconnectFailsWorks, WorkedKeeps
<1>8. ASSUME NEW h \in Conns, ConnLost(h)
      PROVE  IInv'
    BY <1>8, ConnLostWorks, WorkedKeeps
<1> QED BY <1>1, <1>2, <1>3, <1>4, <1>5, <1>6, <1>7, <1>8, Steps

------------------------------------------------------------------------------
(* The theorems about the specification.                                     *)

\* Every reachable state satisfies the invariant.
THEOREM Invariant == Spec => []IInv
<1> QED BY InitIInv, NextIInv, PTL DEF Spec

\* Every variable keeps its type: no count of wrong codes exceeds the limit.
THEOREM TypeCorrect == Spec => []TypeOK
<1>1. IInv => TypeOK
    BY DEF IInv
<1> QED BY <1>1, Invariant, PTL

\* A Claw has at most one session, whatever its creations wait for (broker.mjs, one
\* session per Claw).
THEOREM OneSession == Spec => []OneSessionPerTenant
<1>1. IInv => OneSessionPerTenant
    BY DEF IInv
<1> QED BY <1>1, Invariant, PTL

\* No connection is left open without somebody who will close it, none is opened beside
\* another, and frames are refused only while one is in flight.
THEOREM Connections == Spec => []ConnectionsHeld
<1>1. IInv => ConnectionsHeld
    BY DEF IInv, ConnectionsHeld, Held, Connected, Usable, Frames, Framing
<1> QED BY <1>1, Invariant, PTL

\* What waits for an open connection's reply is of the live session that owns it.
THEOREM Commands == Spec => []CommandsOfItsSession
<1>1. IInv => CommandsOfItsSession
    BY DEF IInv
<1> QED BY <1>1, Invariant, PTL

\* A code, and each ticket, is redeemed at most once.
THEOREM Once == Spec => []RedeemedOnce
<1>1. IInv => RedeemedOnce
    BY DEF IInv
<1> QED BY <1>1, Invariant, PTL

\* No step revives a session, although this broker's end(s, status) has no guard.
THEOREM EndedFinal == Spec => EndedStaysEnded
<1> DEFINE Stays == \A s \in Sessions : status[s] \in Ended => status'[s] \in Ended
<1>1. ASSUME IInv, [Next]_vars
      PROVE  Stays
    <2>1. ASSUME Settling
          PROVE  Stays
        BY <2>1, Names DEF Settling
    <2>2. ASSUME Worked
          PROVE  Stays
        BY <2>1, <2>2 DEF Worked, Handling
    <2>3. CASE QuietStep
        BY <1>1, <2>1, <2>3, QuietSteps DEF Quiet
    <2>4. ASSUME NEW r \in Requests, CreateFails(r) \/ Replied(r) \/ RequestFails(r)
          PROVE  Stays
        BY <1>1, <2>2, <2>4, CreateFailsWorks, RepliedWorks, RequestFailsWorks
    <2>5. ASSUME NEW r \in Requests, NEW t \in Tenants, NEW h \in Conns, Create(r, t, h)
          PROVE  Stays
        BY <1>1, <2>2, <2>5, CreateWorks
    <2>6. ASSUME NEW r \in Requests, NEW id \in Sessions, Issue(r, id)
          PROVE  Stays
        BY <2>6, Names DEF Issue, Replacing, Active
    <2>7. ASSUME NEW r \in Requests, NEW s \in Sessions, NEW action \in Actions,
                 Send(r, s, action) \/ Reconnect(r, s, action) \/ Unavailable(r, s, action)
          PROVE  Stays
        BY <1>1, <2>2, <2>7, SendWorks, ReconnectWorks, UnavailableWorks
    <2>8. ASSUME NEW s \in Sessions, Reconnected(s)
          PROVE  Stays
        BY <2>8 DEF Reconnected
    <2>9. ASSUME NEW s \in Sessions, ReconnectedLate(s) \/ ReconnectFails(s)
          PROVE  Stays
        BY <1>1, <2>2, <2>9, ReconnectedLateWorks, ReconnectFailsWorks
    <2>10. ASSUME NEW h \in Conns, ConnLost(h)
           PROVE  Stays
        BY <1>1, <2>2, <2>10, ConnLostWorks
    <2>11. CASE UNCHANGED vars
        BY <2>11 DEF vars
    <2> HIDE DEF Stays
    <2> QED BY <1>1, <2>3, <2>4, <2>5, <2>6, <2>7, <2>8, <2>9, <2>10, <2>11, Steps
<1>2. Spec => [][Stays]_vars
    BY <1>1, Invariant, PTL DEF Spec
<1> QED BY <1>2 DEF EndedStaysEnded
=============================================================================
