------------------------- MODULE RemoteTerminalProofs -------------------------
(* Proofs about RemoteTerminal, for every value of its constants. *)
EXTENDS RemoteTerminal, FiniteSetTheorems, TLAPS

\* A request names the session or transport its stage works with.
Staged ==
    \A r \in Requests :
        /\ req[r].at \in {"unlock", "body", "queued", "typing", "drain", "opening"} =>
              req[r].session \in Sessions
        /\ req[r].at \in {"ready", "opening"} => req[r].shell \in Shells
        /\ req[r].at = "ready" => req[r].tenant \in Tenants /\ req[r].key \in Keys

\* A session that can still be unlocked has an attempt left.
Tries == \A s \in Sessions : status[s] \in {"free", "waiting"} => attempts[s] < MaxAttempts

\* An input that is not settled is on its session's chain, at the head while typed.
Chained ==
    \A r \in Requests :
        /\ req[r].at \in {"queued", "typing"} =>
              \E i \in 1 .. Len(inputTail[req[r].session]) : inputTail[req[r].session][i] = r
        /\ req[r].at = "typing" => Head(inputTail[req[r].session]) = r

\* One request at a time changes a session's shell, and has a generation left for it.
Changer(r) == req[r].at \in {"drain", "opening"}
OneChanger ==
    /\ \A r \in Requests : Changer(r) => generation[req[r].session] < MaxGen
    /\ \A r1, r2 \in Requests :
          Changer(r1) /\ Changer(r2) /\ req[r1].session = req[r2].session => r1 = r2

\* A tenant is being prepared for by the one request that created its transport.
Preparing ==
    /\ \A r \in Requests : req[r].at = "ready" => req[r].tenant \in creating
    /\ \A r1, r2 \in Requests :
          req[r1].at = "ready" /\ req[r2].at = "ready" /\ req[r1].tenant = req[r2].tenant
             => r1 = r2

\* A code that can still be redeemed has not been.
Unredeemed == \A s \in Sessions : status[s] \in {"free", "waiting"} => redeemed[s] = 0

IInv ==
    /\ TypeOK /\ Staged /\ Tries /\ Chained /\ OneChanger /\ ChangingIsOwned
    /\ OneTerminalPerTenant /\ Unredeemed /\ CodeRedeemedOnce
    /\ Preparing /\ CapacityKept

------------------------------------------------------------------------------
(* What the helpers of the actions return.                                   *)

\* The names of the statuses and of the shells' states that the steps below mention.
LEMMA Names ==
    /\ {"waiting", "connected", "revoked", "expired", "locked", "completed",
        "replaced", "disconnected"} \subseteq Statuses
    /\ {"none", "starting", "running", "dead", "closed"} \subseteq ShellStates
    /\ Live \subseteq Statuses /\ Ended \subseteq Statuses
    /\ "free" \notin Live \cup Ended /\ Live \cap Ended = {}
BY DEF Statuses, ShellStates, Live, Ended

\* Sweeping leaves a session as it is or ends a live one.
LEMMA SweptStatus ==
    ASSUME TypeOK
    PROVE  /\ Swept \in [Sessions -> Statuses]
           /\ \A s \in Sessions : \/ Swept[s] = status[s]
                                  \/ status[s] \in Live /\ Swept[s] \in Ended
           /\ \A s \in Sessions : Swept[s] \in Live => Swept[s] = status[s]
BY DEF TypeOK, Swept, Verdict, Statuses, Active, Live, Ended

\* Ending sessions touches nothing but statuses and the states of transports.
LEMMA BecomeType ==
    ASSUME TypeOK, NEW st \in [Sessions -> Statuses]
    PROVE  /\ ClosedBy(st) \in [Shells -> ShellStates]
           /\ Become(st) => /\ status' \in [Sessions -> Statuses]
                            /\ shell' \in [Shells -> ShellStates]
<1>1. ClosedBy(st) \in [Shells -> ShellStates]
    BY Names DEF TypeOK, ClosedBy
<1> QED BY <1>1 DEF Become

\* A free slot is a request record.
LEMMA IdleType == Idle \in InFlight
BY BrokerAssumption DEF Idle, InFlight, Stages

\* An answered request frees its slot.
LEMMA AnswerType ==
    ASSUME TypeOK, NEW r \in Requests, Answer(r)
    PROVE  /\ req' \in [Requests -> InFlight]
           /\ req'[r].at = "idle"
           /\ \A q \in Requests \ {r} : req'[q] = req[q]
BY IdleType DEF TypeOK, Answer, Idle

\* A request that moves on to another stage keeps its type.
LEMMA MoveType ==
    ASSUME TypeOK, NEW r \in Requests, NEW stage \in Stages
    PROVE  [req[r] EXCEPT !.at = stage] \in InFlight
<1>1. req[r] \in InFlight
    BY DEF TypeOK
<1> QED BY <1>1 DEF InFlight

\* ... also when it turns to a transport.
LEMMA MoveToShellType ==
    ASSUME TypeOK, NEW r \in Requests, NEW stage \in Stages, NEW h \in Shells \cup {None}
    PROVE  [req[r] EXCEPT !.at = stage, !.shell = h] \in InFlight
<1>1. req[r] \in InFlight
    BY DEF TypeOK
<1> QED BY <1>1 DEF InFlight

\* The head of a chain that holds a request can be taken off.
LEMMA SettleType ==
    ASSUME TypeOK, Staged, Chained, NEW r \in Requests,
           req[r].at \in {"queued", "typing"}, Settle(r)
    PROVE  /\ req' \in [Requests -> InFlight]
           /\ inputTail' \in [Sessions -> Seq(Requests)]
<1> DEFINE s == req[r].session
<1>1. s \in Sessions /\ inputTail[s] \in Seq(Requests)
    BY DEF Staged, TypeOK
<1>2. inputTail[s] # <<>>
    BY <1>1 DEF Chained
<1>3. Tail(inputTail[s]) \in Seq(Requests)
    BY <1>1, <1>2
<1> QED BY <1>1, <1>3, AnswerType DEF Settle, TypeOK

------------------------------------------------------------------------------
\* Init establishes the invariant.
LEMMA InitIInv == Init => IInv
<1> SUFFICES ASSUME Init PROVE IInv
    OBVIOUS
<1>1. TypeOK
    BY BrokerAssumption, IdleType DEF Init, TypeOK, Statuses, ShellStates
<1>2. Staged /\ Tries /\ Chained /\ OneChanger
    BY BrokerAssumption DEF Init, Staged, Tries, Chained, OneChanger, Changer, Idle
<1>3. OneTerminalPerTenant /\ Unredeemed /\ CodeRedeemedOnce
    BY DEF Init, OneTerminalPerTenant, ActiveSessions, Active, Live, Unredeemed, CodeRedeemedOnce
<1>4. Preparing /\ ChangingIsOwned
    BY DEF Init, Preparing, ChangingIsOwned, Idle
<1>5. CapacityKept
    <2>1. ActiveSessions = {} /\ creating = {}
        BY DEF Init, ActiveSessions, Active, Live
    <2> QED BY <2>1, FS_EmptySet, BrokerAssumption DEF CapacityKept
<1> QED BY <1>1, <1>2, <1>3, <1>4, <1>5 DEF IInv

\* Every step keeps every variable within its type.
LEMMA TypeStep == IInv /\ [Next]_vars => TypeOK'
<1> SUFFICES ASSUME IInv, [Next]_vars PROVE TypeOK'
    OBVIOUS
<1>0. TypeOK /\ Staged /\ Tries /\ Chained /\ OneChanger
    BY DEF IInv
<1> USE <1>0
<1>1. CASE Sweep
    <2>1. status' \in [Sessions -> Statuses] /\ shell' \in [Shells -> ShellStates]
        BY <1>1, SweptStatus, BecomeType DEF Sweep
    <2> QED BY <1>1, <2>1 DEF Sweep, TypeOK, sessionVars, history
<1>2. ASSUME NEW r \in Requests, NEW t \in Tenants, NEW h \in Shells, Create(r, t, h)
      PROVE  TypeOK'
    <2>1. req' \in [Requests -> InFlight]
        BY <1>2, IdleType, BrokerAssumption DEF Create, TypeOK, InFlight, Stages, Idle
    <2>2. shell' \in [Shells -> ShellStates]
        BY <1>2, Names DEF Create, TypeOK
    <2>3. rate' \in [Tenants -> 0 .. MaxRate]
        BY <1>2, BrokerAssumption DEF Create, TypeOK
    <2> QED BY <1>2, <2>1, <2>2, <2>3 DEF Create, TypeOK, sessionVars, history
<1>3. ASSUME NEW r \in Requests, NEW id \in Sessions, Issue(r, id)
      PROVE  TypeOK'
    <2>1. req' \in [Requests -> InFlight]
        BY <1>3, AnswerType DEF Issue
    <2>2. Replacing(req[r].tenant, id) \in [Sessions -> Statuses]
        BY <1>3, Names DEF Issue, Replacing, TypeOK
    <2>3. status' \in [Sessions -> Statuses] /\ shell' \in [Shells -> ShellStates]
        BY <1>3, <2>2, BecomeType DEF Issue
    <2>4. req[r].tenant \in Tenants /\ req[r].key \in Keys /\ req[r].shell \in Shells
        BY <1>3 DEF Issue, Staged
    <2> QED BY <1>3, <2>1, <2>2, <2>3, <2>4 DEF Issue, TypeOK, sessionVars, history
<1>4. ASSUME NEW r \in Requests, CreateFails(r)
      PROVE  TypeOK'
    <2>1. req' \in [Requests -> InFlight]
        BY <1>4, AnswerType DEF CreateFails
    <2>2. shell' \in [Shells -> ShellStates]
        BY <1>4, Names DEF CreateFails, TypeOK
    <2> QED BY <1>4, <2>1, <2>2 DEF CreateFails, TypeOK, sessionVars, history
<1>5. ASSUME NEW s \in Sessions, Revoke(s)
      PROVE  TypeOK'
    <2>1. [Swept EXCEPT ![s] = IF @ \in Live THEN "revoked" ELSE @] \in [Sessions -> Statuses]
        BY <1>5, SweptStatus, Names DEF Revoke
    <2>2. status' \in [Sessions -> Statuses] /\ shell' \in [Shells -> ShellStates]
        BY <1>5, <2>1, BecomeType DEF Revoke
    <2> QED BY <1>5, <2>1, <2>2 DEF Revoke, TypeOK, sessionVars, history
<1>6. ASSUME NEW r \in Requests, NEW s \in Sessions, UnlockArrives(r, s)
      PROVE  TypeOK'
    <2>1. status' \in [Sessions -> Statuses] /\ shell' \in [Shells -> ShellStates]
        BY <1>6, SweptStatus, BecomeType DEF UnlockArrives
    <2>2. req' \in [Requests -> InFlight]
        BY <1>6, IdleType DEF UnlockArrives, TypeOK, InFlight, Stages, Idle
    <2> QED BY <1>6, <2>1, <2>2 DEF UnlockArrives, TypeOK, sessionVars, history
<1>7. ASSUME NEW r \in Requests, UnlockRight(r)
      PROVE  TypeOK'
    <2>1. req' \in [Requests -> InFlight]
        BY <1>7, AnswerType DEF UnlockRight
    <2>2. [Swept EXCEPT ![req[r].session] = "connected"] \in [Sessions -> Statuses]
        BY <1>7, SweptStatus, Names DEF UnlockRight
    <2>3. status' \in [Sessions -> Statuses] /\ shell' \in [Shells -> ShellStates]
        BY <1>7, <2>2, BecomeType DEF UnlockRight
    <2>4. req[r].session \in Sessions
        BY <1>7 DEF UnlockRight, Staged
    <2>5. clock' \in [Sessions -> {"fresh", "idle", "due"}]
        BY <1>7 DEF UnlockRight, TypeOK
    <2>6. redeemed' \in [Sessions -> Nat]
        BY <1>7, <2>4 DEF UnlockRight, TypeOK
    <2> QED BY <1>7, <2>1, <2>3, <2>5, <2>6 DEF UnlockRight, TypeOK, sessionVars, history
<1>8. ASSUME NEW r \in Requests, UnlockWrong(r)
      PROVE  TypeOK'
    <2>1. req' \in [Requests -> InFlight]
        BY <1>8, AnswerType DEF UnlockWrong
    <2>2. [Swept EXCEPT ![req[r].session] = IF Locks(req[r].session) THEN "locked" ELSE @] \in [Sessions -> Statuses]
        BY <1>8, SweptStatus, Names DEF UnlockWrong
    <2>3. status' \in [Sessions -> Statuses] /\ shell' \in [Shells -> ShellStates]
        BY <1>8, <2>2, BecomeType DEF UnlockWrong
    <2>4. req[r].session \in Sessions /\ status[req[r].session] = "waiting"
        BY <1>8, SweptStatus DEF UnlockWrong, Staged, Redeemable, Live
    <2>5. attempts' \in [Sessions -> 0 .. MaxAttempts]
        BY <1>8, <2>4, BrokerAssumption DEF UnlockWrong, TypeOK, Tries
    <2> QED BY <1>8, <2>1, <2>2, <2>3, <2>4, <2>5 DEF UnlockWrong, TypeOK, sessionVars, history
<1>9. ASSUME NEW r \in Requests, UnlockLate(r)
      PROVE  TypeOK'
    <2>1. req' \in [Requests -> InFlight]
        BY <1>9, AnswerType DEF UnlockLate
    <2>2. status' \in [Sessions -> Statuses] /\ shell' \in [Shells -> ShellStates]
        BY <1>9, SweptStatus, BecomeType DEF UnlockLate
    <2> QED BY <1>9, <2>1, <2>2 DEF UnlockLate, TypeOK, sessionVars, history
<1>10. ASSUME NEW s \in Sessions, Poll(s)
      PROVE  TypeOK'
    <2>1. status' \in [Sessions -> Statuses] /\ shell' \in [Shells -> ShellStates]
        BY <1>10, SweptStatus, BecomeType DEF Poll
    <2> QED BY <1>10, <2>1 DEF Poll, TypeOK, sessionVars, history
<1>11. ASSUME NEW s \in Sessions, Complete(s)
      PROVE  TypeOK'
    <2>1. [Swept EXCEPT ![s] = "completed"] \in [Sessions -> Statuses]
        BY <1>11, SweptStatus, Names DEF Complete
    <2>2. status' \in [Sessions -> Statuses] /\ shell' \in [Shells -> ShellStates]
        BY <1>11, <2>1, BecomeType DEF Complete
    <2> QED BY <1>11, <2>1, <2>2 DEF Complete, TypeOK, sessionVars, history
<1>12. ASSUME NEW r \in Requests, NEW s \in Sessions, ViewerArrives(r, s)
      PROVE  TypeOK'
    <2>1. status' \in [Sessions -> Statuses] /\ shell' \in [Shells -> ShellStates]
        BY <1>12, SweptStatus, BecomeType DEF ViewerArrives
    <2>2. req' \in [Requests -> InFlight]
        BY <1>12, IdleType DEF ViewerArrives, TypeOK, InFlight, Stages, Idle
    <2> QED BY <1>12, <2>1, <2>2 DEF ViewerArrives, TypeOK, sessionVars, history
<1>13. ASSUME NEW r \in Requests, ViewerAnswered(r)
      PROVE  TypeOK'
    <2>1. req' \in [Requests -> InFlight]
        BY <1>13, AnswerType DEF ViewerAnswered
    <2>2. status' \in [Sessions -> Statuses] /\ shell' \in [Shells -> ShellStates]
        BY <1>13, SweptStatus, BecomeType DEF ViewerAnswered
    <2> QED BY <1>13, <2>1, <2>2 DEF ViewerAnswered, TypeOK, sessionVars, history
<1>14. ASSUME NEW r \in Requests, NEW n \in 1 .. MaxSeq, NEW g \in 0 .. MaxGen, InputAccepted(r, n, g)
      PROVE  TypeOK'
    <2>1. status' \in [Sessions -> Statuses] /\ shell' \in [Shells -> ShellStates]
        BY <1>14, SweptStatus, BecomeType DEF InputAccepted
    <2>2. req' \in [Requests -> InFlight]
        <3>1. req[r] \in InFlight
            BY DEF TypeOK
        <3>2. "queued" \in Stages /\ n \in 0 .. MaxSeq
            BY BrokerAssumption DEF Stages
        <3>3. [req[r] EXCEPT !.at = "queued", !.seq = n, !.gen = g] \in InFlight
            BY <3>1, <3>2 DEF InFlight
        <3>4. req' = [req EXCEPT ![r] = [req[r] EXCEPT !.at = "queued", !.seq = n, !.gen = g]]
            BY <1>14 DEF InputAccepted, TypeOK
        <3> QED BY <3>3, <3>4 DEF TypeOK
    <2>3. Append(inputTail[req[r].session], r) \in Seq(Requests)
        BY <1>14 DEF InputAccepted, Staged, TypeOK
    <2>4. inputTail' \in [Sessions -> Seq(Requests)]
        BY <1>14, <2>3 DEF InputAccepted, TypeOK
    <2> QED BY <1>14, <2>1, <2>2, <2>4 DEF InputAccepted, TypeOK, sessionVars, history
<1>15. ASSUME NEW r \in Requests, InputRefused(r)
      PROVE  TypeOK'
    <2>1. req' \in [Requests -> InFlight] /\ inputTail' \in [Sessions -> Seq(Requests)]
        BY <1>15, SettleType DEF InputRefused, Turn
    <2>2. status' \in [Sessions -> Statuses] /\ shell' \in [Shells -> ShellStates]
        BY <1>15, SweptStatus, BecomeType DEF InputRefused
    <2> QED BY <1>15, <2>1, <2>2 DEF InputRefused, TypeOK, sessionVars, history
<1>16. ASSUME NEW r \in Requests, InputSent(r)
      PROVE  TypeOK'
    <2>1. status' \in [Sessions -> Statuses] /\ shell' \in [Shells -> ShellStates]
        BY <1>16, SweptStatus, BecomeType DEF InputSent
    <2>2. req[r].session \in Sessions
        BY <1>16 DEF InputSent, Staged, Turn
    <2>3. [seq |-> req[r].seq, gen |-> req[r].gen] \in Inputs
        BY <1>16, <2>2, BrokerAssumption DEF InputSent, TypeOK, Inputs, InFlight
    <2>4. \A h \in Shells : Append(pipe[h], [seq |-> req[r].seq, gen |-> req[r].gen]) \in Seq(Inputs)
        BY <2>3 DEF TypeOK
    <2>5. pipe' \in [Shells -> Seq(Inputs)]
        BY <1>16, <2>4 DEF InputSent, TypeOK
    <2>6. transport[req[r].session] \in Shells \cup {None}
        BY <2>2 DEF TypeOK
    <2>7. [req[r] EXCEPT !.at = "typing", !.shell = transport[req[r].session]] \in InFlight
        BY <2>6, MoveToShellType DEF Stages
    <2>8. req' \in [Requests -> InFlight]
        BY <1>16, <2>7 DEF InputSent, TypeOK
    <2> QED BY <1>16, <2>1, <2>5, <2>8 DEF InputSent, TypeOK, sessionVars, history
<1>17. ASSUME NEW r \in Requests, InputUnsendable(r)
      PROVE  TypeOK'
    <2>1. req' \in [Requests -> InFlight] /\ inputTail' \in [Sessions -> Seq(Requests)]
        BY <1>17, SettleType DEF InputUnsendable, Turn
    <2>2. [Swept EXCEPT ![req[r].session] = "disconnected"] \in [Sessions -> Statuses]
        BY <1>17, SweptStatus, Names DEF InputUnsendable
    <2>3. status' \in [Sessions -> Statuses] /\ shell' \in [Shells -> ShellStates]
        BY <1>17, <2>2, BecomeType DEF InputUnsendable
    <2> QED BY <1>17, <2>1, <2>2, <2>3 DEF InputUnsendable, TypeOK, sessionVars, history
<1>18. ASSUME NEW r \in Requests, InputAcked(r)
      PROVE  TypeOK'
    <2>1. req' \in [Requests -> InFlight] /\ inputTail' \in [Sessions -> Seq(Requests)]
        BY <1>18, SettleType DEF InputAcked
    <2>2. lastInput' \in [Sessions -> 0 .. MaxSeq]
        BY <1>18 DEF InputAcked, TypeOK, InFlight
    <2> QED BY <1>18, <2>1, <2>2 DEF InputAcked, TypeOK, sessionVars, history
<1>19. ASSUME NEW r \in Requests, InputFails(r)
      PROVE  TypeOK'
    <2>1. req' \in [Requests -> InFlight] /\ inputTail' \in [Sessions -> Seq(Requests)]
        BY <1>19, SettleType DEF InputFails
    <2>2. status' \in [Sessions -> Statuses]
        BY <1>19, Names DEF InputFails, TypeOK, Lose
    <2>3. shell' \in [Shells -> ShellStates]
        BY <1>19, Names DEF InputFails, TypeOK
    <2> QED BY <1>19, <2>1, <2>2, <2>3 DEF InputFails, TypeOK, sessionVars, history
<1>20. ASSUME NEW r \in Requests, ShellAsked(r)
      PROVE  TypeOK'
    <2>1. status' \in [Sessions -> Statuses] /\ shell' \in [Shells -> ShellStates]
        BY <1>20, SweptStatus, BecomeType DEF ShellAsked
    <2>2. req' \in [Requests -> InFlight]
        <3>1. [req[r] EXCEPT !.at = "drain"] \in InFlight
            BY MoveType DEF Stages
        <3> QED BY <1>20, <3>1 DEF ShellAsked, TypeOK
    <2>3. changing' \in [Sessions -> BOOLEAN]
        BY <1>20 DEF ShellAsked, TypeOK
    <2> QED BY <1>20, <2>1, <2>2, <2>3 DEF ShellAsked, TypeOK, sessionVars, history
<1>21. ASSUME NEW r \in Requests, NEW h \in Shells, ShellOpening(r, h)
      PROVE  TypeOK'
    <2>1. req' \in [Requests -> InFlight]
        <3>1. [req[r] EXCEPT !.at = "opening", !.shell = h] \in InFlight
            BY MoveToShellType DEF Stages
        <3> QED BY <1>21, <3>1 DEF ShellOpening, TypeOK
    <2>2. shell' \in [Shells -> ShellStates]
        BY <1>21, Names DEF ShellOpening, TypeOK
    <2> QED BY <1>21, <2>1, <2>2 DEF ShellOpening, TypeOK, sessionVars, history
<1>22. ASSUME NEW r \in Requests, ShellSwapped(r)
      PROVE  TypeOK'
    <2>1. req' \in [Requests -> InFlight]
        BY <1>22, AnswerType DEF ShellSwapped
    <2>2. status' \in [Sessions -> Statuses] /\ shell' \in [Shells -> ShellStates]
        BY <1>22, SweptStatus, BecomeType, Names DEF ShellSwapped
    <2>3. req[r].session \in Sessions /\ req[r].shell \in Shells /\ generation[req[r].session] + 1 \in 0 .. MaxGen
        BY <1>22, BrokerAssumption DEF ShellSwapped, Staged, OneChanger, Changer, TypeOK
    <2>4. transport' \in [Sessions -> Shells \cup {None}]
        BY <1>22, <2>3 DEF ShellSwapped, TypeOK
    <2>5. changing' \in [Sessions -> BOOLEAN]
        BY <1>22 DEF ShellSwapped, TypeOK
    <2>7. lastInput' \in [Sessions -> 0 .. MaxSeq]
        <3>1. 0 \in 0 .. MaxSeq
            BY BrokerAssumption
        <3>2. lastInput' = [lastInput EXCEPT ![req[r].session] = 0]
            BY <1>22 DEF ShellSwapped
        <3> QED BY <3>1, <3>2 DEF TypeOK
    <2>6. generation' \in [Sessions -> 0 .. MaxGen] /\ installed' \in [Shells -> 0 .. MaxGen]
        BY <1>22, <2>3 DEF ShellSwapped, TypeOK
    <2> QED BY <1>22, <2>1, <2>2, <2>4, <2>5, <2>6, <2>7 DEF ShellSwapped, TypeOK, sessionVars, history
<1>23. ASSUME NEW r \in Requests, ShellNotSwapped(r)
      PROVE  TypeOK'
    <2>1. req' \in [Requests -> InFlight]
        BY <1>23, AnswerType DEF ShellNotSwapped
    <2>2. status' \in [Sessions -> Statuses] /\ shell' \in [Shells -> ShellStates]
        BY <1>23, SweptStatus, BecomeType, Names DEF ShellNotSwapped, TypeOK
    <2>3. changing' \in [Sessions -> BOOLEAN]
        BY <1>23 DEF ShellNotSwapped, TypeOK, NoLonger
    <2> QED BY <1>23, <2>1, <2>2, <2>3 DEF ShellNotSwapped, TypeOK, sessionVars, history
<1>24. ASSUME NEW h \in Shells, ShellReady(h)
      PROVE  TypeOK'
    <2>1. shell' \in [Shells -> ShellStates]
        BY <1>24, Names DEF ShellReady, TypeOK
    <2> QED BY <1>24, <2>1 DEF ShellReady, TypeOK, sessionVars, history
<1>25. ASSUME NEW h \in Shells, ShellDies(h)
      PROVE  TypeOK'
    <2>1. shell' \in [Shells -> ShellStates]
        BY <1>25, Names DEF ShellDies, TypeOK
    <2>2. pipe' \in [Shells -> Seq(Inputs)]
        BY <1>25 DEF ShellDies, TypeOK
    <2> QED BY <1>25, <2>1, <2>2 DEF ShellDies, TypeOK, sessionVars, history
<1>26. ASSUME NEW h \in Shells, ShellTypes(h)
      PROVE  TypeOK'
    <2>1. Head(pipe[h]) \in Inputs /\ Tail(pipe[h]) \in Seq(Inputs)
        BY <1>26 DEF ShellTypes, TypeOK
    <2> QED BY <1>26, <2>1 DEF ShellTypes, TypeOK, sessionVars, history
<1>27. ASSUME NEW t \in Tenants, NEW k \in Keys \cup {None}, Rotate(t, k)
      PROVE  TypeOK'
    BY <1>27 DEF Rotate, TypeOK, sessionVars, history
<1>28. ASSUME NEW s \in Sessions, Age(s)
      PROVE  TypeOK'
    BY <1>28 DEF Age, TypeOK, sessionVars, history
<1>29. ASSUME NEW t \in Tenants, RateForgotten(t)
      PROVE  TypeOK'
    <2>1. rate' \in [Tenants -> 0 .. MaxRate]
        BY <1>29, BrokerAssumption DEF RateForgotten, TypeOK
    <2> QED BY <1>29, <2>1 DEF RateForgotten, TypeOK, sessionVars, history
<1>30. CASE Shutdown
    <2>1. Disconnected \in [Sessions -> Statuses]
        BY <1>30, Names DEF Shutdown, Disconnected, TypeOK
    <2>2. status' \in [Sessions -> Statuses] /\ shell' \in [Shells -> ShellStates]
        BY <1>30, <2>1, BecomeType DEF Shutdown
    <2> QED BY <1>30, <2>1, <2>2 DEF Shutdown, TypeOK, sessionVars, history
<1>31. CASE ServerClosed
    <2>1. Disconnected \in [Sessions -> Statuses]
        BY <1>31, Names DEF ServerClosed, Disconnected, TypeOK
    <2>2. status' \in [Sessions -> Statuses] /\ shell' \in [Shells -> ShellStates]
        BY <1>31, <2>1, BecomeType DEF ServerClosed
    <2> QED BY <1>31, <2>1, <2>2 DEF ServerClosed, TypeOK, sessionVars, history
<1>32. CASE UNCHANGED vars
    BY <1>32 DEF vars, TypeOK
<1>33. ASSUME NEW h \in Shells, ShellGivenUp(h)
      PROVE  TypeOK'
    <2>1. shell' \in [Shells -> ShellStates]
        BY <1>33, Names DEF ShellGivenUp, TypeOK
    <2> QED BY <1>33, <2>1 DEF ShellGivenUp, TypeOK, sessionVars, history
<1>34. ASSUME NEW r \in Requests, BodyRefused(r)
      PROVE  TypeOK'
    <2>1. req' \in [Requests -> InFlight]
        BY <1>34, AnswerType DEF BodyRefused
    <2> QED BY <1>34, <2>1 DEF BodyRefused, TypeOK, sessionVars, history
<1> QED BY <1>1, <1>2, <1>3, <1>4, <1>5, <1>6, <1>7, <1>8, <1>9, <1>10, <1>11, <1>12, <1>13,
       <1>14, <1>15, <1>16, <1>17, <1>18, <1>19, <1>20, <1>21, <1>22, <1>23, <1>24, <1>25,
       <1>26, <1>27, <1>28, <1>29, <1>30, <1>31, <1>32, <1>33, <1>34 DEF Next, Proceed

------------------------------------------------------------------------------
(* What a step does to the sessions, and what it does to the requests in     *)
(* flight: the invariants below are about one or the other.                  *)

\* No session does anything but end.
Fades ==
    /\ \A s \in Sessions : \/ status'[s] = status[s]
                           \/ status[s] \in Live /\ status'[s] \in Ended
    /\ UNCHANGED <<tenantOf, redeemed>>

\* Besides ending, a session is only ever issued or unlocked.
LEMMA StatusStep ==
    ASSUME IInv, [Next]_vars
    PROVE  \/ Fades /\ (UNCHANGED attempts \/ \E r \in Requests : UnlockWrong(r))
           \/ \E r \in Requests : UnlockRight(r)
           \/ \E r \in Requests, id \in Sessions : Issue(r, id)
<1>0. TypeOK /\ Staged
    BY DEF IInv
<1> USE <1>0
<1>1. CASE Sweep
    BY <1>1, SweptStatus DEF Sweep, Become, Fades, sessionVars, history
<1>2. ASSUME NEW r \in Requests, NEW t \in Tenants, NEW h \in Shells, Create(r, t, h)
      PROVE  Fades /\ UNCHANGED attempts
    BY <1>2 DEF Create, Fades, sessionVars, history
<1>3. ASSUME NEW r \in Requests, CreateFails(r)
      PROVE  Fades /\ UNCHANGED attempts
    BY <1>3 DEF CreateFails, Fades, sessionVars, history
<1>4. ASSUME NEW s \in Sessions, Revoke(s)
      PROVE  Fades /\ UNCHANGED attempts
    BY <1>4, Names, SweptStatus DEF Revoke, Become, Ended, Fades, sessionVars, history
<1>5. ASSUME NEW r \in Requests, NEW s \in Sessions, UnlockArrives(r, s)
      PROVE  Fades /\ UNCHANGED attempts
    BY <1>5, SweptStatus DEF UnlockArrives, Become, Fades, sessionVars, history
<1>6. ASSUME NEW r \in Requests, UnlockWrong(r)
      PROVE  Fades
    BY <1>6, SweptStatus DEF UnlockWrong, Become, Redeemable, Staged, Live, Ended, Fades, sessionVars, history
<1>7. ASSUME NEW r \in Requests, UnlockLate(r)
      PROVE  Fades /\ UNCHANGED attempts
    BY <1>7, SweptStatus DEF UnlockLate, Become, Fades, sessionVars, history
<1>8. ASSUME NEW s \in Sessions, Poll(s)
      PROVE  Fades /\ UNCHANGED attempts
    BY <1>8, SweptStatus DEF Poll, Become, Fades, sessionVars, history
<1>9. ASSUME NEW s \in Sessions, Complete(s)
      PROVE  Fades /\ UNCHANGED attempts
    BY <1>9, SweptStatus DEF Complete, Become, Live, Ended, Fades, sessionVars, history
<1>10. ASSUME NEW r \in Requests, NEW s \in Sessions, ViewerArrives(r, s)
      PROVE  Fades /\ UNCHANGED attempts
    BY <1>10, SweptStatus DEF ViewerArrives, Become, Fades, sessionVars, history
<1>11. ASSUME NEW r \in Requests, ViewerAnswered(r)
      PROVE  Fades /\ UNCHANGED attempts
    BY <1>11, SweptStatus DEF ViewerAnswered, Become, Fades, sessionVars, history
<1>12. ASSUME NEW r \in Requests, NEW n \in 1 .. MaxSeq, NEW g \in 0 .. MaxGen, InputAccepted(r, n, g)
      PROVE  Fades /\ UNCHANGED attempts
    BY <1>12, SweptStatus DEF InputAccepted, Become, Fades, sessionVars, history
<1>13. ASSUME NEW r \in Requests, InputRefused(r)
      PROVE  Fades /\ UNCHANGED attempts
    BY <1>13, SweptStatus DEF InputRefused, Become, Fades, sessionVars, history
<1>14. ASSUME NEW r \in Requests, InputSent(r)
      PROVE  Fades /\ UNCHANGED attempts
    BY <1>14, SweptStatus DEF InputSent, Become, Fades, sessionVars, history
<1>15. ASSUME NEW r \in Requests, InputUnsendable(r)
      PROVE  Fades /\ UNCHANGED attempts
    BY <1>15, SweptStatus DEF InputUnsendable, Become, Live, Ended, Fades, sessionVars, history
<1>16. ASSUME NEW r \in Requests, InputAcked(r)
      PROVE  Fades /\ UNCHANGED attempts
    BY <1>16 DEF InputAcked, Fades, sessionVars, history
<1>17. ASSUME NEW r \in Requests, InputFails(r)
      PROVE  Fades /\ UNCHANGED attempts
    BY <1>17 DEF InputFails, TypeOK, Lose, Active, Live, Ended, Fades, sessionVars, history
<1>18. ASSUME NEW r \in Requests, ShellAsked(r)
      PROVE  Fades /\ UNCHANGED attempts
    BY <1>18, SweptStatus DEF ShellAsked, Become, Fades, sessionVars, history
<1>19. ASSUME NEW r \in Requests, NEW h \in Shells, ShellOpening(r, h)
      PROVE  Fades /\ UNCHANGED attempts
    BY <1>19 DEF ShellOpening, Fades, sessionVars, history
<1>20. ASSUME NEW r \in Requests, ShellSwapped(r)
      PROVE  Fades /\ UNCHANGED attempts
    BY <1>20, SweptStatus DEF ShellSwapped, Fades, sessionVars, history
<1>21. ASSUME NEW r \in Requests, ShellNotSwapped(r)
      PROVE  Fades /\ UNCHANGED attempts
    BY <1>21, SweptStatus DEF ShellNotSwapped, Fades, sessionVars, history
<1>22. ASSUME NEW h \in Shells, ShellReady(h)
      PROVE  Fades /\ UNCHANGED attempts
    BY <1>22 DEF ShellReady, Fades, sessionVars, history
<1>23. ASSUME NEW h \in Shells, ShellDies(h)
      PROVE  Fades /\ UNCHANGED attempts
    BY <1>23 DEF ShellDies, Fades, sessionVars, history
<1>24. ASSUME NEW h \in Shells, ShellTypes(h)
      PROVE  Fades /\ UNCHANGED attempts
    BY <1>24 DEF ShellTypes, Fades, sessionVars, history
<1>25. ASSUME NEW t \in Tenants, NEW k \in Keys \cup {None}, Rotate(t, k)
      PROVE  Fades /\ UNCHANGED attempts
    BY <1>25 DEF Rotate, Fades, sessionVars, history
<1>26. ASSUME NEW s \in Sessions, Age(s)
      PROVE  Fades /\ UNCHANGED attempts
    BY <1>26 DEF Age, Fades, sessionVars, history
<1>27. ASSUME NEW t \in Tenants, RateForgotten(t)
      PROVE  Fades /\ UNCHANGED attempts
    BY <1>27 DEF RateForgotten, Fades, sessionVars, history
<1>28. CASE Shutdown
    BY <1>28 DEF Shutdown, Become, Disconnected, Active, Ended, Fades, sessionVars, history
<1>29. CASE ServerClosed
    BY <1>29 DEF ServerClosed, Become, Disconnected, Active, Ended, Fades, sessionVars, history
<1>30. CASE UNCHANGED vars
    BY <1>30 DEF vars, Fades
<1>31. ASSUME NEW h \in Shells, ShellGivenUp(h)
      PROVE  Fades /\ UNCHANGED attempts
    BY <1>31 DEF ShellGivenUp, Fades, sessionVars, history
<1>32. ASSUME NEW r \in Requests, BodyRefused(r)
      PROVE  Fades /\ UNCHANGED attempts
    BY <1>32 DEF BodyRefused, Fades, sessionVars, history
<1> QED BY <1>1, <1>2, <1>3, <1>4, <1>5, <1>6, <1>7, <1>8, <1>9, <1>10, <1>11, <1>12,
       <1>13, <1>14, <1>15, <1>16, <1>17, <1>18, <1>19, <1>20, <1>21, <1>22, <1>23,
       <1>24, <1>25, <1>26, <1>27, <1>28, <1>29, <1>30, <1>31, <1>32 DEF Next, Proceed

\* The queues and claims of requests, apart from the requests themselves.
claims == <<inputTail, changing, generation, creating>>

\* A request that holds nothing is answered, or one leaves the head of its chain.
Leaves(r) == /\ req[r].at \in {"unlock", "body"} /\ Answer(r)
             /\ UNCHANGED claims
Unchains(r) == /\ req[r].at \in {"queued", "typing"} /\ Head(inputTail[req[r].session]) = r
               /\ Settle(r)
               /\ UNCHANGED <<changing, generation, creating>>

\* A request does nothing, leaves, or takes one of the steps that move it on.
LEMMA FlowStep ==
    ASSUME IInv, [Next]_vars
    PROVE  \/ UNCHANGED <<req, claims>>
           \/ \E r \in Requests :
                 \/ Leaves(r) \/ Unchains(r) \/ CreateFails(r)
                 \/ \E t \in Tenants, h \in Shells : Create(r, t, h)
                 \/ \E id \in Sessions : Issue(r, id)
                 \/ \E s \in Sessions : UnlockArrives(r, s) \/ ViewerArrives(r, s)
                 \/ \E n \in 1 .. MaxSeq, g \in 0 .. MaxGen : InputAccepted(r, n, g)
                 \/ InputSent(r) \/ ShellAsked(r)
                 \/ \E h \in Shells : ShellOpening(r, h)
                 \/ ShellSwapped(r) \/ ShellNotSwapped(r)
<1>0. TypeOK /\ Chained
    BY DEF IInv
<1> USE <1>0
<1>1. CASE Sweep
    BY <1>1 DEF Sweep, claims, sessionVars
<1>2. ASSUME NEW s \in Sessions, Revoke(s)
      PROVE  UNCHANGED <<req, claims>>
    BY <1>2 DEF Revoke, claims, sessionVars
<1>3. ASSUME NEW r \in Requests, UnlockRight(r)
      PROVE  Leaves(r)
    BY <1>3 DEF UnlockRight, Leaves, claims, sessionVars
<1>4. ASSUME NEW r \in Requests, UnlockWrong(r)
      PROVE  Leaves(r)
    BY <1>4 DEF UnlockWrong, Leaves, claims, sessionVars
<1>5. ASSUME NEW r \in Requests, UnlockLate(r)
      PROVE  Leaves(r)
    BY <1>5 DEF UnlockLate, Leaves, claims, sessionVars
<1>6. ASSUME NEW s \in Sessions, Poll(s)
      PROVE  UNCHANGED <<req, claims>>
    BY <1>6 DEF Poll, claims, sessionVars
<1>7. ASSUME NEW s \in Sessions, Complete(s)
      PROVE  UNCHANGED <<req, claims>>
    BY <1>7 DEF Complete, claims, sessionVars
<1>8. ASSUME NEW r \in Requests, ViewerAnswered(r)
      PROVE  Leaves(r)
    BY <1>8 DEF ViewerAnswered, Leaves, claims, sessionVars
<1>9. ASSUME NEW r \in Requests, InputRefused(r)
      PROVE  Unchains(r)
    BY <1>9 DEF InputRefused, Unchains, Turn, Chained, sessionVars
<1>10. ASSUME NEW r \in Requests, InputUnsendable(r)
      PROVE  Unchains(r)
    BY <1>10 DEF InputUnsendable, Unchains, Turn, Chained, sessionVars
<1>11. ASSUME NEW r \in Requests, InputAcked(r)
      PROVE  Unchains(r)
    BY <1>11 DEF InputAcked, Unchains, Turn, Chained, sessionVars
<1>12. ASSUME NEW r \in Requests, InputFails(r)
      PROVE  Unchains(r)
    BY <1>12 DEF InputFails, Unchains, Turn, Chained, sessionVars
<1>13. ASSUME NEW h \in Shells, ShellReady(h)
      PROVE  UNCHANGED <<req, claims>>
    BY <1>13 DEF ShellReady, claims, sessionVars
<1>14. ASSUME NEW h \in Shells, ShellDies(h)
      PROVE  UNCHANGED <<req, claims>>
    BY <1>14 DEF ShellDies, claims, sessionVars
<1>15. ASSUME NEW h \in Shells, ShellTypes(h)
      PROVE  UNCHANGED <<req, claims>>
    BY <1>15 DEF ShellTypes, claims, sessionVars
<1>16. ASSUME NEW t \in Tenants, NEW k \in Keys \cup {None}, Rotate(t, k)
      PROVE  UNCHANGED <<req, claims>>
    BY <1>16 DEF Rotate, claims, sessionVars
<1>17. ASSUME NEW s \in Sessions, Age(s)
      PROVE  UNCHANGED <<req, claims>>
    BY <1>17 DEF Age, claims, sessionVars
<1>18. ASSUME NEW t \in Tenants, RateForgotten(t)
      PROVE  UNCHANGED <<req, claims>>
    BY <1>18 DEF RateForgotten, claims, sessionVars
<1>19. CASE Shutdown
    BY <1>19 DEF Shutdown, claims, sessionVars
<1>20. CASE ServerClosed
    BY <1>20 DEF ServerClosed, claims, sessionVars
<1>21. CASE UNCHANGED vars
    BY <1>21 DEF vars, claims
<1>22. ASSUME NEW h \in Shells, ShellGivenUp(h)
      PROVE  UNCHANGED <<req, claims>>
    BY <1>22 DEF ShellGivenUp, claims, sessionVars
<1>23. ASSUME NEW r \in Requests, BodyRefused(r)
      PROVE  Leaves(r)
    BY <1>23 DEF BodyRefused, Leaves, claims, sessionVars
<1> QED BY <1>1, <1>2, <1>3, <1>4, <1>5, <1>6, <1>7, <1>8, <1>9, <1>10, <1>11, <1>12,
       <1>13, <1>14, <1>15, <1>16, <1>17, <1>18, <1>19, <1>20, <1>21, <1>22, <1>23 DEF Next, Proceed

------------------------------------------------------------------------------
(* Each part of the invariant is kept by every step.                         *)

\* No step of anyone else touches a request.
LEMMA OthersKept ==
    ASSUME TypeOK, NEW r \in Requests, NEW v, req' = [req EXCEPT ![r] = v]
    PROVE  req'[r] = v /\ \A q \in Requests \ {r} : req'[q] = req[q]
BY DEF TypeOK

\* What the arrival of a request does to the requests.
LEMMA Arrival ==
    ASSUME TypeOK, NEW r \in Requests, NEW s \in Sessions,
           UnlockArrives(r, s) \/ ViewerArrives(r, s)
    PROVE  /\ req[r].at = "idle"
           /\ req'[r].at \in {"unlock", "body"} /\ req'[r].session = s
           /\ \A q \in Requests \ {r} : req'[q] = req[q]
           /\ UNCHANGED claims
<1>1. CASE UnlockArrives(r, s)
    <2>1. req' = [req EXCEPT ![r] = [Idle EXCEPT !.at = "unlock", !.session = s]]
        BY <1>1 DEF UnlockArrives
    <2>2. req'[r] = [Idle EXCEPT !.at = "unlock", !.session = s]
        BY <2>1 DEF TypeOK
    <2>3. \A q \in Requests \ {r} : req'[q] = req[q]
        BY <2>1 DEF TypeOK
    <2>4. req[r].at = "idle" /\ UNCHANGED claims
        BY <1>1 DEF UnlockArrives, claims, sessionVars
    <2> QED BY <2>2, <2>3, <2>4 DEF Idle
<1>2. CASE ViewerArrives(r, s)
    <2>1. req' = [req EXCEPT ![r] = [Idle EXCEPT !.at = "body", !.session = s]]
        BY <1>2 DEF ViewerArrives
    <2>2. req'[r] = [Idle EXCEPT !.at = "body", !.session = s]
        BY <2>1 DEF TypeOK
    <2>3. \A q \in Requests \ {r} : req'[q] = req[q]
        BY <2>1 DEF TypeOK
    <2>4. req[r].at = "idle" /\ UNCHANGED claims
        BY <1>2 DEF ViewerArrives, claims, sessionVars
    <2> QED BY <2>2, <2>3, <2>4 DEF Idle
<1> QED BY <1>1, <1>2

\* The wrong code that uses up the attempts locks the session (broker.mjs:94).
LEMMA TriesStep == IInv /\ [Next]_vars => Tries'
<1> SUFFICES ASSUME IInv, [Next]_vars, NEW s \in Sessions, status'[s] \in {"free", "waiting"}
             PROVE  attempts'[s] < MaxAttempts
    BY DEF Tries
<1>0. TypeOK /\ Tries /\ Staged
    BY DEF IInv
<1> USE <1>0
<1>1. status[s] \in {"free", "waiting"}
    <2>1. CASE Fades
        BY <2>1 DEF Fades, Ended
    <2>2. CASE \E r \in Requests : UnlockRight(r)
        BY <2>2, SweptStatus DEF UnlockRight, Become, Ended, Staged
    <2>3. CASE \E r \in Requests, id \in Sessions : Issue(r, id)
        BY <2>3 DEF Issue, Become, Replacing
    <2> QED BY <2>1, <2>2, <2>3, StatusStep
<1>2. CASE attempts' = attempts
    BY <1>1, <1>2 DEF Tries
<1>3. ASSUME NEW r \in Requests, UnlockWrong(r)
      PROVE  attempts'[s] < MaxAttempts
    <2>1. CASE s # req[r].session
        BY <1>1, <1>3, <2>1 DEF UnlockWrong, Tries, TypeOK
    <2>2. CASE s = req[r].session
        <3>1. ~Locks(s) /\ attempts'[s] = attempts[s] + 1
            BY <1>3, <2>2, SweptStatus DEF UnlockWrong, Become, TypeOK
        <3> QED BY <3>1, BrokerAssumption DEF Locks, TypeOK
    <2> QED BY <2>1, <2>2
<1> QED BY <1>2, <1>3, StatusStep DEF UnlockRight, Issue

\* A code is redeemed by the step that takes its session out of waiting, and no
\* session goes back to waiting (broker.mjs:92-97).
LEMMA CodeStep == IInv /\ [Next]_vars => Unredeemed' /\ CodeRedeemedOnce'
<1> SUFFICES ASSUME IInv, [Next]_vars, NEW s \in Sessions
             PROVE  /\ status'[s] \in {"free", "waiting"} => redeemed'[s] = 0
                    /\ redeemed'[s] <= 1
    BY DEF Unredeemed, CodeRedeemedOnce
<1>0. TypeOK /\ Staged /\ Unredeemed /\ CodeRedeemedOnce
    BY DEF IInv
<1> USE <1>0
<1>1. CASE Fades
    BY <1>1 DEF Fades, Ended, Unredeemed, CodeRedeemedOnce
<1>2. ASSUME NEW r \in Requests, UnlockRight(r)
      PROVE  /\ status'[s] \in {"free", "waiting"} => redeemed'[s] = 0
             /\ redeemed'[s] <= 1
    <2> DEFINE u == req[r].session
    <2>1. u \in Sessions /\ status[u] = "waiting" /\ redeemed[u] = 0
        BY <1>2, SweptStatus DEF UnlockRight, Staged, Redeemable, Live, Unredeemed
    <2>2. CASE s = u
        <3>1. status'[s] = "connected" /\ redeemed'[s] = 1
            BY <1>2, <2>1, <2>2, SweptStatus DEF UnlockRight, Become, TypeOK
        <3> QED BY <3>1
    <2>3. CASE s # u
        <3>1. status'[s] = Swept[s] /\ redeemed'[s] = redeemed[s]
            BY <1>2, <2>1, <2>3, SweptStatus DEF UnlockRight, Become, TypeOK
        <3> QED BY <3>1, SweptStatus DEF Ended, Unredeemed, CodeRedeemedOnce
    <2> QED BY <2>2, <2>3
<1>3. ASSUME NEW r \in Requests, NEW id \in Sessions, Issue(r, id)
      PROVE  /\ status'[s] \in {"free", "waiting"} => redeemed'[s] = 0
             /\ redeemed'[s] <= 1
    <2>1. redeemed' = redeemed /\ status[id] = "free"
        BY <1>3 DEF Issue, history
    <2>2. \/ status'[s] \in {status[s], "replaced"}
          \/ s = id /\ status'[s] = "waiting"
        BY <1>3 DEF Issue, Become, Replacing
    <2> QED BY <2>1, <2>2 DEF Unredeemed, CodeRedeemedOnce
<1> QED BY <1>1, <1>2, <1>3, StatusStep

\* Only the issue of a session makes one live, and it ends the others of its Claw in
\* the same block (broker.mjs:65-69).
LEMMA OneTerminalStep == IInv /\ [Next]_vars => OneTerminalPerTenant'
<1> SUFFICES ASSUME IInv, [Next]_vars PROVE OneTerminalPerTenant'
    OBVIOUS
<1>0. TypeOK /\ Staged /\ OneTerminalPerTenant
    BY DEF IInv
<1> USE <1>0
<1>1. CASE Fades
    BY <1>1 DEF Fades, OneTerminalPerTenant, ActiveSessions, Active, Live, Ended
<1>2. ASSUME NEW r \in Requests, UnlockRight(r)
      PROVE  OneTerminalPerTenant'
    <2>1. tenantOf' = tenantOf
        BY <1>2 DEF UnlockRight, sessionVars
    <2>2. \A s \in Sessions : status'[s] \in Live => status[s] \in Live
        <3>1. req[r].session \in Sessions /\ status[req[r].session] = "waiting"
            BY <1>2, SweptStatus DEF UnlockRight, Staged, Redeemable, Live
        <3> QED BY <1>2, <3>1, SweptStatus DEF UnlockRight, Become, Live
    <2> QED BY <2>1, <2>2 DEF OneTerminalPerTenant, ActiveSessions, Active
<1>3. ASSUME NEW r \in Requests, NEW id \in Sessions, Issue(r, id)
      PROVE  OneTerminalPerTenant'
    <2> DEFINE t == req[r].tenant
    <2>1. tenantOf' = [tenantOf EXCEPT ![id] = t] /\ status' = Replacing(t, id)
        BY <1>3 DEF Issue, Become
    <2>2. \A s \in Sessions \ {id} :
             status'[s] \in Live => s \in ActiveSessions /\ tenantOf[s] # t /\ tenantOf'[s] = tenantOf[s]
        BY <2>1 DEF Replacing, ActiveSessions, Active, Live, TypeOK
    <2>3. tenantOf'[id] = t
        BY <2>1 DEF TypeOK
    <2> QED BY <2>2, <2>3 DEF OneTerminalPerTenant, ActiveSessions, Active
<1> QED BY <1>1, <1>2, <1>3, StatusStep

\* A request that waits knows what it waits for: its session, its shell, its Claw.
LEMMA StagedStep == IInv /\ [Next]_vars => Staged'
<1> SUFFICES ASSUME IInv, [Next]_vars PROVE Staged'
    OBVIOUS
<1>0. TypeOK /\ Staged
    BY DEF IInv
<1> USE <1>0
<1>1. CASE UNCHANGED <<req, claims>>
    BY <1>1 DEF Staged
<1>2. ASSUME NEW r \in Requests, Answer(r)
      PROVE  Staged'
    BY <1>2, AnswerType DEF Staged
<1>3. ASSUME NEW r \in Requests, NEW t \in Tenants, NEW h \in Shells, Create(r, t, h)
      PROVE  Staged'
    <2>1. key[t] \in Keys
        BY <1>3 DEF Create, TypeOK
    <2> QED BY <1>3, <2>1, OthersKept DEF Create, Staged, Idle
<1>4. ASSUME NEW r \in Requests, NEW s \in Sessions, UnlockArrives(r, s) \/ ViewerArrives(r, s)
      PROVE  Staged'
    BY <1>4, Arrival DEF Staged
<1>5. ASSUME NEW r \in Requests, NEW n \in 1 .. MaxSeq, NEW g \in 0 .. MaxGen, InputAccepted(r, n, g)
      PROVE  Staged'
    <2>1. req'[r].at = "queued" /\ req'[r].session = req[r].session
        BY <1>5 DEF InputAccepted, TypeOK, InFlight
    <2>2. \A q \in Requests \ {r} : req'[q] = req[q]
        BY <1>5 DEF InputAccepted, TypeOK
    <2>3. req[r].at = "body"
        BY <1>5 DEF InputAccepted
    <2> QED BY <2>1, <2>2, <2>3 DEF Staged
<1>6. ASSUME NEW r \in Requests, InputSent(r)
      PROVE  Staged'
    BY <1>6 DEF InputSent, Turn, Staged, TypeOK, InFlight
<1>7. ASSUME NEW r \in Requests, ShellAsked(r)
      PROVE  Staged'
    BY <1>7 DEF ShellAsked, Staged, TypeOK, InFlight
<1>8. ASSUME NEW r \in Requests, NEW h \in Shells, ShellOpening(r, h)
      PROVE  Staged'
    BY <1>8 DEF ShellOpening, Staged, TypeOK, InFlight
<1> QED BY <1>1, <1>2, <1>3, <1>4, <1>5, <1>6, <1>7, <1>8, FlowStep
        DEF Leaves, Unchains, Settle, CreateFails, Issue, ShellSwapped, ShellNotSwapped

\* An input stays on its session's chain until it settles, and only the first on the
\* chain is sent (broker.mjs:137-145).
LEMMA ChainedStep == IInv /\ [Next]_vars => Chained'
<1> SUFFICES ASSUME IInv, [Next]_vars PROVE Chained'
    OBVIOUS
<1>0. TypeOK /\ Staged /\ Chained
    BY DEF IInv
<1> USE <1>0
<1>1. CASE UNCHANGED <<req, claims>>
    BY <1>1 DEF Chained, claims
<1>2. ASSUME NEW r \in Requests, Answer(r), UNCHANGED inputTail
      PROVE  Chained'
    BY <1>2, AnswerType DEF Chained
<1>3. ASSUME NEW r \in Requests, Unchains(r)
      PROVE  Chained'
    <2> DEFINE s == req[r].session
    <2>1. s \in Sessions /\ inputTail[s] \in Seq(Requests) /\ inputTail[s] # <<>>
        BY <1>3 DEF Unchains, Staged, Chained, TypeOK
    <2>2. SUFFICES ASSUME NEW q \in Requests, req'[q].at \in {"queued", "typing"}
                   PROVE  /\ \E i \in 1 .. Len(inputTail'[req'[q].session]) :
                                inputTail'[req'[q].session][i] = q
                          /\ req'[q].at = "typing" => Head(inputTail'[req'[q].session]) = q
        BY DEF Chained
    <2>3. q # r /\ req'[q] = req[q]
        BY <1>3, <2>2, AnswerType DEF Unchains, Settle
    <2>4. CASE req[q].session # s
        BY <1>3, <2>1, <2>2, <2>3, <2>4 DEF Unchains, Settle, Chained, TypeOK
    <2>5. CASE req[q].session = s
        <3>1. inputTail'[s] = Tail(inputTail[s])
            BY <1>3, <2>1 DEF Unchains, Settle, TypeOK
        <3>2. PICK i \in 1 .. Len(inputTail[s]) : inputTail[s][i] = q
            BY <2>2, <2>3, <2>5 DEF Chained
        <3>3. Head(inputTail[s]) = r /\ req[q].at # "typing"
            BY <1>3, <2>2, <2>3, <2>5 DEF Unchains, Chained
        <3>4. i > 1
            BY <2>1, <2>3, <3>2, <3>3
        <3>5. i - 1 \in 1 .. Len(Tail(inputTail[s])) /\ Tail(inputTail[s])[i - 1] = q
            BY <2>1, <3>2, <3>4
        <3> QED BY <2>3, <2>5, <3>1, <3>3, <3>5
    <2> QED BY <2>4, <2>5
<1>4. ASSUME NEW r \in Requests, NEW n \in 1 .. MaxSeq, NEW g \in 0 .. MaxGen, InputAccepted(r, n, g)
      PROVE  Chained'
    <2> DEFINE s == req[r].session
    <2>1. s \in Sessions /\ inputTail[s] \in Seq(Requests)
        BY <1>4 DEF InputAccepted, Staged, TypeOK
    <2>2. inputTail' = [inputTail EXCEPT ![s] = Append(inputTail[s], r)]
        BY <1>4 DEF InputAccepted
    <2>3. req'[r].at = "queued" /\ req'[r].session = s
        BY <1>4 DEF InputAccepted, TypeOK, InFlight
    <2>4. \A q \in Requests \ {r} : req'[q] = req[q]
        BY <1>4 DEF InputAccepted, TypeOK
    <2>5. inputTail'[s] = Append(inputTail[s], r)
        BY <2>1, <2>2 DEF TypeOK
    <2>6. \E i \in 1 .. Len(inputTail'[s]) : inputTail'[s][i] = r
        <3>1. Len(inputTail[s]) + 1 \in 1 .. Len(inputTail'[s])
            BY <2>1, <2>5
        <3>2. inputTail'[s][Len(inputTail[s]) + 1] = r
            BY <2>1, <2>5
        <3> QED BY <3>1, <3>2
    <2>7. ASSUME NEW q \in Requests \ {r}, req[q].at \in {"queued", "typing"}
          PROVE  /\ \E i \in 1 .. Len(inputTail'[req[q].session]) :
                       inputTail'[req[q].session][i] = q
                 /\ req[q].at = "typing" => Head(inputTail'[req[q].session]) = q
        <3>1. CASE req[q].session # s
            BY <2>1, <2>2, <2>7, <3>1 DEF Chained, Staged, TypeOK
        <3>2. CASE req[q].session = s
            <4>1. PICK i \in 1 .. Len(inputTail[s]) : inputTail[s][i] = q
                BY <2>7, <3>2 DEF Chained
            <4>2. i \in 1 .. Len(inputTail'[s]) /\ inputTail'[s][i] = q
                BY <2>1, <2>5, <4>1
            <4>3. Head(inputTail'[s]) = Head(inputTail[s])
                BY <2>1, <2>5, <4>1
            <4> QED BY <2>7, <3>2, <4>2, <4>3 DEF Chained
        <3> QED BY <3>1, <3>2
    <2> QED BY <2>3, <2>4, <2>6, <2>7 DEF Chained
<1>5. ASSUME NEW r \in Requests, InputSent(r)
      PROVE  Chained'
    <2>1. inputTail' = inputTail /\ req[r].at = "queued" /\ Head(inputTail[req[r].session]) = r
        BY <1>5 DEF InputSent, Turn
    <2>2. req'[r].at = "typing" /\ req'[r].session = req[r].session
        BY <1>5 DEF InputSent, TypeOK, InFlight
    <2>3. \A q \in Requests \ {r} : req'[q] = req[q]
        BY <1>5 DEF InputSent, TypeOK
    <2> QED BY <2>1, <2>2, <2>3 DEF Chained
<1>6. ASSUME NEW r \in Requests, UNCHANGED inputTail,
             req'[r].at \notin {"queued", "typing"}, \A q \in Requests \ {r} : req'[q] = req[q]
      PROVE  Chained'
    BY <1>6 DEF Chained
<1>7. ASSUME NEW r \in Requests, NEW t \in Tenants, NEW h \in Shells, Create(r, t, h)
      PROVE  Chained'
    BY <1>6, <1>7, OthersKept DEF Create, Idle
<1>8. ASSUME NEW r \in Requests, NEW s \in Sessions, UnlockArrives(r, s) \/ ViewerArrives(r, s)
      PROVE  Chained'
    BY <1>6, <1>8, Arrival DEF claims
<1>9. ASSUME NEW r \in Requests, ShellAsked(r)
      PROVE  Chained'
    BY <1>6, <1>9 DEF ShellAsked, TypeOK, InFlight
<1>10. ASSUME NEW r \in Requests, NEW h \in Shells, ShellOpening(r, h)
      PROVE  Chained'
    BY <1>6, <1>10 DEF ShellOpening, TypeOK, InFlight
<1> QED BY <1>1, <1>2, <1>3, <1>4, <1>5, <1>7, <1>8, <1>9, <1>10, FlowStep
        DEF Leaves, claims, CreateFails, Issue, ShellSwapped, ShellNotSwapped

\* One request at a time changes a session's shell, and its finally block clears the
\* flag (broker.mjs:114-125).
LEMMA ChangerStep == IInv /\ [Next]_vars => OneChanger' /\ ChangingIsOwned'
<1> DEFINE Inv == OneChanger /\ ChangingIsOwned
<1> SUFFICES ASSUME IInv, [Next]_vars PROVE Inv'
    OBVIOUS
<1>0. TypeOK /\ Staged /\ OneChanger /\ ChangingIsOwned
    BY DEF IInv
<1> USE <1>0
<1>1. CASE UNCHANGED <<req, claims>>
    BY <1>1 DEF OneChanger, Changer, ChangingIsOwned, claims
\* A request that is no changer before or after the step changes nothing here.
<1>2. ASSUME NEW r \in Requests, \A q \in Requests \ {r} : req'[q] = req[q],
             ~Changer(r), req'[r].at \notin {"drain", "opening"},
             UNCHANGED <<changing, generation>>
      PROVE  Inv'
    BY <1>2 DEF OneChanger, Changer, ChangingIsOwned
<1>3. ASSUME NEW r \in Requests, \/ Leaves(r) \/ Unchains(r) \/ CreateFails(r)
                                 \/ \E id \in Sessions : Issue(r, id)
      PROVE  Inv'
    <2>1. Answer(r) /\ ~Changer(r) /\ UNCHANGED <<changing, generation>>
        BY <1>3 DEF Leaves, Unchains, Settle, CreateFails, Issue, Changer, claims, sessionVars
    <2> QED BY <1>2, <2>1, AnswerType
<1>4. ASSUME NEW r \in Requests, NEW t \in Tenants, NEW h \in Shells, Create(r, t, h)
      PROVE  Inv'
    <2>1. ~Changer(r) /\ req'[r].at = "ready" /\ UNCHANGED <<changing, generation>>
        BY <1>4 DEF Create, Changer, Idle, sessionVars, TypeOK
    <2>2. \A q \in Requests \ {r} : req'[q] = req[q]
        BY <1>4 DEF Create, TypeOK
    <2> QED BY <1>2, <2>1, <2>2
<1>5. ASSUME NEW r \in Requests, NEW s \in Sessions, UnlockArrives(r, s) \/ ViewerArrives(r, s)
      PROVE  Inv'
    BY <1>2, <1>5, Arrival DEF Changer, claims
<1>6. ASSUME NEW r \in Requests, NEW n \in 1 .. MaxSeq, NEW g \in 0 .. MaxGen, InputAccepted(r, n, g)
      PROVE  Inv'
    <2>1. ~Changer(r) /\ req'[r].at = "queued" /\ UNCHANGED <<changing, generation>>
        BY <1>6 DEF InputAccepted, Changer, sessionVars, TypeOK, InFlight
    <2>2. \A q \in Requests \ {r} : req'[q] = req[q]
        BY <1>6 DEF InputAccepted, TypeOK
    <2> QED BY <1>2, <2>1, <2>2
<1>7. ASSUME NEW r \in Requests, InputSent(r)
      PROVE  Inv'
    <2>1. ~Changer(r) /\ req'[r].at = "typing" /\ UNCHANGED <<changing, generation>>
        BY <1>7 DEF InputSent, Turn, Changer, sessionVars, TypeOK, InFlight
    <2>2. \A q \in Requests \ {r} : req'[q] = req[q]
        BY <1>7 DEF InputSent, TypeOK
    <2> QED BY <1>2, <2>1, <2>2
<1>8. ASSUME NEW r \in Requests, ShellAsked(r)
      PROVE  Inv'
    <2> DEFINE s == req[r].session
    <2>1. s \in Sessions /\ ~changing[s] /\ generation[s] < MaxGen
        BY <1>8 DEF ShellAsked, Staged
    <2>2. req'[r].at = "drain" /\ req'[r].session = s
        BY <1>8 DEF ShellAsked, TypeOK, InFlight
    <2>3. \A q \in Requests \ {r} : req'[q] = req[q]
        BY <1>8 DEF ShellAsked, TypeOK
    <2>4. changing' = [changing EXCEPT ![s] = TRUE] /\ generation' = generation
        BY <1>8 DEF ShellAsked, sessionVars
    <2>5. \A q \in Requests : Changer(q) => req[q].session # s
        BY <2>1 DEF ChangingIsOwned, Changer
    <2>6. OneChanger'
        BY <2>1, <2>2, <2>3, <2>4, <2>5 DEF OneChanger, Changer
    <2>7. ChangingIsOwned'
        <3>1. \A u \in Sessions \ {s} : changing'[u] = changing[u]
            BY <2>1, <2>4 DEF TypeOK
        <3>2. changing'[s]
            BY <2>1, <2>4 DEF TypeOK
        <3>3. r \in Requests /\ ~Changer(r)
            BY <1>8 DEF ShellAsked, Changer
        <3> QED BY <2>1, <2>2, <2>3, <3>1, <3>2, <3>3 DEF ChangingIsOwned, Changer
    <2> QED BY <2>6, <2>7
<1>9. ASSUME NEW r \in Requests, NEW h \in Shells, ShellOpening(r, h)
      PROVE  Inv'
    <2>1. Changer(r) /\ req'[r].at = "opening" /\ req'[r].session = req[r].session
        BY <1>9 DEF ShellOpening, Changer, TypeOK, InFlight
    <2>2. \A q \in Requests \ {r} : req'[q] = req[q]
        BY <1>9 DEF ShellOpening, TypeOK
    <2>3. UNCHANGED <<changing, generation>>
        BY <1>9 DEF ShellOpening, sessionVars
    <2> QED BY <2>1, <2>2, <2>3 DEF OneChanger, Changer, ChangingIsOwned
<1>10. ASSUME NEW r \in Requests, ShellSwapped(r) \/ ShellNotSwapped(r)
       PROVE  Inv'
    <2> DEFINE s == req[r].session
    <2>1. s \in Sessions /\ Changer(r)
        BY <1>10 DEF ShellSwapped, ShellNotSwapped, Staged, Changer
    <2>2. req'[r].at = "idle" /\ \A q \in Requests \ {r} : req'[q] = req[q]
        BY <1>10, AnswerType DEF ShellSwapped, ShellNotSwapped
    <2>3. changing' = [changing EXCEPT ![s] = FALSE]
        BY <1>10 DEF ShellSwapped, ShellNotSwapped, NoLonger
    <2>4. \A q \in Requests \ {r} : Changer(q) => req[q].session # s
        BY <2>1 DEF OneChanger
    <2>5. \A u \in Sessions \ {s} : generation'[u] = generation[u]
        BY <1>10 DEF ShellSwapped, ShellNotSwapped, sessionVars, TypeOK
    <2>6. OneChanger'
        BY <2>2, <2>4, <2>5 DEF OneChanger, Changer, Staged
    <2>7. ChangingIsOwned'
        <3>1. \A u \in Sessions \ {s} : changing'[u] = changing[u]
            BY <2>1, <2>3 DEF TypeOK
        <3>2. ~changing'[s]
            BY <2>1, <2>3 DEF TypeOK
        <3> QED BY <2>1, <2>2, <2>4, <3>1, <3>2 DEF ChangingIsOwned, Changer
    <2> QED BY <2>6, <2>7
<1> QED BY <1>1, <1>3, <1>4, <1>5, <1>6, <1>7, <1>8, <1>9, <1>10, FlowStep

\* A Claw is in creating while the one request that prepares its terminal waits
\* (broker.mjs:56-72).
LEMMA PreparingStep == IInv /\ [Next]_vars => Preparing'
<1> SUFFICES ASSUME IInv, [Next]_vars PROVE Preparing'
    OBVIOUS
<1>0. TypeOK /\ Staged /\ Preparing
    BY DEF IInv
<1> USE <1>0
<1>1. CASE UNCHANGED <<req, claims>>
    BY <1>1 DEF Preparing, claims
\* A step that leaves the tenants being prepared for alone, and the requests of this kind.
<1>2. ASSUME NEW r \in Requests, \A q \in Requests \ {r} : req'[q] = req[q],
             req'[r].at # "ready", UNCHANGED creating
      PROVE  Preparing'
    BY <1>2 DEF Preparing
<1>3. ASSUME NEW r \in Requests, Leaves(r) \/ Unchains(r) \/ ShellSwapped(r) \/ ShellNotSwapped(r)
      PROVE  Preparing'
    <2>1. Answer(r) /\ UNCHANGED creating
        BY <1>3 DEF Leaves, Unchains, Settle, ShellSwapped, ShellNotSwapped, claims
    <2> QED BY <1>2, <2>1, AnswerType
<1>4. ASSUME NEW r \in Requests, CreateFails(r) \/ \E id \in Sessions : Issue(r, id)
      PROVE  Preparing'
    <2>1. Answer(r) /\ req[r].at = "ready" /\ creating' = creating \ {req[r].tenant}
        BY <1>4 DEF CreateFails, Issue
    <2> QED BY <2>1, AnswerType DEF Preparing
<1>5. ASSUME NEW r \in Requests, NEW t \in Tenants, NEW h \in Shells, Create(r, t, h)
      PROVE  Preparing'
    <2>1. req'[r].at = "ready" /\ req'[r].tenant = t
        BY <1>5 DEF Create, Idle, TypeOK
    <2>2. \A q \in Requests \ {r} : req'[q] = req[q]
        BY <1>5 DEF Create, TypeOK
    <2>3. t \notin creating /\ creating' = creating \cup {t}
        BY <1>5 DEF Create
    <2> QED BY <2>1, <2>2, <2>3 DEF Preparing
<1>6. ASSUME NEW r \in Requests, NEW s \in Sessions, UnlockArrives(r, s) \/ ViewerArrives(r, s)
      PROVE  Preparing'
    BY <1>2, <1>6, Arrival DEF claims
<1>7. ASSUME NEW r \in Requests, NEW n \in 1 .. MaxSeq, NEW g \in 0 .. MaxGen, InputAccepted(r, n, g)
      PROVE  Preparing'
    <2>1. req'[r].at = "queued" /\ \A q \in Requests \ {r} : req'[q] = req[q]
        BY <1>7 DEF InputAccepted, TypeOK, InFlight
    <2> QED BY <1>2, <1>7, <2>1 DEF InputAccepted
<1>8. ASSUME NEW r \in Requests, InputSent(r)
      PROVE  Preparing'
    <2>1. req'[r].at = "typing" /\ \A q \in Requests \ {r} : req'[q] = req[q]
        BY <1>8 DEF InputSent, TypeOK, InFlight
    <2> QED BY <1>2, <1>8, <2>1 DEF InputSent
<1>9. ASSUME NEW r \in Requests, ShellAsked(r)
      PROVE  Preparing'
    <2>1. req'[r].at = "drain" /\ \A q \in Requests \ {r} : req'[q] = req[q]
        BY <1>9 DEF ShellAsked, TypeOK, InFlight
    <2> QED BY <1>2, <1>9, <2>1 DEF ShellAsked
<1>10. ASSUME NEW r \in Requests, NEW h \in Shells, ShellOpening(r, h)
       PROVE  Preparing'
    <2>1. req'[r].at = "opening" /\ \A q \in Requests \ {r} : req'[q] = req[q]
        BY <1>10 DEF ShellOpening, TypeOK, InFlight
    <2> QED BY <1>2, <1>10, <2>1 DEF ShellOpening
<1> QED BY <1>1, <1>3, <1>4, <1>5, <1>6, <1>7, <1>8, <1>9, <1>10, FlowStep

\* Issuing moves a terminal from prepared to live; only admission adds one, below the
\* limit (broker.mjs:57-72).
LEMMA CapacityStep == IInv /\ [Next]_vars => CapacityKept'
<1> SUFFICES ASSUME IInv, [Next]_vars PROVE CapacityKept'
    OBVIOUS
<1>0. TypeOK /\ Staged /\ Preparing /\ CapacityKept
    BY DEF IInv
<1> USE <1>0
<1>1. IsFiniteSet(ActiveSessions) /\ IsFiniteSet(creating)
    BY BrokerAssumption, FS_Subset DEF ActiveSessions, TypeOK
<1>2. Cardinality(ActiveSessions) \in Nat /\ Cardinality(creating) \in Nat
    BY <1>1, FS_CardinalityType
\* Sessions only end, and no more tenants are prepared for.
<1>3. ASSUME ActiveSessions' \subseteq ActiveSessions, creating' \subseteq creating
      PROVE  CapacityKept'
    <2>1. Cardinality(ActiveSessions') <= Cardinality(ActiveSessions)
        BY <1>1, <1>3, FS_Subset
    <2>2. Cardinality(creating') <= Cardinality(creating)
        BY <1>1, <1>3, FS_Subset
    <2>3. Cardinality(ActiveSessions') \in Nat /\ Cardinality(creating') \in Nat
        BY <1>1, <1>3, FS_Subset, FS_CardinalityType
    <2> QED BY <1>2, <2>1, <2>2, <2>3, BrokerAssumption DEF CapacityKept
<1>4. ASSUME NEW r \in Requests, NEW t \in Tenants, NEW h \in Shells, Create(r, t, h)
      PROVE  CapacityKept'
    <2>1. ActiveSessions' = ActiveSessions
        BY <1>4 DEF Create, ActiveSessions, Active
    <2>2. Cardinality(creating') = Cardinality(creating) + 1
        BY <1>1, <1>4, FS_AddElement DEF Create
    <2>3. Cardinality(ActiveSessions) + Cardinality(creating) < MaxActive
        BY <1>4 DEF Create, Busy
    <2> QED BY <1>2, <2>1, <2>2, <2>3, BrokerAssumption DEF CapacityKept
<1>5. ASSUME NEW r \in Requests, NEW id \in Sessions, Issue(r, id)
      PROVE  CapacityKept'
    <2>1. req[r].tenant \in creating /\ creating' = creating \ {req[r].tenant}
        BY <1>5 DEF Issue, Preparing
    <2>2. Cardinality(creating') = Cardinality(creating) - 1
        BY <1>1, <2>1, FS_RemoveElement
    <2>3. ActiveSessions' \subseteq ActiveSessions \cup {id}
        BY <1>5 DEF Issue, Become, Replacing, ActiveSessions, Active, Live
    <2>4. /\ IsFiniteSet(ActiveSessions \cup {id})
          /\ Cardinality(ActiveSessions \cup {id}) <= Cardinality(ActiveSessions) + 1
        <3>1. id \notin ActiveSessions
            BY <1>5 DEF Issue, ActiveSessions, Active, Live
        <3>2. Cardinality(ActiveSessions \cup {id}) = Cardinality(ActiveSessions) + 1
            BY <1>1, <3>1, FS_AddElement
        <3>3. IsFiniteSet(ActiveSessions \cup {id})
            BY <1>1, FS_AddElement
        <3> QED BY <1>2, <3>2, <3>3
    <2>5. /\ Cardinality(ActiveSessions') <= Cardinality(ActiveSessions \cup {id})
          /\ Cardinality(ActiveSessions') \in Nat /\ Cardinality(ActiveSessions \cup {id}) \in Nat
        BY <2>3, <2>4, FS_Subset, FS_CardinalityType
    <2> QED BY <1>2, <2>2, <2>4, <2>5, BrokerAssumption DEF CapacityKept
<1>6. ASSUME NEW r \in Requests, UnlockRight(r)
      PROVE  CapacityKept'
    <2>1. req[r].session \in Sessions /\ status[req[r].session] = "waiting"
        BY <1>6, SweptStatus DEF UnlockRight, Staged, Redeemable, Live
    <2>2. ActiveSessions' \subseteq ActiveSessions
        BY <1>6, <2>1, SweptStatus DEF UnlockRight, Become, ActiveSessions, Active, Live
    <2> QED BY <1>3, <1>6, <2>2 DEF UnlockRight
<1>7. ASSUME Fades, creating' \subseteq creating
      PROVE  CapacityKept'
    BY <1>3, <1>7 DEF Fades, ActiveSessions, Active, Live, Ended
<1>8. \/ creating' \subseteq creating
      \/ \E r \in Requests, t \in Tenants, h \in Shells : Create(r, t, h)
    BY FlowStep DEF claims, Leaves, Unchains, CreateFails, Issue, UnlockArrives, ViewerArrives,
           InputAccepted, InputSent, ShellAsked, ShellOpening, ShellSwapped, ShellNotSwapped
<1> QED BY <1>4, <1>5, <1>6, <1>7, <1>8, StatusStep

\* The conjunction is inductive.
LEMMA Inductive == IInv /\ [Next]_vars => IInv'
BY TypeStep, StagedStep, TriesStep, ChainedStep, ChangerStep, OneTerminalStep, CodeStep,
   PreparingStep, CapacityStep DEF IInv

------------------------------------------------------------------------------
(* The theorems.                                                             *)

\* Every reachable state satisfies the inductive invariant.
THEOREM Invariant == Spec => []IInv
<1>1. Init => IInv
    BY InitIInv
<1>2. IInv /\ [Next]_vars => IInv'
    BY Inductive
<1> QED BY <1>1, <1>2, PTL DEF Spec

\* Whatever the requests, failures and credential changes, every variable of the
\* broker keeps its type: among others a wrong code never counts past the limit,
\* although any number of unlock requests may wait for their bodies.
THEOREM TypeCorrect == Spec => []TypeOK
<1>1. IInv => TypeOK
    BY DEF IInv
<1> QED BY <1>1, Invariant, PTL

\* A Claw never has two live terminals, although the handler that creates one
\* waits for its transport while other requests of the Claw are served.
THEOREM OneTerminal == Spec => []OneTerminalPerTenant
<1>1. IInv => OneTerminalPerTenant
    BY DEF IInv
<1> QED BY <1>1, Invariant, PTL

\* Live and prepared terminals never exceed the broker's limit: the check before
\* the wait for a transport still holds after it.
THEOREM Capacity == Spec => []CapacityKept
<1>1. IInv => CapacityKept
    BY DEF IInv
<1> QED BY <1>1, Invariant, PTL

\* However many unlock requests wait for their bodies, one of them redeems the code.
THEOREM CodeOnce == Spec => []CodeRedeemedOnce
<1>1. IInv => CodeRedeemedOnce
    BY DEF IInv
<1> QED BY <1>1, Invariant, PTL

\* The flag that refuses input and shell changes is set exactly while a request
\* in flight is changing the shell, so it is never left set.
THEOREM ChangingOwned == Spec => []ChangingIsOwned
<1>1. IInv => ChangingIsOwned
    BY DEF IInv
<1> QED BY <1>1, Invariant, PTL

\* A session that has ended keeps the reason it ended for.
THEOREM EndedFinal == Spec => EndedIsFinal
<1>1. IInv /\ [Next]_vars => [\A s \in Sessions : status[s] \in Ended => status'[s] = status[s]]_vars
    <2> SUFFICES ASSUME IInv, [Next]_vars, NEW s \in Sessions, status[s] \in Ended
                 PROVE  status'[s] = status[s]
        OBVIOUS
    <2>1. TypeOK /\ Staged
        BY DEF IInv
    <2>2. CASE Fades
        BY <2>2, Names DEF Fades
    <2>3. ASSUME NEW r \in Requests, UnlockRight(r)
          PROVE  status'[s] = status[s]
        <3>1. s # req[r].session
            BY <2>1, <2>3, SweptStatus DEF UnlockRight, Staged, Redeemable, Live, Ended
        <3> QED BY <2>1, <2>3, <3>1, SweptStatus, Names DEF UnlockRight, Become
    <2>4. ASSUME NEW r \in Requests, NEW id \in Sessions, Issue(r, id)
          PROVE  status'[s] = status[s]
        BY <2>4 DEF Issue, Become, Replacing, Active, Live, Ended
    <2> QED BY <2>2, <2>3, <2>4, StatusStep
<1> QED BY <1>1, Invariant, PTL DEF Spec, EndedIsFinal
=============================================================================
