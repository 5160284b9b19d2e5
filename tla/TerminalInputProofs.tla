-------------------------- MODULE TerminalInputProofs --------------------------
(* Proofs about the shells of RemoteTerminal, for every value of its constants: *)
(* who holds them, and what they are made to type.                             *)
EXTENDS RemoteTerminalProofs

Running == {"starting", "running"}
OfASession == {"unlock", "body", "queued", "typing", "drain", "opening"}
Opening(r) == req[r].at \in {"ready", "opening"}

\* A session has a transport of its own from the day it is issued, opened as its present
\* generation; one that runs is of a live session.
Equipped ==
    /\ \A s \in Sessions :
          status[s] = "free" => transport[s] = None /\ lastInput[s] = 0 /\ generation[s] = 0
    /\ \A s \in Sessions :
          status[s] # "free" => transport[s] \in Shells /\ installed[transport[s]] = generation[s]
    /\ \A s \in Sessions :
          status[s] # "free" /\ shell[transport[s]] \in Running => Active(s)
    /\ \A s1, s2 \in Sessions : transport[s1] = transport[s2] /\ transport[s1] # None => s1 = s2

\* A transport that is being opened has nothing to type yet, and is one request's.
Fresh(h) == /\ typed[h] = <<>> /\ pipe[h] = <<>> /\ installed[h] = 0
            /\ \A s \in Sessions : transport[s] # h
Unused ==
    /\ \A h \in Shells : shell[h] \in {"none", "starting"} => Fresh(h)
    /\ \A r \in Requests : Opening(r) => Fresh(req[r].shell) /\ shell[req[r].shell] # "none"
    /\ \A r1, r2 \in Requests : Opening(r1) /\ Opening(r2) /\ req[r1].shell = req[r2].shell => r1 = r2

\* An input is for the generation its session is in, and is typed into its transport, which is
\* not exchanged before the inputs have settled.
Aimed ==
    \A r \in Requests :
        /\ req[r].at \in OfASession => status[req[r].session] # "free"
        /\ req[r].at \in {"queued", "typing"} => req[r].gen = generation[req[r].session]
        /\ req[r].at = "typing" => /\ req[r].shell = transport[req[r].session]
                                   /\ req[r].seq = lastInput[req[r].session] + 1
        /\ req[r].at = "opening" => inputTail[req[r].session] = <<>>

\* What waits in a pipe continues what was typed.
Piped ==
    \A h \in Shells : \A i \in DOMAIN pipe[h] :
        pipe[h][i] = [seq |-> Len(typed[h]) + i, gen |-> installed[h]]

\* A shell that runs was sent what was acknowledged and what is being typed.
Typing(s) == \E r \in Requests : req[r].at = "typing" /\ req[r].session = s
Sent ==
    \A s \in Sessions :
        status[s] # "free" /\ shell[transport[s]] = "running" =>
            /\ Typing(s) => Len(typed[transport[s]]) + Len(pipe[transport[s]]) = lastInput[s] + 1
            /\ ~Typing(s) => Len(typed[transport[s]]) + Len(pipe[transport[s]]) = lastInput[s]

\* A server that has closed serves nobody.
Stopped ==
    phase = "closed" => /\ \A r \in Requests : req[r].at = "idle"
                        /\ \A s \in Sessions : ~Active(s)

Handed ==
    /\ Equipped /\ Unused /\ Aimed /\ Piped /\ Sent
    /\ ShellsAreHeld /\ TypedOnceInOrder /\ AckedWasTyped

HInv == Handed /\ Stopped

------------------------------------------------------------------------------
(* Most steps hand no shell over and send it nothing: sessions only end, and *)
(* requests only give up.                                                    *)

\* Transports only close or die, those of the sessions that end among them.
Closes ==
    /\ \A s \in Sessions : /\ status'[s] = "free" <=> status[s] = "free"
                           /\ Active(s)' => Active(s)
                           /\ Active(s) /\ ~Active(s)' => shell'[transport[s]] \notin Running
    /\ \A h \in Shells : shell'[h] = shell[h] \/ shell'[h] \in {"dead", "closed"}

\* A request keeps its place, gives up its shell, or has none before and after.
Yields ==
    \A r \in Requests :
        \/ req'[r] = req[r]
        \/ /\ req'[r].at = "idle"
           /\ req[r].at \in {"ready", "opening", "typing"} => shell'[req[r].shell] \notin Running
        \/ /\ req[r].at \in {"idle", "body"}
           /\ req'[r].at \in {"unlock", "body", "queued", "drain"}
           /\ status[req'[r].session] # "free"
           /\ req'[r].at = "queued" => req'[r].gen = generation[req'[r].session]

Quiet ==
    /\ Closes /\ Yields
    /\ UNCHANGED <<transport, generation, lastInput, typed, installed>>
    /\ \A h \in Shells : \/ pipe'[h] = pipe[h]
                         \/ pipe'[h] = <<>> /\ shell'[h] \notin Running
    /\ \A r \in Requests :
          req[r].at = "opening" => inputTail'[req[r].session] = inputTail[req[r].session]

\* Closing transports and ending sessions leaves what runs with a live session ...
LEMMA ClosesEquipped ==
    ASSUME Equipped, Closes, UNCHANGED <<transport, generation, installed>>,
           \A s \in Sessions : status[s] = "free" => lastInput'[s] = lastInput[s]
    PROVE  Equipped'
<1>1. ASSUME NEW s \in Sessions, status'[s] # "free", shell'[transport[s]] \in Running
      PROVE  Active(s)'
    <2>1. transport[s] \in Shells /\ status[s] # "free"
        BY <1>1 DEF Closes, Equipped
    <2>2. shell[transport[s]] \in Running
        BY <1>1, <2>1 DEF Closes, Running
    <2>3. Active(s)
        BY <2>1, <2>2 DEF Equipped
    <2> QED BY <1>1, <2>3 DEF Closes
<1> QED BY <1>1 DEF Equipped, Closes

\* ... and what is being opened untouched, if no request takes up a transport ...
LEMMA ClosesUnused ==
    ASSUME Staged', Unused, Closes,
           \A h \in Shells : Fresh(h) => Fresh(h)',
           \A r \in Requests : Opening(r)' => req'[r] = req[r]
    PROVE  Unused'
<1>1. ASSUME NEW h \in Shells, shell'[h] \in {"none", "starting"}
      PROVE  Fresh(h)'
    BY <1>1 DEF Closes, Unused
<1>2. ASSUME NEW r \in Requests, Opening(r)'
      PROVE  /\ req'[r] = req[r] /\ Opening(r) /\ req[r].shell \in Shells
             /\ Fresh(req[r].shell)' /\ shell'[req[r].shell] # "none"
    <2>1. req'[r] = req[r]
        BY <1>2
    <2>2. Opening(r) /\ req[r].shell \in Shells
        BY <1>2, <2>1 DEF Staged, Opening
    <2>3. Fresh(req[r].shell) /\ shell[req[r].shell] # "none"
        BY <2>2 DEF Unused
    <2> QED BY <2>1, <2>2, <2>3 DEF Closes
<1>3. ASSUME NEW r1 \in Requests, NEW r2 \in Requests, Opening(r1)', Opening(r2)',
             req'[r1].shell = req'[r2].shell
      PROVE  r1 = r2
    BY <1>2, <1>3 DEF Unused
<1>4. \A r \in Requests : Opening(r)' => /\ Fresh(req[r].shell)' /\ shell'[req'[r].shell] # "none"
                                         /\ req'[r].shell = req[r].shell
    BY <1>2
<1> QED BY <1>1, <1>3, <1>4 DEF Unused, Fresh

\* ... and every transport that runs held, if no request lets go of one that does.
LEMMA ClosesHeld ==
    ASSUME ShellsAreHeld, Closes, UNCHANGED transport,
           \A r \in Requests : Opening(r) => \/ req'[r] = req[r]
                                             \/ shell'[req[r].shell] \notin Running
    PROVE  ShellsAreHeld'
<1> SUFFICES ASSUME NEW h \in Shells, shell'[h] \in {"starting", "running"}
             PROVE  Holders(h)' \cup Openers(h)' # {}
    BY DEF ShellsAreHeld
<1>1. shell'[h] = shell[h] /\ shell'[h] \in Running
    BY DEF Closes, Running
<1>2. Holders(h) \cup Openers(h) # {}
    BY <1>1 DEF ShellsAreHeld
<1>3. ASSUME NEW s \in Holders(h)
      PROVE  s \in Holders(h)'
    BY <1>1 DEF Holders, ActiveSessions, Closes
<1>4. ASSUME NEW r \in Openers(h)
      PROVE  r \in Openers(h)'
    BY <1>1 DEF Openers, Opening
<1> QED BY <1>2, <1>3, <1>4

\* Such a step keeps the invariant.
LEMMA QuietKeeps ==
    ASSUME IInv, TypeOK', Staged', Handed, Quiet
    PROVE  Handed'
<1>0. TypeOK /\ Staged /\ Closes /\ Yields
    BY DEF IInv, Quiet
<1>1. Equipped'
    BY <1>0, ClosesEquipped DEF Handed, Quiet
<1>2. \A h \in Shells : Fresh(h) => Fresh(h)'
    BY DEF Quiet, Fresh
<1>3. Unused'
    BY <1>0, <1>2, ClosesUnused DEF Handed, Yields, Opening
<1>4. Aimed'
    <2> SUFFICES ASSUME NEW r \in Requests
                 PROVE  /\ req'[r].at \in OfASession => status'[req'[r].session] # "free"
                        /\ req'[r].at \in {"queued", "typing"} =>
                              req'[r].gen = generation'[req'[r].session]
                        /\ req'[r].at = "typing" => /\ req'[r].shell = transport'[req'[r].session]
                                                    /\ req'[r].seq = lastInput'[req'[r].session] + 1
                        /\ req'[r].at = "opening" => inputTail'[req'[r].session] = <<>>
        BY DEF Aimed
    <2>0. UNCHANGED <<transport, generation, lastInput>>
        BY DEF Quiet
    <2>1. CASE req'[r] = req[r]
        <3>1. req[r].at \in OfASession => req[r].session \in Sessions
            BY <1>0 DEF Staged, OfASession
        <3>2. req[r].at \in OfASession => status'[req[r].session] # "free"
            BY <1>0, <3>1 DEF Closes, Handed, Aimed
        <3>3. req[r].at = "opening" => inputTail'[req[r].session] = <<>>
            BY DEF Handed, Aimed, Quiet
        <3> QED BY <2>0, <2>1, <3>2, <3>3 DEF Handed, Aimed
    <2>2. CASE req'[r].at = "idle"
        BY <2>2 DEF OfASession
    <2>3. CASE /\ req'[r].at \in {"unlock", "body", "queued", "drain"}
               /\ status[req'[r].session] # "free"
               /\ req'[r].at = "queued" => req'[r].gen = generation[req'[r].session]
        <3>1. req'[r].session \in Sessions
            BY <2>3 DEF Staged
        <3>2. status'[req'[r].session] # "free"
            BY <1>0, <2>3, <3>1 DEF Closes
        <3> QED BY <2>0, <2>3, <3>2
    <2> QED BY <1>0, <2>1, <2>2, <2>3 DEF Yields
<1>5. Piped' /\ TypedOnceInOrder' /\ AckedWasTyped'
    BY DEF Quiet, Handed, Piped, TypedOnceInOrder, AckedWasTyped
<1>6. Sent'
    <2> SUFFICES ASSUME NEW s \in Sessions, status'[s] # "free", shell'[transport[s]] = "running"
                 PROVE  /\ Typing(s)' => Len(typed[transport[s]]) + Len(pipe'[transport[s]])
                                            = lastInput[s] + 1
                        /\ ~Typing(s)' => Len(typed[transport[s]]) + Len(pipe'[transport[s]])
                                            = lastInput[s]
        BY DEF Sent, Quiet
    <2>1. status[s] # "free" /\ transport[s] \in Shells
        BY <1>0 DEF Closes, Handed, Equipped
    <2>2. shell[transport[s]] = "running" /\ pipe'[transport[s]] = pipe[transport[s]]
        BY <1>0, <2>1 DEF Closes, Quiet, Running
    <2>3. Typing(s)' <=> Typing(s)
        <3>1. ASSUME NEW r \in Requests, req[r].at = "typing", req[r].session = s
              PROVE  req'[r] = req[r]
            <4>1. req[r].shell = transport[s]
                BY <3>1 DEF Handed, Aimed
            <4> QED BY <1>0, <3>1, <4>1 DEF Yields, Running
        <3>2. ASSUME NEW r \in Requests, req'[r].at = "typing"
              PROVE  req'[r] = req[r]
            BY <1>0, <3>2 DEF Yields
        <3> QED BY <3>1, <3>2 DEF Typing
    <2> QED BY <2>1, <2>2, <2>3 DEF Handed, Sent
<1>7. ShellsAreHeld'
    BY <1>0, ClosesHeld DEF Handed, Quiet, Yields, Opening
<1> QED BY <1>1, <1>3, <1>4, <1>5, <1>6, <1>7 DEF Handed

------------------------------------------------------------------------------
(* The steps that are quiet.                                                 *)

\* The statuses st are those now, but for sessions that end or are unlocked.
Ends(st) == /\ st \in [Sessions -> Statuses]
            /\ \A s \in Sessions : /\ st[s] = "free" <=> status[s] = "free"
                                   /\ st[s] \in Live => Active(s)

\* Sweeping ends sessions, and so does changing a live session's status afterwards.
LEMMA SweptEnds ==
    ASSUME TypeOK
    PROVE  /\ Ends(Swept)
           /\ \A s \in Sessions, v \in {"connected", "revoked", "locked", "completed", "disconnected"} :
                 Swept[s] \in Live => Ends([Swept EXCEPT ![s] = v])
<1>1. Ends(Swept)
    BY SweptStatus, Names DEF Ends, Active, Live, Ended
<1>2. ASSUME NEW s \in Sessions, NEW v \in {"connected", "revoked", "locked", "completed", "disconnected"},
             Swept[s] \in Live
      PROVE  Ends([Swept EXCEPT ![s] = v])
    <2>1. Swept \in [Sessions -> Statuses] /\ v \in Statuses /\ v # "free"
        BY SweptStatus DEF Statuses, Live, Ended
    <2>2. Active(s) /\ status[s] # "free"
        BY <1>2, SweptStatus DEF Active, Live
    <2>3. \A u \in Sessions : [Swept EXCEPT ![s] = v][u] = IF u = s THEN v ELSE Swept[u]
        BY <2>1
    <2>4. [Swept EXCEPT ![s] = v] \in [Sessions -> Statuses]
        BY <2>1
    <2> HIDE DEF Swept
    <2> QED BY <1>1, <2>1, <2>2, <2>3, <2>4 DEF Ends
<1> QED BY <1>1, <1>2

\* Ending sessions closes their transports and no others.
LEMMA BecomeCloses ==
    ASSUME TypeOK, Equipped, NEW st, Ends(st), Become(st)
    PROVE  Closes
<1>1. status' = st /\ shell' = ClosedBy(st)
    BY DEF Become
<1>2. \A h \in Shells : shell'[h] = shell[h] \/ shell'[h] = "closed"
    BY <1>1 DEF ClosedBy
<1>3. ASSUME NEW s \in Sessions, Active(s), ~Active(s)'
      PROVE  shell'[transport[s]] \notin Running
    <2>1. transport[s] \in Shells
        BY <1>3 DEF Equipped, Active, Live
    <2>2. st[s] \notin Live /\ s \in ActiveSessions
        BY <1>1, <1>3 DEF Active, ActiveSessions
    <2>3. shell'[transport[s]] = "closed"
        BY <1>1, <2>1, <2>2 DEF ClosedBy
    <2> QED BY <2>3 DEF Running
<1> QED BY <1>1, <1>2, <1>3 DEF Closes, Ends, Active

\* A step that leaves the statuses and the transports alone closes nothing.
LEMMA SameCloses ==
    ASSUME UNCHANGED <<status, shell>>
    PROVE  Closes
BY DEF Closes, Active

\* A request that holds no shell is answered, or nothing happens to the requests.
LEMMA AnswerYields ==
    ASSUME TypeOK
    PROVE  /\ UNCHANGED req => Yields
           /\ \A r \in Requests : Answer(r) /\ ~Opening(r) /\ req[r].at # "typing" => Yields
           /\ \A r \in Requests : Answer(r) /\ shell'[req[r].shell] \notin Running => Yields
<1>1. UNCHANGED req => Yields
    BY DEF Yields
<1>2. ASSUME NEW r \in Requests, Answer(r),
             \/ ~Opening(r) /\ req[r].at # "typing"
             \/ shell'[req[r].shell] \notin Running
      PROVE  Yields
    <2>1. req'[r].at = "idle" /\ \A q \in Requests \ {r} : req'[q] = req[q]
        BY <1>2, AnswerType
    <2> QED BY <1>2, <2>1 DEF Yields, Opening
<1> QED BY <1>1, <1>2

\* No input is chained on a session whose next transport is being opened.
LEMMA SettleApart ==
    ASSUME IInv, Aimed, NEW r \in Requests, req[r].at \in {"queued", "typing"}, Settle(r)
    PROVE  \A q \in Requests :
              req[q].at = "opening" => inputTail'[req[q].session] = inputTail[req[q].session]
<1> DEFINE s == req[r].session
<1>0. TypeOK /\ Staged /\ Chained
    BY DEF IInv
<1>1. s \in Sessions /\ inputTail[s] # <<>>
    BY <1>0 DEF Staged, Chained, TypeOK
<1>2. inputTail' = [inputTail EXCEPT ![s] = Tail(@)]
    BY DEF Settle
<1> HIDE DEF s
<1> SUFFICES ASSUME NEW q \in Requests, req[q].at = "opening"
             PROVE  inputTail'[req[q].session] = inputTail[req[q].session]
    OBVIOUS
<1>3. req[q].session # s /\ req[q].session \in Sessions
    BY <1>0, <1>1 DEF Aimed, Staged
<1> QED BY <1>0, <1>2, <1>3 DEF TypeOK

\* What is left of the invariant's variables by the steps that do not settle an input.
Untouched == UNCHANGED <<transport, generation, lastInput, typed, installed, pipe, inputTail>>

\* With these variables as they are, a step that closes and yields is quiet.
LEMMA UntouchedQuiet ==
    ASSUME Closes, Yields, Untouched
    PROVE  Quiet
BY DEF Untouched, Quiet

\* A step is quiet, or it is one of those that open, hand over or use a transport.
LEMMA QuietStep ==
    ASSUME IInv, Handed, [Next]_vars
    PROVE  \/ Quiet
           \/ \E r \in Requests :
                 \/ \E t \in Tenants, h \in Shells : Create(r, t, h)
                 \/ \E id \in Sessions : Issue(r, id)
                 \/ \E h \in Shells : ShellOpening(r, h)
                 \/ ShellSwapped(r) \/ InputSent(r) \/ InputAcked(r)
           \/ \E h \in Shells : ShellReady(h) \/ ShellTypes(h)
<1>0. TypeOK /\ Staged /\ Chained /\ Equipped /\ Unused /\ Aimed
    BY DEF IInv, Handed
<1>e. \A st : Ends(st) /\ Become(st) => Closes
    BY <1>0, BecomeCloses
<1>s. Become(Swept) => Closes
    BY <1>0, <1>e, SweptEnds
<1>i. UNCHANGED req => Yields
    BY <1>0, AnswerYields
<1>a. \A r \in Requests : Answer(r) /\ req[r].at \in {"unlock", "body", "queued"} => Yields
    BY <1>0, AnswerYields DEF Opening
<1>1. CASE Sweep
    BY <1>1, <1>s, <1>i, UntouchedQuiet DEF Sweep, Untouched, sessionVars, history
<1>2. ASSUME NEW s \in Sessions, Revoke(s)
      PROVE  Quiet
    <2>1. Ends([Swept EXCEPT ![s] = IF @ \in Live THEN "revoked" ELSE @])
        <3>1. CASE Swept[s] \in Live
            BY <1>0, <3>1, SweptEnds
        <3>2. CASE Swept[s] \notin Live
            <4>1. [Swept EXCEPT ![s] = IF @ \in Live THEN "revoked" ELSE @] = Swept
                BY <3>2 DEF Swept
            <4> QED BY <1>0, <4>1, SweptEnds
        <3> QED BY <3>1, <3>2
    <2>2. Closes
        BY <1>2, <1>e, <2>1 DEF Revoke
    <2> QED BY <1>2, <2>2, <1>i, UntouchedQuiet DEF Revoke, Untouched, sessionVars, history
<1>3. ASSUME NEW r \in Requests, NEW s \in Sessions, UnlockArrives(r, s) \/ ViewerArrives(r, s)
      PROVE  Quiet
    <2>1. Closes
        BY <1>3, <1>s DEF UnlockArrives, ViewerArrives
    <2>2. status[s] # "free"
        BY <1>3, <1>0, SweptStatus DEF UnlockArrives, ViewerArrives, Live
    <2>3. Yields
        BY <1>3, <1>0, <2>2, Arrival DEF Yields
    <2> QED BY <1>3, <2>1, <2>3, UntouchedQuiet DEF UnlockArrives, ViewerArrives, Untouched, sessionVars, history
<1>4. ASSUME NEW r \in Requests, UnlockRight(r)
      PROVE  Quiet
    <2>1. req[r].session \in Sessions /\ Swept[req[r].session] \in Live
        BY <1>4, <1>0 DEF UnlockRight, Staged, Redeemable, Live
    <2>2. Ends([Swept EXCEPT ![req[r].session] = "connected"])
        BY <1>0, <2>1, SweptEnds
    <2>3. Closes
        BY <1>4, <1>e, <2>2 DEF UnlockRight
    <2> QED BY <1>4, <1>a, <2>3, UntouchedQuiet DEF UnlockRight, Untouched, sessionVars, history
<1>5. ASSUME NEW r \in Requests, UnlockWrong(r)
      PROVE  Quiet
    <2> DEFINE s == req[r].session
    <2>1. s \in Sessions /\ Swept[s] \in Live
        BY <1>5, <1>0 DEF UnlockWrong, Staged, Redeemable, Live
    <2>2. Ends([Swept EXCEPT ![s] = IF Locks(s) THEN "locked" ELSE @])
        <3>1. CASE Locks(s)
            BY <1>0, <2>1, <3>1, SweptEnds
        <3>2. CASE ~Locks(s)
            <4>1. [Swept EXCEPT ![s] = IF Locks(s) THEN "locked" ELSE @] = Swept
                BY <3>2 DEF Swept
            <4> QED BY <1>0, <4>1, SweptEnds
        <3> QED BY <3>1, <3>2
    <2>3. Closes
        BY <1>5, <1>e, <2>2 DEF UnlockWrong
    <2> QED BY <1>5, <1>a, <2>3, UntouchedQuiet DEF UnlockWrong, Untouched, sessionVars, history
<1>6. ASSUME NEW r \in Requests, UnlockLate(r) \/ ViewerAnswered(r)
      PROVE  Quiet
    BY <1>6, <1>s, <1>a, UntouchedQuiet DEF UnlockLate, ViewerAnswered, Untouched, sessionVars, history
<1>7. ASSUME NEW s \in Sessions, Poll(s)
      PROVE  Quiet
    BY <1>7, <1>s, <1>i, UntouchedQuiet DEF Poll, Untouched, sessionVars, history
<1>8. ASSUME NEW s \in Sessions, Complete(s)
      PROVE  Quiet
    <2>1. Ends([Swept EXCEPT ![s] = "completed"])
        BY <1>8, <1>0, SweptEnds DEF Complete, Live
    <2>2. Closes
        BY <1>8, <1>e, <2>1 DEF Complete
    <2> QED BY <1>8, <1>i, <2>2, UntouchedQuiet DEF Complete, Untouched, sessionVars, history
<1>9. ASSUME NEW r \in Requests, BodyRefused(r)
      PROVE  Quiet
    BY <1>9, <1>a, SameCloses, UntouchedQuiet DEF BodyRefused, Untouched, sessionVars, history
<1>10. ASSUME NEW r \in Requests, NEW n \in 1 .. MaxSeq, NEW g \in 0 .. MaxGen, InputAccepted(r, n, g)
      PROVE  Quiet
    <2> DEFINE s == req[r].session
    <2>1. s \in Sessions /\ req[r].at = "body" /\ ~changing[s] /\ g = generation[s]
        BY <1>10, <1>0 DEF InputAccepted, Staged, Accepts
    <2>2. status[s] # "free"
        BY <1>0, <2>1 DEF Aimed, OfASession
    <2>3. req'[r].at = "queued" /\ req'[r].session = s /\ req'[r].gen = g
        BY <1>10, <1>0 DEF InputAccepted, TypeOK, InFlight
    <2>4. \A q \in Requests \ {r} : req'[q] = req[q]
        BY <1>10, <1>0 DEF InputAccepted, TypeOK
    <2>5. Yields
        BY <2>1, <2>2, <2>3, <2>4 DEF Yields
    <2>6. ASSUME NEW q \in Requests, req[q].at = "opening"
          PROVE  inputTail'[req[q].session] = inputTail[req[q].session]
        <3>1. req[q].session # s
            BY <2>1, <2>6 DEF IInv, ChangingIsOwned
        <3>2. inputTail' = [inputTail EXCEPT ![s] = Append(@, r)] /\ req[q].session \in Sessions
            BY <1>10, <1>0, <2>6 DEF InputAccepted, Staged
        <3> QED BY <1>0, <3>1, <3>2 DEF TypeOK
    <2>7. Closes
        BY <1>10, <1>s DEF InputAccepted
    <2>8. UNCHANGED <<transport, generation, lastInput, typed, installed, pipe>>
        BY <1>10 DEF InputAccepted, sessionVars, history
    <2> QED BY <2>5, <2>6, <2>7, <2>8 DEF Quiet
<1>11. ASSUME NEW r \in Requests, InputRefused(r)
      PROVE  Quiet
    <2>1. Settle(r) /\ Answer(r) /\ req[r].at = "queued"
        BY <1>11 DEF InputRefused, Turn, Settle
    <2>2. Closes /\ Yields
        BY <1>11, <1>s, <1>a, <2>1 DEF InputRefused
    <2>3. \A q \in Requests : req[q].at = "opening" => inputTail'[req[q].session] = inputTail[req[q].session]
        BY <1>0, <2>1, SettleApart
    <2>4. UNCHANGED <<transport, generation, lastInput, typed, installed, pipe>>
        BY <1>11 DEF InputRefused, sessionVars, history
    <2> QED BY <2>2, <2>3, <2>4 DEF Quiet
<1>12. ASSUME NEW r \in Requests, InputUnsendable(r)
      PROVE  Quiet
    <2>1. Settle(r) /\ Answer(r) /\ req[r].at = "queued"
        BY <1>12 DEF InputUnsendable, Turn, Settle
    <2>2. req[r].session \in Sessions /\ Swept[req[r].session] \in Live
        BY <1>12, <1>0 DEF InputUnsendable, Turn, Staged, Live
    <2>3. Ends([Swept EXCEPT ![req[r].session] = "disconnected"])
        BY <1>0, <2>2, SweptEnds
    <2>4. Closes /\ Yields
        BY <1>12, <1>e, <1>a, <2>1, <2>3 DEF InputUnsendable
    <2>5. \A q \in Requests : req[q].at = "opening" => inputTail'[req[q].session] = inputTail[req[q].session]
        BY <1>0, <2>1, SettleApart
    <2>6. UNCHANGED <<transport, generation, lastInput, typed, installed, pipe>>
        BY <1>12 DEF InputUnsendable, sessionVars, history
    <2> QED BY <2>4, <2>5, <2>6 DEF Quiet
<1>13. ASSUME NEW r \in Requests, InputFails(r)
      PROVE  Quiet
    <2> DEFINE s == req[r].session
               h == req[r].shell
    <2>1. Settle(r) /\ Answer(r) /\ req[r].at = "typing"
        BY <1>13 DEF InputFails, Settle
    <2>2. s \in Sessions /\ h = transport[s] /\ h \in Shells
        BY <1>0, <2>1 DEF Staged, Aimed, Equipped, OfASession
    <2>3. shell'[h] = "closed" /\ \A g \in Shells : shell'[g] = shell[g] \/ shell'[g] = "closed"
        BY <1>13, <1>0, <2>2 DEF InputFails, TypeOK
    <2>4. status' = [status EXCEPT ![s] = Lose(s)]
        BY <1>13 DEF InputFails
    <2>5. \A u \in Sessions : /\ status'[u] = "free" <=> status[u] = "free"
                              /\ Active(u)' => Active(u)
                              /\ Active(u) /\ ~Active(u)' => u = s
        BY <1>0, <2>2, <2>4 DEF Lose, Active, Live, TypeOK
    <2>6. Closes
        BY <2>2, <2>3, <2>5 DEF Closes, Running
    <2>7. Yields
        BY <1>0, <2>1, <2>3, AnswerYields DEF Running
    <2>8. \A q \in Requests : req[q].at = "opening" => inputTail'[req[q].session] = inputTail[req[q].session]
        BY <1>0, <2>1, SettleApart
    <2>9. UNCHANGED <<transport, generation, lastInput, typed, installed, pipe>>
        BY <1>13 DEF InputFails, sessionVars, history
    <2> QED BY <2>6, <2>7, <2>8, <2>9 DEF Quiet
<1>14. ASSUME NEW r \in Requests, ShellAsked(r)
      PROVE  Quiet
    <2>1. req[r].at = "body" /\ status[req[r].session] # "free"
        BY <1>14, <1>0 DEF ShellAsked, Aimed, OfASession
    <2>2. req'[r].at = "drain" /\ req'[r].session = req[r].session
        BY <1>14, <1>0 DEF ShellAsked, TypeOK, InFlight
    <2>3. \A q \in Requests \ {r} : req'[q] = req[q]
        BY <1>14, <1>0 DEF ShellAsked, TypeOK
    <2>4. Closes /\ Yields
        BY <1>14, <1>s, <2>1, <2>2, <2>3 DEF ShellAsked, Yields
    <2> QED BY <1>14, <2>4, UntouchedQuiet DEF ShellAsked, Untouched, sessionVars, history
<1>15. ASSUME NEW r \in Requests, CreateFails(r)
      PROVE  Quiet
    <2>1. req[r].shell \in Shells /\ Opening(r) /\ Answer(r)
        BY <1>15, <1>0 DEF CreateFails, Staged, Opening
    <2>2. shell'[req[r].shell] = "closed" /\ \A g \in Shells : shell'[g] = shell[g] \/ shell'[g] = "closed"
        BY <1>15, <1>0, <2>1 DEF CreateFails, TypeOK
    <2>3. Closes /\ Yields
        BY <1>15, <1>0, <2>1, <2>2, AnswerYields DEF CreateFails, Closes, Running, Active
    <2> QED BY <1>15, <2>3, UntouchedQuiet DEF CreateFails, Untouched, sessionVars, history
<1>16. ASSUME NEW r \in Requests, ShellNotSwapped(r)
      PROVE  Quiet
    <2> DEFINE h == req[r].shell
               st == IF shell[h] = "running" THEN Swept ELSE status
    <2>1. h \in Shells /\ Answer(r)
        BY <1>16, <1>0 DEF ShellNotSwapped, Staged
    <2>2. Ends(status) /\ Ends(Swept)
        BY <1>0, SweptEnds DEF Ends, Active, TypeOK
    <2>3. Ends(st) /\ status' = st /\ shell' = [ClosedBy(st) EXCEPT ![h] = "closed"]
        BY <1>16, <2>2 DEF ShellNotSwapped
    <2> HIDE DEF st, h
    <2>4. /\ shell'[h] = "closed"
          /\ \A g \in Shells : shell'[g] = ClosedBy(st)[g] \/ shell'[g] = "closed"
        BY <2>1, <2>3 DEF ClosedBy
    <2>5. \A g \in Shells : ClosedBy(st)[g] = shell[g] \/ ClosedBy(st)[g] = "closed"
        BY DEF ClosedBy
    <2>6. ASSUME NEW s \in Sessions, Active(s), ~Active(s)'
          PROVE  shell'[transport[s]] \notin Running
        <3>1. transport[s] \in Shells
            BY <1>0, <2>6 DEF Equipped, Active, Live
        <3>2. ClosedBy(st)[transport[s]] = "closed"
            BY <2>3, <2>6, <3>1 DEF ClosedBy, Active, ActiveSessions
        <3> QED BY <2>4, <3>1, <3>2 DEF Running
    <2>7. Closes
        BY <2>3, <2>4, <2>5, <2>6 DEF Closes, Ends, Active
    <2>8. Yields
        BY <1>0, <2>1, <2>4, AnswerYields DEF Running, h
    <2> QED BY <1>16, <2>7, <2>8, UntouchedQuiet DEF ShellNotSwapped, Untouched, sessionVars, history
<1>17. ASSUME NEW h \in Shells, ShellDies(h)
      PROVE  Quiet
    <2>1. Closes
        BY <1>17, <1>0 DEF ShellDies, Closes, Active, TypeOK
    <2>2. Yields
        BY <1>17, <1>i DEF ShellDies
    <2>3. \A g \in Shells : pipe'[g] = pipe[g] \/ (pipe'[g] = <<>> /\ shell'[g] \notin Running)
        BY <1>17, <1>0 DEF ShellDies, Running, TypeOK
    <2>4. UNCHANGED <<transport, generation, lastInput, typed, installed, inputTail>>
        BY <1>17 DEF ShellDies, sessionVars, history
    <2> QED BY <2>1, <2>2, <2>3, <2>4 DEF Quiet
<1>18. ASSUME NEW h \in Shells, ShellGivenUp(h)
      PROVE  Quiet
    <2>1. Closes
        BY <1>18, <1>0 DEF ShellGivenUp, Closes, Active, TypeOK
    <2> QED BY <1>18, <1>i, <2>1, UntouchedQuiet DEF ShellGivenUp, Untouched, sessionVars, history
<1>19. ASSUME NEW t \in Tenants, NEW k \in Keys \cup {None}, Rotate(t, k)
      PROVE  Quiet
    BY <1>19, <1>i, SameCloses, UntouchedQuiet DEF Rotate, Untouched, sessionVars, history
<1>20. ASSUME NEW s \in Sessions, Age(s)
      PROVE  Quiet
    BY <1>20, <1>i, SameCloses, UntouchedQuiet DEF Age, Untouched, sessionVars, history
<1>21. ASSUME NEW t \in Tenants, RateForgotten(t)
      PROVE  Quiet
    BY <1>21, <1>i, SameCloses, UntouchedQuiet DEF RateForgotten, Untouched, sessionVars, history
<1>22. CASE Shutdown \/ ServerClosed
    <2>1. Ends(Disconnected)
        BY <1>0, Names DEF Ends, Disconnected, Active, Live, TypeOK
    <2>2. Closes
        BY <1>22, <1>e, <2>1 DEF Shutdown, ServerClosed
    <2> QED BY <1>22, <1>i, <2>2, UntouchedQuiet DEF Shutdown, ServerClosed, Untouched, sessionVars, history
<1>23. CASE UNCHANGED vars
    BY <1>23, <1>i, SameCloses, UntouchedQuiet DEF vars, Untouched, sessionVars, history
<1> QED BY <1>1, <1>2, <1>3, <1>4, <1>5, <1>6, <1>7, <1>8, <1>9, <1>10, <1>11, <1>12,
           <1>13, <1>14, <1>15, <1>16, <1>17, <1>18, <1>19, <1>20, <1>21, <1>22, <1>23
        DEF Next, Proceed

------------------------------------------------------------------------------
(* The steps that open a transport, hand it over or use it.                  *)

\* A request that starts a transport is the one that holds it.
LEMMA OpensKeeps ==
    ASSUME IInv, Handed, NEW r \in Requests, NEW h \in Shells,
           ~Opening(r), req[r].at # "typing", shell[h] = "none",
           shell' = [shell EXCEPT ![h] = "starting"],
           Opening(r)', req'[r].shell = h,
           req'[r].at = "opening" => /\ status[req'[r].session] # "free"
                                     /\ inputTail[req'[r].session] = <<>>,
           \A q \in Requests \ {r} : req'[q] = req[q],
           UNCHANGED <<status, transport, generation, lastInput, typed, installed, pipe, inputTail>>
    PROVE  Handed'
<1>0. TypeOK /\ Staged /\ Fresh(h) /\ Equipped
    BY DEF IInv, Handed, Unused
<1>1. \A g \in Shells : shell'[g] = IF g = h THEN "starting" ELSE shell[g]
    BY <1>0 DEF TypeOK
<1>2. \A s \in Sessions : transport[s] # h
    BY <1>0 DEF Fresh
<1>3. \A s \in Sessions : status[s] # "free" => /\ transport[s] \in Shells
                                              /\ shell'[transport[s]] = shell[transport[s]]
    BY <1>0, <1>1, <1>2 DEF Equipped
<1>4. Equipped'
    BY <1>0, <1>3 DEF Equipped, Active
<1>5. \A g \in Shells : Fresh(g)' <=> Fresh(g)
    BY DEF Fresh
<1>6. Unused'
    <2>1. ASSUME NEW g \in Shells, shell'[g] \in {"none", "starting"}
          PROVE  Fresh(g)'
        BY <1>0, <1>1, <1>5, <2>1 DEF Handed, Unused
    <2>2. ASSUME NEW q \in Requests \ {r}, Opening(q)'
          PROVE  /\ Opening(q) /\ req'[q].shell = req[q].shell /\ req[q].shell \in Shells
                 /\ Fresh(req[q].shell) /\ shell[req[q].shell] # "none"
        <3>1. Opening(q) /\ req'[q] = req[q]
            BY <2>2 DEF Opening
        <3> QED BY <1>0, <3>1 DEF Staged, Opening, Handed, Unused
    <2>3. ASSUME NEW q \in Requests, Opening(q)', NEW g, g = req'[q].shell
          PROVE  Fresh(g)' /\ shell'[g] # "none"
        <3>1. CASE q = r
            BY <1>0, <1>1, <1>5, <2>3, <3>1
        <3>2. CASE q # r
            <4>1. g \in Shells /\ Fresh(g) /\ shell[g] # "none"
                BY <2>2, <2>3, <3>2
            <4> QED BY <1>1, <1>5, <4>1
        <3> QED BY <3>1, <3>2
    <2>4. ASSUME NEW r1 \in Requests, NEW r2 \in Requests, Opening(r1)', Opening(r2)',
                 req'[r1].shell = req'[r2].shell
          PROVE  r1 = r2
        BY <2>2, <2>4 DEF Handed, Unused
    <2> QED BY <2>1, <2>3, <2>4 DEF Unused, Fresh
<1>7. Aimed'
    <2>1. ASSUME NEW q \in Requests \ {r}
          PROVE  req'[q] = req[q]
        BY <2>1
    <2>2. req'[r].at \in {"ready", "opening"}
        BY DEF Opening
    <2> QED BY <2>1, <2>2 DEF Handed, Aimed, OfASession
<1>8. Piped' /\ TypedOnceInOrder' /\ AckedWasTyped'
    BY DEF Handed, Piped, TypedOnceInOrder, AckedWasTyped
<1>9. Sent'
    <2>1. \A s \in Sessions : Typing(s)' <=> Typing(s)
        BY DEF Typing, Opening
    <2> QED BY <1>3, <2>1 DEF Handed, Sent
<1>10. ShellsAreHeld'
    <2> SUFFICES ASSUME NEW g \in Shells, shell'[g] \in {"starting", "running"}
                 PROVE  Holders(g)' \cup Openers(g)' # {}
        BY DEF ShellsAreHeld
    <2>1. CASE g = h
        <3>1. r \in Openers(g)'
            BY <2>1 DEF Openers, Opening
        <3> QED BY <3>1
    <2>2. CASE g # h
        <3>1. Holders(g) \cup Openers(g) # {}
            BY <1>1, <2>2 DEF Handed, ShellsAreHeld
        <3>2. Holders(g)' = Holders(g)
            BY DEF Holders, ActiveSessions, Active
        <3>3. Openers(g) \subseteq Openers(g)'
            BY DEF Openers, Opening
        <3> QED BY <3>1, <3>2, <3>3
    <2> QED BY <2>1, <2>2
<1> QED BY <1>4, <1>6, <1>7, <1>8, <1>9, <1>10 DEF Handed

\* Creating a session and changing a shell both start a transport that way.
LEMMA OpenStep ==
    ASSUME IInv, Handed, NEW r \in Requests, NEW h \in Shells,
           ShellOpening(r, h) \/ \E t \in Tenants : Create(r, t, h)
    PROVE  Handed'
<1>0. TypeOK /\ Staged
    BY DEF IInv
<1>1. CASE ShellOpening(r, h)
    <2>1. req' = [req EXCEPT ![r] = [req[r] EXCEPT !.at = "opening", !.shell = h]]
        BY <1>0, <1>1 DEF ShellOpening, TypeOK
    <2>2. req'[r] = [req[r] EXCEPT !.at = "opening", !.shell = h]
          /\ \A q \in Requests \ {r} : req'[q] = req[q]
        BY <1>0, <2>1, OthersKept
    <2>3. req'[r].at = "opening" /\ req'[r].shell = h /\ req'[r].session = req[r].session
        BY <1>0, <2>2 DEF TypeOK, InFlight
    <2>4. req[r].at = "drain" /\ inputTail[req[r].session] = <<>> /\ shell[h] = "none"
        BY <1>1 DEF ShellOpening
    <2>5. status[req[r].session] # "free"
        BY <2>4 DEF Handed, Aimed, OfASession
    <2>6. /\ shell' = [shell EXCEPT ![h] = "starting"]
          /\ UNCHANGED <<status, transport, generation, lastInput, typed, installed, pipe, inputTail>>
        BY <1>1 DEF ShellOpening, sessionVars, history
    <2>7. ~Opening(r) /\ Opening(r)' /\ req[r].at # "typing"
        BY <2>3, <2>4 DEF Opening
    <2>8. status[req'[r].session] # "free" /\ inputTail[req'[r].session] = <<>>
        BY <2>3, <2>4, <2>5
    <2> QED BY <2>2, <2>3, <2>4, <2>6, <2>7, <2>8, OpensKeeps
<1>2. ASSUME NEW t \in Tenants, Create(r, t, h)
      PROVE  Handed'
    <2>1. req' = [req EXCEPT ![r] = [Idle EXCEPT !.at = "ready", !.tenant = t, !.key = key[t], !.shell = h]]
        BY <1>2 DEF Create
    <2>2. req'[r] = [Idle EXCEPT !.at = "ready", !.tenant = t, !.key = key[t], !.shell = h]
          /\ \A q \in Requests \ {r} : req'[q] = req[q]
        BY <1>0, <2>1, OthersKept
    <2>3. req'[r].at = "ready" /\ req'[r].shell = h
        BY <2>2 DEF Idle
    <2>4. /\ req[r].at = "idle" /\ shell[h] = "none"
          /\ shell' = [shell EXCEPT ![h] = "starting"]
          /\ UNCHANGED <<status, transport, generation, lastInput, typed, installed, pipe, inputTail>>
        BY <1>2 DEF Create, sessionVars, history
    <2> QED BY <2>2, <2>3, <2>4, OpensKeeps DEF Opening
<1> QED BY <1>1, <1>2

\* The transport a request opened becomes that of session s, which is or stays live; the
\* other sessions may end.
LEMMA HandsOver ==
    ASSUME IInv, Handed, NEW r \in Requests, NEW s \in Sessions, NEW h \in Shells,
           Opening(r), req[r].shell = h, shell[h] = "running",
           req'[r].at = "idle", \A q \in Requests \ {r} : req'[q] = req[q],
           \A q \in Requests \ {r} :
              req[q].at \in {"queued", "typing"} => req[q].session # s,
           transport'[s] = h, lastInput'[s] = 0, installed'[h] = generation'[s],
           \A u \in Sessions \ {s} : /\ transport'[u] = transport[u]
                                     /\ lastInput'[u] = lastInput[u]
                                     /\ generation'[u] = generation[u],
           \A g \in Shells \ {h} : installed'[g] = installed[g],
           Active(s)',
           \A u \in Sessions \ {s} :
              /\ status'[u] = "free" <=> status[u] = "free"
              /\ Active(u)' => Active(u)
              /\ Active(u) /\ ~Active(u)' => shell'[transport[u]] \notin Running,
           shell'[h] = "running",
           \A g \in Shells : shell'[g] = shell[g] \/ shell'[g] = "closed",
           transport[s] \in Shells => shell'[transport[s]] = "closed",
           UNCHANGED <<typed, pipe, inputTail>>
    PROVE  Handed'
<1>0. TypeOK /\ Staged /\ Fresh(h) /\ Equipped
    BY DEF IInv, Handed, Unused
<1>1. /\ typed[h] = <<>> /\ pipe[h] = <<>>
      /\ \A u \in Sessions : transport[u] # h
    BY <1>0 DEF Fresh
<1>2. status'[s] # "free"
    BY DEF Active, Live
\* A session that has a running transport now had it before, unless it is s.
<1>3. ASSUME NEW u \in Sessions \ {s}, status'[u] # "free"
      PROVE  /\ status[u] # "free" /\ transport[u] \in Shells \ {h}
             /\ shell'[transport[u]] \in Running => shell'[transport[u]] = shell[transport[u]]
    <2>1. status[u] # "free" /\ transport[u] \in Shells \ {h}
        BY <1>0, <1>1, <1>3 DEF Equipped
    <2> QED BY <2>1 DEF Running
<1>4. Equipped'
    <2>1. ASSUME NEW u \in Sessions, status'[u] = "free"
          PROVE  transport'[u] = None /\ lastInput'[u] = 0 /\ generation'[u] = 0
        BY <1>0, <1>2, <2>1 DEF Equipped
    <2>2. ASSUME NEW u \in Sessions, status'[u] # "free"
          PROVE  transport'[u] \in Shells /\ installed'[transport'[u]] = generation'[u]
        BY <1>0, <1>3, <2>2 DEF Equipped
    <2>3. ASSUME NEW u \in Sessions, status'[u] # "free", shell'[transport'[u]] \in Running
          PROVE  Active(u)'
        BY <1>0, <1>3, <2>3 DEF Equipped
    <2>4. ASSUME NEW s1 \in Sessions, NEW s2 \in Sessions,
                 transport'[s1] = transport'[s2], transport'[s1] # None
          PROVE  s1 = s2
        BY <1>0, <1>1, <2>4 DEF Equipped
    <2> QED BY <2>1, <2>2, <2>3, <2>4 DEF Equipped
<1>5. ASSUME NEW g \in Shells \ {h}, Fresh(g)
      PROVE  Fresh(g)'
    BY <1>5 DEF Fresh
<1>6. Unused'
    <2>1. ASSUME NEW g \in Shells, shell'[g] \in {"none", "starting"}
          PROVE  Fresh(g)'
        BY <1>5, <2>1 DEF Handed, Unused
    <2>2. ASSUME NEW q \in Requests, Opening(q)'
          PROVE  /\ Opening(q) /\ req'[q] = req[q] /\ req[q].shell \in Shells \ {h}
                 /\ Fresh(req[q].shell) /\ shell[req[q].shell] # "none"
        <3>1. q # r /\ Opening(q) /\ req'[q] = req[q]
            BY <2>2 DEF Opening
        <3>2. req[q].shell # h
            BY <3>1 DEF Handed, Unused
        <3> QED BY <1>0, <3>1, <3>2 DEF Staged, Opening, Handed, Unused
    <2>3. ASSUME NEW q \in Requests, Opening(q)', NEW g, g = req'[q].shell
          PROVE  Fresh(g)' /\ shell'[g] # "none"
        <3>1. g \in Shells \ {h} /\ Fresh(g) /\ shell[g] # "none"
            BY <2>2, <2>3
        <3> QED BY <1>5, <3>1
    <2>4. ASSUME NEW r1 \in Requests, NEW r2 \in Requests, Opening(r1)', Opening(r2)',
                 req'[r1].shell = req'[r2].shell
          PROVE  r1 = r2
        BY <2>2, <2>4 DEF Handed, Unused
    <2> QED BY <2>1, <2>3, <2>4 DEF Unused, Fresh
<1>7. Aimed'
    <2> SUFFICES ASSUME NEW q \in Requests \ {r}, req[q].at \in OfASession
                 PROVE  /\ status'[req[q].session] # "free"
                        /\ req[q].at \in {"queued", "typing"} =>
                              req[q].gen = generation'[req[q].session]
                        /\ req[q].at = "typing" => /\ req[q].shell = transport'[req[q].session]
                                                   /\ req[q].seq = lastInput'[req[q].session] + 1
                        /\ req[q].at = "opening" => inputTail[req[q].session] = <<>>
        BY DEF Aimed, OfASession
    <2>1. req[q].session \in Sessions /\ status[req[q].session] # "free"
        BY <1>0 DEF Staged, Handed, Aimed, OfASession
    <2>2. status'[req[q].session] # "free"
        BY <1>2, <2>1
    <2>3. req[q].at \in {"queued", "typing"} => req[q].session \in Sessions \ {s}
        BY <2>1
    <2> QED BY <2>2, <2>3 DEF Handed, Aimed
<1>8. Piped'
    BY <1>1 DEF Handed, Piped
<1>9. TypedOnceInOrder'
    BY <1>1 DEF Handed, TypedOnceInOrder
<1>10. AckedWasTyped'
    <2>1. ASSUME NEW u \in Sessions, transport'[u] # None
          PROVE  lastInput'[u] <= Len(typed'[transport'[u]])
        <3>1. CASE u = s
            BY <1>1, <3>1
        <3>2. CASE u # s
            BY <2>1, <3>2 DEF Handed, AckedWasTyped
        <3> QED BY <3>1, <3>2
    <2> QED BY <2>1 DEF AckedWasTyped
<1>11. Sent'
    <2>1. \A u \in Sessions : Typing(u)' <=> Typing(u)
        BY DEF Typing, Opening
    <2>2. ~Typing(s)
        BY DEF Typing, Opening
    <2>3. ASSUME NEW u \in Sessions, status'[u] # "free", shell'[transport'[u]] = "running"
          PROVE  /\ Typing(u) => Len(typed[transport'[u]]) + Len(pipe[transport'[u]]) = lastInput'[u] + 1
                 /\ ~Typing(u) => Len(typed[transport'[u]]) + Len(pipe[transport'[u]]) = lastInput'[u]
        <3>1. CASE u = s
            <4>1. transport'[u] = h /\ lastInput'[u] = 0 /\ ~Typing(u)
                BY <2>2, <3>1
            <4>2. Len(typed[h]) = 0 /\ Len(pipe[h]) = 0
                BY <1>1
            <4> QED BY <4>1, <4>2
        <3>2. CASE u # s
            <4>1. transport'[u] = transport[u] /\ lastInput'[u] = lastInput[u]
                BY <3>2
            <4>2. status[u] # "free" /\ shell[transport[u]] = "running"
                BY <1>3, <2>3, <3>2, <4>1 DEF Running
            <4>3. /\ Typing(u) => Len(typed[transport[u]]) + Len(pipe[transport[u]]) = lastInput[u] + 1
                  /\ ~Typing(u) => Len(typed[transport[u]]) + Len(pipe[transport[u]]) = lastInput[u]
                BY <4>2 DEF Handed, Sent
            <4> QED BY <4>1, <4>3
        <3> QED BY <3>1, <3>2
    <2> QED BY <2>1, <2>3 DEF Sent
<1>12. ShellsAreHeld'
    <2> SUFFICES ASSUME NEW g \in Shells, shell'[g] \in {"starting", "running"}
                 PROVE  Holders(g)' \cup Openers(g)' # {}
        BY DEF ShellsAreHeld
    <2>1. CASE g = h
        <3>1. s \in Holders(g)'
            BY <2>1 DEF Holders, ActiveSessions
        <3> QED BY <3>1
    <2>2. CASE g # h
        <3>1. shell'[g] = shell[g] /\ shell'[g] \in Running
            BY DEF Running
        <3>2. Holders(g) \cup Openers(g) # {}
            BY <3>1 DEF Handed, ShellsAreHeld
        <3>3. ASSUME NEW u \in Holders(g)
              PROVE  u \in Holders(g)'
            BY <3>1, <2>2 DEF Holders, ActiveSessions, Running
        <3>4. ASSUME NEW q \in Openers(g)
              PROVE  q \in Openers(g)'
            BY <2>2 DEF Openers
        <3> QED BY <3>2, <3>3, <3>4
    <2> QED BY <2>1, <2>2
<1> QED BY <1>4, <1>6, <1>7, <1>8, <1>9, <1>10, <1>11, <1>12 DEF Handed

\* Issuing a session hands over the transport its request opened.
LEMMA IssueStep ==
    ASSUME IInv, Handed, NEW r \in Requests, NEW s \in Sessions, Issue(r, s)
    PROVE  Handed'
<1> DEFINE h == req[r].shell
           st == Replacing(req[r].tenant, s)
<1>0. TypeOK /\ Staged /\ Equipped /\ Aimed
    BY DEF IInv, Handed
<1>1. /\ req[r].at = "ready" /\ shell[h] = "running" /\ status[s] = "free"
      /\ Become(st) /\ transport' = [transport EXCEPT ![s] = h] /\ Answer(r)
      /\ UNCHANGED <<generation, lastInput, typed, installed, pipe, inputTail>>
    BY DEF Issue, history
<1>2. h \in Shells /\ Opening(r)
    BY <1>0, <1>1 DEF Staged, Opening
<1>3. Fresh(h) /\ installed[h] = 0 /\ \A u \in Sessions : transport[u] # h
    BY <1>2 DEF Handed, Unused, Fresh
<1>4. transport[s] = None /\ lastInput[s] = 0 /\ generation[s] = 0 /\ None \notin Shells
    BY <1>0, <1>1, BrokerAssumption DEF Equipped
<1>5. req'[r].at = "idle" /\ \A q \in Requests \ {r} : req'[q] = req[q]
    BY <1>0, <1>1, AnswerType
<1>6. \A q \in Requests \ {r} : req[q].at \in {"queued", "typing"} => req[q].session # s
    BY <1>0, <1>1 DEF Aimed, OfASession
<1>7. transport'[s] = h /\ \A u \in Sessions \ {s} : transport'[u] = transport[u]
    BY <1>0, <1>1 DEF TypeOK
<1>8. \A g \in Shells : shell'[g] = shell[g] \/ shell'[g] = "closed"
    BY <1>1 DEF Become, ClosedBy
<1>9. shell'[h] = "running"
    BY <1>1, <1>2, <1>3 DEF Become, ClosedBy, ActiveSessions
<1>10. ASSUME NEW u \in Sessions \ {s}
       PROVE  /\ status'[u] = "free" <=> status[u] = "free"
              /\ Active(u)' => Active(u)
              /\ Active(u) /\ ~Active(u)' => shell'[transport[u]] \notin Running
    <2>1. status' = st /\ shell' = ClosedBy(st)
        BY <1>1 DEF Become
    <2>2. /\ status'[u] = "free" <=> status[u] = "free"
          /\ Active(u)' => Active(u)
        BY <2>1 DEF Replacing, Active, Live
    <2>3. ASSUME Active(u), ~Active(u)'
          PROVE  shell'[transport[u]] \notin Running
        <3>1. transport[u] \in Shells
            BY <1>0, <2>3 DEF Equipped, Active, Live
        <3>2. shell'[transport[u]] = "closed"
            BY <2>1, <2>3, <3>1 DEF ClosedBy, Active, ActiveSessions
        <3> QED BY <3>2 DEF Running
    <2> QED BY <2>2, <2>3
<1>11. Active(s)'
    BY <1>1 DEF Become, Replacing, Active, Live
<1> HIDE DEF h, st
<1>12. req[r].shell = h /\ lastInput'[s] = 0 /\ installed'[h] = generation'[s]
    BY <1>1, <1>3, <1>4 DEF h
<1>13. /\ \A u \in Sessions \ {s} : /\ transport'[u] = transport[u]
                                    /\ lastInput'[u] = lastInput[u]
                                    /\ generation'[u] = generation[u]
       /\ \A g \in Shells \ {h} : installed'[g] = installed[g]
       /\ UNCHANGED <<typed, pipe, inputTail>>
    BY <1>1, <1>7
<1> QED BY <1>1, <1>2, <1>4, <1>5, <1>6, <1>7, <1>8, <1>9, <1>10, <1>11, <1>12, <1>13, HandsOver

\* Changing the shell hands over the transport its request opened, as the next generation.
LEMMA SwapStep ==
    ASSUME IInv, Handed, NEW r \in Requests, ShellSwapped(r)
    PROVE  Handed'
<1> SUFFICES ASSUME NEW h, NEW s, h = req[r].shell, s = req[r].session
             PROVE  Handed'
    OBVIOUS
<1>0. TypeOK /\ Staged /\ Chained /\ Equipped /\ Aimed
    BY DEF IInv, Handed
<1>1. /\ req[r].at = "opening" /\ shell[h] = "running" /\ Swept[s] = "connected" /\ status' = Swept
      /\ shell' = [ClosedBy(Swept) EXCEPT ![transport[s]] = "closed"]
      /\ transport' = [transport EXCEPT ![s] = h]
      /\ lastInput' = [lastInput EXCEPT ![s] = 0]
      /\ generation' = [generation EXCEPT ![s] = @ + 1]
      /\ installed' = [installed EXCEPT ![h] = generation[s] + 1]
      /\ Answer(r) /\ UNCHANGED <<typed, pipe, inputTail>>
    BY DEF ShellSwapped
<1>2. h \in Shells /\ s \in Sessions /\ Opening(r)
    BY <1>0, <1>1 DEF Staged, Opening
<1>3. \A u \in Sessions : transport[u] # h
    BY <1>2 DEF Handed, Unused, Fresh
<1>4. transport[s] \in Shells
    BY <1>0, <1>1, <1>2 DEF Equipped, Aimed, OfASession
<1>5. req'[r].at = "idle" /\ \A q \in Requests \ {r} : req'[q] = req[q]
    BY <1>0, <1>1, AnswerType
<1>6. \A q \in Requests \ {r} : req[q].at \in {"queued", "typing"} => req[q].session # s
    <2>1. inputTail[s] = <<>>
        BY <1>0, <1>1 DEF Aimed
    <2> QED BY <1>0, <2>1 DEF Chained
<1>7. Ends(Swept)
    BY <1>0, SweptEnds
<1>8. \A g \in Shells : ClosedBy(Swept)[g] = shell[g] \/ ClosedBy(Swept)[g] = "closed"
    BY DEF ClosedBy
<1>9. ClosedBy(Swept)[h] = "running"
    BY <1>1, <1>2, <1>3 DEF ClosedBy, ActiveSessions
<1>10. \A g \in Shells : shell'[g] = IF g = transport[s] THEN "closed" ELSE ClosedBy(Swept)[g]
    <2>1. \A f, k : \A g \in Shells : DOMAIN f = Shells =>
             [f EXCEPT ![k] = "closed"][g] = IF g = k THEN "closed" ELSE f[g]
        OBVIOUS
    <2>2. DOMAIN ClosedBy(Swept) = Shells
        BY DEF ClosedBy
    <2> QED BY <1>1, <2>1, <2>2
<1>11. ASSUME NEW u \in Sessions \ {s}
       PROVE  /\ status'[u] = "free" <=> status[u] = "free"
              /\ Active(u)' => Active(u)
              /\ Active(u) /\ ~Active(u)' => shell'[transport[u]] \notin Running
    <2>1. /\ status'[u] = "free" <=> status[u] = "free"
          /\ Active(u)' => Active(u)
        BY <1>1, <1>7 DEF Ends, Active
    <2>2. ASSUME Active(u), ~Active(u)'
          PROVE  shell'[transport[u]] \notin Running
        <3>1. transport[u] \in Shells
            BY <1>0, <2>2 DEF Equipped, Active, Live
        <3>2. u \in ActiveSessions /\ Swept[u] \notin Live
            BY <1>1, <2>2 DEF Active, ActiveSessions
        <3>3. ClosedBy(Swept)[transport[u]] = "closed"
            BY <3>1, <3>2 DEF ClosedBy
        <3> QED BY <1>10, <3>1, <3>3 DEF Running
    <2> QED BY <2>1, <2>2
<1>12. Active(s)'
    BY <1>1, <1>2 DEF Active, Live
<1>13. /\ shell'[h] = "running" /\ shell'[transport[s]] = "closed"
       /\ \A g \in Shells : shell'[g] = shell[g] \/ shell'[g] = "closed"
    BY <1>2, <1>3, <1>4, <1>8, <1>9, <1>10
<1>14. /\ req[r].shell = h /\ transport'[s] = h /\ lastInput'[s] = 0
       /\ installed'[h] = generation'[s]
    BY <1>0, <1>1, <1>2 DEF TypeOK
<1>15. /\ \A u \in Sessions \ {s} : /\ transport'[u] = transport[u]
                                    /\ lastInput'[u] = lastInput[u]
                                    /\ generation'[u] = generation[u]
       /\ \A g \in Shells \ {h} : installed'[g] = installed[g]
       /\ UNCHANGED <<typed, pipe, inputTail>>
    BY <1>0, <1>1 DEF TypeOK
<1> QED BY <1>1, <1>2, <1>5, <1>6, <1>11, <1>12, <1>13, <1>14, <1>15, HandsOver

\* An input goes to the transport of its session, behind what it was sent before.
LEMMA SentStep ==
    ASSUME IInv, TypeOK', Staged', Handed, NEW r \in Requests, InputSent(r)
    PROVE  Handed'
<1> SUFFICES ASSUME NEW s, NEW h, s = req[r].session, h = transport[s]
             PROVE  Handed'
    OBVIOUS
<1>0. TypeOK /\ Staged /\ Chained /\ Equipped /\ Aimed
    BY DEF IInv, Handed
<1>1. /\ req[r].at = "queued" /\ Head(inputTail[s]) = r
      /\ Swept[s] = "connected" /\ req[r].seq = lastInput[s] + 1
      /\ shell[h] = "running" /\ Become(Swept)
      /\ pipe' = [pipe EXCEPT ![h] = Append(@, [seq |-> req[r].seq, gen |-> req[r].gen])]
      /\ req' = [req EXCEPT ![r] = [req[r] EXCEPT !.at = "typing", !.shell = h]]
      /\ UNCHANGED <<transport, generation, lastInput, typed, installed, inputTail>>
    BY <1>0 DEF InputSent, Turn, sessionVars, history, TypeOK
<1>2. s \in Sessions /\ status[s] # "free" /\ h \in Shells
      /\ installed[h] = generation[s] /\ req[r].gen = generation[s]
    BY <1>0, <1>1 DEF Staged, Aimed, Equipped, OfASession
<1>3. /\ req'[r].at = "typing" /\ req'[r].session = s /\ req'[r].shell = h
      /\ req'[r].seq = lastInput[s] + 1 /\ req'[r].gen = generation[s]
      /\ \A q \in Requests \ {r} : req'[q] = req[q]
    <2>1. req'[r] = [req[r] EXCEPT !.at = "typing", !.shell = h]
          /\ \A q \in Requests \ {r} : req'[q] = req[q]
        BY <1>0, <1>1, OthersKept
    <2>2. req[r] \in InFlight
        BY <1>0 DEF TypeOK
    <2>3. /\ req'[r].at = "typing" /\ req'[r].shell = h
          /\ req'[r].session = req[r].session /\ req'[r].seq = req[r].seq /\ req'[r].gen = req[r].gen
        BY <2>1, <2>2 DEF InFlight
    <2> QED BY <1>1, <1>2, <2>1, <2>3
<1>4. Closes
    BY <1>0, <1>1, SweptEnds, BecomeCloses
<1>5. ~Typing(s)
    BY <1>0, <1>1 DEF Typing, Chained
<1>6. \A g \in Shells \ {h} : pipe'[g] = pipe[g]
    BY <1>0, <1>1 DEF TypeOK
<1>7. pipe[h] \in Seq(Inputs) /\ typed[h] \in Seq(Inputs) /\ lastInput[s] \in Nat
    BY <1>0, <1>2, BrokerAssumption DEF TypeOK
<1>8. /\ Len(typed[h]) + Len(pipe[h]) = lastInput[s]
      /\ Len(typed[h]) \in Nat /\ Len(pipe[h]) \in Nat
    <2>1. Len(typed[h]) + Len(pipe[h]) = lastInput[s]
        BY <1>1, <1>2, <1>5 DEF Handed, Sent
    <2>2. Len(typed[h]) \in Nat /\ Len(pipe[h]) \in Nat
        BY <1>7
    <2> QED BY <2>1, <2>2
<1>9. /\ Len(pipe'[h]) = Len(pipe[h]) + 1
      /\ \A i \in 1 .. Len(pipe[h]) : pipe'[h][i] = pipe[h][i]
      /\ pipe'[h][Len(pipe[h]) + 1] = [seq |-> lastInput[s] + 1, gen |-> generation[s]]
    <2>1. [seq |-> req[r].seq, gen |-> req[r].gen] \in Inputs
        BY <1>0, <1>1, <1>2, BrokerAssumption DEF TypeOK, InFlight, Inputs
    <2>2. pipe'[h] = Append(pipe[h], [seq |-> req[r].seq, gen |-> req[r].gen])
        BY <1>0, <1>1, <1>2 DEF TypeOK
    <2>3. \A e \in Inputs, p \in Seq(Inputs) :
              /\ Len(Append(p, e)) = Len(p) + 1
              /\ \A i \in 1 .. Len(p) : Append(p, e)[i] = p[i]
              /\ Append(p, e)[Len(p) + 1] = e
        OBVIOUS
    <2>4. [seq |-> req[r].seq, gen |-> req[r].gen] = [seq |-> lastInput[s] + 1, gen |-> generation[s]]
        BY <1>1, <1>2
    <2> DEFINE e == [seq |-> lastInput[s] + 1, gen |-> generation[s]]
    <2>5. e \in Inputs /\ pipe'[h] = Append(pipe[h], e)
        BY <2>1, <2>2, <2>4
    <2> HIDE DEF e
    <2>6. /\ Len(pipe'[h]) = Len(pipe[h]) + 1
          /\ \A i \in 1 .. Len(pipe[h]) : pipe'[h][i] = pipe[h][i]
          /\ pipe'[h][Len(pipe[h]) + 1] = e
        BY <1>7, <2>3, <2>5
    <2> QED BY <2>6 DEF e
<1>10. Len(typed[h]) + (Len(pipe[h]) + 1) = lastInput[s] + 1
    <2> DEFINE a == Len(typed[h])
               b == Len(pipe[h])
               c == lastInput[s]
    <2>1. a \in Nat /\ b \in Nat /\ c \in Nat /\ a + b = c
        BY <1>7, <1>8
    <2> HIDE DEF a, b, c
    <2>2. a + (b + 1) = c + 1
        BY <2>1
    <2> QED BY <2>2 DEF a, b, c
<1>11. \A g \in Shells : Fresh(g) => Fresh(g)'
    BY <1>1, <1>2, <1>6 DEF Fresh
<1>12. Equipped' /\ Unused' /\ ShellsAreHeld'
    <2>1. Equipped'
        BY <1>0, <1>1, <1>4, ClosesEquipped
    <2>2. Unused'
        BY <1>3, <1>4, <1>11, ClosesUnused DEF Handed, Opening
    <2>3. ShellsAreHeld'
        BY <1>1, <1>3, <1>4, ClosesHeld DEF Handed, Opening
    <2> QED BY <2>1, <2>2, <2>3
<1>13. Aimed'
    <2>1. \A q \in Requests : req[q].at \in OfASession => /\ req[q].session \in Sessions
                                                          /\ status'[req[q].session] # "free"
        BY <1>0, <1>4 DEF Staged, Aimed, OfASession, Closes
    <2>2. status'[s] # "free"
        BY <1>2, <1>4 DEF Closes
    <2> QED BY <1>0, <1>1, <1>3, <2>1, <2>2 DEF Aimed, OfASession
<1>14. Piped'
    <2>1. ASSUME NEW i \in DOMAIN pipe'[h]
          PROVE  pipe'[h][i] = [seq |-> Len(typed[h]) + i, gen |-> installed[h]]
        <3>1. DOMAIN pipe'[h] = 1 .. Len(pipe[h]) + 1
            <4>1. pipe'[h] \in Seq(Inputs)
                BY <1>2 DEF TypeOK
            <4> QED BY <1>9, <4>1
        <3>2. CASE i \in 1 .. Len(pipe[h])
            <4>1. i \in DOMAIN pipe[h]
                BY <1>7, <3>2
            <4>2. pipe[h][i] = [seq |-> Len(typed[h]) + i, gen |-> installed[h]]
                BY <1>2, <4>1 DEF Handed, Piped
            <4>3. pipe'[h][i] = pipe[h][i]
                BY <1>9, <3>2
            <4> QED BY <4>2, <4>3, Zenon
        <3>3. CASE i = Len(pipe[h]) + 1
            <4>1. pipe'[h][i] = [seq |-> lastInput[s] + 1, gen |-> installed[h]]
                BY <1>2, <1>9, <3>3
            <4>2. Len(typed[h]) + i = lastInput[s] + 1
                BY <1>10, <3>3
            <4> QED BY <4>1, <4>2, Zenon
        <3> QED BY <1>7, <3>1, <3>2, <3>3
    <2>2. ASSUME NEW g \in Shells \ {h}, NEW i \in DOMAIN pipe'[g]
          PROVE  pipe'[g][i] = [seq |-> Len(typed[g]) + i, gen |-> installed[g]]
        BY <1>6, <2>2 DEF Handed, Piped
    <2> QED BY <1>1, <2>1, <2>2 DEF Piped
<1>15. Sent'
    <2>1. ASSUME NEW u \in Sessions \ {s}
          PROVE  Typing(u)' <=> Typing(u)
        BY <1>1, <1>3 DEF Typing
    <2>2. ASSUME NEW u \in Sessions, u = s
          PROVE  Typing(u)'
        BY <1>3, <2>2 DEF Typing
    <2>3. ASSUME NEW u \in Sessions, status'[u] # "free", shell'[transport[u]] = "running"
          PROVE  /\ Typing(u)' => Len(typed[transport[u]]) + Len(pipe'[transport[u]]) = lastInput[u] + 1
                 /\ ~Typing(u)' => Len(typed[transport[u]]) + Len(pipe'[transport[u]]) = lastInput[u]
        <3>1. CASE u = s
            <4>1. Len(typed[h]) + Len(pipe'[h]) = lastInput[s] + 1
                BY <1>9, <1>10
            <4> QED BY <2>2, <3>1, <4>1
        <3>2. CASE u # s
            <4>1. status[u] # "free" /\ transport[u] \in Shells \ {h}
                BY <1>0, <1>2, <1>4, <2>3, <3>2, BrokerAssumption DEF Closes, Equipped
            <4>2. shell[transport[u]] = "running" /\ pipe'[transport[u]] = pipe[transport[u]]
                BY <1>4, <1>6, <2>3, <4>1 DEF Closes
            <4>3. /\ Typing(u) => Len(typed[transport[u]]) + Len(pipe[transport[u]]) = lastInput[u] + 1
                  /\ ~Typing(u) => Len(typed[transport[u]]) + Len(pipe[transport[u]]) = lastInput[u]
                BY <4>1, <4>2 DEF Handed, Sent
            <4> QED BY <2>1, <3>2, <4>2, <4>3
        <3> QED BY <3>1, <3>2
    <2> QED BY <1>1, <2>3 DEF Sent
<1>16. TypedOnceInOrder' /\ AckedWasTyped'
    BY <1>1 DEF Handed, TypedOnceInOrder, AckedWasTyped
<1> QED BY <1>12, <1>13, <1>14, <1>15, <1>16 DEF Handed

\* An input is acknowledged once it has been typed.
LEMMA AckedStep ==
    ASSUME IInv, TypeOK', Staged', Handed, NEW r \in Requests, InputAcked(r)
    PROVE  Handed'
<1> SUFFICES ASSUME NEW s, NEW h, s = req[r].session, h = transport[s]
             PROVE  Handed'
    OBVIOUS
<1>0. TypeOK /\ Staged /\ Chained /\ Equipped /\ Aimed
    BY DEF IInv, Handed
<1>1. /\ req[r].at = "typing" /\ Replied(req[r].shell) /\ Settle(r) /\ Answer(r)
      /\ lastInput' = [lastInput EXCEPT ![s] = req[r].seq]
      /\ UNCHANGED <<status, shell, transport, generation, typed, installed, pipe>>
    BY DEF InputAcked, Settle, history
<1>2. /\ s \in Sessions /\ status[s] # "free" /\ h \in Shells
      /\ req[r].shell = h /\ req[r].seq = lastInput[s] + 1
    BY <1>0, <1>1 DEF Staged, Aimed, Equipped, OfASession
<1>3. req'[r].at = "idle" /\ \A q \in Requests \ {r} : req'[q] = req[q]
    BY <1>0, <1>1, AnswerType
<1>4. \A q \in Requests \ {r} : req[q].at = "typing" => req[q].session # s
    BY <1>0, <1>1 DEF Chained
<1>5. lastInput'[s] = lastInput[s] + 1 /\ \A u \in Sessions \ {s} : lastInput'[u] = lastInput[u]
    BY <1>0, <1>1, <1>2 DEF TypeOK
<1>6. Len(typed[h]) = lastInput[s] + 1
    <2>1. shell[h] = "running" /\ pipe[h] = <<>>
        BY <1>1, <1>2 DEF Replied
    <2>2. Len(typed[h]) + Len(pipe[h]) = lastInput[s] + 1
        BY <1>1, <1>2, <2>1 DEF Handed, Sent, Typing
    <2>3. typed[h] \in Seq(Inputs)
        BY <1>0, <1>2 DEF TypeOK
    <2> QED BY <2>1, <2>2, <2>3
<1>7. Closes
    BY <1>1, SameCloses
<1>8. Equipped' /\ Unused' /\ ShellsAreHeld'
    <2>1. Equipped'
        BY <1>0, <1>1, <1>2, <1>5, <1>7, ClosesEquipped
    <2>2. \A g \in Shells : Fresh(g) => Fresh(g)'
        BY <1>1 DEF Fresh
    <2>3. Unused'
        BY <1>3, <1>7, <2>2, ClosesUnused DEF Handed, Opening
    <2>4. ShellsAreHeld'
        BY <1>1, <1>3, <1>7, ClosesHeld DEF Handed, Opening
    <2> QED BY <2>1, <2>3, <2>4
<1>9. Aimed'
    <2>1. \A q \in Requests :
              req[q].at = "opening" => inputTail'[req[q].session] = inputTail[req[q].session]
        BY <1>0, <1>1, SettleApart
    <2>2. \A q \in Requests : req[q].at \in OfASession => req[q].session \in Sessions
        BY <1>0 DEF Staged, OfASession
    <2> QED BY <1>0, <1>1, <1>3, <1>4, <1>5, <2>1, <2>2 DEF Aimed, OfASession
<1>10. Piped' /\ TypedOnceInOrder'
    BY <1>1 DEF Handed, Piped, TypedOnceInOrder
<1>11. AckedWasTyped'
    <2> SUFFICES ASSUME NEW u \in Sessions, transport[u] # None
                 PROVE  lastInput'[u] <= Len(typed[transport[u]])
        BY <1>1 DEF AckedWasTyped
    <2>1. CASE u = s
        <3>1. lastInput[s] \in 0 .. MaxSeq /\ MaxSeq \in Nat
            BY <1>0, <1>2, BrokerAssumption DEF TypeOK
        <3> QED BY <1>5, <1>6, <2>1, <3>1
    <2>2. CASE u # s
        BY <1>5, <2>2 DEF Handed, AckedWasTyped
    <2> QED BY <2>1, <2>2
<1>12. Sent'
    <2>1. ASSUME NEW u \in Sessions \ {s}
          PROVE  Typing(u)' <=> Typing(u)
        BY <1>1, <1>3 DEF Typing
    <2>2. ASSUME NEW u \in Sessions, u = s
          PROVE  ~Typing(u)'
        BY <1>3, <1>4, <2>2 DEF Typing
    <2>3. ASSUME NEW u \in Sessions, status[u] # "free", shell[transport[u]] = "running"
          PROVE  /\ Typing(u)' => Len(typed[transport[u]]) + Len(pipe[transport[u]]) = lastInput'[u] + 1
                 /\ ~Typing(u)' => Len(typed[transport[u]]) + Len(pipe[transport[u]]) = lastInput'[u]
        <3>1. CASE u = s
            <4>1. Len(pipe[h]) = 0 /\ Len(typed[h]) = lastInput'[s] /\ Len(typed[h]) \in Nat
                BY <1>0, <1>1, <1>2, <1>5, <1>6 DEF Replied, TypeOK
            <4> QED BY <2>2, <3>1, <4>1
        <3>2. CASE u # s
            BY <1>5, <2>1, <2>3, <3>2 DEF Handed, Sent
        <3> QED BY <3>1, <3>2
    <2> QED BY <1>1, <2>3 DEF Sent
<1> QED BY <1>8, <1>9, <1>10, <1>11, <1>12 DEF Handed

\* A transport that becomes ready keeps who holds it, and has nothing to type.
LEMMA ReadyStep ==
    ASSUME IInv, Staged', Handed, NEW h \in Shells, ShellReady(h)
    PROVE  Handed'
<1>0. TypeOK /\ Equipped /\ Unused
    BY DEF IInv, Handed
<1>1. /\ shell[h] = "starting" /\ shell' = [shell EXCEPT ![h] = "running"]
      /\ UNCHANGED <<status, transport, generation, lastInput, typed, installed, pipe, req, inputTail>>
    BY DEF ShellReady, sessionVars, history
<1>2. \A g \in Shells : shell'[g] = IF g = h THEN "running" ELSE shell[g]
    BY <1>0, <1>1 DEF TypeOK
<1>3. \A s \in Sessions : transport[s] # h
    BY <1>0, <1>1 DEF Unused, Fresh
<1>4. \A s \in Sessions : status[s] # "free" => /\ transport[s] \in Shells
                                              /\ shell'[transport[s]] = shell[transport[s]]
    BY <1>0, <1>2, <1>3 DEF Equipped
<1>5. Equipped'
    BY <1>0, <1>1, <1>4 DEF Equipped, Active
<1>6. Unused'
    <2>1. \A g \in Shells : shell'[g] \in {"none", "starting"} => shell[g] \in {"none", "starting"}
        BY <1>2
    <2>2. \A r \in Requests : Opening(r) => req[r].shell \in Shells
        BY DEF IInv, Staged, Opening
    <2>3. \A r \in Requests : Opening(r) => shell'[req[r].shell] # "none"
        BY <1>0, <1>2, <2>2 DEF Unused
    <2> QED BY <1>0, <1>1, <2>1, <2>3 DEF Unused, Fresh, Opening
<1>7. Aimed' /\ Piped' /\ TypedOnceInOrder' /\ AckedWasTyped'
    BY <1>1 DEF Handed, Aimed, Piped, TypedOnceInOrder, AckedWasTyped
<1>8. Sent'
    BY <1>1, <1>4 DEF Handed, Sent, Typing
<1>9. ShellsAreHeld'
    <2>1. \A g \in Shells : shell'[g] \in {"starting", "running"} => shell[g] \in {"starting", "running"}
        BY <1>1, <1>2
    <2> QED BY <1>1, <2>1 DEF Handed, ShellsAreHeld, Holders, Openers, ActiveSessions, Active
<1> QED BY <1>5, <1>6, <1>7, <1>8, <1>9 DEF Handed

\* Taking the first of one sequence to the end of another.
LEMMA Passed ==
    ASSUME NEW S, NEW t \in Seq(S), NEW p \in Seq(S), p # <<>>
    PROVE  /\ Len(Append(t, Head(p))) = Len(t) + 1 /\ Len(Tail(p)) = Len(p) - 1
           /\ Len(t) \in Nat /\ Len(p) \in Nat /\ 1 <= Len(p)
           /\ DOMAIN p = 1 .. Len(p) /\ DOMAIN t = 1 .. Len(t)
           /\ DOMAIN Append(t, Head(p)) = 1 .. Len(t) + 1 /\ DOMAIN Tail(p) = 1 .. Len(p) - 1
           /\ \A i \in 1 .. Len(t) : Append(t, Head(p))[i] = t[i]
           /\ Append(t, Head(p))[Len(t) + 1] = p[1]
           /\ \A i \in 1 .. Len(p) - 1 : Tail(p)[i] = p[i + 1]
<1>1. /\ Len(t) \in Nat /\ Len(p) \in Nat /\ 1 <= Len(p)
      /\ DOMAIN p = 1 .. Len(p) /\ DOMAIN t = 1 .. Len(t)
    OBVIOUS
<1>2. Head(p) \in S /\ Head(p) = p[1]
    BY <1>1
<1>3. /\ Len(Append(t, Head(p))) = Len(t) + 1
      /\ DOMAIN Append(t, Head(p)) = 1 .. Len(t) + 1
      /\ \A i \in 1 .. Len(t) : Append(t, Head(p))[i] = t[i]
      /\ Append(t, Head(p))[Len(t) + 1] = p[1]
    BY <1>1, <1>2
<1>4. /\ Len(Tail(p)) = Len(p) - 1
      /\ DOMAIN Tail(p) = 1 .. Len(p) - 1
      /\ \A i \in 1 .. Len(p) - 1 : Tail(p)[i] = p[i + 1]
    BY <1>1
<1> QED BY <1>1, <1>3, <1>4

\* What the bridge types next continues what it typed.
LEMMA TypesStep ==
    ASSUME IInv, Staged', Handed, NEW h \in Shells, ShellTypes(h)
    PROVE  Handed'
<1> DEFINE t == typed[h]
           p == pipe[h]
<1>0. TypeOK /\ Equipped /\ Unused
    BY DEF IInv, Handed
<1>1. /\ shell[h] \in {"running", "closed"} /\ p # <<>>
      /\ typed' = [typed EXCEPT ![h] = Append(t, Head(p))]
      /\ pipe' = [pipe EXCEPT ![h] = Tail(p)]
      /\ UNCHANGED <<status, transport, generation, lastInput, installed, shell, req, inputTail>>
    BY DEF ShellTypes, sessionVars
<1>2. t \in Seq(Inputs) /\ p \in Seq(Inputs)
    BY <1>0 DEF TypeOK
<1>3. /\ typed'[h] = Append(t, Head(p)) /\ pipe'[h] = Tail(p)
      /\ \A g \in Shells \ {h} : typed'[g] = typed[g] /\ pipe'[g] = pipe[g]
    BY <1>0, <1>1 DEF TypeOK
<1>4. \A i \in DOMAIN p : p[i] = [seq |-> Len(t) + i, gen |-> installed[h]]
    BY DEF Handed, Piped
<1>5. \A i \in DOMAIN t : t[i] = [seq |-> i, gen |-> installed[h]]
    BY DEF Handed, TypedOnceInOrder
<1> HIDE DEF t, p
<1> DEFINE m == Len(t)
           n == Len(p)
<1>6. /\ Len(typed'[h]) = m + 1 /\ Len(pipe'[h]) = n - 1
      /\ m \in Nat /\ n \in Nat /\ 1 <= n /\ DOMAIN p = 1 .. n /\ DOMAIN t = 1 .. m
      /\ DOMAIN typed'[h] = 1 .. m + 1 /\ DOMAIN pipe'[h] = 1 .. n - 1
      /\ \A i \in 1 .. m : typed'[h][i] = t[i]
      /\ typed'[h][m + 1] = p[1]
      /\ \A i \in 1 .. n - 1 : pipe'[h][i] = p[i + 1]
    <2>1. /\ Len(Append(t, Head(p))) = m + 1 /\ Len(Tail(p)) = n - 1
          /\ m \in Nat /\ n \in Nat /\ 1 <= n /\ DOMAIN p = 1 .. n /\ DOMAIN t = 1 .. m
          /\ DOMAIN Append(t, Head(p)) = 1 .. m + 1 /\ DOMAIN Tail(p) = 1 .. n - 1
          /\ \A i \in 1 .. m : Append(t, Head(p))[i] = t[i]
          /\ Append(t, Head(p))[m + 1] = p[1]
          /\ \A i \in 1 .. n - 1 : Tail(p)[i] = p[i + 1]
        BY <1>1, <1>2, Passed
    <2> QED BY <1>3, <2>1, Zenon
<1>m. /\ \A i \in DOMAIN p : p[i] = [seq |-> m + i, gen |-> installed[h]]
      /\ m = Len(typed[h]) /\ n = Len(pipe[h])
    BY <1>4 DEF t, p
<1> HIDE DEF m, n
<1>7. Closes
    BY <1>1, SameCloses
<1>8. \A g \in Shells : Fresh(g) => Fresh(g)'
    <2>1. \A g \in Shells : Fresh(g) => g # h
        BY <1>1 DEF Fresh, p
    <2> QED BY <1>1, <1>3, <2>1 DEF Fresh
<1>9. Equipped' /\ Unused' /\ ShellsAreHeld' /\ Aimed'
    <2>1. Equipped'
        BY <1>0, <1>1, <1>7, ClosesEquipped
    <2>2. Unused'
        BY <1>0, <1>1, <1>7, <1>8, ClosesUnused
    <2>3. ShellsAreHeld'
        BY <1>1, <1>7, ClosesHeld DEF Handed
    <2>4. Aimed'
        BY <1>1 DEF Handed, Aimed
    <2> QED BY <2>1, <2>2, <2>3, <2>4
<1>10. Piped'
    <2>1. ASSUME NEW i \in DOMAIN pipe'[h]
          PROVE  pipe'[h][i] = [seq |-> Len(typed'[h]) + i, gen |-> installed[h]]
        <3>1. i \in Nat /\ i + 1 \in DOMAIN p /\ i \in 1 .. n - 1
            BY <1>6
        <3>2. pipe'[h][i] = [seq |-> m + (i + 1), gen |-> installed[h]]
            BY <1>6, <1>m, <3>1
        <3>3. m + (i + 1) = Len(typed'[h]) + i
            BY <1>6, <3>1
        <3> QED BY <3>2, <3>3, Zenon
    <2>2. ASSUME NEW g \in Shells \ {h}, NEW i \in DOMAIN pipe'[g]
          PROVE  pipe'[g][i] = [seq |-> Len(typed'[g]) + i, gen |-> installed[g]]
        BY <1>3, <2>2 DEF Handed, Piped
    <2> QED BY <1>1, <2>1, <2>2 DEF Piped
<1>11. TypedOnceInOrder'
    <2>1. ASSUME NEW i \in DOMAIN typed'[h]
          PROVE  typed'[h][i] = [seq |-> i, gen |-> installed[h]]
        <3>1. CASE i \in 1 .. m
            BY <1>5, <1>6, <3>1
        <3>2. CASE i = m + 1
            <4>1. 1 \in DOMAIN p
                BY <1>6
            <4>2. p[1] = [seq |-> m + 1, gen |-> installed[h]]
                BY <1>m, <4>1
            <4>3. typed'[h][m + 1] = p[1]
                BY <1>6
            <4> QED BY <3>2, <4>2, <4>3, Zenon
        <3> QED BY <1>6, <3>1, <3>2
    <2>2. ASSUME NEW g \in Shells \ {h}, NEW i \in DOMAIN typed'[g]
          PROVE  typed'[g][i] = [seq |-> i, gen |-> installed[g]]
        BY <1>3, <2>2 DEF Handed, TypedOnceInOrder
    <2> QED BY <1>1, <2>1, <2>2 DEF TypedOnceInOrder
<1>12. \A g \in Shells : /\ Len(typed'[g]) + Len(pipe'[g]) = Len(typed[g]) + Len(pipe[g])
                         /\ Len(typed[g]) <= Len(typed'[g])
    <2>1. \A g \in Shells : Len(typed[g]) \in Nat
        BY <1>0 DEF TypeOK
    <2>2. (m + 1) + (n - 1) = m + n /\ m <= m + 1
        <3>1. \A a, b \in Nat : (a + 1) + (b - 1) = a + b /\ a <= a + 1
            OBVIOUS
        <3>2. m \in Nat /\ n \in Nat
            BY <1>6
        <3> QED BY <3>1, <3>2
    <2>3. /\ Len(typed'[h]) + Len(pipe'[h]) = Len(typed[h]) + Len(pipe[h])
          /\ Len(typed[h]) <= Len(typed'[h])
        BY <1>6, <1>m, <2>2
    <2>4. ASSUME NEW g \in Shells \ {h}
          PROVE  /\ Len(typed'[g]) + Len(pipe'[g]) = Len(typed[g]) + Len(pipe[g])
                 /\ Len(typed[g]) <= Len(typed'[g])
        <3>1. typed'[g] = typed[g] /\ pipe'[g] = pipe[g] /\ Len(typed[g]) \in Nat
            BY <1>3, <2>1
        <3> QED BY <3>1
    <2> QED BY <2>3, <2>4
<1>13. Sent'
    <2>1. \A s \in Sessions : Typing(s)' <=> Typing(s)
        BY <1>1 DEF Typing
    <2>2. \A s \in Sessions : status[s] # "free" => transport[s] \in Shells
        BY <1>0 DEF Equipped
    <2> QED BY <1>1, <1>12, <2>1, <2>2 DEF Handed, Sent
<1>14. AckedWasTyped'
    <2> SUFFICES ASSUME NEW s \in Sessions, transport[s] # None
                 PROVE  lastInput[s] <= Len(typed'[transport[s]])
        BY <1>1 DEF AckedWasTyped
    <2>1. transport[s] \in Shells /\ lastInput[s] \in Nat
        BY <1>0, BrokerAssumption DEF TypeOK
    <2>2. lastInput[s] <= Len(typed[transport[s]])
        BY DEF Handed, AckedWasTyped
    <2>3. Len(typed[transport[s]]) <= Len(typed'[transport[s]])
        BY <1>12, <2>1
    <2>4. Len(typed[transport[s]]) \in Nat
        BY <1>0, <2>1 DEF TypeOK
    <2>5. typed'[transport[s]] = typed[transport[s]] \/ Len(typed'[transport[s]]) = Len(typed[transport[s]]) + 1
        BY <1>3, <1>6, <1>m, <2>1
    <2> QED BY <2>1, <2>2, <2>4, <2>5
<1> QED BY <1>9, <1>10, <1>11, <1>13, <1>14 DEF Handed

------------------------------------------------------------------------------
(* The invariant holds, and what follows from it.                            *)

\* Init establishes it.
LEMMA InitHInv == Init => HInv
<1> SUFFICES ASSUME Init PROVE HInv
    OBVIOUS
<1>0. None \notin Shells
    BY BrokerAssumption
<1>1. Equipped /\ Unused
    BY <1>0 DEF Init, Equipped, Unused, Fresh, Opening, Idle, Running
<1>2. Aimed /\ Piped /\ Sent
    BY DEF Init, Aimed, OfASession, Piped, Sent, Idle
<1>3. ShellsAreHeld /\ TypedOnceInOrder /\ AckedWasTyped
    BY DEF Init, ShellsAreHeld, TypedOnceInOrder, AckedWasTyped
<1>4. Stopped
    BY DEF Init, Stopped
<1> QED BY <1>1, <1>2, <1>3, <1>4 DEF HInv, Handed

\* What concerns the transports is kept by every step.
LEMMA HandedStep == IInv /\ IInv' /\ Handed /\ [Next]_vars => Handed'
<1> SUFFICES ASSUME IInv, IInv', Handed, [Next]_vars
             PROVE  Handed'
    OBVIOUS
<1>1. TypeOK' /\ Staged'
    BY DEF IInv
<1>2. CASE Quiet
    BY <1>1, <1>2, QuietKeeps
<1>3. ASSUME NEW r \in Requests, NEW t \in Tenants, NEW h \in Shells, Create(r, t, h)
      PROVE  Handed'
    BY <1>3, OpenStep
<1>4. ASSUME NEW r \in Requests, NEW id \in Sessions, Issue(r, id)
      PROVE  Handed'
    BY <1>4, IssueStep
<1>5. ASSUME NEW r \in Requests, NEW h \in Shells, ShellOpening(r, h)
      PROVE  Handed'
    BY <1>5, OpenStep
<1>6. ASSUME NEW r \in Requests, ShellSwapped(r)
      PROVE  Handed'
    BY <1>6, SwapStep
<1>7. ASSUME NEW r \in Requests, InputSent(r)
      PROVE  Handed'
    BY <1>1, <1>7, SentStep
<1>8. ASSUME NEW r \in Requests, InputAcked(r)
      PROVE  Handed'
    BY <1>1, <1>8, AckedStep
<1>9. ASSUME NEW h \in Shells, ShellReady(h)
      PROVE  Handed'
    BY <1>1, <1>9, ReadyStep
<1>10. ASSUME NEW h \in Shells, ShellTypes(h)
       PROVE  Handed'
    BY <1>1, <1>10, TypesStep
<1> QED BY <1>2, <1>3, <1>4, <1>5, <1>6, <1>7, <1>8, <1>9, <1>10, QuietStep

\* Only the two stages of stopping change the phase of the server.
LEMMA PhaseStep == [Next]_vars => phase' = phase \/ phase' = "stopping" \/ ServerClosed
<1> SUFFICES ASSUME [Next]_vars
             PROVE  phase' = phase \/ phase' = "stopping" \/ ServerClosed
    OBVIOUS
<1>1. ASSUME NEW r \in Requests, Proceed(r)
      PROVE  phase' = phase
    BY <1>1 DEF Proceed, Issue, CreateFails, UnlockRight, UnlockWrong, UnlockLate, BodyRefused,
        ViewerAnswered, InputRefused, InputSent, InputUnsendable, InputAcked, InputFails,
        ShellOpening, ShellSwapped, ShellNotSwapped
<1>2. ASSUME NEW r \in Requests,
             \/ \E t \in Tenants, h \in Shells : Create(r, t, h)
             \/ \E s \in Sessions : UnlockArrives(r, s) \/ ViewerArrives(r, s)
             \/ \E n \in 1 .. MaxSeq, g \in 0 .. MaxGen : InputAccepted(r, n, g)
             \/ ShellAsked(r)
      PROVE  phase' = phase
    BY <1>2 DEF Create, UnlockArrives, ViewerArrives, InputAccepted, ShellAsked
<1>3. ASSUME NEW s \in Sessions, Revoke(s) \/ Poll(s) \/ Complete(s) \/ Age(s)
      PROVE  phase' = phase
    BY <1>3 DEF Revoke, Poll, Complete, Age
<1>4. ASSUME NEW h \in Shells, ShellReady(h) \/ ShellDies(h) \/ ShellGivenUp(h) \/ ShellTypes(h)
      PROVE  phase' = phase
    BY <1>4 DEF ShellReady, ShellDies, ShellGivenUp, ShellTypes
<1>5. ASSUME NEW t \in Tenants, RateForgotten(t) \/ \E k \in Keys \cup {None} : Rotate(t, k)
      PROVE  phase' = phase
    BY <1>5 DEF RateForgotten, Rotate
<1>6. Sweep \/ UNCHANGED vars => phase' = phase
    BY DEF Sweep, vars
<1>7. Shutdown => phase' = "stopping"
    BY DEF Shutdown
<1> QED BY <1>1, <1>2, <1>3, <1>4, <1>5, <1>6, <1>7 DEF Next

\* A server that closed answers nobody and issues nothing any more (server.mjs, broker.mjs).
LEMMA StoppedStep == IInv /\ Stopped /\ [Next]_vars => Stopped'
<1> SUFFICES ASSUME IInv, Stopped, [Next]_vars, phase' = "closed"
             PROVE  /\ \A r \in Requests : req'[r].at = "idle"
                    /\ \A s \in Sessions : ~Active(s)'
    BY DEF Stopped
<1>1. CASE ServerClosed
    BY <1>1 DEF ServerClosed, Become, Disconnected, Active, Live
<1>2. CASE phase' = phase
    <2>1. phase = "closed" /\ \A r \in Requests : req[r].at = "idle"
        BY <1>2 DEF Stopped
    <2>2. \A s \in Sessions : ~Active(s)
        BY <2>1 DEF Stopped
    <2>3. UNCHANGED req
        <3>1. ASSUME NEW r \in Requests
              PROVE  ~(Leaves(r) \/ Unchains(r) \/ CreateFails(r) \/ InputSent(r) \/ ShellAsked(r)
                       \/ ShellSwapped(r) \/ ShellNotSwapped(r))
            BY <2>1 DEF Leaves, Unchains, CreateFails, InputSent, Turn, ShellAsked, ShellSwapped,
                ShellNotSwapped
        <3>2. ASSUME NEW r \in Requests
              PROVE  /\ ~\E t \in Tenants, h \in Shells : Create(r, t, h)
                     /\ ~\E id \in Sessions : Issue(r, id)
                     /\ ~\E s \in Sessions : UnlockArrives(r, s) \/ ViewerArrives(r, s)
                     /\ ~\E n \in 1 .. MaxSeq, g \in 0 .. MaxGen : InputAccepted(r, n, g)
                     /\ ~\E h \in Shells : ShellOpening(r, h)
            BY <2>1 DEF Create, Issue, UnlockArrives, ViewerArrives, InputAccepted, ShellOpening
        <3> QED BY <3>1, <3>2, FlowStep
    <2>4. Fades
        BY <2>1, StatusStep DEF UnlockRight, Issue
    <2>5. \A s \in Sessions : ~Active(s)'
        BY <2>2, <2>4 DEF Fades, Active, Live, Ended
    <2> QED BY <2>1, <2>3, <2>5
<1> QED BY <1>1, <1>2, PhaseStep

\* Every reachable state satisfies the invariant of the transports.
THEOREM HandedInvariant == Spec => [](IInv /\ HInv)
<1>1. Init => HInv
    BY InitHInv
<1>2. IInv /\ IInv' /\ HInv /\ [Next]_vars => HInv'
    BY HandedStep, StoppedStep DEF HInv
<1> QED BY <1>1, <1>2, Invariant, PTL DEF Spec

\* No failure, race or shutdown leaves a shell running that no live session has and no
\* request in flight is opening.
THEOREM Held == Spec => []ShellsAreHeld
<1>1. HInv => ShellsAreHeld
    BY DEF HInv, Handed
<1> QED BY <1>1, HandedInvariant, PTL

\* A shell is made to type the inputs 1, 2, 3 ... of its own generation, each once, however
\* inputs are retried, overlap or are delayed across a change of the shell.
THEOREM TypedInOrder == Spec => []TypedOnceInOrder
<1>1. HInv => TypedOnceInOrder
    BY DEF HInv, Handed
<1> QED BY <1>1, HandedInvariant, PTL

\* What the viewer was told is typed has been typed into the shell the session has now.
THEOREM Acknowledged == Spec => []AckedWasTyped
<1>1. HInv => AckedWasTyped
    BY DEF HInv, Handed
<1> QED BY <1>1, HandedInvariant, PTL

\* A broker that has closed leaves no shell running, also when it was stopped while shells
\* were being opened.
THEOREM NoShellLeft == Spec => []ClosedLeavesNoShell
<1>1. HInv => ClosedLeavesNoShell
    <2> SUFFICES ASSUME HInv, phase = "closed", NEW h \in Shells
                 PROVE  shell[h] \notin {"starting", "running"}
        BY DEF ClosedLeavesNoShell
    <2>1. /\ \A r \in Requests : req[r].at = "idle"
          /\ \A s \in Sessions : ~Active(s)
        BY DEF HInv, Stopped
    <2>2. Holders(h) \cup Openers(h) = {}
        BY <2>1 DEF Holders, ActiveSessions, Openers
    <2> QED BY <2>2 DEF HInv, Handed, ShellsAreHeld
<1> QED BY <1>1, HandedInvariant, PTL

\* Nothing but a sent input makes a pipe longer.
LEMMA PipeStep ==
    ASSUME IInv, Handed, [Next]_vars, NEW h \in Shells
    PROVE  \/ ~(Len(pipe'[h]) > Len(pipe[h]))
           \/ \E r \in Requests : InputSent(r) /\ transport[req[r].session] = h
<1>0. TypeOK
    BY DEF IInv
<1>1. pipe[h] \in Seq(Inputs) /\ Len(pipe[h]) \in Nat
    BY <1>0 DEF TypeOK
<1>2. pipe'[h] = pipe[h] => ~(Len(pipe'[h]) > Len(pipe[h]))
    BY <1>1
<1>3. CASE Quiet
    <2>1. Len(<<>>) = 0
        OBVIOUS
    <2>2. pipe'[h] = <<>> => ~(Len(pipe'[h]) > Len(pipe[h]))
        BY <1>1, <2>1
    <2> QED BY <1>2, <1>3, <2>2 DEF Quiet
<1>4. ASSUME NEW r \in Requests, \/ \E t \in Tenants, g \in Shells : Create(r, t, g)
                                 \/ \E id \in Sessions : Issue(r, id)
                                 \/ \E g \in Shells : ShellOpening(r, g)
                                 \/ ShellSwapped(r) \/ InputAcked(r)
      PROVE  pipe' = pipe
    BY <1>4 DEF Create, Issue, ShellOpening, ShellSwapped, InputAcked
<1>5. ASSUME NEW r \in Requests, InputSent(r), transport[req[r].session] # h
      PROVE  pipe'[h] = pipe[h]
    BY <1>0, <1>5 DEF InputSent, TypeOK
<1>6. ASSUME NEW g \in Shells, ShellReady(g) \/ ShellTypes(g)
      PROVE  ~(Len(pipe'[h]) > Len(pipe[h]))
    <2>1. CASE pipe'[h] = pipe[h]
        BY <1>2, <2>1
    <2>2. CASE pipe'[h] # pipe[h]
        <3>1. pipe[h] # <<>> /\ pipe'[h] = Tail(pipe[h])
            BY <1>0, <1>6, <2>2 DEF ShellReady, ShellTypes, TypeOK
        <3>2. Len(Tail(pipe[h])) = Len(pipe[h]) - 1
            BY <1>1, <3>1, Passed
        <3> QED BY <1>1, <3>1, <3>2
    <2> QED BY <2>1, <2>2
<1> QED BY <1>2, <1>3, <1>4, <1>5, <1>6, QuietStep

\* A session is issued, and its shell gets input, only while the credential it was created
\* under is the tenant's, whatever changed while the request waited.
THEOREM Entitlement == Spec => RevokedGetsNothing
<1>1. IInv /\ HInv /\ [Next]_vars =>
        [\A s \in Sessions :
            \/ status[s] = "free" /\ status'[s] = "waiting"
            \/ Active(s) /\ Len(pipe'[transport[s]]) > Len(pipe[transport[s]])
            => ownerKey'[s] = key[tenantOf'[s]]]_vars
    <2> SUFFICES ASSUME IInv, HInv, [Next]_vars, NEW s \in Sessions,
                        \/ status[s] = "free" /\ status'[s] = "waiting"
                        \/ Active(s) /\ Len(pipe'[transport[s]]) > Len(pipe[transport[s]])
                 PROVE  ownerKey'[s] = key[tenantOf'[s]]
        OBVIOUS
    <2>0. TypeOK /\ Staged /\ Handed /\ Equipped
        BY DEF IInv, HInv, Handed
    <2>1. CASE status[s] = "free" /\ status'[s] = "waiting"
        <3>1. ~Fades
            BY <2>1, Names DEF Fades, Live, Ended
        <3>2. ASSUME NEW r \in Requests
              PROVE  ~UnlockRight(r)
            <4>1. Swept[s] = "free"
                BY <2>0, <2>1, SweptStatus, Names
            <4>2. UnlockRight(r) => status'[s] \in {Swept[s], "connected"}
                BY <2>0, SweptStatus DEF UnlockRight, Become
            <4> QED BY <2>1, <4>1, <4>2
        <3>3. PICK r \in Requests, id \in Sessions : Issue(r, id)
            BY <3>1, <3>2, StatusStep
        <3>4. s = id
            BY <2>1, <3>3 DEF Issue, Become, Replacing
        <3>5. ownerKey'[id] = req[r].key /\ tenantOf'[id] = req[r].tenant
            BY <2>0, <3>3 DEF Issue, TypeOK
        <3>6. key[req[r].tenant] = req[r].key
            BY <3>3 DEF Issue, StillEntitled
        <3> QED BY <3>4, <3>5, <3>6
    <2>2. CASE Active(s) /\ Len(pipe'[transport[s]]) > Len(pipe[transport[s]])
        <3>1. transport[s] \in Shells
            BY <2>0, <2>2 DEF Equipped, Active, Live
        <3>2. PICK r \in Requests : InputSent(r) /\ transport[req[r].session] = transport[s]
            BY <2>0, <2>2, <3>1, PipeStep
        <3>3. req[r].session = s
            <4>1. req[r].session \in Sessions
                BY <2>0, <3>2 DEF InputSent, Turn, Staged
            <4> QED BY <2>0, <3>1, <3>2, <4>1, BrokerAssumption DEF Equipped
        <3>4. Swept[s] = "connected" /\ UNCHANGED <<ownerKey, tenantOf>>
            BY <3>2, <3>3 DEF InputSent, sessionVars
        <3>5. Entitled(s)
            BY <2>2, <3>4 DEF Swept, Verdict
        <3> QED BY <3>4, <3>5 DEF Entitled
    <2> QED BY <2>1, <2>2
<1> QED BY <1>1, HandedInvariant, PTL DEF Spec, RevokedGetsNothing
=============================================================================
