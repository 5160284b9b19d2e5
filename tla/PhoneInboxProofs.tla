--------------------------- MODULE PhoneInboxProofs ---------------------------
(* Proofs about PhoneInbox, for every value of its constants. *)
EXTENDS PhoneInbox, TLAPS

\* A person is reached only by what the store has claimed first.
Claimed ==
    \A c \in Calls :
        /\ attempt[c].status = "none" => posts[c] = 0 /\ attempt[c].link = None
        /\ notice[c] = "none" => delivers[c] = 0

\* The calls before an attempt had started then, and are what reconcile refuses to link.
Earlier ==
    \A c \in Calls :
        /\ before[c] \subseteq Started
        /\ attempt[c].status \in {"starting", "unknown"} => before[c] \subseteq attempt[c].since
        /\ attempt[c].link # None => attempt[c].link \in Outbound \ before[c]

\* A tool call in flight works on an attempt that is stored, and the callback it has in
\* hand started after the attempt.
InHand ==
    \A t \in Tools : tool[t].at # "idle" =>
        /\ tool[t].call \in Calls /\ attempt[tool[t].call].status # "none"
        /\ tool[t].at = "post" => tool[t].cb \in {None} \cup (Outbound \ before[tool[t].call])
        /\ tool[t].at = "reconcile" => before[tool[t].call] \subseteq tool[t].since
        /\ tool[t].at = "verify" => tool[t].cb \in Outbound \ before[tool[t].call]

\* The sync delivers and mirrors the notice of a call.
OnACall == sync.at \in {"deliver", "mirror"} => sync.cur \in Calls

IInv ==
    TypeOK /\ Claimed /\ Earlier /\ InHand /\ OnACall /\ OncePerCall /\ ResolvedOnEvidence
------------------------------------------------------------------------------
(* What the three kinds of steps have in common.                             *)

\* The gateway forgets no call and takes no answer back.
Recorded ==
    \A c \in Calls : /\ gateway[c] # "none" => gateway'[c] # "none"
                     /\ gateway[c] = "answered" => gateway'[c] = "answered"

\* Calls are only resolved by the owner's tool.
NoneResolved == \A c \in Calls : call'[c] = "resolved" => call[c] = "resolved"

\* What relates attempts, the calls before them and the gateway survives every step that
\* leaves attempts alone and takes no call for resolved.
LEMMA AttemptsKept ==
    ASSUME IInv, Recorded, NoneResolved, UNCHANGED <<attempt, before, posts>>
    PROVE  Earlier' /\ ResolvedOnEvidence' /\ OneCallbackPerCall'
<1>1. Started \subseteq Started'
    BY DEF Recorded, Started
<1>2. Earlier'
    BY <1>1 DEF IInv, Earlier
<1>3. ResolvedOnEvidence'
    <2> SUFFICES ASSUME NEW c \in Calls, call'[c] = "resolved", attempt[c].status # "none"
                 PROVE  \E b \in Outbound \ before[c] : gateway'[b] = "answered"
        BY DEF ResolvedOnEvidence
    <2>1. PICK b \in Outbound \ before[c] : gateway[b] = "answered"
        BY DEF IInv, ResolvedOnEvidence, NoneResolved
    <2> QED BY <2>1 DEF Recorded, Calls
<1>4. OneCallbackPerCall'
    BY DEF IInv, OncePerCall, OneCallbackPerCall
<1> QED BY <1>2, <1>3, <1>4

\* A tool call in flight that a step leaves alone keeps what it has in hand, when attempts
\* only move on and the calls before them stay.
LEMMA HandKept ==
    ASSUME IInv, UNCHANGED before,
           \A c \in Calls : attempt[c].status # "none" => attempt'[c].status # "none",
           \A t \in Tools : tool'[t] = tool[t] \/ tool'[t].at = "idle"
    PROVE  InHand'
BY DEF IInv, InHand

------------------------------------------------------------------------------
(* The background sync.                                                      *)

\* The sync does not touch attempts.
SyncTouches ==
    UNCHANGED <<gateway, attempt, tool, crashes, posts, before>>

\* The sync's steps keep the types.
LEMMA SyncTypes ==
    ASSUME TypeOK, OnACall, SyncStep \/ SyncFails
    PROVE  TypeOK' /\ OnACall' /\ SyncTouches /\ NoneResolved
<1> USE InboxAssumption DEF TypeOK, SyncTouches, NoneResolved, store
<1>1. CASE SyncStart
    BY <1>1 DEF SyncStart, OnACall
<1>2. CASE SyncListed
    BY <1>2 DEF SyncListed, OnACall
<1>3. CASE SyncImported
    <2>1. sync' = [at |-> "loop", n |-> 0, cur |-> None,
                   todo |-> {c \in Calls : call[c] \in {"pending", "working"}}]
        BY <1>3 DEF SyncImported, Resting
    <2>2. 0 \in 0 .. MaxImport
        OBVIOUS
    <2>3. {c \in Calls : call[c] \in {"pending", "working"}} \in SUBSET Calls
        OBVIOUS
    <2>4. sync' \in [at : {"idle", "list", "fetch", "loop", "deliver", "mirror"},
                     todo : SUBSET Calls, n : 0 .. MaxImport, cur : Calls \cup {None}]
        BY <2>1, <2>2, <2>3
    <2> QED BY <1>3, <2>1, <2>4 DEF SyncImported, OnACall
<1>4. CASE SyncDone
    BY <1>4 DEF SyncDone, OnACall, Resting
<1>5. CASE NoticeSent
    BY <1>5 DEF NoticeSent, OnACall
<1>6. CASE NoticeUnconfirmed
    BY <1>6 DEF NoticeUnconfirmed, OnACall, Onward
<1>7. CASE Mirrored
    BY <1>7 DEF Mirrored, OnACall, Onward
<1>8. CASE MirrorFails
    BY <1>8 DEF MirrorFails, OnACall, Onward
<1>9. CASE SyncFails
    BY <1>9 DEF SyncFails, SyncFreed, OnACall, Resting
<1>10. ASSUME NEW c \in Calls, Import(c)
       PROVE  TypeOK' /\ OnACall' /\ SyncTouches /\ NoneResolved
    <2>1. ImportStatus(c) \in {"reference", "pending"}
        BY DEF ImportStatus
    <2>2. sync.n + 1 \in 0 .. MaxImport
        BY <1>10 DEF Import, Room
    <2>3. call' \in [Calls -> {"absent", "reference", "pending", "working", "resolved"}]
        BY <1>10, <2>1 DEF Import
    <2>4. NoneResolved
        BY <1>10, <2>1 DEF Import
    <2> QED BY <1>10, <2>2, <2>3, <2>4 DEF Import, OnACall
<1>11. ASSUME NEW c \in Calls, NoticeClaimed(c)
       PROVE  TypeOK' /\ OnACall' /\ SyncTouches /\ NoneResolved
    <2>1. notice' \in [Calls -> {"none", "sending", "sent", "unknown"}]
        BY <1>11 DEF NoticeClaimed
    <2>2. delivers' \in [Calls -> Nat]
        BY <1>11 DEF NoticeClaimed
    <2>3. /\ sync' \in [at : {"idle", "list", "fetch", "loop", "deliver", "mirror"},
                     todo : SUBSET Calls, n : 0 .. MaxImport, cur : Calls \cup {None}]
          /\ OnACall'
        BY <1>11 DEF NoticeClaimed, OnACall
    <2> QED BY <1>11, <2>1, <2>2, <2>3 DEF NoticeClaimed
<1>12. ASSUME NEW c \in Calls, NoticedBefore(c)
       PROVE  TypeOK' /\ OnACall' /\ SyncTouches /\ NoneResolved
    BY <1>12 DEF NoticedBefore, OnACall
<1> QED BY <1>1, <1>2, <1>3, <1>4, <1>5, <1>6, <1>7, <1>8, <1>9, <1>10, <1>11, <1>12
        DEF SyncStep

\* A notice is delivered by the step that claims it, and a claim is not taken back.
LEMMA SyncDelivers ==
    ASSUME IInv, SyncStep \/ SyncFails
    PROVE  \A c \in Calls :
              /\ notice[c] # "none" => notice'[c] # "none" /\ delivers'[c] = delivers[c]
              /\ notice[c] = "none" =>
                    \/ notice'[c] = "none" /\ delivers'[c] = delivers[c]
                    \/ notice'[c] # "none" /\ delivers'[c] \in {delivers[c], delivers[c] + 1}
<1> USE DEF IInv, TypeOK, store
<1>1. ASSUME NEW c \in Calls, NoticeClaimed(c)
      PROVE  /\ notice' = [notice EXCEPT ![c] = "sending"] /\ notice[c] = "none"
             /\ delivers' = [delivers EXCEPT ![c] = @ + 1]
    BY <1>1 DEF NoticeClaimed, Claimable
<1>2. CASE \E c \in Calls : NoticeClaimed(c)
    BY <1>1, <1>2
<1>3. CASE NoticeSent
    <2>1. notice' = [notice EXCEPT ![sync.cur] = "sent"] /\ UNCHANGED delivers
        BY <1>3 DEF NoticeSent
    <2> QED BY <2>1
<1>4. CASE NoticeUnconfirmed
    <2>1. notice' = [notice EXCEPT ![sync.cur] = "unknown"] /\ UNCHANGED delivers
        BY <1>4 DEF NoticeUnconfirmed
    <2> QED BY <2>1
<1>5. CASE ~ (\E c \in Calls : NoticeClaimed(c)) /\ ~NoticeSent /\ ~NoticeUnconfirmed
    <2>1. UNCHANGED <<notice, delivers>>
        BY <1>5 DEF SyncStep, SyncStart, SyncListed, SyncImported, SyncDone, Mirrored,
                    MirrorFails, Import, NoticedBefore, SyncFails
    <2> QED BY <2>1
<1> QED BY <1>2, <1>3, <1>4, <1>5

\* A sync step keeps the invariant.
LEMMA SyncKeeps ==
    ASSUME IInv, SyncStep \/ SyncFails
    PROVE  IInv'
<1>1. TypeOK' /\ OnACall' /\ SyncTouches /\ NoneResolved
    BY SyncTypes DEF IInv
<1>2. Recorded
    BY <1>1 DEF SyncTouches, Recorded
<1>3. Earlier' /\ ResolvedOnEvidence' /\ OneCallbackPerCall'
    BY <1>1, <1>2, AttemptsKept DEF SyncTouches
<1>4. InHand'
    BY <1>1, HandKept DEF SyncTouches
<1>5. Claimed'
    BY <1>1, SyncDelivers DEF SyncTouches, IInv, Claimed
<1>6. OneNoticePerCall'
    <2> SUFFICES ASSUME NEW c \in Calls PROVE delivers'[c] <= 1
        BY DEF OneNoticePerCall
    <2>1. delivers[c] <= 1 /\ (notice[c] = "none" => delivers[c] = 0)
        BY DEF IInv, OncePerCall, OneNoticePerCall, Claimed
    <2>2. (delivers'[c] = delivers[c]) \/ (notice[c] = "none" /\ delivers'[c] = delivers[c] + 1)
        BY SyncDelivers
    <2> QED BY <2>1, <2>2
<1> QED BY <1>1, <1>3, <1>4, <1>5, <1>6 DEF IInv, OncePerCall

------------------------------------------------------------------------------
(* The phone gateway.                                                        *)

\* A call that starts or ends at the gateway.
GatewayStep(c) == InboundCall(c) \/ OtherOutbound(c) \/ OutboundEnds(c)

\* Notices are of the sync only.
LEMMA NoticesKept ==
    ASSUME IInv, UNCHANGED <<notice, delivers>>
    PROVE  OneNoticePerCall' /\ \A c \in Calls : notice'[c] = "none" => delivers'[c] = 0
BY DEF IInv, Claimed, OncePerCall, OneNoticePerCall

\* A step of the gateway keeps the invariant.
LEMMA GatewayKeeps ==
    ASSUME IInv, NEW c \in Calls, GatewayStep(c)
    PROVE  IInv'
<1> USE DEF GatewayStep, InboundCall, OtherOutbound, OutboundEnds, store
<1>1. Recorded
    BY DEF Recorded, IInv, TypeOK
<1>2. TypeOK'
    <2>1. PICK how \in {"ongoing", "answered", "silent"} : gateway' = [gateway EXCEPT ![c] = how]
        OBVIOUS
    <2>2. gateway' \in [Calls -> {"none", "ongoing", "answered", "silent"}]
        BY <2>1 DEF IInv, TypeOK
    <2> QED BY <2>2 DEF IInv, TypeOK
<1>3. Earlier' /\ ResolvedOnEvidence' /\ OneCallbackPerCall'
    BY <1>1, AttemptsKept DEF NoneResolved
<1>4. InHand'
    BY HandKept
<1>5. OneNoticePerCall' /\ \A d \in Calls : notice'[d] = "none" => delivers'[d] = 0
    BY NoticesKept
<1> QED BY <1>2, <1>3, <1>4, <1>5 DEF IInv, OncePerCall, Claimed, OnACall

\* The callback that a POST places is none that had started before the attempt.
LEMMA PostArrivesKeeps ==
    ASSUME IInv, NEW t \in Tools, NEW b \in Calls, PostArrives(t, b)
    PROVE  IInv'
<1> USE DEF PostArrives, store
<1>1. Recorded
    BY DEF Recorded, IInv, TypeOK
<1>2. TypeOK'
    <2>1. tool' \in [Tools -> [at : {"idle", "post", "reconcile", "verify"},
                               call : Calls \cup {None}, cb : Calls \cup {None},
                               since : SUBSET Calls]]
        <3>1. tool[t] \in [at : {"idle", "post", "reconcile", "verify"},
                           call : Calls \cup {None}, cb : Calls \cup {None},
                           since : SUBSET Calls]
            BY DEF IInv, TypeOK
        <3>2. [tool[t] EXCEPT !.cb = b]
                 \in [at : {"idle", "post", "reconcile", "verify"},
                      call : Calls \cup {None}, cb : Calls \cup {None},
                      since : SUBSET Calls]
            BY <3>1
        <3>3. tool' = [tool EXCEPT ![t] = [tool[t] EXCEPT !.cb = b]]
            OBVIOUS
        <3> QED BY <3>2, <3>3 DEF IInv, TypeOK
    <2>2. gateway' \in [Calls -> {"none", "ongoing", "answered", "silent"}]
        BY DEF IInv, TypeOK
    <2> QED BY <2>1, <2>2 DEF IInv, TypeOK
<1>3. Earlier' /\ ResolvedOnEvidence' /\ OneCallbackPerCall'
    BY <1>1, AttemptsKept DEF NoneResolved
<1>4. InHand'
    <2>1. ASSUME NEW u \in Tools, u # t PROVE tool'[u] = tool[u]
        BY <2>1 DEF IInv, TypeOK
    <2>2. tool'[t] = [tool[t] EXCEPT !.cb = b]
        BY DEF IInv, TypeOK
    <2>3. /\ tool'[t].at = "post" /\ tool[t].at = "post"
          /\ tool'[t].call = tool[t].call /\ tool'[t].cb = b
        BY <2>2 DEF IInv, TypeOK
    <2>4. tool[t].call \in Calls /\ attempt[tool[t].call].status # "none"
        BY <2>3 DEF IInv, InHand
    <2>5. b \in Outbound \ before[tool[t].call]
        BY <2>4 DEF IInv, Earlier, Started
    <2> QED BY <2>1, <2>3, <2>4, <2>5 DEF IInv, InHand
<1>5. OneNoticePerCall' /\ \A d \in Calls : notice'[d] = "none" => delivers'[d] = 0
    BY NoticesKept
<1> QED BY <1>2, <1>3, <1>4, <1>5 DEF IInv, OncePerCall, Claimed, OnACall

------------------------------------------------------------------------------
(* The owner's tool actions.                                                 *)

\* What a tool slot and an attempt may be.
Slots == [at : {"idle", "post", "reconcile", "verify"}, call : Calls \cup {None},
          cb : Calls \cup {None}, since : SUBSET Calls]
Attempts == [status : {"none", "starting", "running", "unknown"},
             link : Calls \cup {None}, since : SUBSET Calls]

\* A tool call that ends, or one that only reads, leaves the store as it was.
LEMMA ToolReads ==
    ASSUME IInv, NEW t \in Tools, NEW new \in Slots, tool' = [tool EXCEPT ![t] = new],
           UNCHANGED <<gateway, store, sync, crashes, delivers, posts, before>>,
           new.at # "idle" =>
              /\ new.call \in Calls /\ attempt[new.call].status # "none"
              /\ new.at = "post" => new.cb \in {None} \cup (Outbound \ before[new.call])
              /\ new.at = "reconcile" => before[new.call] \subseteq new.since
              /\ new.at = "verify" => new.cb \in Outbound \ before[new.call]
    PROVE  IInv'
<1> USE DEF store
<1>1. TypeOK'
    BY DEF IInv, TypeOK, Slots
<1>2. Earlier' /\ ResolvedOnEvidence' /\ OneCallbackPerCall'
    BY AttemptsKept DEF NoneResolved, Recorded
<1>3. InHand'
    <2>1. tool'[t] = new /\ \A u \in Tools : u # t => tool'[u] = tool[u]
        BY DEF IInv, TypeOK
    <2> QED BY <2>1 DEF IInv, InHand
<1>4. OneNoticePerCall' /\ \A d \in Calls : notice'[d] = "none" => delivers'[d] = 0
    BY NoticesKept
<1> QED BY <1>1, <1>2, <1>3, <1>4 DEF IInv, OncePerCall, Claimed, OnACall

\* reconcile, complete and a refusal only read.
LEMMA ReadersKeep ==
    ASSUME IInv, NEW t \in Tools,
           \/ ToolRefused(t)
           \/ \E c \in Calls : CompleteAsks(t, c)
           \/ \E c \in Calls, b \in Calls : Reconcile(t, c, b)
    PROVE  IInv'
<1>1. CASE ToolRefused(t)
    <2>1. Free \in Slots /\ Free.at = "idle"
        BY DEF Free, Slots
    <2> QED BY <1>1, <2>1, ToolReads DEF ToolRefused
<1>2. ASSUME NEW c \in Calls, CompleteAsks(t, c)
      PROVE  IInv'
    <2> DEFINE new == [Free EXCEPT !.at = "verify", !.call = c, !.cb = attempt[c].link]
    <2>1. attempt[c] \in Attempts /\ attempt[c].link # None
        BY <1>2 DEF IInv, TypeOK, Attempts, CompleteAsks
    <2>2. attempt[c].link \in Outbound \ before[c] /\ attempt[c].status # "none"
        BY <2>1 DEF IInv, Earlier, Claimed
    <2>3. Free \in Slots /\ attempt[c].link \in Calls
        BY <2>1 DEF Slots, Free, Attempts
    <2>4. new \in Slots
        BY <2>3 DEF Slots
    <2>5. tool' = [tool EXCEPT ![t] = new]
          /\ UNCHANGED <<gateway, store, sync, crashes, delivers, posts, before>>
        BY <1>2 DEF CompleteAsks
    <2>6. new.at = "verify" /\ new.call = c /\ new.cb = attempt[c].link
        BY <2>3 DEF Slots
    <2> HIDE DEF new
    <2> QED BY <2>2, <2>4, <2>5, <2>6, ToolReads
<1>3. ASSUME NEW c \in Calls, NEW b \in Calls, Reconcile(t, c, b)
      PROVE  IInv'
    <2> DEFINE new == [at |-> "reconcile", call |-> c, cb |-> b, since |-> attempt[c].since]
    <2>1. attempt[c] \in Attempts /\ attempt[c].status \in {"unknown", "starting"}
        BY <1>3 DEF IInv, TypeOK, Attempts, Reconcile
    <2>2. before[c] \subseteq attempt[c].since
        BY <2>1 DEF IInv, Earlier
    <2>4. new \in Slots
        BY <2>1 DEF Slots, Attempts
    <2>5. tool' = [tool EXCEPT ![t] = new]
          /\ UNCHANGED <<gateway, store, sync, crashes, delivers, posts, before>>
        BY <1>3 DEF Reconcile
    <2>6. new.at = "reconcile" /\ new.call = c /\ new.since = attempt[c].since
        OBVIOUS
    <2> HIDE DEF new
    <2> QED BY <2>1, <2>2, <2>4, <2>5, <2>6, ToolReads
<1> QED BY <1>1, <1>2, <1>3

\* A tool call that ends by storing what became of an attempt.
LEMMA AttemptStored ==
    ASSUME IInv, NEW t \in Tools, NEW c \in Calls, NEW a \in Attempts,
           attempt[c].status # "none", a.status # "none",
           a.status \in {"starting", "unknown"} => before[c] \subseteq a.since,
           a.link # None => a.link \in Outbound \ before[c],
           attempt' = [attempt EXCEPT ![c] = a], tool' = [tool EXCEPT ![t] = Free],
           UNCHANGED <<gateway, call, notice, mirrored, sync, crashes, delivers, posts, before>>
    PROVE  IInv'
<1>1. Free \in Slots /\ Free.at = "idle"
    BY DEF Free, Slots
<1>2. attempt'[c] = a /\ \A d \in Calls : d # c => attempt'[d] = attempt[d]
    BY DEF IInv, TypeOK
<1>3. TypeOK'
    BY <1>1 DEF IInv, TypeOK, Slots, Attempts
<1>4. Earlier'
    BY <1>2 DEF IInv, Earlier, Started
<1>5. ResolvedOnEvidence' /\ OncePerCall'
    BY <1>2 DEF IInv, ResolvedOnEvidence, OncePerCall, OneCallbackPerCall, OneNoticePerCall
<1>6. InHand'
    <2>1. \A u \in Tools : tool'[u] = tool[u] \/ tool'[u].at = "idle"
        BY <1>1 DEF IInv, TypeOK
    <2> QED BY <1>2, <2>1, HandKept
<1>7. Claimed'
    BY <1>2 DEF IInv, Claimed
<1> QED BY <1>3, <1>4, <1>5, <1>6, <1>7 DEF IInv, OnACall

\* The answer to a POST, its loss and a reconciliation keep the invariant.
LEMMA OutcomesKeep ==
    ASSUME IInv, NEW t \in Tools, PostOk(t) \/ PostFails(t) \/ Reconciled(t)
    PROVE  IInv'
<1> DEFINE c == tool[t].call
           linked == [status |-> "running", link |-> tool[t].cb, since |-> {}]
           lost == [status |-> "unknown", link |-> None,
                    since |-> IF attempt[c].status = "running" THEN Calls ELSE attempt[c].since]
<1>1. /\ c \in Calls /\ attempt[c].status # "none"
      /\ tool[t].at = "post" => tool[t].cb \in {None} \cup (Outbound \ before[c])
      /\ tool[t].at = "reconcile" => before[c] \subseteq tool[t].since
    BY DEF IInv, InHand, PostOk, PostFails, Reconciled
<1>2. attempt[c] \in Attempts
    BY <1>1 DEF IInv, TypeOK, Attempts
<1>3. CASE PostOk(t) \/ Reconciled(t)
    <2>1. tool[t].cb \in Outbound \ before[c] /\ tool[t].cb \in Calls
        BY <1>1, <1>3 DEF PostOk, Reconciled, Matches, MatchesAnyTime, Calls
    <2>2. linked \in Attempts /\ linked.status = "running" /\ linked.link = tool[t].cb
        BY <2>1 DEF Attempts
    <2>3. attempt' = [attempt EXCEPT ![c] = linked] /\ tool' = [tool EXCEPT ![t] = Free]
        BY <1>3 DEF PostOk, Reconciled
    <2>4. UNCHANGED <<gateway, call, notice, mirrored, sync, crashes, delivers, posts, before>>
        BY <1>3 DEF PostOk, Reconciled
    <2> HIDE DEF linked, c
    <2> QED BY <1>1, <2>1, <2>2, <2>3, <2>4, AttemptStored
<1>4. CASE PostFails(t)
    <2>1. lost \in Attempts /\ lost.status = "unknown" /\ lost.link = None
        BY <1>2 DEF Attempts
    <2>2. before[c] \subseteq lost.since
        <3>1. before[c] \subseteq Calls
            BY <1>1 DEF IInv, TypeOK
        <3>2. attempt[c].status \in {"running", "starting", "unknown"}
            BY <1>1, <1>2 DEF Attempts
        <3> QED BY <1>1, <3>1, <3>2 DEF IInv, Earlier
    <2>3. attempt' = [attempt EXCEPT ![c] = lost] /\ tool' = [tool EXCEPT ![t] = Free]
        BY <1>4 DEF PostFails
    <2>4. UNCHANGED <<gateway, call, notice, mirrored, sync, crashes, delivers, posts, before>>
        BY <1>4 DEF PostFails
    <2> HIDE DEF lost, c
    <2> QED BY <1>1, <2>1, <2>2, <2>3, <2>4, AttemptStored
<1> QED BY <1>3, <1>4

\* An answered callback that started after the attempt is the evidence.
LEMMA VerifiedKeeps ==
    ASSUME IInv, NEW t \in Tools, Verified(t)
    PROVE  IInv'
<1> DEFINE c == tool[t].call
<1>1. /\ c \in Calls /\ attempt[c].status # "none"
      /\ tool[t].cb \in Outbound \ before[c] /\ gateway[tool[t].cb] = "answered"
    BY DEF IInv, InHand, Verified, HasResponse
<1>2. call' = [call EXCEPT ![c] = "resolved"] /\ tool' = [tool EXCEPT ![t] = Free]
    BY DEF Verified
<1>3. UNCHANGED <<gateway, notice, mirrored, attempt, sync, crashes, delivers, posts, before>>
    BY DEF Verified
<1>4. Free \in Slots /\ Free.at = "idle"
    BY DEF Free, Slots
<1> HIDE DEF c
<1>5. TypeOK'
    BY <1>1, <1>2, <1>3, <1>4 DEF IInv, TypeOK, Slots
<1>6. ResolvedOnEvidence'
    <2>1. \A d \in Calls : d # c => call'[d] = call[d]
        BY <1>2 DEF IInv, TypeOK
    <2> QED BY <1>1, <1>3, <2>1 DEF IInv, ResolvedOnEvidence
<1>7. InHand'
    <2>1. \A u \in Tools : tool'[u] = tool[u] \/ tool'[u].at = "idle"
        BY <1>2, <1>4 DEF IInv, TypeOK
    <2> QED BY <1>3, <2>1, HandKept
<1>8. Earlier' /\ Claimed' /\ OncePerCall' /\ OnACall'
    BY <1>3 DEF IInv, Earlier, Claimed, OncePerCall, OneCallbackPerCall, OneNoticePerCall, OnACall,
                Started
<1> QED BY <1>5, <1>6, <1>7, <1>8 DEF IInv

\* A call that was resolved with no callback at all needs no evidence.
LEMMA CompleteWithoutKeeps ==
    ASSUME IInv, NEW c \in Calls, CompleteWithout(c)
    PROVE  IInv'
<1>1. call' = [call EXCEPT ![c] = "resolved"] /\ attempt[c].status = "none"
    BY DEF CompleteWithout
<1>2. UNCHANGED <<gateway, notice, mirrored, attempt, sync, tool, crashes, delivers, posts, before>>
    BY DEF CompleteWithout
<1>3. TypeOK'
    BY <1>1, <1>2 DEF IInv, TypeOK
<1>4. ResolvedOnEvidence'
    <2>1. \A d \in Calls : d # c => call'[d] = call[d]
        BY <1>1 DEF IInv, TypeOK
    <2> QED BY <1>1, <1>2, <2>1 DEF IInv, ResolvedOnEvidence
<1>5. InHand'
    BY <1>2, HandKept
<1>6. Earlier' /\ Claimed' /\ OncePerCall' /\ OnACall'
    BY <1>2 DEF IInv, Earlier, Claimed, OncePerCall, OneCallbackPerCall, OneNoticePerCall, OnACall,
                Started
<1> QED BY <1>3, <1>4, <1>5, <1>6 DEF IInv

\* The claim of a callback: the store says so before the POST leaves.
LEMMA AttemptClaimed ==
    ASSUME IInv, NEW c \in Calls, attempt[c].status = "none", call[c] # "resolved",
           attempt' = [attempt EXCEPT ![c] =
                         [status |-> "starting", link |-> None, since |-> Started]],
           before' = [before EXCEPT ![c] = Started],
           UNCHANGED <<gateway, notice, delivers>>,
           posts' \in [Calls -> Nat], posts'[c] \in {posts[c], posts[c] + 1},
           \A d \in Calls : d # c => posts'[d] = posts[d] /\ call'[d] = call[d],
           call'[c] # "resolved"
    PROVE  /\ attempt' \in [Calls -> Attempts] /\ before' \in [Calls -> SUBSET Calls]
           /\ attempt'[c].status = "starting"
           /\ \A d \in Calls : d # c => attempt'[d] = attempt[d] /\ before'[d] = before[d]
           /\ Claimed' /\ Earlier' /\ OncePerCall' /\ ResolvedOnEvidence'
<1> DEFINE new == [status |-> "starting", link |-> None, since |-> Started]
<1>1. Started \subseteq Calls /\ Started' = Started
    BY DEF Started
<1>2. new \in Attempts /\ new.status = "starting" /\ new.link = None /\ new.since = Started
    BY <1>1 DEF Attempts
<1> HIDE DEF new
<1>3. attempt' = [attempt EXCEPT ![c] = new]
    BY DEF new
<1>4. attempt' \in [Calls -> Attempts] /\ before' \in [Calls -> SUBSET Calls]
    BY <1>1, <1>2, <1>3 DEF IInv, TypeOK, Attempts
<1>5. /\ attempt'[c] = new /\ before'[c] = Started
      /\ \A d \in Calls : d # c => attempt'[d] = attempt[d] /\ before'[d] = before[d]
    BY <1>3 DEF IInv, TypeOK
<1>6. Claimed'
    BY <1>2, <1>5 DEF IInv, Claimed
<1>7. Earlier'
    BY <1>1, <1>2, <1>5 DEF IInv, Earlier
<1>8. OncePerCall'
    <2>1. posts[c] = 0
        BY DEF IInv, Claimed
    <2> QED BY <2>1 DEF IInv, OncePerCall, OneCallbackPerCall, OneNoticePerCall
<1>9. ResolvedOnEvidence'
    BY <1>5 DEF IInv, ResolvedOnEvidence
<1> QED BY <1>2, <1>4, <1>5, <1>6, <1>7, <1>8, <1>9

\* The callback of a tool call keeps the invariant.
LEMMA CallbackKeeps ==
    ASSUME IInv, NEW t \in Tools, NEW c \in Calls, Callback(t, c)
    PROVE  IInv'
<1> DEFINE new == [Free EXCEPT !.at = "post", !.call = c]
<1>1. /\ attempt[c].status = "none" /\ call[c] # "resolved"
      /\ attempt' = [attempt EXCEPT ![c] =
                       [status |-> "starting", link |-> None, since |-> Started]]
      /\ before' = [before EXCEPT ![c] = Started]
      /\ call' = [call EXCEPT ![c] = "working"] /\ posts' = [posts EXCEPT ![c] = @ + 1]
      /\ tool' = [tool EXCEPT ![t] = new]
      /\ UNCHANGED <<gateway, notice, mirrored, sync, crashes, delivers>>
    BY DEF Callback, Open, CallbackClaimable
<1>2. /\ posts' \in [Calls -> Nat] /\ posts'[c] = posts[c] + 1 /\ call'[c] = "working"
      /\ \A d \in Calls : d # c => posts'[d] = posts[d] /\ call'[d] = call[d]
    BY <1>1 DEF IInv, TypeOK
<1>3. Free \in Slots
    BY DEF Slots, Free
<1>4. new \in Slots /\ new.at = "post" /\ new.call = c /\ new.cb = None
    BY <1>3 DEF Slots, Free
<1> HIDE DEF new
<1>5. /\ attempt' \in [Calls -> Attempts] /\ before' \in [Calls -> SUBSET Calls]
      /\ attempt'[c].status = "starting"
      /\ \A d \in Calls : d # c => attempt'[d] = attempt[d] /\ before'[d] = before[d]
      /\ Claimed' /\ Earlier' /\ OncePerCall' /\ ResolvedOnEvidence'
    BY <1>1, <1>2, AttemptClaimed
<1>6. TypeOK'
    <2>1. tool' \in [Tools -> Slots]
        BY <1>1, <1>4 DEF IInv, TypeOK, Slots
    <2>2. call' \in [Calls -> {"absent", "reference", "pending", "working", "resolved"}]
        BY <1>1 DEF IInv, TypeOK
    <2> QED BY <1>1, <1>2, <1>5, <2>1, <2>2 DEF IInv, TypeOK, Slots, Attempts
<1>7. InHand'
    <2>1. tool'[t] = new /\ \A u \in Tools : u # t => tool'[u] = tool[u]
        BY <1>1 DEF IInv, TypeOK
    <2>2. \A u \in Tools : tool[u].at # "idle" => tool[u].call # c
        BY <1>1 DEF IInv, InHand
    <2> QED BY <1>4, <1>5, <2>1, <2>2 DEF IInv, InHand
<1> QED BY <1>1, <1>5, <1>6, <1>7 DEF IInv, OnACall

------------------------------------------------------------------------------
(* The process restarts.                                                     *)

\* A restart leaves no sync and no tool call in flight.
LEMMA RestartTypes ==
    ASSUME IInv, crashes < MaxCrashes, Restarted
    PROVE  /\ crashes' \in 0 .. MaxCrashes /\ tool' \in [Tools -> Slots] /\ InHand' /\ OnACall'
           /\ sync' \in [at : {"idle", "list", "fetch", "loop", "deliver", "mirror"},
                         todo : SUBSET Calls, n : 0 .. MaxImport, cur : Calls \cup {None}]
<1>1. crashes' \in 0 .. MaxCrashes
    BY InboxAssumption DEF IInv, TypeOK, Restarted
<1>2. Free \in Slots /\ Free.at = "idle"
    BY DEF Free, Slots
<1>3. tool' \in [Tools -> Slots] /\ InHand'
    BY <1>2 DEF Restarted, InHand
<1>4. /\ OnACall'
      /\ sync' \in [at : {"idle", "list", "fetch", "loop", "deliver", "mirror"},
                    todo : SUBSET Calls, n : 0 .. MaxImport, cur : Calls \cup {None}]
    BY InboxAssumption DEF Restarted, Resting, OnACall
<1> QED BY <1>1, <1>3, <1>4

\* A crash keeps the invariant, between the claim of a callback and its POST too.
LEMMA CrashKeeps ==
    ASSUME IInv, Crash \/ \E c \in Calls : CrashAfterClaim(c)
    PROVE  IInv'
<1>1. CASE Crash
    <2>1. UNCHANGED <<gateway, call, notice, mirrored, attempt, delivers, posts, before>>
        BY <1>1 DEF Crash, store
    <2>2. TypeOK'
        BY <1>1, <2>1, RestartTypes DEF IInv, TypeOK, Crash, Slots
    <2>3. Claimed' /\ Earlier' /\ OncePerCall' /\ ResolvedOnEvidence'
        BY <2>1 DEF IInv, Claimed, Earlier, OncePerCall, OneCallbackPerCall, OneNoticePerCall,
                    ResolvedOnEvidence, Started
    <2> QED BY <1>1, <2>2, <2>3, RestartTypes DEF IInv, Crash
<1>2. ASSUME NEW c \in Calls, CrashAfterClaim(c)
      PROVE  IInv'
    <2>1. /\ attempt[c].status = "none" /\ call[c] # "resolved"
          /\ attempt' = [attempt EXCEPT ![c] =
                           [status |-> "starting", link |-> None, since |-> Started]]
          /\ before' = [before EXCEPT ![c] = Started]
          /\ UNCHANGED <<gateway, call, notice, mirrored, delivers, posts>>
          /\ crashes < MaxCrashes /\ Restarted
        BY <1>2 DEF CrashAfterClaim, Open, CallbackClaimable
    <2>2. posts \in [Calls -> Nat]
        BY DEF IInv, TypeOK
    <2>3. /\ attempt' \in [Calls -> Attempts] /\ before' \in [Calls -> SUBSET Calls]
          /\ Claimed' /\ Earlier' /\ OncePerCall' /\ ResolvedOnEvidence'
        BY <2>1, <2>2, AttemptClaimed
    <2>4. TypeOK'
        BY <2>1, <2>3, RestartTypes DEF IInv, TypeOK, Slots, Attempts
    <2> QED BY <2>1, <2>3, <2>4, RestartTypes DEF IInv
<1> QED BY <1>1, <1>2

------------------------------------------------------------------------------
\* Every step keeps the invariant.
LEMMA NextIInv ==
    ASSUME IInv, [Next]_vars
    PROVE  IInv'
<1>1. CASE UNCHANGED vars
    BY <1>1 DEF vars, IInv, TypeOK, Claimed, Earlier, InHand, OnACall, OncePerCall,
                OneCallbackPerCall, OneNoticePerCall, ResolvedOnEvidence, Started
<1>2. CASE SyncStep \/ SyncFails
    BY <1>2, SyncKeeps
<1>3. CASE Crash \/ \E c \in Calls : CrashAfterClaim(c)
    BY <1>3, CrashKeeps
<1>4. ASSUME NEW c \in Calls, CompleteWithout(c) \/ GatewayStep(c)
      PROVE  IInv'
    BY <1>4, CompleteWithoutKeeps, GatewayKeeps
<1>5. ASSUME NEW t \in Tools,
             \/ PostOk(t) \/ PostFails(t) \/ Reconciled(t) \/ Verified(t) \/ ToolRefused(t)
             \/ \E c \in Calls : Callback(t, c) \/ CompleteAsks(t, c)
             \/ \E c \in Calls, b \in Calls : Reconcile(t, c, b)
             \/ \E b \in Calls : PostArrives(t, b)
      PROVE  IInv'
    BY <1>5, OutcomesKeep, VerifiedKeeps, ReadersKeep, CallbackKeeps, PostArrivesKeeps
<1> QED BY <1>1, <1>2, <1>3, <1>4, <1>5 DEF Next, GatewayStep

\* Nothing is claimed, in hand or resolved at first.
LEMMA InitIInv == Init => IInv
<1> SUFFICES ASSUME Init PROVE IInv
    OBVIOUS
<1>1. Free \in Slots /\ Free.at = "idle" /\ NoAttempt \in Attempts /\ NoAttempt.status = "none"
      /\ NoAttempt.link = None
    BY DEF Free, Slots, NoAttempt, Attempts
<1>2. tool \in [Tools -> Slots] /\ attempt \in [Calls -> Attempts] /\ InHand
    BY <1>1 DEF Init, InHand
<1>3. /\ OnACall
      /\ sync \in [at : {"idle", "list", "fetch", "loop", "deliver", "mirror"},
                   todo : SUBSET Calls, n : 0 .. MaxImport, cur : Calls \cup {None}]
    BY InboxAssumption DEF Init, Resting, OnACall
<1>4. TypeOK
    BY <1>2, <1>3, InboxAssumption DEF Init, TypeOK, Slots, Attempts
<1>5. Claimed /\ Earlier /\ OncePerCall /\ ResolvedOnEvidence
    BY <1>1 DEF Init, Claimed, Earlier, OncePerCall, OneCallbackPerCall, OneNoticePerCall,
                ResolvedOnEvidence
<1> QED BY <1>2, <1>3, <1>4, <1>5 DEF IInv

\* What a claim is, what a tool call has in hand and what a resolved call rests on are
\* as the invariant says in every state the plugin reaches.
THEOREM Invariant == Spec => []IInv
<1> QED BY InitIInv, NextIInv, PTL DEF Spec

\* The variables keep their types.
THEOREM TypeCorrect == Spec => []TypeOK
<1>1. IInv => TypeOK
    BY DEF IInv
<1> QED BY <1>1, Invariant, PTL

\* However requests repeat or race, answers are lost and the process restarts, the plugin
\* POSTs at most one callback for a call, and delivers at most one notice of it.
THEOREM Once == Spec => []OncePerCall
<1>1. IInv => OncePerCall
    BY DEF IInv
<1> QED BY <1>1, Invariant, PTL

\* A call resolved after a callback was attempted rests on an answered outbound call that
\* started after the attempt.
THEOREM Evidence == Spec => []ResolvedOnEvidence
<1>1. IInv => ResolvedOnEvidence
    BY DEF IInv
<1> QED BY <1>1, Invariant, PTL

\* A resolved call is never reopened and no callback is placed for it, neither by a sync
\* that has it in its list nor by a tool call that was under way when it was resolved.
THEOREM Final == Spec => ResolvedIsFinal
<1>1. ASSUME IInv, Next, NEW c \in Calls, call[c] = "resolved"
      PROVE  call'[c] = "resolved" /\ posts'[c] = posts[c]
    <2> USE DEF IInv, TypeOK, store
    <2>1. CASE SyncStep \/ SyncFails
        <3>1. ASSUME NEW d \in Calls, Import(d) PROVE call'[c] = "resolved"
            BY <1>1, <3>1 DEF Import, Missing
        <3>2. UNCHANGED call \/ \E d \in Calls : Import(d)
            BY <2>1 DEF SyncStep, SyncStart, SyncListed, SyncImported, SyncDone, NoticeSent,
                NoticeUnconfirmed, Mirrored, MirrorFails, NoticeClaimed, NoticedBefore, SyncFails
        <3>3. UNCHANGED posts
            BY <1>1, <2>1, SyncTypes DEF SyncTouches
        <3> QED BY <1>1, <3>1, <3>2, <3>3
    <2>2. ASSUME NEW t \in Tools, NEW d \in Calls, Callback(t, d)
          PROVE  call'[c] = "resolved" /\ posts'[c] = posts[c]
        BY <1>1, <2>2 DEF Callback, Open
    <2>3. ASSUME NEW t \in Tools, Verified(t)
          PROVE  call'[c] = "resolved" /\ posts'[c] = posts[c]
        BY <1>1, <2>3 DEF Verified
    <2>4. ASSUME NEW d \in Calls, CompleteWithout(d)
          PROVE  call'[c] = "resolved" /\ posts'[c] = posts[c]
        BY <1>1, <2>4 DEF CompleteWithout
    <2>5. ASSUME NEW t \in Tools,
                 \/ PostOk(t) \/ PostFails(t) \/ Reconciled(t) \/ ToolRefused(t)
                 \/ \E d \in Calls : CompleteAsks(t, d)
                 \/ \E d \in Calls, b \in Calls : Reconcile(t, d, b)
                 \/ \E b \in Calls : PostArrives(t, b)
          PROVE  UNCHANGED <<call, posts>>
        BY <2>5 DEF PostOk, PostFails, Reconciled, ToolRefused, CompleteAsks, Reconcile, PostArrives
    <2>6. ASSUME Crash \/ \E d \in Calls : CrashAfterClaim(d) \/ GatewayStep(d)
          PROVE  UNCHANGED <<call, posts>>
        BY <2>6 DEF Crash, CrashAfterClaim, GatewayStep, InboundCall, OtherOutbound, OutboundEnds
    <2> QED BY <1>1, <2>1, <2>2, <2>3, <2>4, <2>5, <2>6 DEF Next, GatewayStep
<1>2. IInv /\ [Next]_vars =>
        [\A c \in Calls : call[c] = "resolved" => call'[c] = "resolved" /\ posts'[c] = posts[c]]_vars
    BY <1>1
<1> QED BY <1>2, Invariant, PTL DEF Spec, ResolvedIsFinal
=============================================================================
