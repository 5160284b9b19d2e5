------------------------------ MODULE PhoneInbox ------------------------------
(***************************************************************************)
(* The phone handoff plugin (phone-handoff/plugin/inbox.mjs) over its      *)
(* SQLite store (store.mjs), against the phone gateway and the owner's     *)
(* private chat.                                                           *)
(*                                                                         *)
(* The plugin runs in the Claw's gateway process.  The store survives a    *)
(* crash of that process; the background sync and the tool calls in flight *)
(* do not.  One action is the code between two awaits.  A call's texts,    *)
(* numbers and times are abstracted to: whether it started before the      *)
(* plugin was activated (Old), and which calls had started when a callback *)
(* was attempted.  Choosing among several pending calls (selectedCallId)   *)
(* is the owner's input and restricts no reachable state.                  *)
(***************************************************************************)
EXTENDS Naturals, FiniteSets

CONSTANTS
    Inbound, Outbound,  \* calls the gateway may record, callers' and the Claw's own
    Old,                \* inbound calls that ended before the plugin's activation
    Followed,           \* bound: the calls the owner asks to follow up
    Tools,              \* slots for phone_handoff tool calls in flight
    None,
    MaxImport,          \* 10 in the code
    MaxCrashes          \* bound on restarts of the process

ASSUME InboxAssumption ==
    /\ Old \subseteq Inbound /\ Followed \subseteq Inbound \cup Outbound /\ Inbound \cap Outbound = {}
    /\ None \notin Inbound \cup Outbound
    /\ MaxImport \in Nat \ {0} /\ MaxCrashes \in Nat

Calls == Inbound \cup Outbound

VARIABLES
    gateway,   \* the phone gateway's own record of each call
    call,      \* store: status of the imported call
    notice,    \* store: attempt notice:<id>
    mirrored,  \* store: the notice's mirrored flag
    attempt,   \* store: attempt callback:<id>
    sync,      \* the single-flight background synchronisation
    tool,      \* tool calls in flight
    crashes,
    \* history: how often the plugin called deliver, and POSTed a callback, for a
    \* call, and the calls that had started when a callback was attempted
    delivers, posts, before

store == <<call, notice, mirrored, attempt>>
vars == <<gateway, call, notice, mirrored, attempt, sync, tool, crashes, delivers, posts, before>>

NoAttempt == [status |-> "none", link |-> None, since |-> {}]
Resting == [at |-> "idle", todo |-> {}, n |-> 0, cur |-> None]
Free == [at |-> "idle", call |-> None, cb |-> None, since |-> {}]

TypeOK ==
    /\ gateway \in [Calls -> {"none", "ongoing", "answered", "silent"}]
    /\ call \in [Calls -> {"absent", "reference", "pending", "working", "resolved"}]
    /\ notice \in [Calls -> {"none", "sending", "sent", "unknown"}]
    /\ mirrored \in [Calls -> BOOLEAN]
    /\ attempt \in [Calls -> [status : {"none", "starting", "running", "unknown"},
                              link : Calls \cup {None}, since : SUBSET Calls]]
    /\ sync \in [at : {"idle", "list", "fetch", "loop", "deliver", "mirror"},
                 todo : SUBSET Calls, n : 0 .. MaxImport, cur : Calls \cup {None}]
    /\ tool \in [Tools -> [at : {"idle", "post", "reconcile", "verify"},
                           call : Calls \cup {None}, cb : Calls \cup {None},
                           since : SUBSET Calls]]
    /\ crashes \in 0 .. MaxCrashes
    /\ delivers \in [Calls -> Nat]
    /\ posts \in [Calls -> Nat]
    /\ before \in [Calls -> SUBSET Calls]

Init ==
    /\ gateway = [c \in Calls |-> IF c \in Old THEN "answered" ELSE "none"]
    /\ call = [c \in Calls |-> "absent"]
    /\ notice = [c \in Calls |-> "none"]
    /\ mirrored = [c \in Calls |-> FALSE]
    /\ attempt = [c \in Calls |-> NoAttempt]
    /\ sync = Resting
    /\ tool = [t \in Tools |-> Free]
    /\ crashes = 0
    /\ delivers = [c \in Calls |-> 0]
    /\ posts = [c \in Calls |-> 0]
    /\ before = [c \in Calls |-> {}]

Ended(c) == gateway[c] \in {"answered", "silent"}
Started == {c \in Calls : gateway[c] # "none"}

------------------------------------------------------------------------------
(* sync(): import what is new, then notify and mirror call by call.          *)

SyncStart ==
    /\ sync.at = "idle"
    /\ sync' = [sync EXCEPT !.at = "list"]
    /\ UNCHANGED <<gateway, store, tool, crashes, delivers, posts, before>>

SyncListed ==
    /\ sync.at = "list"
    /\ sync' = [sync EXCEPT !.at = "fetch", !.todo = {c \in Calls : Ended(c)}]
    /\ UNCHANGED <<gateway, store, tool, crashes, delivers, posts, before>>

SyncNeverFreed == sync' = [sync EXCEPT !.at = "ended"]

\* However a round ends, the next one may start.
SyncFreed == sync' = Resting

\* A gateway request fails or answers nonsense: this round is abandoned.
SyncFails ==
    /\ sync.at \in {"list", "fetch"} /\ SyncFreed
    /\ UNCHANGED <<gateway, store, tool, crashes, delivers, posts, before>>

\* A callback this inbox placed and knows the identity of is only a reference.
ImportStatus(c) ==
    IF \E parent \in Calls : call[parent] # "absent" /\ attempt[parent].link = c
    THEN "reference"
    ELSE IF c \in Old THEN "reference" ELSE "pending"

Room == sync.n < MaxImport
Missing == {c \in sync.todo : call[c] = "absent"}

Import(c) ==
    /\ sync.at = "fetch" /\ c \in Missing /\ Room
    /\ call' = [call EXCEPT ![c] = ImportStatus(c)]
    /\ sync' = [sync EXCEPT !.n = @ + 1]
    /\ UNCHANGED <<gateway, notice, mirrored, attempt, tool, crashes, delivers, posts, before>>

\* All imported, the limit reached or eight seconds spent: snapshot the open calls.
SyncImported ==
    /\ sync.at = "fetch" /\ (Missing = {} \/ sync.n > 0)
    /\ sync' = [Resting EXCEPT !.at = "loop",
                  !.todo = {c \in Calls : call[c] \in {"pending", "working"}}]
    /\ UNCHANGED <<gateway, store, tool, crashes, delivers, posts, before>>

Claimable(c) == notice[c] = "none"

\* The claim is durable before deliver is called.
NoticeClaimed(c) ==
    /\ sync.at = "loop" /\ c \in sync.todo /\ Claimable(c)
    /\ notice' = [notice EXCEPT ![c] = "sending"]
    /\ delivers' = [delivers EXCEPT ![c] = @ + 1]
    /\ sync' = [sync EXCEPT !.at = "deliver", !.cur = c]
    /\ UNCHANGED <<gateway, call, mirrored, attempt, tool, crashes, posts, before>>

\* deliver settled; a confirmed notice goes on to the transcript mirror.
NoticeSent ==
    /\ sync.at = "deliver"
    /\ notice' = [notice EXCEPT ![sync.cur] = "sent"]
    /\ sync' = [sync EXCEPT !.at = "mirror"]
    /\ UNCHANGED <<gateway, call, mirrored, attempt, tool, crashes, delivers, posts, before>>

Onward == [sync EXCEPT !.at = "loop", !.cur = None, !.todo = @ \ {sync.cur}]

NoticeUnconfirmed ==
    /\ sync.at = "deliver"
    /\ notice' = [notice EXCEPT ![sync.cur] = "unknown"]
    /\ sync' = Onward
    /\ UNCHANGED <<gateway, call, mirrored, attempt, tool, crashes, delivers, posts, before>>

\* A call noticed in an earlier round: mirror what is still to be mirrored.
NoticedBefore(c) ==
    /\ sync.at = "loop" /\ c \in sync.todo /\ ~Claimable(c)
    /\ sync' = IF notice[c] = "sent" /\ ~mirrored[c]
               THEN [sync EXCEPT !.at = "mirror", !.cur = c]
               ELSE [sync EXCEPT !.todo = @ \ {c}]
    /\ UNCHANGED <<gateway, store, tool, crashes, delivers, posts, before>>

Mirrored ==
    /\ sync.at = "mirror"
    /\ mirrored' = [mirrored EXCEPT ![sync.cur] = TRUE]
    /\ sync' = Onward
    /\ UNCHANGED <<gateway, call, notice, attempt, tool, crashes, delivers, posts, before>>

MirrorFails ==
    /\ sync.at = "mirror"
    /\ sync' = Onward
    /\ UNCHANGED <<gateway, store, tool, crashes, delivers, posts, before>>

SyncDone ==
    /\ sync.at = "loop" /\ sync.todo = {}
    /\ sync' = Resting
    /\ UNCHANGED <<gateway, store, tool, crashes, delivers, posts, before>>

------------------------------------------------------------------------------
(* The owner's tool actions.                                                 *)

Known(c) == c \in Followed /\ call[c] # "absent"

\* A call the owner's callback or complete still has work on.
Open(c) == Known(c) /\ call[c] # "resolved"

ClaimableUnlessRunning(c) == attempt[c].status # "running"
CallbackClaimable(c) == attempt[c].status = "none"

\* callback: claim, mark working and POST in one synchronous block.
Callback(t, c) ==
    /\ tool[t].at = "idle" /\ Open(c) /\ CallbackClaimable(c)
    /\ attempt' = [attempt EXCEPT ![c] =
                     [status |-> "starting", link |-> None, since |-> Started]]
    /\ call' = [call EXCEPT ![c] = "working"]
    /\ before' = [before EXCEPT ![c] = Started]
    /\ posts' = [posts EXCEPT ![c] = @ + 1]
    /\ tool' = [tool EXCEPT ![t] = [Free EXCEPT !.at = "post", !.call = c]]
    /\ UNCHANGED <<gateway, notice, mirrored, sync, crashes, delivers>>

PostOk(t) ==
    /\ tool[t].at = "post" /\ tool[t].cb # None
    /\ attempt' = [attempt EXCEPT ![tool[t].call] =
                     [status |-> "running", link |-> tool[t].cb, since |-> {}]]
    /\ tool' = [tool EXCEPT ![t] = Free]
    /\ UNCHANGED <<gateway, call, notice, mirrored, sync, crashes, delivers, posts, before>>

\* The answer is lost: finish with the time of whatever attempt is stored now.  A
\* linked attempt has none, which later comparisons read as the year 9999.
PostFails(t) ==
    LET c == tool[t].call
    IN  /\ tool[t].at = "post"
        /\ attempt' = [attempt EXCEPT ![c] =
              [status |-> "unknown", link |-> None,
               since |-> IF attempt[c].status = "running" THEN Calls ELSE attempt[c].since]]
        /\ tool' = [tool EXCEPT ![t] = Free]
        /\ UNCHANGED <<gateway, call, notice, mirrored, sync, crashes, delivers, posts, before>>

Reconcile(t, c, b) ==
    /\ tool[t].at = "idle" /\ Known(c)
    /\ attempt[c].status \in {"unknown", "starting"}
    /\ tool' = [tool EXCEPT ![t] =
                  [at |-> "reconcile", call |-> c, cb |-> b, since |-> attempt[c].since]]
    /\ UNCHANGED <<gateway, store, sync, crashes, delivers, posts, before>>

MatchesAnyTime(t) == tool[t].cb \in Outbound /\ tool[t].cb \in Started

\* An outbound call that started after the attempt.
Matches(t) == MatchesAnyTime(t) /\ tool[t].cb \notin tool[t].since

Reconciled(t) ==
    /\ tool[t].at = "reconcile" /\ Matches(t)
    /\ attempt' = [attempt EXCEPT ![tool[t].call] =
                     [status |-> "running", link |-> tool[t].cb, since |-> {}]]
    /\ tool' = [tool EXCEPT ![t] = Free]
    /\ UNCHANGED <<gateway, call, notice, mirrored, sync, crashes, delivers, posts, before>>

\* complete: with no callback at all, or by asking the gateway about the linked one.
CompleteWithout(c) ==
    /\ Open(c) /\ attempt[c].status = "none"
    /\ call' = [call EXCEPT ![c] = "resolved"]
    /\ UNCHANGED <<gateway, notice, mirrored, attempt, sync, tool, crashes, delivers, posts, before>>

CompleteAsks(t, c) ==
    /\ tool[t].at = "idle" /\ Open(c) /\ attempt[c].link # None
    /\ tool' = [tool EXCEPT ![t] =
                  [Free EXCEPT !.at = "verify", !.call = c, !.cb = attempt[c].link]]
    /\ UNCHANGED <<gateway, store, sync, crashes, delivers, posts, before>>

HasEnded(t) == Ended(tool[t].cb)

\* The callback ended and the other party's words are on record.
HasResponse(t) == gateway[tool[t].cb] = "answered"

Verified(t) ==
    /\ tool[t].at = "verify" /\ HasResponse(t)
    /\ call' = [call EXCEPT ![tool[t].call] = "resolved"]
    /\ tool' = [tool EXCEPT ![t] = Free]
    /\ UNCHANGED <<gateway, notice, mirrored, attempt, sync, crashes, delivers, posts, before>>

\* The gateway could not be read, or what it says does not fit.
ToolRefused(t) ==
    /\ tool[t].at \in {"reconcile", "verify"}
    /\ tool' = [tool EXCEPT ![t] = Free]
    /\ UNCHANGED <<gateway, store, sync, crashes, delivers, posts, before>>

------------------------------------------------------------------------------
(* The process restarts; the store keeps what was written.                   *)

Restarted == sync' = Resting /\ tool' = [t \in Tools |-> Free] /\ crashes' = crashes + 1

Crash ==
    /\ crashes < MaxCrashes /\ Restarted
    /\ UNCHANGED <<gateway, store, delivers, posts, before>>

\* Killed between the claim of a callback and the update that marks it working.
CrashAfterClaim(c) ==
    /\ crashes < MaxCrashes /\ Restarted
    /\ Open(c) /\ CallbackClaimable(c)
    /\ attempt' = [attempt EXCEPT ![c] =
                     [status |-> "starting", link |-> None, since |-> Started]]
    /\ before' = [before EXCEPT ![c] = Started]
    /\ UNCHANGED <<gateway, call, notice, mirrored, delivers, posts>>

------------------------------------------------------------------------------
(* The phone gateway.                                                        *)

InboundCall(c) ==
    /\ c \in Inbound /\ gateway[c] = "none"
    /\ gateway' = [gateway EXCEPT ![c] = "answered"]
    /\ UNCHANGED <<store, sync, tool, crashes, delivers, posts, before>>

\* The POST reaches the gateway, whatever becomes of its answer.
PostArrives(t, b) ==
    /\ tool[t].at = "post" /\ tool[t].cb = None
    /\ b \in Outbound /\ gateway[b] = "none"
    /\ gateway' = [gateway EXCEPT ![b] = "ongoing"]
    /\ tool' = [tool EXCEPT ![t].cb = b]
    /\ UNCHANGED <<store, sync, crashes, delivers, posts, before>>

\* A call the Claw places without the plugin.
OtherOutbound(b) ==
    /\ b \in Outbound /\ gateway[b] = "none"
    /\ gateway' = [gateway EXCEPT ![b] = "ongoing"]
    /\ UNCHANGED <<store, sync, tool, crashes, delivers, posts, before>>

OutboundEnds(b) ==
    /\ gateway[b] = "ongoing"
    /\ \E how \in {"answered", "silent"} : gateway' = [gateway EXCEPT ![b] = how]
    /\ UNCHANGED <<store, sync, tool, crashes, delivers, posts, before>>

------------------------------------------------------------------------------
SyncStep == SyncStart \/ SyncListed \/ SyncImported \/ SyncDone
            \/ NoticeSent \/ NoticeUnconfirmed \/ Mirrored \/ MirrorFails
            \/ \E c \in Calls : Import(c) \/ NoticeClaimed(c) \/ NoticedBefore(c)

Next ==
    \/ SyncStep \/ SyncFails \/ Crash
    \/ \E t \in Tools :
          \/ PostOk(t) \/ PostFails(t) \/ Reconciled(t) \/ Verified(t) \/ ToolRefused(t)
          \/ \E c \in Calls : Callback(t, c) \/ CompleteAsks(t, c)
          \/ \E c \in Calls, b \in Calls : Reconcile(t, c, b)
          \/ \E b \in Calls : PostArrives(t, b)
    \/ \E c \in Calls :
          CompleteWithout(c) \/ CrashAfterClaim(c) \/ InboundCall(c) \/ OtherOutbound(c)
          \/ OutboundEnds(c)

\* The poll timer restarts the sync, the gateway answers again and again, deliver
\* and mirror settle.
Fairness == /\ WF_vars(SyncStep)
            /\ SF_vars(SyncListed) /\ SF_vars(\E c \in Calls : Import(c)) /\ SF_vars(SyncImported)

Spec == Init /\ [][Next]_vars
FairSpec == Spec /\ Fairness

------------------------------------------------------------------------------
\* The gateway is asked at most once to call back about a call: not again on a
\* repeated or concurrent request, an unknown result, a crash or a restart.
OneCallbackPerCall == \A c \in Calls : posts[c] <= 1

\* The owner's chat is asked at most once to deliver the notice of a call, across
\* failed deliveries, crashes and restarts.
OneNoticePerCall == \A c \in Calls : delivers[c] <= 1

\* Both: nothing that reaches a person happens twice for one call.
OncePerCall == OneCallbackPerCall /\ OneNoticePerCall

\* A call resolved after a callback was attempted rests on an outbound call that
\* started after the attempt and was answered, whatever raced with the check.
ResolvedOnEvidence ==
    \A c \in Calls : call[c] = "resolved" /\ attempt[c].status # "none" =>
        \E b \in Outbound \ before[c] : gateway[b] = "answered"

\* A resolved call is never reopened, nor is a callback placed for it.
ResolvedIsFinal ==
    [][\A c \in Calls : call[c] = "resolved" => call'[c] = "resolved" /\ posts'[c] = posts[c]]_vars

\* A new call is noticed unless the owner resolved it first.
NewCallNoticed ==
    \A c \in Inbound \ Old :
        gateway[c] = "answered" ~> notice[c] # "none" \/ call[c] = "resolved"

\* The inbox replays no notice for a call from before its activation
\* (inbox.mjs:56 and README.md:5-6).
OldCallNotNoticed == \A c \in Old : delivers[c] = 0

\* What reconcile linked stays linked (README.md:16-17).
LinkIsKept ==
    [][\A c \in Calls : attempt[c].link # None => attempt'[c].link = attempt[c].link]_vars
=============================================================================
