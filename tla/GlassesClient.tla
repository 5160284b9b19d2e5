----------------------------- MODULE GlassesClient -----------------------------
(***************************************************************************)
(* The glasses part of the iPhone app: Glasses/GlassesModel.swift, and the *)
(* sign-in and assistant selection of Models/AppModel.swift that drive it. *)
(* Both run on the main actor, so what lies between two awaits is one      *)
(* action; a request to a server is an await, and whatever happens before  *)
(* its answer happens to it.  An epoch is over when account or assistant   *)
(* changes: the calls of an earlier one are not current.  A request the    *)
(* user makes is kept in the Keychain until its delivery is confirmed.     *)
(* Voice, notifications, a change of relay and the demo are left out.      *)
(***************************************************************************)
EXTENDS Naturals, FiniteSets

CONSTANTS
    Users, Claws,
    None,
    Calls,           \* bound on the calls to the relay in flight
    MaxRequests      \* bound on the requests the user makes

VARIABLES
    \* AppModel
    token,           \* whose session token the app has
    me,              \* whose account it shows
    choice,          \* the selected Claw, also in UserDefaults
    checks,          \* the tokens of the refreshes in flight, at most one of each
    \* GlassesModel
    owner, claw,     \* the session it was given: token and user name; the Claw
    api, profile,    \* whom its client is for; whose profile it has and the Claws in it
    events,          \* whose events, of which Claw, it shows
    pending,         \* the request that is not confirmed
    busy, connecting, refreshing,
    call,            \* the calls in flight
    drafts,          \* the Keychain, for each user name and Claw
    made,            \* history: how many requests were made
    owed             \* history: those no answer to which has arrived

appVars == <<token, me, choice, checks>>
shownVars == <<owner, claw, api, profile, events, pending>>
flagVars == <<busy, connecting, refreshing>>
vars == <<appVars, shownVars, flagVars, call, drafts, made, owed>>

Requests == [id : 1 .. MaxRequests, name : Users, claw : Claws]
Owners == [token : Users, name : Users]
CallRecords ==
    [kind : {"me", "events", "send"}, owner : Owners, claw : Claws,
     request : Requests \cup {None}, holds : {"nothing", "connecting", "busy"}, current : BOOLEAN]

ClientAssumption ==
    /\ MaxRequests \in Nat
    /\ None \notin Users \cup Claws \cup Calls \cup Owners \cup Requests \cup CallRecords

TypeOK ==
    /\ token \in Users \cup {None} /\ me \in Users \cup {None}
    /\ choice \in Claws /\ checks \subseteq Users
    /\ owner = None \/ owner \in Owners
    /\ claw \in Claws \cup {None}
    /\ api = None \/ api \in Owners
    /\ profile = None \/ (profile.of \in Users /\ profile.claws \subseteq Claws)
    /\ events \subseteq Users \X Claws
    /\ pending = None \/ pending \in Requests
    /\ busy \in BOOLEAN /\ connecting \in BOOLEAN /\ refreshing \in Calls \cup {None}
    /\ call \in [Calls -> CallRecords \cup {None}]
    /\ drafts \in [Users -> [Claws -> Requests \cup {None}]]
    /\ made \in 0 .. MaxRequests /\ owed \subseteq Requests

Init ==
    /\ token = None /\ me = None /\ choice \in Claws /\ checks = {}
    /\ owner = None /\ claw = None /\ api = None /\ profile = None
    /\ events = {} /\ pending = None
    /\ busy = FALSE /\ connecting = FALSE /\ refreshing = None
    /\ call = [c \in Calls |-> None]
    /\ drafts = [n \in Users |-> [k \in Claws |-> None]]
    /\ made = 0 /\ owed = {}

Connected == profile # None /\ claw \in profile.claws

Stale(calls) ==
    [c \in Calls |-> IF calls[c] = None THEN None ELSE [calls[c] EXCEPT !.current = FALSE]]
Without(c) == [call EXCEPT ![c] = None]

------------------------------------------------------------------------------
(* updateSession and disconnect, as AppModel calls them.                     *)

FlagsForgotten == refreshing' = None /\ UNCHANGED <<busy, connecting>>
FlagsCleared == busy' = FALSE /\ connecting' = FALSE /\ refreshing' = None

ClawMoved(o, k) ==
    /\ owner = o
    /\ claw' = k /\ events' = {} /\ pending' = drafts[o.name][k]
    /\ FlagsCleared /\ call' = Stale(call)
    /\ UNCHANGED <<owner, api, profile>>

\* A new owner's draft is read when the Claw changes too, or else on connecting.
OwnerMoved(o, k) ==
    /\ owner' = o /\ claw' = k /\ api' = None /\ profile' = None /\ events' = {}
    /\ pending' = IF claw # k THEN drafts[o.name][k] ELSE None
    /\ FlagsCleared /\ call' = Stale(call)

Disconnect ==
    /\ owner' = None /\ claw' = None /\ api' = None /\ profile' = None
    /\ events' = {} /\ pending' = None
    /\ FlagsCleared /\ call' = Stale(call)

UpdateSession(t, n, k) ==
    LET o == [token |-> t, name |-> n]
    IN  IF t = None THEN Disconnect
        ELSE IF owner # o THEN OwnerMoved(o, k)
        ELSE IF claw # k THEN ClawMoved(o, k)
        ELSE UNCHANGED <<shownVars, flagVars, call>>

------------------------------------------------------------------------------
(* AppModel.                                                                 *)

Login(u) ==
    /\ token = None
    /\ token' = u /\ checks' = checks \cup {u}
    /\ UNCHANGED <<me, choice, shownVars, flagVars, call, drafts, made, owed>>

\* Pulled down, or the app becomes active.
Refresh ==
    /\ token # None
    /\ checks' = checks \cup {token}
    /\ UNCHANGED <<token, me, choice, shownVars, flagVars, call, drafts, made, owed>>

\* The answer is about the account of the token it was asked with; the glasses are given
\* the token of now.  A Claw that is not the account's is replaced.
Refreshed(u) ==
    /\ u \in checks /\ checks' = checks \ {u}
    /\ me' = u /\ choice' \in Claws
    /\ UpdateSession(token, u, choice')
    /\ UNCHANGED <<token, drafts, made, owed>>

SignedOut ==
    /\ token' = None /\ me' = None
    /\ Disconnect
    /\ UNCHANGED <<choice, drafts, made, owed>>

RefreshUnauthorized(u) == u \in checks /\ checks' = checks \ {u} /\ SignedOut

RefreshFails(u) ==
    /\ u \in checks /\ checks' = checks \ {u}
    /\ UNCHANGED <<token, me, choice, shownVars, flagVars, call, drafts, made, owed>>

Logout == token # None /\ SignedOut /\ UNCHANGED checks

Select(k) ==
    /\ token # None /\ me # None
    /\ choice' = k
    /\ UpdateSession(token, me, k)
    /\ UNCHANGED <<token, me, checks, drafts, made, owed>>

\* The app is killed and started again: the Keychain and UserDefaults remain.
Restart ==
    /\ token # None
    /\ me' = None /\ checks' = {token}
    /\ owner' = None /\ claw' = None /\ api' = None /\ profile' = None
    /\ events' = {} /\ pending' = None
    /\ FlagsCleared /\ call' = [c \in Calls |-> None]
    /\ UNCHANGED <<token, choice, drafts, made, owed>>

------------------------------------------------------------------------------
(* Calls to the relay.                                                       *)

Called(c, kind, request, holds) ==
    [call EXCEPT ![c] = [kind |-> kind, owner |-> owner, claw |-> claw, request |-> request,
                         holds |-> holds, current |-> TRUE]]

Answers(c, kind) == call[c] # None /\ call[c].kind = kind

\* The flag its function cleared on return, if the epoch is still the call's.
Returns(c) ==
    /\ call' = Without(c)
    /\ busy' = (busy /\ ~(call[c].current /\ call[c].holds = "busy"))
    /\ connecting' = (connecting /\ ~(call[c].current /\ call[c].holds = "connecting"))

\* connect and retry go on to refresh, unless one is under way, and then return.
RefreshesOr(c, connected) ==
    IF connected /\ refreshing = None
    THEN /\ call' = [call EXCEPT ![c].kind = "events", ![c].request = None]
         /\ refreshing' = c
         /\ UNCHANGED <<busy, connecting>>
    ELSE Returns(c) /\ UNCHANGED refreshing

Connect(c) ==
    /\ call[c] = None /\ owner # None /\ ~connecting
    /\ call' = Called(c, "me", None, "connecting") /\ connecting' = TRUE
    /\ UNCHANGED <<appVars, shownVars, busy, refreshing, drafts, made, owed>>

AcceptedByClaw(c, claws) == call[c].current /\ claw \in claws

\* The account of the token must be the one the app shows, and have the Claw.
Accepted(c, claws) ==
    call[c].current /\ call[c].owner.token = call[c].owner.name /\ claw \in claws

ConnectAnswered(c) ==
    /\ Answers(c, "me")
    /\ \E claws \in SUBSET Claws :
          IF Accepted(c, claws)
          THEN /\ api' = owner /\ profile' = [of |-> call[c].owner.token, claws |-> claws]
               /\ pending' = drafts[owner.name][claw]
               /\ RefreshesOr(c, TRUE)
          ELSE Returns(c) /\ UNCHANGED <<api, profile, pending, refreshing>>
    /\ UNCHANGED <<appVars, owner, claw, events, drafts, made, owed>>

RefreshEvents(c) ==
    /\ call[c] = None /\ api # None /\ Connected /\ refreshing = None
    /\ call' = Called(c, "events", None, "nothing") /\ refreshing' = c
    /\ UNCHANGED <<appVars, shownVars, busy, connecting, drafts, made, owed>>

IsOfClaw(c) == call[c].claw = claw
IsOfNow(c) == call[c].current

EventsAnswered(c) ==
    /\ Answers(c, "events")
    /\ events' = IF IsOfNow(c) THEN events \cup {<<call[c].owner.token, call[c].claw>>} ELSE events
    /\ refreshing' = IF refreshing = c THEN None ELSE refreshing
    /\ Returns(c)
    /\ UNCHANGED <<appVars, owner, claw, api, profile, pending, drafts, made, owed>>

\* send saves the request, which it then tries as retry does.
Send(c) ==
    LET request == [id |-> made + 1, name |-> owner.name, claw |-> claw]
    IN  /\ call[c] = None /\ Connected /\ ~busy /\ pending = None /\ made < MaxRequests
        /\ drafts' = [drafts EXCEPT ![owner.name][claw] = request]
        /\ pending' = request /\ made' = made + 1 /\ owed' = owed \cup {request}
        /\ busy' = TRUE /\ call' = Called(c, "send", request, "busy")
        /\ UNCHANGED <<appVars, owner, claw, api, profile, events, connecting, refreshing>>

Retry(c) ==
    /\ call[c] = None /\ api # None /\ pending # None /\ Connected /\ ~busy
    /\ busy' = TRUE /\ call' = Called(c, "send", pending, "busy")
    /\ UNCHANGED <<appVars, shownVars, connecting, refreshing, drafts, made, owed>>

\* Confirmed: whatever draft is at the key of the call is deleted.
Confirmed(c) ==
    /\ Answers(c, "send")
    /\ drafts' = [drafts EXCEPT ![call[c].request.name][call[c].request.claw] = None]
    /\ owed' = owed \ {call[c].request}
    /\ IF call[c].current
       THEN pending' = None /\ RefreshesOr(c, Connected)
       ELSE Returns(c) /\ UNCHANGED <<pending, refreshing>>
    /\ UNCHANGED <<appVars, owner, claw, api, profile, events, made>>

\* Any error; an expired session also takes the profile and has AppModel look.
CallFails(c) ==
    /\ call[c] # None
    /\ refreshing' = IF refreshing = c THEN None ELSE refreshing
    /\ Returns(c)
    /\ \/ UNCHANGED <<profile, checks>>
       \/ /\ call[c].current
          /\ profile' = None /\ checks' = checks \cup ({token} \ {None})
    /\ UNCHANGED <<token, me, choice, owner, claw, api, events, pending, drafts, made, owed>>

Next ==
    \/ \E u \in Users : Login(u) \/ Refreshed(u) \/ RefreshUnauthorized(u) \/ RefreshFails(u)
    \/ Refresh \/ Logout \/ Restart
    \/ \E k \in Claws : Select(k)
    \/ \E c \in Calls :
          \/ Connect(c) \/ ConnectAnswered(c) \/ RefreshEvents(c) \/ EventsAnswered(c)
          \/ Send(c) \/ Retry(c) \/ Confirmed(c) \/ CallFails(c)

Spec == Init /\ [][Next]_vars

------------------------------------------------------------------------------
(* The properties, and what their proofs rest on.                            *)

\* A call of this epoch was made for what is selected now.
CallsOfNow ==
    \A c \in Calls : call[c] # None /\ call[c].current =>
        owner # None /\ call[c].owner = owner /\ call[c].claw = claw
\* A draft is under the account and the Claw it is for.
DraftsInPlace ==
    \A n \in Users, k \in Claws : drafts[n][k] # None =>
        drafts[n][k].name = n /\ drafts[n][k].claw = k
Selected == owner # None => claw \in Claws

\* What the glasses show and hold is the selected Claw's and the account's whose token
\* the app has, whatever answers late from before a switch, a sign-out or another login
\* (GlassesModel.swift:121-124, 171, 211-213).
ShownOfSelection ==
    IF owner = None THEN profile = None /\ api = None /\ events = {} /\ pending = None
    ELSE /\ owner.token = token
         /\ events \subseteq {<<owner.token, claw>>}
         /\ api # None => api = owner
         /\ profile # None => profile.of = owner.name
         /\ pending # None => pending.name = owner.name /\ pending.claw = claw

Holding(flag) == {c \in Calls : call[c] # None /\ call[c].current /\ call[c].holds = flag}

\* A flag is set exactly while a call of this epoch is to clear it: none stays set
\* because of a switch, none is cleared by a call from before it, and no second call
\* starts under it (GlassesModel.swift:84, 116, 151, 208).
FlagsOwned ==
    /\ Cardinality(Holding("busy")) = IF busy THEN 1 ELSE 0
    /\ Cardinality(Holding("connecting")) = IF connecting THEN 1 ELSE 0
    /\ refreshing # None => Answers(refreshing, "events") /\ call[refreshing].current

\* The same without counting.
Owned(flag, set) == IF set THEN \E c \in Calls : Holding(flag) = {c} ELSE Holding(flag) = {}
Flags ==
    /\ Owned("busy", busy) /\ Owned("connecting", connecting)
    /\ refreshing # None => Answers(refreshing, "events") /\ call[refreshing].current

Inductive == TypeOK /\ Selected /\ CallsOfNow /\ DraftsInPlace /\ ShownOfSelection /\ Flags

\* "A late reply belongs to the old assistant/account. It can clear only that draft"
\* (GlassesModel.swift:211): a request not confirmed is still in the Keychain.
DraftKept == \A r \in owed : drafts[r.name][r.claw] = r
=============================================================================
