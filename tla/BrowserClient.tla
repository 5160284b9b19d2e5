----------------------------- MODULE BrowserClient -----------------------------
(***************************************************************************)
(* The program a remote browser login runs inside the Claw's container:    *)
(* remote-connect/browser-bridge.mjs, which takes one request at a time,   *)
(* with browser-client.mjs, which keeps a CDP connection to one of         *)
(* Chromium's tabs.  Tabs open and close by themselves, a connection may   *)
(* be lost at any moment, and any step that waits may fail or time out.    *)
(*                                                                         *)
(* An action is what happens between two awaits.  A request that waits for *)
(* a command is woken by its reply or, when the connection is lost, by the *)
(* rejection; events of an earlier connection are ignored by the code      *)
(* (lines 45 and 51) and left out.  So are pixels and what is typed.       *)
(***************************************************************************)
EXTENDS Naturals, FiniteSets, Sequences, SequencesExt, FiniteSetsExt

CONSTANTS
    Tabs,
    NoTab,
    Remembered,   \* 16 in the code: how many tabs it can go back to
    MaxQueued     \* bound on the requests that wait; 32 in the transport

VARIABLES
    pages,        \* the tabs Chromium has open
    socket,       \* the CDP connection
    attached,     \* the tab the latest connection was made to
    targetId,
    history,
    reconnect,
    queue,        \* the lines the bridge has not handled
    work,         \* the request being handled and what it waits for
    shown         \* history variable: the tab the latest answer named

vars == <<pages, socket, attached, targetId, history, reconnect, queue, work, shown>>

Select(tab, fallback) == [action |-> "select", tab |-> tab, fallback |-> fallback]
Plain(action) == [action |-> action, tab |-> NoTab, fallback |-> FALSE]
\* Text and scrolling are one command, a key or a click are two.
Lines == {Plain(a) : a \in {"tabs", "frame", "text", "click"}}
             \cup {Select(t, f) : t \in Tabs \cup {NoTab}, f \in BOOLEAN}
Nothing == [line |-> Plain("none"), at |-> "idle", recovering |-> FALSE]

TypeOK ==
    /\ pages \subseteq Tabs
    /\ socket \in {"none", "connecting", "open"}
    /\ {attached, targetId, shown} \subseteq Tabs \cup {NoTab}
    /\ history \in Seq(Tabs) /\ Len(history) <= Remembered
    /\ reconnect \in BOOLEAN
    /\ queue \in Seq(Lines) /\ Len(queue) <= MaxQueued
    /\ work.line \in Lines \cup {Plain("none")} /\ work.recovering \in BOOLEAN
    /\ work.at \in {"idle", "listing", "connecting", "fronting", "tabs", "frame", "shooting",
                    "typing", "releasing", "exited"}

Init ==
    /\ pages \in SUBSET Tabs /\ socket = "none"
    /\ attached = NoTab /\ targetId = NoTab /\ shown = NoTab
    /\ history = <<>> /\ reconnect = FALSE /\ queue = <<>> /\ work = Nothing

------------------------------------------------------------------------------
(* The bridge and the start of handle().                                     *)

Ask(line) ==
    /\ work.at # "exited" /\ Len(queue) < MaxQueued
    /\ queue' = Append(queue, line)
    /\ UNCHANGED <<pages, socket, attached, targetId, history, reconnect, work, shown>>

Detached == reconnect \/ socket # "open"

\* What an action does once a tab is attached.
FirstStep(line) ==
    IF line.action \in {"text", "click"} THEN "typing" ELSE line.action

Handle ==
    /\ work.at = "idle" /\ queue # <<>>
    /\ LET line == Head(queue)
           recovers == line.action # "select" /\ Detached
       IN  work' = [line |-> line, recovering |-> recovers,
                    at |-> IF recovers \/ line.action = "select" THEN "listing" ELSE FirstStep(line)]
    /\ queue' = Tail(queue)
    /\ UNCHANGED <<pages, socket, attached, targetId, history, reconnect, shown>>

\* The catch block, whatever was thrown: nothing is sent again.
Fail ==
    /\ work' = Nothing /\ reconnect' = TRUE /\ socket' = "none"
    /\ UNCHANGED <<pages, attached, targetId, history, queue, shown>>

Interrupted == work.at \notin {"idle", "exited"} /\ Fail

Answer ==
    /\ work' = Nothing
    /\ shown' = IF FirstStep(work.line) = "typing" THEN shown ELSE targetId
    /\ UNCHANGED <<pages, socket, attached, targetId, history, reconnect, queue>>

Proceed(at) ==
    /\ work' = [work EXCEPT !.at = at]
    /\ UNCHANGED <<pages, socket, attached, targetId, history, reconnect, queue, shown>>

------------------------------------------------------------------------------
(* Choosing a tab and attaching to it.                                       *)

\* pages[0] may be any of them.
Selected(line) ==
    IF line.tab \in pages THEN {line.tab}
    ELSE IF line.fallback \/ (line.tab = NoTab /\ Cardinality(pages) = 1) THEN pages ELSE {}

\* The tab used last among those that are left.
Recovered ==
    LET left == {k \in DOMAIN history : history[k] \in pages}
    IN  IF left # {} THEN {history[Max(left)]} ELSE IF targetId \in pages THEN {targetId} ELSE pages

\* A missing tab is an error, as every other failure of a step.
Attach ==
    /\ work.at = "listing"
    /\ attached' \in IF work.recovering THEN Recovered ELSE Selected(work.line)
    /\ socket' = "connecting"
    /\ work' = [work EXCEPT !.at = "connecting"]
    /\ UNCHANGED <<pages, targetId, history, reconnect, queue, shown>>

Remember(t) ==
    LET longer == IF history # <<>> /\ Last(history) = t THEN history ELSE Append(history, t)
    IN  IF Len(longer) > Remembered THEN Tail(longer) ELSE longer

Opened ==
    /\ work.at = "connecting" /\ socket = "connecting" /\ attached \in pages
    /\ socket' = "open" /\ targetId' = attached /\ history' = Remember(attached)
    /\ reconnect' = FALSE
    /\ work' = [work EXCEPT !.at = "fronting"]
    /\ UNCHANGED <<pages, attached, queue, shown>>

NothingIsHeldBack == FALSE
\* Input that waited while a tab was lost.
HeldBack == work.recovering /\ FirstStep(work.line) = "typing"

Fronted ==
    /\ work.at = "fronting" /\ socket = "open"
    /\ IF work.line.action = "select" THEN Answer
       ELSE IF HeldBack THEN Fail
       ELSE Proceed(FirstStep(work.line))

------------------------------------------------------------------------------
(* The actions proper.                                                       *)

ListTabs == work.at = "tabs" /\ Answer
BringToFront == work.at = "frame" /\ socket = "open" /\ Proceed("shooting")
\* Three replies; the size of the window may be missing, which is a failure.
Shoot == work.at = "shooting" /\ socket = "open" /\ Answer
Typed ==
    /\ work.at = "typing" /\ socket = "open"
    /\ IF work.line.action = "click" THEN Proceed("releasing") ELSE Answer
Released == work.at = "releasing" /\ socket = "open" /\ Answer

------------------------------------------------------------------------------
(* Chromium, and the end of the bridge.                                      *)

TabOpens(t) ==
    /\ work.at # "exited" /\ t \notin pages /\ pages' = pages \cup {t}
    /\ UNCHANGED <<socket, attached, targetId, history, reconnect, queue, work, shown>>

TabCloses(t) ==
    /\ work.at # "exited" /\ t \in pages /\ pages' = pages \ {t}
    /\ UNCHANGED <<socket, attached, targetId, history, reconnect, queue, work, shown>>

\* Also when its tab closed; what waits for it can only fail.
ConnectionLost ==
    /\ socket # "none" /\ socket' = "none"
    /\ UNCHANGED <<pages, attached, targetId, history, reconnect, queue, work, shown>>

\* The broker closed the pipe, or 16 minutes are over.
Exit ==
    /\ work.at # "exited" /\ socket' = "none"
    /\ work' = [Nothing EXCEPT !.at = "exited"] /\ queue' = <<>>
    /\ UNCHANGED <<pages, attached, targetId, history, reconnect, shown>>

Next ==
    \/ \E line \in Lines : Ask(line)
    \/ \E t \in Tabs : TabOpens(t) \/ TabCloses(t)
    \/ Handle \/ Interrupted \/ Attach \/ Opened \/ Fronted
    \/ ListTabs \/ BringToFront \/ Shoot \/ Typed \/ Released
    \/ ConnectionLost \/ Exit

Spec == Init /\ [][Next]_vars

------------------------------------------------------------------------------
(* The property, and what its proof rests on.                                *)

\* A request waits for what its action makes it wait for; only a selection, or a request
\* that found the client detached, attaches.
Staged ==
    /\ queue \in Seq(Lines)
    /\ work \in [line : Lines \cup {Plain("none")}, recovering : BOOLEAN,
                 at : {"idle", "listing", "connecting", "fronting", "tabs", "frame", "shooting",
                       "typing", "releasing", "exited"}]
    /\ work.line \in Lines \/ work.at \in {"idle", "exited"}
    /\ work.at \in {"listing", "connecting", "fronting"} =>
          work.line.action = "select" \/ work.recovering
    /\ work.at \in {"typing", "releasing"} <=>
          /\ FirstStep(work.line) = "typing"
          /\ work.at \notin {"listing", "connecting", "fronting"}

\* A connection is to the tab the client names, and between two requests to the one that was
\* shown.
ConnectedToShown ==
    /\ socket = "open" => attached = targetId
    /\ socket = "open" /\ work.at = "idle" => attached = shown

\* Keys and clicks only reach the tab named by the latest answer to a selection, a
\* list of tabs or a frame, never one the client fell back to on its own, however
\* tabs close and connections are lost under the requests that wait
\* (browser-client.mjs:78-79).
InputIsShown == work.at \in {"typing", "releasing"} => attached = shown

Inductive == Staged /\ ConnectedToShown /\ InputIsShown
=============================================================================
