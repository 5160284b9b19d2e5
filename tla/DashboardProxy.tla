----------------------------- MODULE DashboardProxy -----------------------------
(***************************************************************************)
(* What a remote dashboard carries once its session is open:               *)
(* remote-dashboard/proxy-broker.mjs and proxy-transport.mjs over the      *)
(* sockets of docker-socket.mjs.  WebSockets and HTTP requests of one      *)
(* viewer go to the Claw's gateway; each of them asks authorizeViewer of   *)
(* remote-connect/broker.mjs, which sweeps first, so that a session that   *)
(* is due ends by being used.  Its end closes the transport: the sockets   *)
(* are destroyed at once, what hangs on them learns it later.              *)
(*                                                                         *)
(* How a session is created, unlocked and ended is RemoteConnect's; here   *)
(* it may be due or ended at any time.  Headers, redirects, credentials    *)
(* and the contents of messages are left out.                              *)
(***************************************************************************)
EXTENDS Naturals, FiniteSets

CONSTANTS
    Streams,      \* slots for WebSockets
    Calls,        \* slots for HTTP requests
    MaxSockets    \* 6 in the code

VARIABLES
    session,      \* probing its gateway, live, due or ended; ended is the transport's closed
    probe,        \* the socket of request("select")
    stream, call,
    ticks         \* history variable: pings since the browser last answered one

vars == <<session, probe, stream, call, ticks>>

NoStream == [browser |-> "none", gateway |-> "none", asked |-> FALSE, connected |-> FALSE, alive |-> TRUE]

TypeOK ==
    /\ session \in {"probing", "live", "due", "ended"}
    /\ probe \in {"open", "closing", "closed"}
    /\ stream \in [Streams -> [browser : {"none", "open", "silent", "closed"},
                               gateway : {"none", "opening", "open", "closed"},
                               asked : BOOLEAN, connected : BOOLEAN, alive : BOOLEAN]]
    /\ call \in [Calls -> {"idle", "queued", "open", "destroyed"}]
    /\ ticks \in [Streams -> Nat]

Init ==
    /\ session = "probing" /\ probe = "open"
    /\ stream = [w \in Streams |-> NoStream]
    /\ call = [c \in Calls |-> "idle"] /\ ticks = [w \in Streams |-> 0]

------------------------------------------------------------------------------
(* The end of the transport and of one stream.                               *)

Up(w) == stream[w].gateway \in {"opening", "open"}

\* close(): every socket is destroyed.
Destroyed == [w \in Streams |-> IF Up(w) THEN [stream[w] EXCEPT !.gateway = "closed"] ELSE stream[w]]
Dropped == [c \in Calls |-> IF call[c] = "open" THEN "destroyed" ELSE call[c]]

Close ==
    /\ session' = "ended" /\ probe' = "closed" /\ call' = Dropped

\* end(): both sides of the stream are terminated.
Terminated(st, w) == [st EXCEPT ![w].browser = "closed", ![w].gateway = "closed"]

\* authorize() returns, or throws into a handler that ends the stream.
Authorized == session = "live"
Rejected(w) == ~Authorized /\ Close /\ stream' = Terminated(Destroyed, w) /\ UNCHANGED ticks

Attending(w) == stream[w].browser \in {"open", "silent"}

Becomes(w, s) == /\ stream' = [stream EXCEPT ![w] = s]
                 /\ UNCHANGED <<session, probe, call>>

------------------------------------------------------------------------------
(* The gateway is tried before the session is issued.                        *)

\* The handshake of the WebSocket's own end may take its time.
ProbeSucceeds ==
    /\ session = "probing" /\ session' = "live" /\ probe' = "closing"
    /\ UNCHANGED <<stream, call, ticks>>

ProbeFails ==
    /\ session = "probing" /\ Close
    /\ UNCHANGED <<stream, ticks>>

ProbeCloses ==
    /\ probe = "closing" /\ probe' = "closed"
    /\ UNCHANGED <<session, stream, call, ticks>>

------------------------------------------------------------------------------
(* WebSockets.                                                               *)

AlwaysAllowed == TRUE
\* socket() throws once the transport is closed.
SocketAllowed == session # "ended"

\* A rejected upgrade ends the session if it was due.
Upgrade(w) ==
    /\ session # "probing" /\ stream[w].browser = "none"
    /\ \/ Authorized /\ SocketAllowed /\ Becomes(w, [NoStream EXCEPT !.browser = "open", !.gateway = "opening"])
       \/ ~Authorized /\ Close /\ stream' = Destroyed
    /\ UNCHANGED ticks

GatewayOpens(w) ==
    /\ stream[w].gateway = "opening"
    /\ Becomes(w, [stream[w] EXCEPT !.gateway = "open"])
    /\ UNCHANGED ticks

\* An error or the end of either side, a handshake that takes too long, a message that
\* is binary, is no JSON or does not fit in the buffers.
StreamEnds(w) ==
    /\ Attending(w)
    /\ stream' = Terminated(stream, w)
    /\ UNCHANGED <<session, probe, call, ticks>>

\* A viewer's only connect frame is sent on with the gateway's credentials.
BrowserConnects(w) ==
    /\ stream[w].browser = "open"
    /\ \/ Rejected(w)
       \/ /\ Authorized /\ UNCHANGED ticks
          /\ IF stream[w].gateway = "open" /\ ~stream[w].asked
             THEN Becomes(w, [stream[w] EXCEPT !.asked = TRUE])
             ELSE stream' = Terminated(stream, w) /\ UNCHANGED <<session, probe, call>>

\* Anything else passes after the gateway's hello only.
BrowserSends(w) ==
    /\ stream[w].browser = "open"
    /\ \/ Rejected(w)
       \/ /\ Authorized /\ ~(stream[w].gateway = "open" /\ stream[w].connected)
          /\ stream' = Terminated(stream, w) /\ UNCHANGED <<session, probe, call, ticks>>

\* A hello, a refusal, or something else, which changes nothing.
GatewaySends(w) ==
    /\ stream[w].gateway = "open"
    /\ \/ Rejected(w)
       \/ /\ Authorized /\ stream[w].asked
          /\ \E ok \in BOOLEAN : Becomes(w, [stream[w] EXCEPT !.connected = ok])
          /\ UNCHANGED ticks

\* The connection of the browser is gone and nothing says so.
Vanishes(w) ==
    /\ stream[w].browser = "open"
    /\ Becomes(w, [stream[w] EXCEPT !.browser = "silent"])
    /\ UNCHANGED ticks

Pong(w) ==
    /\ stream[w].browser = "open" /\ ticks[w] > 0
    /\ Becomes(w, [stream[w] EXCEPT !.alive = TRUE])
    /\ ticks' = [ticks EXCEPT ![w] = 0]

\* Every 15 seconds, until the stream ends.
Tick(w) ==
    /\ Attending(w)
    /\ \/ Rejected(w)
       \/ /\ Authorized
          /\ IF stream[w].alive
             THEN /\ Becomes(w, [stream[w] EXCEPT !.alive = FALSE])
                  /\ ticks' = [ticks EXCEPT ![w] = @ + 1]
             ELSE stream' = Terminated(stream, w) /\ UNCHANGED <<session, probe, call, ticks>>

Forget(w) ==
    /\ stream[w].browser = "closed"
    /\ Becomes(w, NoStream)
    /\ ticks' = [ticks EXCEPT ![w] = 0]

------------------------------------------------------------------------------
(* HTTP requests, which share the agent's sockets.                           *)

Free == Cardinality({c \in Calls : call[c] \in {"open", "destroyed"}}) < MaxSockets

Http(c) ==
    /\ session # "probing" /\ call[c] = "idle"
    /\ \/ /\ Authorized
          /\ call' = [call EXCEPT ![c] = IF Free THEN "open" ELSE "queued"]
          /\ UNCHANGED <<session, probe, stream>>
       \/ ~Authorized /\ Close /\ stream' = Destroyed
    /\ UNCHANGED ticks

\* When a request is done, fails, or is aborted, or its socket is gone, the agent takes a
\* request that waits and asks for a socket for it.
HttpEnds(c) ==
    /\ call[c] \in {"open", "destroyed"}
    /\ LET waiting == {d \in Calls : call[d] = "queued"}
       IN  IF waiting = {} THEN call' = [call EXCEPT ![c] = "idle"]
           ELSE \E d \in waiting :
                   call' = [call EXCEPT ![c] = "idle", ![d] = IF SocketAllowed THEN "open" ELSE "idle"]
    /\ UNCHANGED <<session, probe, stream, ticks>>

HttpAborted(c) ==
    /\ call[c] = "queued" /\ call' = [call EXCEPT ![c] = "idle"]
    /\ UNCHANGED <<session, probe, stream, ticks>>

------------------------------------------------------------------------------
\* Its time is over, the viewer is idle, or the tenant's key was revoked.
Due ==
    /\ session = "live" /\ session' = "due"
    /\ UNCHANGED <<probe, stream, call, ticks>>

\* The broker's own sweep, a close by the viewer, a replacement or a shutdown.
Ended ==
    /\ session \in {"live", "due"} /\ Close
    /\ stream' = Destroyed
    /\ UNCHANGED ticks

Next ==
    \/ ProbeSucceeds \/ ProbeFails \/ ProbeCloses \/ Due \/ Ended
    \/ \E w \in Streams :
          \/ Upgrade(w) \/ GatewayOpens(w) \/ StreamEnds(w) \/ BrowserConnects(w) \/ BrowserSends(w)
          \/ GatewaySends(w) \/ Vanishes(w) \/ Pong(w) \/ Tick(w) \/ Forget(w)
    \/ \E c \in Calls : Http(c) \/ HttpEnds(c) \/ HttpAborted(c)

Spec == Init /\ [][Next]_vars

------------------------------------------------------------------------------
\* When a session ends, by whatever request or timer notices it, nothing of it reaches
\* the gateway any more: neither the streams nor the requests in flight, nor those that
\* waited for a socket (README.md:29-31).  A browser that no longer answers holds its
\* stream for two rounds of the timer at most (proxy-transport.mjs:76-80).
AccessEnds ==
    /\ session = "ended" =>
          /\ probe = "closed"
          /\ \A w \in Streams : ~Up(w)
          /\ \A c \in Calls : call[c] # "open"
    /\ \A w \in Streams : Attending(w) => ticks[w] <= 1
\* What a step starts from besides: the pings without an answer are what the
\* alive flag says, and a slot that no browser uses counts none.
Counted == \A w \in Streams : Attending(w) => ticks[w] = IF stream[w].alive THEN 0 ELSE 1
Unused == \A w \in Streams : stream[w].browser = "none" => ticks[w] = 0
\* No stream before the session was issued: a session whose gateway cannot be reached has none.
Untried == session = "probing" => \A w \in Streams : ~Up(w)

Inductive == TypeOK /\ AccessEnds /\ Counted /\ Unused /\ Untried
=============================================================================
