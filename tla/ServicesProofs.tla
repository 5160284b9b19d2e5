----------------------------- MODULE ServicesProofs -----------------------------
(***************************************************************************)
(* Proofs about the parts that share no state, for every value of their    *)
(* constants.  Each part has an inductive invariant, Inductive in its      *)
(* module; a behaviour of MCServices is one of a single part, so that its  *)
(* invariant holds while the part is the one that runs.                    *)
(***************************************************************************)
EXTENDS MCServices, SequencesExt, SequenceTheorems, FiniteSetTheorems, WellFoundedInduction, TLAPS

------------------------------------------------------------------------------
(* DashboardProxy.                                                           *)

\* Before the gateway was tried nothing is open (proxy-transport.mjs:92-101).
LEMMA ProxyInit == Proxy!Init => Proxy!Inductive
BY SMT DEF Proxy!Init, Proxy!Inductive, Proxy!TypeOK, Proxy!AccessEnds, Proxy!Counted,
    Proxy!Unused, Proxy!Untried,
   Proxy!Up, Proxy!Attending, Proxy!NoStream

\* One record of a stream.
ProxyStream == [browser : {"none", "open", "silent", "closed"}, gateway : {"none", "opening", "open", "closed"},
                asked : BOOLEAN, connected : BOOLEAN, alive : BOOLEAN]

\* A stream of a session that goes on may change, as long as its pings stay counted and it opens
\* no socket of a session that ended.
LEMMA ProxyChanges ==
    ASSUME Proxy!Inductive, NEW w \in Streams, NEW s \in ProxyStream,
           v3' = [v3 EXCEPT ![w] = s], UNCHANGED <<v1, v2, v4>>,
           NEW n \in Nat, v5' = [v5 EXCEPT ![w] = n],
           s.gateway \in {"opening", "open"} => v1 \in {"live", "due"},
           s.browser \in {"open", "silent"} => n = IF s.alive THEN 0 ELSE 1,
           s.browser = "none" => n = 0
    PROVE  Proxy!Inductive'
<1> USE DEF Proxy!Inductive, ProxyStream
<1>1. Proxy!TypeOK'
    BY DEF Proxy!TypeOK
<1>2. /\ v3'[w] = s /\ v5'[w] = n
      /\ \A u \in Streams \ {w} : v3'[u] = v3[u] /\ v5'[u] = v5[u]
    BY DEF Proxy!TypeOK
<1>3. Proxy!AccessEnds'
    BY <1>2 DEF Proxy!AccessEnds, Proxy!Up, Proxy!Attending
<1>4. Proxy!Counted' /\ Proxy!Unused' /\ Proxy!Untried'
    BY <1>2 DEF Proxy!Counted, Proxy!Unused, Proxy!Untried, Proxy!Attending, Proxy!Up, Proxy!TypeOK
<1> QED
    BY <1>1, <1>3, <1>4

\* The end of one stream (proxy-transport.mjs:81-88).
LEMMA ProxyTerminates ==
    ASSUME Proxy!Inductive, NEW w \in Streams,
           v3' = Proxy!Terminated(v3, w), UNCHANGED <<v1, v2, v4, v5>>
    PROVE  Proxy!Inductive'
<1> DEFINE s == [v3[w] EXCEPT !.browser = "closed", !.gateway = "closed"]
<1>1. /\ v3 \in [Streams -> ProxyStream] /\ v5 \in [Streams -> Nat]
    BY DEF Proxy!Inductive, Proxy!TypeOK, ProxyStream
<1>2. s \in ProxyStream /\ s.browser = "closed" /\ s.gateway = "closed"
    BY <1>1 DEF ProxyStream
<1>3. v3' = [v3 EXCEPT ![w] = s] /\ v5' = [v5 EXCEPT ![w] = v5[w]]
    BY <1>1 DEF Proxy!Terminated
<1> HIDE DEF s
<1> QED
    BY <1>1, <1>2, <1>3, ProxyChanges

\* The end of the session destroys every socket there is (proxy-transport.mjs:15-19).
LEMMA ProxyEnds ==
    ASSUME Proxy!Inductive, Proxy!Close, UNCHANGED v5, v3' \in [Streams -> ProxyStream],
           \A w \in Streams : /\ v3'[w].gateway \notin {"opening", "open"}
                             /\ \/ v3'[w].browser = "closed"
                                \/ v3'[w].browser = v3[w].browser /\ v3'[w].alive = v3[w].alive
    PROVE  Proxy!Inductive'
<1> USE DEF Proxy!Inductive, ProxyStream, Proxy!Close
<1>1. \A c \in Calls : v4'[c] \in {"idle", "queued", "destroyed"}
    BY DEF Proxy!TypeOK, Proxy!Dropped
<1>2. Proxy!TypeOK'
    BY DEF Proxy!TypeOK, Proxy!Dropped
<1>3. Proxy!AccessEnds'
    BY <1>1 DEF Proxy!AccessEnds, Proxy!Up, Proxy!Attending
<1>4. Proxy!Counted' /\ Proxy!Unused' /\ Proxy!Untried'
    BY DEF Proxy!Counted, Proxy!Unused, Proxy!Untried, Proxy!Attending
<1> QED
    BY <1>2, <1>3, <1>4

\* Of the streams that are destroyed only the socket changes.
LEMMA ProxyDestroyed ==
    ASSUME Proxy!Inductive
    PROVE  /\ Proxy!Destroyed \in [Streams -> ProxyStream]
           /\ \A w \in Streams : /\ Proxy!Destroyed[w].gateway \notin {"opening", "open"}
                                /\ Proxy!Destroyed[w].browser = v3[w].browser
                                /\ Proxy!Destroyed[w].alive = v3[w].alive
BY DEF Proxy!Inductive, Proxy!TypeOK, ProxyStream, Proxy!Destroyed, Proxy!Up

\* A session that ends by being used takes the stream that used it along.
LEMMA ProxyRejects ==
    ASSUME Proxy!Inductive, NEW w \in Streams, Proxy!Rejected(w)
    PROVE  Proxy!Inductive'
<1> DEFINE D == Proxy!Destroyed
<1>1. /\ D \in [Streams -> ProxyStream]
      /\ \A u \in Streams : /\ D[u].gateway \notin {"opening", "open"}
                           /\ D[u].browser = v3[u].browser
                           /\ D[u].alive = v3[u].alive
    BY ProxyDestroyed
<1>2. v3' = [[D EXCEPT ![w].browser = "closed"] EXCEPT ![w].gateway = "closed"]
    BY DEF Proxy!Rejected, Proxy!Terminated
<1>3. Proxy!Close /\ v5' = v5
    BY DEF Proxy!Rejected
<1>s. D[w] \in ProxyStream
    BY <1>1
<1>t. [[D[w] EXCEPT !.browser = "closed"] EXCEPT !.gateway = "closed"] \in ProxyStream
    BY <1>s DEF ProxyStream
<1> HIDE DEF D
<1>4. v3' \in [Streams -> ProxyStream]
    BY <1>1, <1>2, <1>t
<1>5. /\ v3'[w].gateway = "closed" /\ v3'[w].browser = "closed"
      /\ \A u \in Streams \ {w} : v3'[u] = D[u]
    BY <1>1, <1>2 DEF ProxyStream
<1> QED
    BY <1>1, <1>3, <1>4, <1>5, ProxyEnds

\* Whatever a viewer, the gateway, a timer or the broker does next (proxy-transport.mjs:15-101,
\* proxy-broker.mjs:46-90).
LEMMA ProxyStep == Proxy!Inductive /\ Proxy!Next => Proxy!Inductive'
<1> SUFFICES ASSUME Proxy!Inductive, Proxy!Next
             PROVE  Proxy!Inductive'
    OBVIOUS
<1>0. /\ v3 \in [Streams -> ProxyStream] /\ v5 \in [Streams -> Nat]
      /\ v4 \in [Calls -> {"idle", "queued", "open", "destroyed"}]
      /\ v1 \in {"probing", "live", "due", "ended"} /\ v2 \in {"open", "closing", "closed"}
      /\ \A w \in Streams : v3[w] \in ProxyStream /\ v5[w] \in Nat
    BY DEF Proxy!Inductive, Proxy!TypeOK, ProxyStream
<1>l. /\ v1 = "probing" => \A w \in Streams : v3[w].gateway \notin {"opening", "open"}
      /\ v1 = "ended" => /\ v2 = "closed"
                         /\ \A w \in Streams : v3[w].gateway \notin {"opening", "open"}
                         /\ \A c \in Calls : v4[c] # "open"
      /\ \A w \in Streams : v3[w].browser \in {"open", "silent"} => v5[w] = IF v3[w].alive THEN 0 ELSE 1
      /\ \A w \in Streams : v3[w].browser = "none" => v5[w] = 0
      /\ \A w \in Streams : v5' = v5 => v5' = [v5 EXCEPT ![w] = v5[w]]
    BY <1>0 DEF Proxy!Inductive, Proxy!AccessEnds, Proxy!Up, Proxy!Counted, Proxy!Unused,
        Proxy!Untried, Proxy!Attending
<1>s. ASSUME UNCHANGED <<v3, v5>>, v1' \in {"live", "due", "ended"}, v2' \in {"closing", "closed"} \cup {v2},
             v4' \in [Calls -> {"idle", "queued", "open", "destroyed"}],
             v1' = "ended" => v1 = "ended" /\ v2' = "closed" /\ \A c \in Calls : v4'[c] # "open"
      PROVE  Proxy!Inductive'
    BY <1>s DEF Proxy!Inductive, Proxy!TypeOK, Proxy!AccessEnds, Proxy!Counted, Proxy!Unused,
        Proxy!Untried, Proxy!Up,
       Proxy!Attending
<1>p. ASSUME UNCHANGED <<v1, v3, v5>>, v2' \in {"closing", "closed"} \cup {v2},
             v4' \in [Calls -> {"idle", "queued", "open", "destroyed"}],
             v1 = "ended" => v2' = "closed" /\ \A c \in Calls : v4'[c] # "open"
      PROVE  Proxy!Inductive'
    BY <1>p DEF Proxy!Inductive, Proxy!TypeOK, Proxy!AccessEnds, Proxy!Counted, Proxy!Unused,
        Proxy!Untried, Proxy!Up,
       Proxy!Attending
<1>d. ASSUME Proxy!Close, UNCHANGED v5, v3' = Proxy!Destroyed
      PROVE  Proxy!Inductive'
    BY <1>d, ProxyDestroyed, ProxyEnds
<1>c. ASSUME NEW w \in Streams, NEW s \in ProxyStream,
             v3' = [v3 EXCEPT ![w] = s], UNCHANGED <<v1, v2, v4, v5>>,
             s.gateway \in {"opening", "open"} => v1 \in {"live", "due"},
             s.browser = v3[w].browser \/ (s.browser = "silent" /\ v3[w].browser = "open"),
             s.alive = v3[w].alive
      PROVE  Proxy!Inductive'
    <2> DEFINE n == v5[w]
    <2>1. /\ n \in Nat /\ v5' = [v5 EXCEPT ![w] = n]
          /\ s.browser \in {"open", "silent"} => n = IF s.alive THEN 0 ELSE 1
          /\ s.browser = "none" => n = 0
        BY <1>c, <1>0, <1>l
    <2> HIDE DEF n
    <2> QED
        BY <2>1, <1>c, ProxyChanges
<1>1. CASE Proxy!ProbeSucceeds
    BY <1>1, <1>0, <1>s DEF Proxy!ProbeSucceeds
<1>2. CASE Proxy!ProbeFails
    BY <1>2, <1>0, <1>l, ProxyEnds DEF Proxy!ProbeFails
<1>3. CASE Proxy!ProbeCloses
    BY <1>3, <1>0, <1>l, <1>p DEF Proxy!ProbeCloses
<1>4. CASE Proxy!Due
    BY <1>4, <1>0, <1>s DEF Proxy!Due
<1>5. CASE Proxy!Ended
    BY <1>5, <1>d DEF Proxy!Ended
<1>6. ASSUME NEW w \in Streams, Proxy!Upgrade(w)
      PROVE  Proxy!Inductive'
    <2>1. CASE Proxy!Authorized
        <3> DEFINE s == [Proxy!NoStream EXCEPT !.browser = "open", !.gateway = "opening"]
        <3>1. s \in ProxyStream /\ s.browser = "open" /\ s.alive
            BY DEF Proxy!NoStream, ProxyStream
        <3>2. /\ v3' = [v3 EXCEPT ![w] = s] /\ UNCHANGED <<v1, v2, v4, v5>>
              /\ v5' = [v5 EXCEPT ![w] = 0] /\ v1 = "live"
            BY <1>6, <2>1, <1>0, <1>l DEF Proxy!Becomes, Proxy!Upgrade, Proxy!Authorized
        <3> HIDE DEF s
        <3>3. /\ s.gateway \in {"opening", "open"} => v1 # "ended" /\ v1 # "probing"
              /\ s.browser \in {"open", "silent"} => 0 = IF s.alive THEN 0 ELSE 1
              /\ s.browser = "none" => 0 = 0
            BY <3>1, <3>2
        <3> QED
            BY <3>1, <3>2, <3>3, ProxyChanges
    <2>2. CASE ~Proxy!Authorized
        BY <1>6, <2>2, <1>d DEF Proxy!Upgrade
    <2> QED
        BY <2>1, <2>2
<1>7. ASSUME NEW w \in Streams, Proxy!GatewayOpens(w)
      PROVE  Proxy!Inductive'
    <2> DEFINE s == [v3[w] EXCEPT !.gateway = "open"]
    <2>1. s \in ProxyStream /\ s.browser = v3[w].browser /\ s.alive = v3[w].alive
        BY <1>0 DEF ProxyStream
    <2>2. /\ v3' = [v3 EXCEPT ![w] = s] /\ UNCHANGED <<v1, v2, v4, v5>>
          /\ v1 \in {"live", "due"}
        BY <1>7, <1>0, <1>l DEF Proxy!Becomes, Proxy!GatewayOpens
    <2> HIDE DEF s
    <2>3. /\ s.gateway \in {"opening", "open"} => v1 \in {"live", "due"}
          /\ s.browser = v3[w].browser \/ (s.browser = "silent" /\ v3[w].browser = "open")
        BY <2>1, <2>2, <1>0, <1>l
    <2> QED
        BY <2>1, <2>2, <2>3, <1>c
<1>8. ASSUME NEW w \in Streams, Proxy!StreamEnds(w)
      PROVE  Proxy!Inductive'
    BY <1>8, ProxyTerminates DEF Proxy!StreamEnds
<1>10. ASSUME NEW w \in Streams, Proxy!BrowserConnects(w)
       PROVE  Proxy!Inductive'
    <2>1. CASE v3[w].gateway = "open" /\ Proxy!Becomes(w, [v3[w] EXCEPT !.asked = TRUE]) /\ UNCHANGED v5
        <3> DEFINE s == [v3[w] EXCEPT !.asked = TRUE]
        <3>1. /\ s \in ProxyStream /\ s.browser = v3[w].browser /\ s.alive = v3[w].alive
              /\ s.gateway = v3[w].gateway
            BY <1>0 DEF ProxyStream
        <3>2. v3' = [v3 EXCEPT ![w] = s] /\ UNCHANGED <<v1, v2, v4, v5>>
            BY <2>1 DEF Proxy!Becomes
        <3> HIDE DEF s
        <3>3. /\ s.gateway \in {"opening", "open"} => v1 \in {"live", "due"}
              /\ s.browser = v3[w].browser \/ (s.browser = "silent" /\ v3[w].browser = "open")
            BY <3>1, <3>2, <1>0, <1>l
        <3> QED
            BY <3>1, <3>2, <3>3, <1>c
    <2> QED
        BY <1>10, <2>1, ProxyTerminates, ProxyRejects DEF Proxy!BrowserConnects
<1>11. ASSUME NEW w \in Streams, Proxy!BrowserSends(w)
       PROVE  Proxy!Inductive'
    BY <1>11, ProxyTerminates, ProxyRejects DEF Proxy!BrowserSends
<1>12. ASSUME NEW w \in Streams, Proxy!GatewaySends(w)
       PROVE  Proxy!Inductive'
    <2>1. ASSUME NEW ok \in BOOLEAN, Proxy!Becomes(w, [v3[w] EXCEPT !.connected = ok]), UNCHANGED v5
          PROVE  Proxy!Inductive'
        <3> DEFINE s == [v3[w] EXCEPT !.connected = ok]
        <3>1. /\ s \in ProxyStream /\ s.browser = v3[w].browser /\ s.alive = v3[w].alive
              /\ s.gateway = v3[w].gateway
            BY <1>0 DEF ProxyStream
        <3>2. v3' = [v3 EXCEPT ![w] = s] /\ UNCHANGED <<v1, v2, v4, v5>>
            BY <2>1 DEF Proxy!Becomes
        <3> HIDE DEF s
        <3>3. /\ s.gateway \in {"opening", "open"} => v1 \in {"live", "due"}
              /\ s.browser = v3[w].browser \/ (s.browser = "silent" /\ v3[w].browser = "open")
            BY <3>1, <3>2, <1>0, <1>l
        <3> QED
            BY <3>1, <3>2, <3>3, <1>c
    <2> QED
        BY <1>12, <2>1, ProxyRejects DEF Proxy!GatewaySends
<1>13. ASSUME NEW w \in Streams, Proxy!Vanishes(w)
       PROVE  Proxy!Inductive'
    <2> DEFINE s == [v3[w] EXCEPT !.browser = "silent"]
    <2>1. /\ s \in ProxyStream /\ s.browser = "silent" /\ s.alive = v3[w].alive
          /\ s.gateway = v3[w].gateway
        BY <1>0 DEF ProxyStream
    <2>2. /\ v3' = [v3 EXCEPT ![w] = s] /\ UNCHANGED <<v1, v2, v4, v5>>
          /\ v3[w].browser = "open"
        BY <1>13 DEF Proxy!Becomes, Proxy!Vanishes
    <2> HIDE DEF s
    <2> QED
        BY <2>1, <2>2, <1>0, <1>l, <1>c
<1>14. ASSUME NEW w \in Streams, Proxy!Pong(w)
       PROVE  Proxy!Inductive'
    <2> DEFINE s == [v3[w] EXCEPT !.alive = TRUE]
    <2>1. /\ s \in ProxyStream /\ s.browser = v3[w].browser /\ s.alive
          /\ s.gateway = v3[w].gateway
        BY <1>0 DEF ProxyStream
    <2>2. /\ v3' = [v3 EXCEPT ![w] = s] /\ UNCHANGED <<v1, v2, v4>>
          /\ v3[w].browser = "open" /\ v5' = [v5 EXCEPT ![w] = 0]
        BY <1>14 DEF Proxy!Becomes, Proxy!Pong
    <2> HIDE DEF s
    <2> QED
        BY <2>1, <2>2, <1>0, <1>l, ProxyChanges
<1>15. ASSUME NEW w \in Streams, Proxy!Tick(w)
       PROVE  Proxy!Inductive'
    <2>1. CASE /\ v3[w].alive /\ Proxy!Becomes(w, [v3[w] EXCEPT !.alive = FALSE])
               /\ v5' = [v5 EXCEPT ![w] = @ + 1]
        <3> DEFINE s == [v3[w] EXCEPT !.alive = FALSE]
        <3>1. /\ s \in ProxyStream /\ s.browser = v3[w].browser /\ ~s.alive
              /\ s.gateway = v3[w].gateway
            BY <1>0 DEF ProxyStream
        <3>2. /\ v3' = [v3 EXCEPT ![w] = s] /\ UNCHANGED <<v1, v2, v4>>
              /\ v3[w].browser \in {"open", "silent"} /\ v5[w] = 0 /\ v5' = [v5 EXCEPT ![w] = 1]
            <4>1. v3[w].browser \in {"open", "silent"}
                BY <1>15 DEF Proxy!Tick, Proxy!Attending
            <4>2. v5[w] = 0
                BY <4>1, <2>1, <1>l
            <4> QED
                BY <4>1, <4>2, <2>1, <1>0 DEF Proxy!Becomes
        <3> HIDE DEF s
        <3> QED
            BY <3>1, <3>2, <1>0, <1>l, ProxyChanges
    <2> QED
        BY <1>15, <2>1, ProxyTerminates, ProxyRejects DEF Proxy!Tick
<1>16. ASSUME NEW w \in Streams, Proxy!Forget(w)
       PROVE  Proxy!Inductive'
    <2> DEFINE s == Proxy!NoStream
    <2>1. s \in ProxyStream /\ s.browser = "none" /\ s.gateway = "none"
        BY DEF Proxy!NoStream, ProxyStream
    <2>2. v3' = [v3 EXCEPT ![w] = s] /\ UNCHANGED <<v1, v2, v4>> /\ v5' = [v5 EXCEPT ![w] = 0]
        BY <1>16 DEF Proxy!Becomes, Proxy!Forget
    <2> HIDE DEF s
    <2> QED
        BY <2>1, <2>2, <1>0, <1>l, ProxyChanges
<1>17. ASSUME NEW c \in Calls, Proxy!Http(c)
       PROVE  Proxy!Inductive'
    <2>1. CASE Proxy!Close /\ v3' = Proxy!Destroyed
        BY <1>17, <2>1, <1>d DEF Proxy!Http
    <2>2. CASE Proxy!Authorized /\ v4' = [v4 EXCEPT ![c] = IF Proxy!Free THEN "open" ELSE "queued"]
               /\ UNCHANGED <<v1, v2, v3>>
        BY <1>17, <2>2, <1>0, <1>p DEF Proxy!Http, Proxy!Authorized
    <2> QED
        BY <1>17, <2>1, <2>2 DEF Proxy!Http
<1>18. ASSUME NEW c \in Calls, Proxy!HttpEnds(c)
       PROVE  Proxy!Inductive'
    <2>1. UNCHANGED <<v1, v2, v3, v5>>
        BY <1>18 DEF Proxy!HttpEnds
    <2>2. CASE v4' = [v4 EXCEPT ![c] = "idle"]
        BY <2>1, <2>2, <1>0, <1>l, <1>p
    <2>3. ASSUME NEW d \in Calls,
                 v4' = [v4 EXCEPT ![c] = "idle", ![d] = IF Proxy!SocketAllowed THEN "open" ELSE "idle"]
          PROVE  Proxy!Inductive'
        BY <2>1, <2>3, <1>0, <1>l, <1>p DEF Proxy!SocketAllowed
    <2> QED
        BY <1>18, <2>2, <2>3 DEF Proxy!HttpEnds
<1>19. ASSUME NEW c \in Calls, Proxy!HttpAborted(c)
       PROVE  Proxy!Inductive'
    BY <1>19, <1>0, <1>l, <1>p DEF Proxy!HttpAborted
<1> QED
    BY <1>1, <1>2, <1>3, <1>4, <1>5, <1>6, <1>7, <1>8, <1>10, <1>11, <1>12, <1>13, <1>14, <1>15,
       <1>16, <1>17, <1>18, <1>19 DEF Proxy!Next

\* A step of no part.
LEMMA ProxyStays == Proxy!Inductive /\ UNCHANGED Proxy!vars => Proxy!Inductive'
BY DEF Proxy!vars, Proxy!Inductive, Proxy!TypeOK, Proxy!AccessEnds, Proxy!Counted, Proxy!Unused,
    Proxy!Untried,
   Proxy!Up, Proxy!Attending

\* The invariant of the dashboard proxy.
LEMMA ProxyHolds == ServicesSpec => [](part = "dashboard" => Proxy!Inductive)
<1> DEFINE Inv == part = "dashboard" => Proxy!Inductive
<1>1. ServicesInit => Inv
    BY ProxyInit DEF ServicesInit
<1>2. Inv /\ [ServicesNext]_partVars => Inv'
    <2> SUFFICES ASSUME Inv, [ServicesNext]_partVars, part' = "dashboard"
                 PROVE  Proxy!Inductive'
        OBVIOUS
    <2>1. CASE UNCHANGED partVars
        BY <2>1, ProxyStays DEF partVars, Proxy!vars
    <2>2. CASE ServicesNext
        BY <2>2, ProxyStep DEF ServicesNext
    <2> QED
        BY <2>1, <2>2
<1> QED
    BY <1>1, <1>2, PTL DEF ServicesSpec

\* Nothing of a session that ended reaches the gateway, and no browser that vanished holds
\* its stream for more than two rounds (remote-dashboard/README.md:29-31), for any number of
\* streams, requests and sockets.
THEOREM Access == ServicesSpec => []AccessEnds
<1>1. (part = "dashboard" => Proxy!Inductive) => AccessEnds
    BY DEF AccessEnds, Proxy!Inductive
<1> QED
    BY <1>1, ProxyHolds, PTL

------------------------------------------------------------------------------
(* OwnerUpgrade.                                                             *)

\* The flags of the script, and the canary's container.
UpgradeFlags == [stopped : BOOLEAN, activated : BOOLEAN, brokerActive : BOOLEAN]
UpgradeCanary == [app : {"old", "new"}, up : BOOLEAN, on : {"old", "partly", "migrated", "gone"}]

\* The script starts with the Claw as it runs (upgrade-canary.mjs:89-101).
LEMMA UpgradeInit == Upgrade!Init => Upgrade!Inductive
<1> SUFFICES ASSUME Upgrade!Init
             PROVE  Upgrade!Inductive
    OBVIOUS
<1> USE DEF Upgrade!Init, Upgrade!Stages, Upgrade!Before, Upgrade!Copied, Upgrade!Forward, Upgrade!Back,
        Upgrade!Over
<1>1. Upgrade!TypeOK
    <2>1. v2 \in UpgradeFlags /\ v4 \in UpgradeCanary
        BY DEF UpgradeFlags, UpgradeCanary
    <2>2. v8 \in BOOLEAN /\ v11 \in BOOLEAN
        OBVIOUS
    <2> QED
        BY <2>1, <2>2 DEF Upgrade!TypeOK, UpgradeFlags, UpgradeCanary
<1>2. Upgrade!FlagsTold
    BY DEF Upgrade!FlagsTold
<1>3. Upgrade!StateTold
    BY DEF Upgrade!StateTold
<1>4. Upgrade!StageTold /\ Upgrade!OutcomeTold
    BY DEF Upgrade!StageTold, Upgrade!OutcomeTold
<1> QED
    BY <1>1, <1>2, <1>3, <1>4 DEF Upgrade!Inductive

\* Whichever command is next, and however it fails (upgrade-canary.mjs:89-237).
LEMMA UpgradeStep == Upgrade!Inductive /\ Upgrade!Next => Upgrade!Inductive'
<1> SUFFICES ASSUME Upgrade!Inductive, Upgrade!Next
             PROVE  Upgrade!Inductive'
    OBVIOUS
<1> USE DEF Upgrade!Inductive, Upgrade!Stages, Upgrade!Before, Upgrade!Copied, Upgrade!Forward, Upgrade!Back,
        Upgrade!Over, Upgrade!host, Upgrade!Go, Upgrade!Try
<1>0. /\ Upgrade!Recreated \in UpgradeCanary
      /\ Upgrade!Recreated.app = IF v7 = "candidate" THEN "new" ELSE "old"
      /\ Upgrade!Recreated.up /\ Upgrade!Recreated.on = v5
      /\ \A up \in BOOLEAN : /\ [Upgrade!Recreated EXCEPT !.up = up] \in UpgradeCanary
                            /\ [Upgrade!Recreated EXCEPT !.up = up].app = Upgrade!Recreated.app
                            /\ [Upgrade!Recreated EXCEPT !.up = up].on = v5
    BY DEF Upgrade!Recreated, UpgradeCanary, Upgrade!TypeOK
<1>1. CASE Upgrade!Refuse
    BY <1>1 DEF Upgrade!Refuse, Upgrade!TypeOK, Upgrade!FlagsTold, Upgrade!StateTold,
        Upgrade!StageTold, Upgrade!OutcomeTold
<1>2. CASE Upgrade!Inspect
    BY <1>2 DEF Upgrade!Inspect, Upgrade!OwnerIdle, Upgrade!TypeOK, Upgrade!FlagsTold,
        Upgrade!StateTold, Upgrade!StageTold, Upgrade!OutcomeTold
<1>3. CASE Upgrade!Qualify
    BY <1>3 DEF Upgrade!Qualify, Upgrade!OwnerIdle, Upgrade!TypeOK, Upgrade!FlagsTold,
        Upgrade!StateTold, Upgrade!StageTold, Upgrade!OutcomeTold
<1>4. CASE Upgrade!SilenceBroker
    <2>1. Upgrade!TypeOK'
        <3>1. v1' \in Upgrade!Stages /\ v2' \in UpgradeFlags
            BY <1>4 DEF Upgrade!SilenceBroker, Upgrade!TypeOK, UpgradeFlags
        <3>2. v4' \in UpgradeCanary
            BY <1>4 DEF Upgrade!SilenceBroker, Upgrade!TypeOK, UpgradeCanary
        <3>3. v8' \in BOOLEAN
            BY <1>4 DEF Upgrade!SilenceBroker, Upgrade!TypeOK
        <3>4. v10' \in BOOLEAN /\ v11' \in BOOLEAN
            BY <1>4 DEF Upgrade!SilenceBroker, Upgrade!TypeOK
        <3>5. /\ v3' \in {"none", "refused", "done", "untouched", "resumed", "restored", "stuck"}
              /\ v5' \in {"old", "partly", "migrated", "gone"}
              /\ v6' \in {"before", "checkpoint", "candidate"} /\ v7' \in {"old", "candidate"}
              /\ v9' \in {"none", "up", "passed"}
            BY <1>4 DEF Upgrade!SilenceBroker, Upgrade!TypeOK
        <3> QED
            BY <3>1, <3>2, <3>3, <3>4, <3>5 DEF Upgrade!TypeOK, UpgradeFlags, UpgradeCanary
    <2>2. Upgrade!FlagsTold'
        BY <1>4 DEF Upgrade!SilenceBroker, Upgrade!TypeOK, Upgrade!FlagsTold, Upgrade!StateTold
    <2>3. Upgrade!StateTold'
        BY <1>4 DEF Upgrade!SilenceBroker, Upgrade!TypeOK, Upgrade!FlagsTold, Upgrade!StateTold,
            Upgrade!StageTold
    <2>4. Upgrade!StageTold'
        BY <1>4 DEF Upgrade!SilenceBroker, Upgrade!TypeOK, Upgrade!FlagsTold, Upgrade!StateTold,
            Upgrade!StageTold
    <2>5. Upgrade!OutcomeTold'
        BY <1>4 DEF Upgrade!SilenceBroker, Upgrade!TypeOK, Upgrade!FlagsTold, Upgrade!StateTold,
            Upgrade!OutcomeTold, Upgrade!StageTold
    <2> QED
        BY <2>1, <2>2, <2>3, <2>4, <2>5
<1>5. CASE Upgrade!StopClaw
    <2>1. Upgrade!TypeOK'
        <3>1. v1' \in Upgrade!Stages /\ v2' \in UpgradeFlags
            BY <1>5 DEF Upgrade!StopClaw, Upgrade!TypeOK, UpgradeFlags
        <3>2. v4' \in UpgradeCanary
            BY <1>5 DEF Upgrade!StopClaw, Upgrade!TypeOK, UpgradeCanary
        <3>3. v8' \in BOOLEAN
            BY <1>5 DEF Upgrade!StopClaw, Upgrade!TypeOK
        <3>4. v10' \in BOOLEAN /\ v11' \in BOOLEAN
            BY <1>5 DEF Upgrade!StopClaw, Upgrade!TypeOK
        <3>5. /\ v3' \in {"none", "refused", "done", "untouched", "resumed", "restored", "stuck"}
              /\ v5' \in {"old", "partly", "migrated", "gone"}
              /\ v6' \in {"before", "checkpoint", "candidate"} /\ v7' \in {"old", "candidate"}
              /\ v9' \in {"none", "up", "passed"}
            BY <1>5 DEF Upgrade!StopClaw, Upgrade!TypeOK
        <3> QED
            BY <3>1, <3>2, <3>3, <3>4, <3>5 DEF Upgrade!TypeOK, UpgradeFlags, UpgradeCanary
    <2>2. Upgrade!FlagsTold'
        BY <1>5 DEF Upgrade!StopClaw, Upgrade!TypeOK, Upgrade!FlagsTold, Upgrade!StateTold
    <2>3. Upgrade!StateTold'
        BY <1>5 DEF Upgrade!StopClaw, Upgrade!TypeOK, Upgrade!FlagsTold, Upgrade!StateTold,
            Upgrade!StageTold
    <2>4. Upgrade!StageTold'
        BY <1>5 DEF Upgrade!StopClaw, Upgrade!TypeOK, Upgrade!FlagsTold, Upgrade!StateTold,
            Upgrade!StageTold
    <2>5. Upgrade!OutcomeTold'
        BY <1>5 DEF Upgrade!StopClaw, Upgrade!TypeOK, Upgrade!FlagsTold, Upgrade!StateTold,
            Upgrade!OutcomeTold, Upgrade!StageTold
    <2> QED
        BY <2>1, <2>2, <2>3, <2>4, <2>5
<1>6. CASE Upgrade!Checkpoint
    BY <1>6 DEF Upgrade!Checkpoint, Upgrade!TypeOK, Upgrade!FlagsTold, Upgrade!StateTold,
        Upgrade!StageTold, Upgrade!OutcomeTold
<1>7. CASE Upgrade!Save
    <2>1. Upgrade!TypeOK'
        <3>1. v1' \in Upgrade!Stages /\ v2' \in UpgradeFlags
            BY <1>7 DEF Upgrade!Save, Upgrade!TypeOK, UpgradeFlags
        <3>2. v4' \in UpgradeCanary
            BY <1>7 DEF Upgrade!Save, Upgrade!TypeOK, UpgradeCanary
        <3>3. v8' \in BOOLEAN
            BY <1>7 DEF Upgrade!Save, Upgrade!TypeOK
        <3>4. v10' \in BOOLEAN /\ v11' \in BOOLEAN
            BY <1>7 DEF Upgrade!Save, Upgrade!TypeOK
        <3>5. /\ v3' \in {"none", "refused", "done", "untouched", "resumed", "restored", "stuck"}
              /\ v5' \in {"old", "partly", "migrated", "gone"}
              /\ v6' \in {"before", "checkpoint", "candidate"} /\ v7' \in {"old", "candidate"}
              /\ v9' \in {"none", "up", "passed"}
            BY <1>7 DEF Upgrade!Save, Upgrade!TypeOK
        <3> QED
            BY <3>1, <3>2, <3>3, <3>4, <3>5 DEF Upgrade!TypeOK, UpgradeFlags, UpgradeCanary
    <2>2. Upgrade!FlagsTold'
        BY <1>7 DEF Upgrade!Save, Upgrade!TypeOK, Upgrade!FlagsTold, Upgrade!StateTold
    <2>3. Upgrade!StateTold'
        BY <1>7 DEF Upgrade!Save, Upgrade!TypeOK, Upgrade!FlagsTold, Upgrade!StateTold,
            Upgrade!StageTold
    <2>4. Upgrade!StageTold'
        BY <1>7 DEF Upgrade!Save, Upgrade!TypeOK, Upgrade!FlagsTold, Upgrade!StateTold,
            Upgrade!StageTold
    <2>5. Upgrade!OutcomeTold'
        BY <1>7 DEF Upgrade!Save, Upgrade!TypeOK, Upgrade!FlagsTold, Upgrade!StateTold,
            Upgrade!OutcomeTold, Upgrade!StageTold
    <2> QED
        BY <2>1, <2>2, <2>3, <2>4, <2>5
<1>8. CASE Upgrade!Build
    BY <1>8 DEF Upgrade!Build, Upgrade!TypeOK, Upgrade!FlagsTold, Upgrade!StateTold,
        Upgrade!StageTold, Upgrade!OutcomeTold
<1>9. CASE Upgrade!Rehearse
    BY <1>9 DEF Upgrade!Rehearse, Upgrade!TypeOK, Upgrade!FlagsTold, Upgrade!StateTold,
        Upgrade!StageTold, Upgrade!OutcomeTold
<1>10. CASE Upgrade!RehearsalPasses
    BY <1>10 DEF Upgrade!RehearsalPasses, Upgrade!TypeOK, Upgrade!FlagsTold, Upgrade!StateTold,
        Upgrade!StageTold, Upgrade!OutcomeTold
<1>11. CASE Upgrade!Record
    BY <1>11 DEF Upgrade!Record, Upgrade!TypeOK, Upgrade!FlagsTold, Upgrade!StateTold,
        Upgrade!StageTold, Upgrade!OutcomeTold
<1>12. CASE Upgrade!WriteCompose
    BY <1>12 DEF Upgrade!WriteCompose, Upgrade!Activated, Upgrade!TypeOK, Upgrade!FlagsTold,
        Upgrade!StateTold, Upgrade!StageTold, Upgrade!OutcomeTold
<1>13. CASE Upgrade!Migrate
    <2>1. Upgrade!TypeOK'
        BY <1>13 DEF Upgrade!Migrate, Upgrade!TypeOK
    <2>2. Upgrade!FlagsTold'
        BY <1>13 DEF Upgrade!Migrate, Upgrade!TypeOK, Upgrade!FlagsTold, Upgrade!StateTold
    <2>3. Upgrade!StateTold'
        BY <1>13 DEF Upgrade!Migrate, Upgrade!TypeOK, Upgrade!FlagsTold, Upgrade!StateTold,
            Upgrade!StageTold
    <2>4. Upgrade!StageTold'
        BY <1>13 DEF Upgrade!Migrate, Upgrade!TypeOK, Upgrade!FlagsTold, Upgrade!StateTold,
            Upgrade!StageTold
    <2>5. Upgrade!OutcomeTold'
        BY <1>13 DEF Upgrade!Migrate, Upgrade!TypeOK, Upgrade!FlagsTold, Upgrade!StateTold,
            Upgrade!OutcomeTold, Upgrade!StageTold
    <2> QED
        BY <2>1, <2>2, <2>3, <2>4, <2>5
<1>14. CASE Upgrade!StartNew
    <2>1. Upgrade!TypeOK'
        <3>1. v1' \in Upgrade!Stages /\ v2' \in UpgradeFlags
            BY <1>0, <1>14 DEF Upgrade!StartNew, Upgrade!TypeOK, UpgradeFlags
        <3>2. v4' \in UpgradeCanary
            BY <1>0, <1>14 DEF Upgrade!StartNew, Upgrade!TypeOK, UpgradeCanary
        <3>3. v8' \in BOOLEAN
            BY <1>0, <1>14 DEF Upgrade!StartNew, Upgrade!TypeOK
        <3>4. v10' \in BOOLEAN /\ v11' \in BOOLEAN
            BY <1>0, <1>14 DEF Upgrade!StartNew, Upgrade!TypeOK
        <3>5. /\ v3' \in {"none", "refused", "done", "untouched", "resumed", "restored", "stuck"}
              /\ v5' \in {"old", "partly", "migrated", "gone"}
              /\ v6' \in {"before", "checkpoint", "candidate"} /\ v7' \in {"old", "candidate"}
              /\ v9' \in {"none", "up", "passed"}
            BY <1>0, <1>14 DEF Upgrade!StartNew, Upgrade!TypeOK
        <3> QED
            BY <3>1, <3>2, <3>3, <3>4, <3>5 DEF Upgrade!TypeOK, UpgradeFlags, UpgradeCanary
    <2>2. Upgrade!FlagsTold'
        BY <1>0, <1>14 DEF Upgrade!StartNew, Upgrade!TypeOK, Upgrade!FlagsTold, Upgrade!StateTold
    <2>3. Upgrade!StateTold'
        BY <1>0, <1>14 DEF Upgrade!StartNew, Upgrade!TypeOK, Upgrade!FlagsTold, Upgrade!StateTold,
            Upgrade!StageTold
    <2>4. Upgrade!StageTold'
        BY <1>0, <1>14 DEF Upgrade!StartNew, Upgrade!TypeOK, Upgrade!FlagsTold, Upgrade!StateTold,
            Upgrade!StageTold
    <2>5. Upgrade!OutcomeTold'
        BY <1>0, <1>14 DEF Upgrade!StartNew, Upgrade!TypeOK, Upgrade!FlagsTold, Upgrade!StateTold,
            Upgrade!OutcomeTold, Upgrade!StageTold
    <2> QED
        BY <2>1, <2>2, <2>3, <2>4, <2>5
<1>15. CASE Upgrade!Verify
    BY <1>15 DEF Upgrade!Verify, Upgrade!TypeOK, Upgrade!FlagsTold, Upgrade!StateTold,
        Upgrade!StageTold, Upgrade!OutcomeTold
<1>16. CASE Upgrade!Catch
    BY <1>16 DEF Upgrade!Catch, Upgrade!TypeOK, Upgrade!FlagsTold, Upgrade!StateTold,
        Upgrade!StageTold, Upgrade!OutcomeTold
<1>17. CASE Upgrade!Halt
    <2>1. Upgrade!TypeOK'
        <3>1. v1' \in Upgrade!Stages /\ v2' \in UpgradeFlags
            BY <1>17 DEF Upgrade!Halt, Upgrade!TypeOK, UpgradeFlags
        <3>2. v4' \in UpgradeCanary
            BY <1>17 DEF Upgrade!Halt, Upgrade!TypeOK, UpgradeCanary
        <3>3. v8' \in BOOLEAN
            BY <1>17 DEF Upgrade!Halt, Upgrade!TypeOK
        <3>4. v10' \in BOOLEAN /\ v11' \in BOOLEAN
            BY <1>17 DEF Upgrade!Halt, Upgrade!TypeOK
        <3>5. /\ v3' \in {"none", "refused", "done", "untouched", "resumed", "restored", "stuck"}
              /\ v5' \in {"old", "partly", "migrated", "gone"}
              /\ v6' \in {"before", "checkpoint", "candidate"} /\ v7' \in {"old", "candidate"}
              /\ v9' \in {"none", "up", "passed"}
            BY <1>17 DEF Upgrade!Halt, Upgrade!TypeOK
        <3> QED
            BY <3>1, <3>2, <3>3, <3>4, <3>5 DEF Upgrade!TypeOK, UpgradeFlags, UpgradeCanary
    <2>2. Upgrade!FlagsTold'
        BY <1>17 DEF Upgrade!Halt, Upgrade!TypeOK, Upgrade!FlagsTold, Upgrade!StateTold
    <2>3. Upgrade!StateTold'
        BY <1>17 DEF Upgrade!Halt, Upgrade!TypeOK, Upgrade!FlagsTold, Upgrade!StateTold,
            Upgrade!StageTold
    <2>4. Upgrade!StageTold'
        BY <1>17 DEF Upgrade!Halt, Upgrade!TypeOK, Upgrade!FlagsTold, Upgrade!StateTold,
            Upgrade!StageTold
    <2>5. Upgrade!OutcomeTold'
        BY <1>17 DEF Upgrade!Halt, Upgrade!TypeOK, Upgrade!FlagsTold, Upgrade!StateTold,
            Upgrade!OutcomeTold, Upgrade!StageTold
    <2> QED
        BY <2>1, <2>2, <2>3, <2>4, <2>5
<1>18. CASE Upgrade!MoveAway
    <2>1. Upgrade!TypeOK'
        BY <1>18 DEF Upgrade!MoveAway, Upgrade!TypeOK
    <2>2. Upgrade!FlagsTold'
        BY <1>18 DEF Upgrade!MoveAway, Upgrade!TypeOK, Upgrade!FlagsTold, Upgrade!StateTold
    <2>3. Upgrade!StateTold'
        BY <1>18 DEF Upgrade!MoveAway, Upgrade!TypeOK, Upgrade!FlagsTold, Upgrade!StateTold,
            Upgrade!StageTold
    <2>4. Upgrade!StageTold'
        BY <1>18 DEF Upgrade!MoveAway, Upgrade!TypeOK, Upgrade!FlagsTold, Upgrade!StateTold,
            Upgrade!StageTold
    <2>5. Upgrade!OutcomeTold'
        BY <1>18 DEF Upgrade!MoveAway, Upgrade!TypeOK, Upgrade!FlagsTold, Upgrade!StateTold,
            Upgrade!OutcomeTold, Upgrade!StageTold
    <2> QED
        BY <2>1, <2>2, <2>3, <2>4, <2>5
<1>19. CASE Upgrade!Extract
    <2>1. Upgrade!TypeOK'
        BY <1>19 DEF Upgrade!Extract, Upgrade!TypeOK
    <2>2. Upgrade!FlagsTold'
        BY <1>19 DEF Upgrade!Extract, Upgrade!TypeOK, Upgrade!FlagsTold, Upgrade!StateTold
    <2>3. Upgrade!StateTold'
        BY <1>19 DEF Upgrade!Extract, Upgrade!TypeOK, Upgrade!FlagsTold, Upgrade!StateTold,
            Upgrade!StageTold
    <2>4. Upgrade!StageTold'
        BY <1>19 DEF Upgrade!Extract, Upgrade!TypeOK, Upgrade!FlagsTold, Upgrade!StateTold,
            Upgrade!StageTold
    <2>5. Upgrade!OutcomeTold'
        BY <1>19 DEF Upgrade!Extract, Upgrade!TypeOK, Upgrade!FlagsTold, Upgrade!StateTold,
            Upgrade!OutcomeTold, Upgrade!StageTold
    <2> QED
        BY <2>1, <2>2, <2>3, <2>4, <2>5
<1>20. CASE Upgrade!Revert
    <2>1. Upgrade!TypeOK'
        <3>1. v1' \in Upgrade!Stages /\ v2' \in UpgradeFlags
            BY <1>0, <1>20 DEF Upgrade!Revert, Upgrade!Restarted, Upgrade!TypeOK, UpgradeFlags
        <3>2. v4' \in UpgradeCanary
            BY <1>0, <1>20 DEF Upgrade!Revert, Upgrade!Restarted, Upgrade!TypeOK, UpgradeCanary
        <3>3. v8' \in BOOLEAN
            BY <1>0, <1>20 DEF Upgrade!Revert, Upgrade!Restarted, Upgrade!TypeOK
        <3>4. v10' \in BOOLEAN /\ v11' \in BOOLEAN
            BY <1>0, <1>20 DEF Upgrade!Revert, Upgrade!Restarted, Upgrade!TypeOK
        <3>5. /\ v3' \in {"none", "refused", "done", "untouched", "resumed", "restored", "stuck"}
              /\ v5' \in {"old", "partly", "migrated", "gone"}
              /\ v6' \in {"before", "checkpoint", "candidate"} /\ v7' \in {"old", "candidate"}
              /\ v9' \in {"none", "up", "passed"}
            BY <1>0, <1>20 DEF Upgrade!Revert, Upgrade!Restarted, Upgrade!TypeOK
        <3> QED
            BY <3>1, <3>2, <3>3, <3>4, <3>5 DEF Upgrade!TypeOK, UpgradeFlags, UpgradeCanary
    <2>2. Upgrade!FlagsTold'
        BY <1>0, <1>20 DEF Upgrade!Revert, Upgrade!Restarted, Upgrade!TypeOK, Upgrade!FlagsTold,
            Upgrade!StateTold
    <2>3. Upgrade!StateTold'
        BY <1>0, <1>20 DEF Upgrade!Revert, Upgrade!Restarted, Upgrade!TypeOK, Upgrade!FlagsTold,
            Upgrade!StateTold, Upgrade!StageTold
    <2>4. Upgrade!StageTold'
        BY <1>0, <1>20 DEF Upgrade!Revert, Upgrade!Restarted, Upgrade!TypeOK, Upgrade!FlagsTold,
            Upgrade!StateTold, Upgrade!StageTold
    <2>5. Upgrade!OutcomeTold'
        BY <1>0, <1>20 DEF Upgrade!Revert, Upgrade!Restarted, Upgrade!TypeOK, Upgrade!FlagsTold,
            Upgrade!StateTold, Upgrade!OutcomeTold, Upgrade!StageTold
    <2> QED
        BY <2>1, <2>2, <2>3, <2>4, <2>5
<1>21. CASE Upgrade!Resume
    <2>1. Upgrade!TypeOK'
        <3>1. v1' \in Upgrade!Stages /\ v2' \in UpgradeFlags
            BY <1>21 DEF Upgrade!Resume, Upgrade!Restarted, Upgrade!TypeOK, UpgradeFlags
        <3>2. v4' \in UpgradeCanary
            BY <1>21 DEF Upgrade!Resume, Upgrade!Restarted, Upgrade!TypeOK, UpgradeCanary
        <3>3. v8' \in BOOLEAN
            BY <1>21 DEF Upgrade!Resume, Upgrade!Restarted, Upgrade!TypeOK
        <3>4. v10' \in BOOLEAN /\ v11' \in BOOLEAN
            BY <1>21 DEF Upgrade!Resume, Upgrade!Restarted, Upgrade!TypeOK
        <3>5. /\ v3' \in {"none", "refused", "done", "untouched", "resumed", "restored", "stuck"}
              /\ v5' \in {"old", "partly", "migrated", "gone"}
              /\ v6' \in {"before", "checkpoint", "candidate"} /\ v7' \in {"old", "candidate"}
              /\ v9' \in {"none", "up", "passed"}
            BY <1>21 DEF Upgrade!Resume, Upgrade!Restarted, Upgrade!TypeOK
        <3> QED
            BY <3>1, <3>2, <3>3, <3>4, <3>5 DEF Upgrade!TypeOK, UpgradeFlags, UpgradeCanary
    <2>2. Upgrade!FlagsTold'
        BY <1>21 DEF Upgrade!Resume, Upgrade!Restarted, Upgrade!TypeOK, Upgrade!FlagsTold,
            Upgrade!StateTold
    <2>3. Upgrade!StateTold'
        BY <1>21 DEF Upgrade!Resume, Upgrade!Restarted, Upgrade!TypeOK, Upgrade!FlagsTold,
            Upgrade!StateTold, Upgrade!StageTold
    <2>4. Upgrade!StageTold'
        BY <1>21 DEF Upgrade!Resume, Upgrade!Restarted, Upgrade!TypeOK, Upgrade!FlagsTold,
            Upgrade!StateTold, Upgrade!StageTold
    <2>5. Upgrade!OutcomeTold'
        BY <1>21 DEF Upgrade!Resume, Upgrade!Restarted, Upgrade!TypeOK, Upgrade!FlagsTold,
            Upgrade!StateTold, Upgrade!OutcomeTold, Upgrade!StageTold
    <2> QED
        BY <2>1, <2>2, <2>3, <2>4, <2>5
<1>22. CASE Upgrade!Finally
    <2>1. Upgrade!TypeOK'
        BY <1>22 DEF Upgrade!Finally, Upgrade!TypeOK
    <2>2. Upgrade!FlagsTold'
        BY <1>22 DEF Upgrade!Finally, Upgrade!TypeOK, Upgrade!FlagsTold, Upgrade!StateTold
    <2>3. Upgrade!StateTold'
        BY <1>22 DEF Upgrade!Finally, Upgrade!TypeOK, Upgrade!FlagsTold, Upgrade!StateTold,
            Upgrade!StageTold
    <2>4. Upgrade!StageTold'
        BY <1>22 DEF Upgrade!Finally, Upgrade!TypeOK, Upgrade!FlagsTold, Upgrade!StateTold,
            Upgrade!StageTold
    <2>5. Upgrade!OutcomeTold'
        BY <1>22 DEF Upgrade!Finally, Upgrade!TypeOK, Upgrade!FlagsTold, Upgrade!StateTold,
            Upgrade!OutcomeTold, Upgrade!StageTold
    <2> QED
        BY <2>1, <2>2, <2>3, <2>4, <2>5
<1>23. CASE Upgrade!Killed
    BY <1>23 DEF Upgrade!Killed, Upgrade!TypeOK, Upgrade!FlagsTold, Upgrade!StateTold,
        Upgrade!StageTold, Upgrade!OutcomeTold
<1>24. CASE Upgrade!OwnerComesAndGoes
    BY <1>24 DEF Upgrade!OwnerComesAndGoes, Upgrade!TypeOK, Upgrade!FlagsTold, Upgrade!StateTold,
        Upgrade!StageTold, Upgrade!OutcomeTold
<1> QED
    BY <1>1, <1>2, <1>3, <1>4, <1>5, <1>6, <1>7, <1>8, <1>9, <1>10, <1>11, <1>12, <1>13, <1>14,
        <1>15, <1>16, <1>17, <1>18, <1>19, <1>20, <1>21, <1>22, <1>23, <1>24 DEF Upgrade!Next

\* A step of no part.
LEMMA UpgradeStays == Upgrade!Inductive /\ UNCHANGED Upgrade!vars => Upgrade!Inductive'
<1> SUFFICES ASSUME Upgrade!Inductive, UNCHANGED Upgrade!vars
             PROVE  Upgrade!Inductive'
    OBVIOUS
<1> USE DEF Upgrade!vars, Upgrade!host, Upgrade!Inductive
<1>1. Upgrade!TypeOK'
    BY DEF Upgrade!TypeOK
<1>2. Upgrade!FlagsTold'
    BY DEF Upgrade!FlagsTold
<1>3. Upgrade!StateTold'
    BY DEF Upgrade!StateTold
<1>4. Upgrade!StageTold'
    BY DEF Upgrade!StageTold
<1>5. Upgrade!OutcomeTold'
    BY DEF Upgrade!OutcomeTold
<1> QED
    BY <1>1, <1>2, <1>3, <1>4, <1>5

\* An application that is up runs on state of its own version, and an upgrade that ends, ends
\* with one of the two whole.
LEMMA UpgradeIsWhole == Upgrade!Inductive => Upgrade!RunsWhole /\ Upgrade!EndsWhole
<1> SUFFICES ASSUME Upgrade!Inductive
             PROVE  Upgrade!RunsWhole /\ Upgrade!EndsWhole
    OBVIOUS
<1> USE DEF Upgrade!Inductive, Upgrade!TypeOK
<1>1. v4.app \in {"old", "new"}
    OBVIOUS
<1>2. Upgrade!RunsWhole
    BY <1>1 DEF Upgrade!RunsWhole, Upgrade!StateTold
<1>3. Upgrade!EndsWhole
    BY DEF Upgrade!EndsWhole, Upgrade!OutcomeTold, Upgrade!Over
<1> QED
    BY <1>2, <1>3

\* The invariant of an upgrade.
LEMMA UpgradeHolds == ServicesSpec => [](part = "upgrade" => Upgrade!Inductive)
<1> DEFINE Inv == part = "upgrade" => Upgrade!Inductive
<1>1. ServicesInit => Inv
    BY UpgradeInit DEF ServicesInit
<1>2. Inv /\ [ServicesNext]_partVars => Inv'
    <2> SUFFICES ASSUME Inv, [ServicesNext]_partVars, part' = "upgrade"
                 PROVE  Upgrade!Inductive'
        OBVIOUS
    <2>1. CASE UNCHANGED partVars
        BY <2>1, UpgradeStays DEF partVars, Upgrade!vars, Upgrade!host
    <2>2. CASE ServicesNext
        BY <2>2, UpgradeStep DEF ServicesNext
    <2> QED
        BY <2>1, <2>2
<1> QED
    BY <1>1, <1>2, PTL DEF ServicesSpec

\* Whatever fails, and wherever the script is killed, nothing runs on the state of another
\* version, what was changed can be had back, and an upgrade ends with the new application or
\* with the old (owner-state/README.md:80-83, upgrade-canary.mjs:208-229).
THEOREM Upgrades == ServicesSpec => []UpgradeWhole
<1>1. (part = "upgrade" => Upgrade!Inductive) => UpgradeWhole
    BY UpgradeIsWhole DEF UpgradeWhole
<1> QED
    BY <1>1, UpgradeHolds, PTL

------------------------------------------------------------------------------
(* TenantApply.                                                              *)

\* One apply under way.
ApplyJob == [step : Applying!Steps, start : BOOLEAN]

\* A tenant signed up and not rendered yet has no key anywhere (render.ts:421).
LEMMA ApplyingInit == Applying!Init => Applying!Inductive
<1> SUFFICES ASSUME Applying!Init
             PROVE  Applying!Inductive
    OBVIOUS
<1> USE DEF Applying!Init, Applying!Nothing, Applying!Real
<1>1. Applying!TypeOK
    <2>1. Applying!Nothing \in Applying!Credentials
        BY DEF Applying!Credentials, Applying!DirectValues
    <2>2. v7 \in [up : BOOLEAN, keys : Applying!Credentials]
        BY <2>1
    <2>3. v10 \in [step : Applying!Steps, start : BOOLEAN]
        BY DEF Applying!Steps
    <2> QED
        BY <2>1, <2>2, <2>3 DEF Applying!TypeOK
<1>2. Applying!KeysKnown /\ Applying!KeysKept
    BY DEF Applying!KeysKnown, Applying!KeysKept
<1>3. Applying!SafeInEscrow /\ Applying!RoutedAsKeyed /\ Applying!RenderedAsStored
    BY DEF Applying!SafeInEscrow, Applying!RoutedAsKeyed, Applying!RenderedAsStored, Applying!At
<1> QED
    BY <1>1, <1>2, <1>3 DEF Applying!Inductive, Applying!AppliedAsStored

\* What an apply has found out is of use only until it is over or starts again.
LEMMA ApplyOver ==
    ASSUME v10' = Idle \/ v10'.step = "config"
    PROVE  Applying!SafeInEscrow' /\ Applying!RoutedAsKeyed' /\ Applying!RenderedAsStored'
BY DEF Applying!SafeInEscrow, Applying!RoutedAsKeyed, Applying!RenderedAsStored, Applying!At

\* The keys are known as long as no file and no history variable changes.
LEMMA KeysStay ==
    ASSUME Applying!KeysKnown, Applying!KeysKept, UNCHANGED <<v3, v4, v12, v13>>
    PROVE  Applying!KeysKnown' /\ Applying!KeysKept'
BY DEF Applying!KeysKnown, Applying!KeysKept, Applying!Real

\* The two files, field by field.
LEMMA ApplyTypes ==
    ASSUME Applying!Inductive
    PROVE  /\ v1 \in {"assigned", "suppressed"} /\ v2 \in BOOLEAN /\ v5 \in BOOLEAN
           /\ v3 \in Applying!Credentials /\ v4 \in Applying!Credentials
           /\ v3.gateway \in GatewayKeys \cup {"absent", "changeme"}
           /\ v4.gateway \in GatewayKeys \cup {"absent"}
           /\ v3.direct \in Applying!DirectValues /\ v4.direct \in Applying!DirectValues
           /\ v12 \in GatewayKeys \cup {NoKey}
           /\ v7 \in [up : BOOLEAN, keys : Applying!Credentials]
           /\ v10 = Idle \/ v10 \in ApplyJob
BY DEF Applying!Inductive, Applying!TypeOK, Applying!KeysKnown, Applying!Credentials, ApplyJob

\* The route follows from the files: a tenant has a key for the gateway where the configuration
\* sends its calls there (render.ts:47-51, 440-470).
LEMMA ReadyIsLive ==
    ASSUME Applying!Inductive, Applying!ApplyAssumption, v1 = "assigned"
    PROVE  Applying!Ready <=> Applying!Live
BY ApplyTypes DEF Applying!Ready, Applying!Live, Applying!InUse, Applying!Real,
    Applying!Inductive, Applying!KeysKnown,
   Applying!ApplyAssumption

\* The key in use is the last one that was minted.
LEMMA LiveIsMinted ==
    ASSUME Applying!Inductive, Applying!ApplyAssumption
    PROVE  /\ Applying!Real(Applying!InUse) => Applying!InUse = v12
           /\ ~Applying!Real(Applying!InUse) => v12 = NoKey
BY ApplyTypes DEF Applying!InUse, Applying!Real, Applying!Inductive, Applying!KeysKnown,
    Applying!KeysKept,
   Applying!ApplyAssumption

\* The configuration is written for the keys that are there (render.ts:440-452).
LEMMA ConfigStep ==
    ASSUME Applying!Inductive, Applying!ApplyAssumption, Applying!RenderConfig
    PROVE  Applying!Inductive'
<1> USE DEF Applying!RenderConfig, Applying!settings, Applying!history
<1>1. /\ v10 \in ApplyJob /\ v10' \in ApplyJob /\ v10'.step = "escrow" /\ ~v11 /\ v11' = v11
    BY ApplyTypes DEF Applying!Inductive, ApplyJob, Applying!Steps
<1>2. UNCHANGED <<v1, v2, v3, v4, v5, v7, v8, v9, v12, v13>> /\ v6' = IF Applying!Ready THEN "gateway" ELSE "direct"
    OBVIOUS
<1>3. Applying!TypeOK'
    BY <1>1, <1>2 DEF Applying!Inductive, Applying!TypeOK, ApplyJob
<1>4. Applying!KeysKnown' /\ Applying!KeysKept'
    BY KeysStay DEF Applying!Inductive
<1>5. Applying!SafeInEscrow' /\ Applying!RenderedAsStored' /\ Applying!AppliedAsStored'
    BY <1>1 DEF Applying!SafeInEscrow, Applying!RenderedAsStored, Applying!At,
        Applying!AppliedAsStored
<1>6. Applying!RoutedAsKeyed'
    <2>1. Applying!Live' = Applying!Live
        BY DEF Applying!Live, Applying!InUse, Applying!Real
    <2> QED
        BY <1>2, <2>1, ReadyIsLive DEF Applying!RoutedAsKeyed
<1> QED
    BY <1>1, <1>3, <1>4, <1>5, <1>6 DEF Applying!Inductive

\* The keys are put in escrow while .env has them still (render.ts:454-466).
LEMMA EscrowStep ==
    ASSUME Applying!Inductive, Applying!ApplyAssumption, Applying!RenderEscrow
    PROVE  Applying!Inductive'
<1> USE DEF Applying!RenderEscrow, Applying!settings, Applying!history
<1>1. /\ v10 \in ApplyJob /\ v10' \in ApplyJob /\ v10'.step = "env" /\ ~v11 /\ v11' = v11
      /\ v10 # Idle /\ v10.step = "escrow"
    BY ApplyTypes DEF Applying!Inductive, ApplyJob, Applying!Steps
<1>2. UNCHANGED <<v1, v2, v3, v5, v6, v7, v8, v9, v12, v13>> /\ v4' = Applying!Escrowed
    OBVIOUS
<1>3. /\ v4' \in Applying!Credentials
      /\ v4'.gateway = IF v1 = "suppressed" /\ Applying!Real(v3.gateway) THEN v3.gateway ELSE v4.gateway
      /\ Applying!Real(v3.direct) /\ v1 = "suppressed" => Applying!Real(v4'.direct)
      /\ Applying!Real(v4.direct) => Applying!Real(v4'.direct)
      /\ Applying!Live /\ Applying!Real(v3.direct) => Applying!Real(v4'.direct)
    <2> DEFINE d == Applying!DirectEscrowed
               g == Applying!GatewayEscrowed
    <2>1. /\ d \in Applying!DirectValues
          /\ Applying!Real(v3.direct) => Applying!Real(d)
          /\ Applying!Real(v4.direct) => Applying!Real(d)
        BY ApplyTypes DEF Applying!DirectEscrowed, Applying!Real, Applying!DirectValues
    <2>2. /\ g \in GatewayKeys \cup {"absent", "changeme"}
          /\ g = IF Applying!Real(v3.gateway) THEN v3.gateway ELSE v4.gateway
        BY ApplyTypes DEF Applying!GatewayEscrowed
    <2>3. v4' = IF v1 = "suppressed" THEN [gateway |-> g, direct |-> d]
                ELSE IF Applying!Live THEN [v4 EXCEPT !.direct = d] ELSE v4
        BY <1>2 DEF Applying!Escrowed
    <2> HIDE DEF d, g
    <2>4. /\ [gateway |-> g, direct |-> d] \in Applying!Credentials
          /\ [v4 EXCEPT !.direct = d] \in Applying!Credentials
          /\ [v4 EXCEPT !.direct = d].gateway = v4.gateway /\ [v4 EXCEPT !.direct = d].direct = d
        BY <2>1, <2>2, ApplyTypes DEF Applying!Credentials
    <2>5. CASE v1 = "suppressed"
        BY <2>1, <2>2, <2>3, <2>4, <2>5
    <2>6. CASE v1 # "suppressed" /\ Applying!Live
        BY <2>1, <2>3, <2>4, <2>6
    <2>7. CASE v1 # "suppressed" /\ ~Applying!Live
        BY <2>3, <2>7, ApplyTypes
    <2> QED
        BY <2>5, <2>6, <2>7
<1>4. Applying!TypeOK'
    BY <1>1, <1>2, <1>3 DEF Applying!Inductive, Applying!TypeOK, ApplyJob
<1>5. Applying!KeysKnown' /\ Applying!KeysKept'
    BY <1>2, <1>3, ApplyTypes DEF Applying!Inductive, Applying!KeysKnown, Applying!KeysKept,
        Applying!Real,
       Applying!ApplyAssumption
<1>6. Applying!Live' = Applying!Live
    <2>1. Applying!InUse' = Applying!InUse
        BY <1>2, <1>3 DEF Applying!InUse, Applying!Real
    <2> QED
        BY <1>2, <2>1 DEF Applying!Live, Applying!Real
<1>7. Applying!SafeInEscrow'
    <2>1. v13 => Applying!Real(v3.direct) \/ Applying!Real(v4.direct)
        BY DEF Applying!Inductive, Applying!KeysKept
    <2> QED
        BY <1>2, <1>3, <1>6, <2>1 DEF Applying!SafeInEscrow, Applying!Real
<1>8. Applying!RoutedAsKeyed'
    BY <1>1, <1>2, <1>6 DEF Applying!RoutedAsKeyed, Applying!Inductive, Applying!At
<1>9. Applying!RenderedAsStored' /\ Applying!AppliedAsStored'
    BY <1>1 DEF Applying!RenderedAsStored, Applying!At, Applying!AppliedAsStored
<1> QED
    BY <1>1, <1>4, <1>5, <1>7, <1>8, <1>9 DEF Applying!Inductive

\* What leaves .env is in escrow, and what comes back is what was there (render.ts:467-485).
LEMMA EnvStep ==
    ASSUME Applying!Inductive, Applying!ApplyAssumption, Applying!RenderEnv
    PROVE  Applying!Inductive'
<1> USE DEF Applying!RenderEnv, Applying!settings, Applying!history
<1>1. /\ v10 \in ApplyJob /\ v10' \in ApplyJob /\ v10'.step = "runtime" /\ ~v11 /\ v11' = v11
      /\ v10 # Idle /\ v10.step = "env"
    BY ApplyTypes DEF Applying!Inductive, ApplyJob, Applying!Steps
<1>2. UNCHANGED <<v1, v2, v4, v5, v6, v7, v8, v9, v12, v13>> /\ v3' = Applying!RenderedEnv
    OBVIOUS
<1>3. /\ Applying!Live => v1 = "assigned" /\ v2 /\ Applying!Real(Applying!InUse)
      /\ v1 = "assigned" /\ v2 /\ ~Applying!Live => v12 = NoKey
      /\ Applying!Live => v12 # NoKey /\ Applying!InUse = v12 /\ v12 \in GatewayKeys
    BY ApplyTypes, LiveIsMinted DEF Applying!Live, Applying!Real, Applying!InUse,
        Applying!ApplyAssumption
<1>4. /\ v1 = "suppressed" => (Applying!Real(v3.gateway) => v4.gateway = v3.gateway)
      /\ v1 = "suppressed" => (Applying!Real(v3.direct) => Applying!Real(v4.direct))
      /\ Applying!Live /\ v13 => Applying!Real(v4.direct)
      /\ v1 = "assigned" => (v6 = "gateway" <=> Applying!Live)
    BY <1>1 DEF Applying!Inductive, Applying!SafeInEscrow, Applying!RoutedAsKeyed, Applying!At
<1>5. CASE v1 = "suppressed"
    <2>1. v3' = [gateway |-> "absent", direct |-> "absent"]
        BY <1>2, <1>5 DEF Applying!RenderedEnv, Applying!Nothing
    <2>2. Applying!TypeOK'
        BY <1>1, <1>2, <2>1 DEF Applying!Inductive, Applying!TypeOK, ApplyJob,
            Applying!Credentials, Applying!DirectValues
    <2>3. Applying!KeysKnown' /\ Applying!KeysKept'
        BY <1>2, <1>4, <1>5, <2>1, ApplyTypes DEF Applying!Inductive, Applying!KeysKnown,
            Applying!KeysKept, Applying!Real,
           Applying!ApplyAssumption
    <2>4. Applying!RenderedAsStored'
        BY <1>2, <1>5, <2>1 DEF Applying!RenderedAsStored, Applying!Nothing
    <2> QED
        BY <1>1, <2>2, <2>3, <2>4 DEF Applying!Inductive, Applying!SafeInEscrow,
            Applying!RoutedAsKeyed, Applying!At,
           Applying!AppliedAsStored
<1>6. CASE Applying!Live
    <2>1. v3' = [gateway |-> v12, direct |-> "absent"]
        BY <1>2, <1>3, <1>6 DEF Applying!RenderedEnv
    <2>2. Applying!TypeOK'
        BY <1>1, <1>2, <1>3, <1>6, <2>1
           DEF Applying!Inductive, Applying!TypeOK, ApplyJob, Applying!Credentials, Applying!DirectValues
    <2>3. Applying!KeysKnown' /\ Applying!KeysKept'
        BY <1>2, <1>3, <1>4, <1>6, <2>1, ApplyTypes DEF Applying!Inductive, Applying!KeysKnown,
            Applying!KeysKept,
           Applying!Real, Applying!ApplyAssumption
    <2>4. Applying!RenderedAsStored'
        BY <1>2, <1>3, <1>4, <1>6, <2>1 DEF Applying!RenderedAsStored
    <2> QED
        BY <1>1, <2>2, <2>3, <2>4 DEF Applying!Inductive, Applying!SafeInEscrow,
            Applying!RoutedAsKeyed, Applying!At,
           Applying!AppliedAsStored
<1>7. CASE v1 = "assigned" /\ ~Applying!Live
    <2> DEFINE g == IF v2 THEN Applying!Ensured(v3.gateway, v4.gateway, "absent") ELSE v3.gateway
               d == Applying!Ensured(v3.direct, v4.direct, Applying!Inherited)
    <2>1. v3' = [gateway |-> g, direct |-> d]
        BY <1>2, <1>7 DEF Applying!RenderedEnv
    <2>2. /\ g \in GatewayKeys \cup {"absent", "changeme"}
          /\ Applying!Real(g) => g = v3.gateway
          /\ Applying!Real(v3.gateway) => g = v3.gateway
          /\ g = "changeme" => v4.gateway = "absent"
        BY <1>3, <1>7, ApplyTypes DEF Applying!Ensured, Applying!Live, Applying!Real,
            Applying!InUse, Applying!Inductive,
           Applying!KeysKnown
    <2>3. /\ d \in Applying!DirectValues
          /\ v13 => Applying!Real(d)
        BY ApplyTypes DEF Applying!Ensured, Applying!Inherited, Applying!Real,
            Applying!DirectValues, Applying!Inductive,
           Applying!KeysKnown, Applying!KeysKept
    <2> HIDE DEF g, d
    <2>4. v3'.gateway = g /\ v3'.direct = d /\ v3' \in Applying!Credentials
        BY <2>1, <2>2, <2>3 DEF Applying!Credentials
    <2>5. Applying!TypeOK'
        BY <1>1, <1>2, <2>4 DEF Applying!Inductive, Applying!TypeOK, ApplyJob
    <2>6. Applying!KeysKnown' /\ Applying!KeysKept'
        BY <1>2, <2>2, <2>3, <2>4, ApplyTypes DEF Applying!Inductive, Applying!KeysKnown,
            Applying!KeysKept, Applying!Real,
           Applying!ApplyAssumption
    <2>7. Applying!RenderedAsStored'
        BY <1>2, <1>3, <1>4, <1>7, <2>3, <2>4 DEF Applying!RenderedAsStored, Applying!Real
    <2> QED
        BY <1>1, <2>5, <2>6, <2>7 DEF Applying!Inductive, Applying!SafeInEscrow,
            Applying!RoutedAsKeyed, Applying!At,
           Applying!AppliedAsStored
<1> QED
    BY <1>5, <1>6, <1>7, ApplyTypes

\* An apply that ends says that all is as stored only when docker was given what was rendered
\* (docker.ts:163-189), and one that was called has found out nothing yet.
LEMMA ApplyEnds ==
    ASSUME Applying!Inductive, v10' = Idle \/ (v10' \in ApplyJob /\ v10'.step = "config"),
           UNCHANGED <<v3, v4, v5, v6, v12, v13>>,
           v1' \in {"assigned", "suppressed"}, v2' \in BOOLEAN, v7' \in [up : BOOLEAN, keys : Applying!Credentials],
           v8' \in {"absent", "made", "attached"}, v9' \in {"absent", "staged", "installed"},
           v11' \in BOOLEAN, v11' => v10' = Idle /\ Applying!AppliedAsStored'
    PROVE  Applying!Inductive'
<1>1. Applying!TypeOK'
    BY DEF Applying!Inductive, Applying!TypeOK, ApplyJob
<1>2. Applying!KeysKnown' /\ Applying!KeysKept'
    BY KeysStay DEF Applying!Inductive
<1>3. Applying!SafeInEscrow' /\ Applying!RoutedAsKeyed' /\ Applying!RenderedAsStored'
    BY ApplyOver
<1>4. (v11 => v10 = Idle)' /\ Applying!AppliedAsStored'
    BY DEF Applying!AppliedAsStored
<1> QED
    BY <1>1, <1>2, <1>3, <1>4 DEF Applying!Inductive

\* A container that is stopped.
LEMMA TornDownTypes ==
    ASSUME Applying!Inductive
    PROVE  Applying!TornDown \in [up : BOOLEAN, keys : Applying!Credentials] /\ ~Applying!TornDown.up
BY ApplyTypes DEF Applying!TornDown

\* Whatever is applied, stored, installed by hand or breaks (render.ts:421-485, docker.ts:163-189,
\* ops.ts:230-330); keys are minted for suppressed inventory after it was rendered.
LEMMA ApplyingStep ==
    Applying!ApplyAssumption /\ MintEarly = FALSE /\ Applying!Inductive /\ Applying!Next => Applying!Inductive'
<1> SUFFICES ASSUME Applying!ApplyAssumption, MintEarly = FALSE, Applying!Inductive, Applying!Next
             PROVE  Applying!Inductive'
    OBVIOUS
<1> USE DEF Applying!settings, Applying!history
<1>0. /\ v8 \in {"absent", "made", "attached"} /\ v9 \in {"absent", "staged", "installed"} /\ v11 \in BOOLEAN
      /\ v1 \in {"assigned", "suppressed"} /\ v2 \in BOOLEAN
      /\ v7 \in [up : BOOLEAN, keys : Applying!Credentials] /\ v3 \in Applying!Credentials
      /\ \A b \in BOOLEAN : [step |-> "config", start |-> b] \in ApplyJob
    BY ApplyTypes DEF Applying!Inductive, Applying!TypeOK, ApplyJob, Applying!Steps
<1>c. ASSUME Applying!Called
      PROVE  v10' \in ApplyJob /\ v10'.step = "config" /\ v11' = FALSE
    BY <1>0, <1>c DEF Applying!Called
<1>1. CASE Applying!RenderConfig
    BY <1>1, ConfigStep
<1>2. CASE Applying!RenderEscrow
    BY <1>2, EscrowStep
<1>3. CASE Applying!RenderEnv
    BY <1>3, EnvStep
<1>4. CASE Applying!ComposeUp
    <2> USE DEF Applying!ComposeUp
    <2>1. /\ v10' = Idle /\ v11' \in BOOLEAN /\ UNCHANGED <<v1, v2, v3, v4, v5, v6, v12, v13>>
          /\ v8' \in {"absent", "made", "attached"} /\ v9' \in {"absent", "staged", "installed"}
        BY <1>0, <1>4 DEF Applying!Ends, Applying!NetworkEnsured, Applying!PluginsEnsured
    <2>2. v7' \in [up : BOOLEAN, keys : Applying!Credentials]
        <3>1. [v7 EXCEPT !.up = FALSE] \in [up : BOOLEAN, keys : Applying!Credentials]
            BY <1>0
        <3>2. \A b \in BOOLEAN : [up |-> b, keys |-> v3] \in [up : BOOLEAN, keys : Applying!Credentials]
            BY <1>0
        <3> QED
            BY <1>0, <1>4, <3>1, <3>2
    <2>3. ASSUME v11'
          PROVE  Applying!AppliedAsStored'
        <3>1. /\ v1 = "assigned" /\ v2 => v8' # "absent"
              /\ v9' = "installed" /\ v7' = [up |-> TRUE, keys |-> v3]
            BY <1>4, <2>3 DEF Applying!Ends
        <3>2. IF v6 = "gateway" THEN v3 = [gateway |-> v12, direct |-> "absent"] /\ v2
              ELSE (v13 => Applying!Real(v3.direct)) /\ ~(v2 /\ v12 # NoKey)
            BY <1>4 DEF Applying!Inductive, Applying!RenderedAsStored, Applying!At
        <3>3. v1' = "assigned"
            BY <1>4
        <3> QED
            BY <1>4, <2>1, <3>1, <3>2, <3>3 DEF Applying!AppliedAsStored, Applying!Real
    <2> QED
        BY <1>0, <2>1, <2>2, <2>3, ApplyEnds
<1>5. CASE Applying!TearDown
    <2>1. Applying!AppliedAsStored'
        BY <1>5, TornDownTypes DEF Applying!TearDown, Applying!AppliedAsStored, Applying!Inductive,
           Applying!RenderedAsStored, Applying!At, Applying!Nothing
    <2> QED
        BY <1>0, <1>5, <2>1, TornDownTypes, ApplyEnds DEF Applying!TearDown, Applying!Ends
<1>6. CASE Applying!RenderedOnly \/ Applying!Fails
    BY <1>0, <1>6, ApplyEnds DEF Applying!RenderedOnly, Applying!Fails, Applying!Ends
<1>7. CASE Applying!Apply
    BY <1>0, <1>7, <1>c, ApplyEnds DEF Applying!Apply
<1>8. ASSUME NEW access \in {"assigned", "suppressed"}, Applying!SetModelAccess(access)
      PROVE  Applying!Inductive'
    BY <1>0, <1>8, <1>c, ApplyEnds DEF Applying!SetModelAccess, Applying!Ends
<1>9. ASSUME NEW url \in BOOLEAN, Applying!SetModelGateway(url)
      PROVE  Applying!Inductive'
    BY <1>0, <1>9, <1>c, ApplyEnds DEF Applying!SetModelGateway
<1>h. ASSUME v10 = Idle, UNCHANGED <<v1, v2, v5, v6, v7, v8, v9, v10>>, v11' = FALSE,
             v3' \in Applying!Credentials, v4' \in Applying!Credentials, v12' \in GatewayKeys \cup {NoKey},
             v13' \in BOOLEAN, Applying!KeysKnown', Applying!KeysKept'
      PROVE  Applying!Inductive'
    <2>1. Applying!TypeOK'
        BY <1>h DEF Applying!Inductive, Applying!TypeOK
    <2>2. Applying!SafeInEscrow' /\ Applying!RoutedAsKeyed' /\ Applying!RenderedAsStored'
        BY <1>h, ApplyOver
    <2> QED
        BY <1>h, <2>1, <2>2 DEF Applying!Inductive, Applying!AppliedAsStored
<1>10. ASSUME NEW k \in GatewayKeys, Applying!InstallKey(k)
       PROVE  Applying!Inductive'
    <2>1. /\ v3' \in Applying!Credentials /\ v3'.gateway = k /\ v3'.direct = v3.direct
          /\ UNCHANGED <<v4, v13>> /\ v12' = k
        BY <1>0, <1>10 DEF Applying!InstallKey, Applying!Credentials
    <2>2. Applying!KeysKnown' /\ Applying!KeysKept'
        BY <2>1, ApplyTypes DEF Applying!Inductive, Applying!KeysKnown, Applying!KeysKept,
            Applying!Real,
           Applying!ApplyAssumption
    <2> QED
        BY <1>10, <2>1, <2>2, <1>h, ApplyTypes DEF Applying!InstallKey, Applying!Inductive,
            Applying!TypeOK
<1>11. ASSUME NEW k \in GatewayKeys, Applying!MintIntoEscrow(k)
       PROVE  Applying!Inductive'
    <2>1. /\ v4' \in Applying!Credentials /\ v4'.gateway = k /\ v4'.direct = v4.direct
          /\ UNCHANGED <<v3, v13>> /\ v12' = k /\ v3.gateway = "absent"
        BY <1>0, <1>11, ApplyTypes DEF Applying!MintIntoEscrow, Applying!Credentials
    <2>2. Applying!KeysKnown' /\ Applying!KeysKept'
        BY <2>1, ApplyTypes DEF Applying!Inductive, Applying!KeysKnown, Applying!KeysKept,
            Applying!Real,
           Applying!ApplyAssumption
    <2> QED
        BY <1>11, <2>1, <2>2, <1>h, ApplyTypes DEF Applying!MintIntoEscrow, Applying!Inductive,
            Applying!TypeOK
<1>12. CASE Applying!InstallDirect
    <2>1. /\ v3' \in Applying!Credentials /\ v3'.gateway = v3.gateway /\ v3'.direct = "own"
          /\ UNCHANGED <<v4, v12>> /\ v13' = TRUE
        BY <1>0, <1>12 DEF Applying!InstallDirect, Applying!Credentials, Applying!DirectValues
    <2>2. Applying!KeysKnown' /\ Applying!KeysKept'
        BY <2>1, ApplyTypes DEF Applying!Inductive, Applying!KeysKnown, Applying!KeysKept,
            Applying!Real,
           Applying!ApplyAssumption
    <2> QED
        BY <1>12, <2>1, <2>2, <1>h, ApplyTypes DEF Applying!InstallDirect, Applying!Inductive,
            Applying!TypeOK
<1>13. CASE Applying!Breaks
    <2>1. /\ UNCHANGED <<v1, v2, v3, v4, v5, v6, v9, v10, v12, v13>> /\ v11' = FALSE
          /\ v8' \in {"absent", "made", "attached"} /\ v7' \in [up : BOOLEAN, keys : Applying!Credentials]
        BY <1>0, <1>13, TornDownTypes DEF Applying!Breaks
    <2>2. Applying!TypeOK'
        BY <1>0, <2>1 DEF Applying!Inductive, Applying!TypeOK
    <2>3. Applying!KeysKnown' /\ Applying!KeysKept'
        BY <2>1, KeysStay DEF Applying!Inductive
    <2>4. Applying!SafeInEscrow' /\ Applying!RoutedAsKeyed' /\ Applying!RenderedAsStored'
        BY <2>1 DEF Applying!Inductive, Applying!SafeInEscrow, Applying!RoutedAsKeyed,
            Applying!RenderedAsStored,
           Applying!At, Applying!Live, Applying!InUse, Applying!Real, Applying!Nothing
    <2> QED
        BY <2>1, <2>2, <2>3, <2>4 DEF Applying!Inductive, Applying!AppliedAsStored
<1> QED
    BY <1>1, <1>2, <1>3, <1>4, <1>5, <1>6, <1>7, <1>8, <1>9, <1>10, <1>11, <1>12,
        <1>13 DEF Applying!Next

\* A step of no part.
LEMMA ApplyingStays == Applying!Inductive /\ UNCHANGED Applying!vars => Applying!Inductive'
<1> SUFFICES ASSUME Applying!Inductive, UNCHANGED Applying!vars
             PROVE  Applying!Inductive'
    OBVIOUS
<1> USE DEF Applying!vars, Applying!Inductive
<1>1. Applying!TypeOK'
    BY DEF Applying!TypeOK
<1>2. Applying!KeysKnown' /\ Applying!KeysKept'
    BY KeysStay
<1>3. Applying!SafeInEscrow' /\ Applying!RoutedAsKeyed' /\ Applying!RenderedAsStored'
    BY DEF Applying!SafeInEscrow, Applying!RoutedAsKeyed, Applying!RenderedAsStored,
           Applying!At, Applying!Live, Applying!InUse, Applying!Real, Applying!Nothing
<1>4. Applying!AppliedAsStored'
    BY DEF Applying!AppliedAsStored, Applying!Real, Applying!Nothing
<1> QED
    BY <1>1, <1>2, <1>3, <1>4

\* The invariant of an apply holds as long as no key is put in escrow early.
LEMMA ApplyingHolds ==
    ASSUME MintEarly = FALSE
    PROVE  ServicesSpec => [](part = "apply" => Applying!Inductive)
<1> DEFINE Inv == part = "apply" => Applying!Inductive
<1>1. ServicesInit => Inv
    BY ApplyingInit DEF ServicesInit
<1>2. Inv /\ [ServicesNext]_partVars => Inv'
    <2> SUFFICES ASSUME Inv, [ServicesNext]_partVars, part' = "apply"
                 PROVE  Applying!Inductive'
        OBVIOUS
    <2>1. CASE UNCHANGED partVars
        BY <2>1, ApplyingStays DEF partVars, Applying!vars
    <2>2. CASE ServicesNext
        BY <2>2, ApplyingStep, ServicesAssumption DEF ServicesNext, ServicesAssumption
    <2> QED
        BY <2>1, <2>2
<1> QED
    BY <1>1, <1>2, PTL DEF ServicesSpec

\* No model key is lost, wherever an apply stops and whatever is assigned, routed, installed or
\* breaks in between (render.ts:454-470), provided that keys are minted for suppressed
\* inventory after it was rendered.
THEOREM Keys ==
    ASSUME MintEarly = FALSE
    PROVE  ServicesSpec => []KeysKept
<1>1. (part = "apply" => Applying!Inductive) => KeysKept
    BY DEF KeysKept, Applying!Inductive
<1> QED
    BY <1>1, ApplyingHolds, PTL

\* What an apply that ended with docker leaves is as stored: the container up with the keys on
\* file and routed as they are, or torn down with none (docker.ts:163-189).
THEOREM Applies ==
    ASSUME MintEarly = FALSE
    PROVE  ServicesSpec => []AppliedAsStored
<1>1. (part = "apply" => Applying!Inductive) => AppliedAsStored
    BY DEF AppliedAsStored, Applying!Inductive
<1> QED
    BY <1>1, ApplyingHolds, PTL

------------------------------------------------------------------------------
(* Egress.                                                                   *)

\* A set of numbers has a least one.
LEMMA Least ==
    ASSUME NEW S \in SUBSET Nat, S # {}
    PROVE  \E n \in S : \A m \in S : n <= m
<1> DEFINE R == OpToRel(<, Nat)
<1>1. IsWellFoundedOn(R, Nat)
    BY NatLessThanWellFounded
<1>2. \A x, y \in Nat : <<x, y>> \in R <=> x < y
    BY DEF OpToRel
<1> HIDE DEF R
<1>3. \E x \in S : \A y \in S : ~ (<<y, x>> \in R)
    BY <1>1, WFMin
<1>4. PICK x \in S : \A y \in S : ~ (<<y, x>> \in R)
    BY <1>3
<1>5. ASSUME NEW y \in S
      PROVE  x <= y
    <2>1. x \in Nat /\ y \in Nat
        OBVIOUS
    <2>2. ~ (y < x)
        BY <1>2, <1>4, <2>1
    <2> QED
        BY <2>1, <2>2
<1> QED
    BY <1>5

\* Two names of one operator.
LEMMA SameCardinality == \A S : Exits!Cardinality(S) = Cardinality(S)
BY DEF Exits!Cardinality, Cardinality

\* Two names of one operator.
LEMMA SameRemoveAt == \A s, i : Exits!RemoveAt(s, i) = RemoveAt(s, i)
BY DEF Exits!RemoveAt, RemoveAt

\* The node that is picked is in the pool, and none in the pool carries less (egress.ts:43-51).
LEMMA PickIsLeast ==
    ASSUME Exits!TypeOK, ServicesAssumption, v1 # <<>>
    PROVE  Exits!PickExitNode \in Exits!Pool /\ \A n \in Exits!Pool : Exits!Load(Exits!PickExitNode) <= Exits!Load(n)
<1>1. \A n : Exits!Load(n) \in Nat
    <2> TAKE n
    <2>1. Exits!Carried(n) \subseteq Guests
        BY DEF Exits!Carried, Exits!EgressTenants
    <2>2. Exits!Load(n) \in Nat
        <3>1. IsFiniteSet(Exits!Carried(n))
            BY <2>1, FS_Subset DEF ServicesAssumption
        <3>2. Cardinality(Exits!Carried(n)) \in Nat
            BY <3>1, FS_CardinalityType
        <3> QED
            BY <3>2, SameCardinality DEF Exits!Load
    <2> QED
        BY <2>2
<1>2. v1 \in Seq(Nodes) /\ DOMAIN v1 = 1 .. Len(v1) /\ Len(v1) \in Nat /\ Len(v1) > 0 /\ 1 \in DOMAIN v1
    <2>1. v1 \in Seq(Nodes)
        BY DEF Exits!TypeOK
    <2>2. Len(v1) # 0
        BY <2>1, EmptySeq
    <2> QED
        BY <2>1, <2>2, LenProperties
<1> DEFINE L == Exits!LeastLoaded
           Loads == {Exits!Load(v1[i]) : i \in DOMAIN v1}
<1>3. PICK l \in Loads : \A m \in Loads : l <= m
    <2>1. Loads \subseteq Nat /\ Loads # {}
        BY <1>1, <1>2
    <2> QED
        BY <2>1, Least
<1>4. L # {} /\ L \subseteq DOMAIN v1 /\ L \subseteq Nat
    <2>1. PICK i \in DOMAIN v1 : l = Exits!Load(v1[i])
        OBVIOUS
    <2>2. i \in L
        BY <1>3, <2>1 DEF Exits!LeastLoaded
    <2> QED
        BY <1>2, <2>2 DEF Exits!LeastLoaded
<1> DEFINE i == CHOOSE i \in L : \A j \in L : i <= j
<1>5. i \in L
    BY <1>4, Least
<1>6. Exits!PickExitNode = v1[i]
    BY DEF Exits!PickExitNode
<1>7. i \in DOMAIN v1 /\ \A j \in DOMAIN v1 : Exits!Load(v1[i]) <= Exits!Load(v1[j])
    BY <1>5 DEF Exits!LeastLoaded
<1> HIDE DEF i, L
<1> QED
    BY <1>6, <1>7 DEF Exits!Pool

\* A node removed from the pool is the only one that goes.
LEMMA Removed ==
    ASSUME NEW s \in Seq(Nodes), \A i, j \in DOMAIN s : s[i] = s[j] => i = j, NEW k \in DOMAIN s
    PROVE  /\ RemoveAt(s, k) \in Seq(Nodes)
           /\ \A i, j \in DOMAIN RemoveAt(s, k) : RemoveAt(s, k)[i] = RemoveAt(s, k)[j] => i = j
           /\ \A i \in DOMAIN s \ {k} : \E j \in DOMAIN RemoveAt(s, k) : RemoveAt(s, k)[j] = s[i]
<1> DEFINE t == RemoveAt(s, k)
<1>1. Len(s) \in Nat /\ k \in 1 .. Len(s) /\ DOMAIN s = 1 .. Len(s)
    OBVIOUS
<1>2. /\ t \in Seq(Nodes) /\ Len(t) = Len(s) - 1
      /\ \A i \in 1 .. Len(s) - 1 : t[i] = IF i < k THEN s[i] ELSE s[i + 1]
    <2> DEFINE a == SubSeq(s, 1, k - 1)
               b == SubSeq(s, k + 1, Len(s))
    <2>1. /\ a \in Seq(Nodes) /\ Len(a) = k - 1
          /\ \A i \in 1 .. k - 1 : a[i] = s[i]
        BY <1>1, SubSeqProperties
    <2>2. /\ b \in Seq(Nodes) /\ Len(b) = Len(s) - k
          /\ \A i \in 1 .. Len(s) - k : b[i] = s[k + i]
        BY <1>1, SubSeqProperties
    <2>3. t = a \o b
        BY DEF RemoveAt
    <2> HIDE DEF a, b, t
    <2>4. /\ t \in Seq(Nodes) /\ Len(t) = Len(s) - 1
          /\ \A i \in 1 .. Len(s) - 1 : t[i] = IF i <= k - 1 THEN a[i] ELSE b[i - (k - 1)]
        <3>1. Len(a) + Len(b) = Len(s) - 1
            BY <1>1, <2>1, <2>2
        <3>2. /\ t \in Seq(Nodes) /\ Len(t) = Len(a) + Len(b)
              /\ \A i \in 1 .. Len(a) + Len(b) : t[i] = IF i <= Len(a) THEN a[i] ELSE b[i - Len(a)]
            <4>1. a \in Seq(Nodes) /\ b \in Seq(Nodes)
                BY <2>1, <2>2
            <4>2. /\ a \o b \in Seq(Nodes) /\ Len(a \o b) = Len(a) + Len(b)
                  /\ \A i \in 1 .. Len(a) + Len(b) :
                        (a \o b)[i] = IF i <= Len(a) THEN a[i] ELSE b[i - Len(a)]
                BY <4>1, ConcatProperties
            <4> QED
                BY <2>3, <4>2
        <3> QED
            BY <2>1, <3>1, <3>2
    <2>5. ASSUME NEW i \in 1 .. Len(s) - 1
          PROVE  t[i] = IF i < k THEN s[i] ELSE s[i + 1]
        <3>1. CASE i < k
            BY <1>1, <2>1, <2>4, <3>1
        <3>2. CASE i >= k
            <4>1. i - (k - 1) \in 1 .. Len(s) - k /\ k + (i - (k - 1)) = i + 1
                BY <1>1, <3>2
            <4>2. t[i] = b[i - (k - 1)]
                BY <1>1, <2>4, <3>2
            <4>3. b[i - (k - 1)] = s[i + 1]
                BY <2>2, <4>1
            <4> QED
                BY <1>1, <3>2, <4>2, <4>3
        <3> QED
            BY <1>1, <3>1, <3>2
    <2> QED
        BY <2>4, <2>5
<1> HIDE DEF t
<1>3. DOMAIN t = 1 .. Len(s) - 1
    BY <1>2
<1>4. ASSUME NEW i \in DOMAIN t, NEW j \in DOMAIN t, t[i] = t[j]
      PROVE  i = j
    <2> DEFINE x == IF i < k THEN i ELSE i + 1
               y == IF j < k THEN j ELSE j + 1
    <2>1. x \in DOMAIN s /\ y \in DOMAIN s /\ t[i] = s[x] /\ t[j] = s[y]
        BY <1>1, <1>2, <1>3
    <2>2. x = y
        BY <1>4, <2>1
    <2> QED
        BY <1>1, <1>3, <2>2
<1>5. ASSUME NEW i \in DOMAIN s \ {k}
      PROVE  \E j \in DOMAIN t : t[j] = s[i]
    <2>1. CASE i < k
        BY <1>1, <1>2, <1>3, <2>1
    <2>2. CASE i > k
        <3>1. i - 1 \in DOMAIN t /\ t[i - 1] = s[i]
            BY <1>1, <1>2, <1>3, <2>2
        <3> QED
            BY <3>1
    <2> QED
        BY <1>1, <2>1, <2>2
<1> QED
    BY <1>2, <1>4, <1>5 DEF t

\* What is picked is a node of the pool, or none.
LEMMA Picked ==
    ASSUME Exits!TypeOK, ServicesAssumption
    PROVE  /\ Exits!Pool \subseteq Nodes /\ Nowhere \notin Exits!Pool
           /\ Exits!PickExitNode \in Exits!Pool \cup {Nowhere}
<1>1. Exits!Pool \subseteq Nodes
    <2>1. v1 \in Seq(Nodes)
        BY DEF Exits!TypeOK
    <2>2. \A i \in DOMAIN v1 : v1[i] \in Nodes
        BY <2>1, LenProperties, ElementOfSeq
    <2> QED
        BY <2>2 DEF Exits!Pool
<1>2. Exits!PickExitNode \in Exits!Pool \cup {Nowhere}
    <2>1. CASE v1 = <<>>
        BY <2>1 DEF Exits!PickExitNode
    <2>2. CASE v1 # <<>>
        BY <2>2, PickIsLeast
    <2> QED
        BY <2>1, <2>2
<1> QED
    BY <1>1, <1>2 DEF ServicesAssumption

\* The pool is empty and nobody is signed up (egress.ts:28-33).
LEMMA ExitsInit == Exits!Init => Exits!Inductive
<1> SUFFICES ASSUME Exits!Init
             PROVE  Exits!Inductive
    OBVIOUS
<1> USE DEF Exits!Init, Exits!Still
<1>1. v1 \in Seq(Nodes) /\ DOMAIN v1 = {}
    BY EmptySeq
<1>2. Exits!TypeOK
    BY <1>1 DEF Exits!TypeOK
<1>3. Exits!PoolCarriesAll /\ Exits!MovedIntoPool
    BY DEF Exits!PoolCarriesAll, Exits!EgressTenants, Exits!MovedIntoPool
<1> QED
    BY <1>2, <1>3 DEF Exits!Inductive

\* The nodes are those of the sequence.
LEMMA SamePool ==
    ASSUME UNCHANGED v1
    PROVE  Exits!Pool' = Exits!Pool
BY DEF Exits!Pool

\* A step that leaves the pool and the migration alone keeps the invariant if each active tenant
\* ends up on a node of the pool, or on none.
LEMMA ExitsAlone ==
    ASSUME Exits!Inductive, UNCHANGED v1,
           v6' \in [left : SUBSET Guests, to : Nodes \cup {Nowhere}],
           v6'.left = {} \/ (v6'.left \subseteq v6.left /\ v6'.to = v6.to) \/ v6'.to \in Exits!Pool,
           v2' \in [Guests -> {"absent", "container", "desktop", "container off", "desktop off"}],
           v3' \in [Guests -> Nodes \cup {Nowhere}],
           v4' \in [Guests -> Nodes \cup {Nowhere, Exits!NoSeed}], v5' \in [Guests -> Nodes \cup {Nowhere, Exits!NoSeed}],
           \A g \in Guests : v2'[g] = "desktop" /\ v3'[g] # Nowhere =>
                                v3'[g] \in Exits!Pool \/ (v2[g] = "desktop" /\ v3'[g] = v3[g])
    PROVE  Exits!Inductive'
<1>1. Exits!TypeOK'
    BY DEF Exits!Inductive, Exits!TypeOK, Exits!NoSeed
<1>2. Exits!Pool' = Exits!Pool
    BY SamePool
<1>3. Exits!PoolCarriesAll'
    BY <1>2 DEF Exits!Inductive, Exits!PoolCarriesAll, Exits!EgressTenants
<1>4. Exits!MovedIntoPool'
    BY <1>2 DEF Exits!Inductive, Exits!MovedIntoPool
<1> QED
    BY <1>1, <1>3, <1>4 DEF Exits!Inductive

\* Whatever command comes next, and however it ends (egress.ts:43-200, ops.ts:108-113, 495-515,
\* seed.ts:30-60).
LEMMA ExitsStep == ServicesAssumption /\ Exits!Inductive /\ Exits!Next => Exits!Inductive'
<1> SUFFICES ASSUME ServicesAssumption, Exits!Inductive, Exits!Next
             PROVE  Exits!Inductive'
    OBVIOUS
<1> USE DEF Exits!Callable, Exits!Still
<1>0. /\ v2 \in [Guests -> {"absent", "container", "desktop", "container off", "desktop off"}]
      /\ v3 \in [Guests -> Nodes \cup {Nowhere}]
      /\ v4 \in [Guests -> Nodes \cup {Nowhere, Exits!NoSeed}] /\ v5 \in [Guests -> Nodes \cup {Nowhere, Exits!NoSeed}]
      /\ v6 \in [left : SUBSET Guests, to : Nodes \cup {Nowhere}]
      /\ v1 \in Seq(Nodes) /\ \A i, j \in DOMAIN v1 : v1[i] = v1[j] => i = j
    BY DEF Exits!Inductive, Exits!TypeOK, Exits!NoSeed
<1>n. /\ Exits!Pool \subseteq Nodes /\ Nowhere \notin Exits!Pool
      /\ Exits!PickExitNode \in Exits!Pool \cup {Nowhere}
    BY Picked DEF Exits!Inductive
<1>p. /\ \A g \in Guests : v2[g] = "desktop" /\ v3[g] # Nowhere => v3[g] \in Exits!Pool
      /\ v6.left # {} => v6.to \in Exits!Pool
    BY DEF Exits!Inductive, Exits!PoolCarriesAll, Exits!EgressTenants, Exits!MovedIntoPool
<1>m. ASSUME NEW g \in Guests
      PROVE  /\ Exits!MovedOn(g) \in [left : SUBSET Guests, to : Nodes \cup {Nowhere}]
             /\ \/ Exits!MovedOn(g).left = {}
                \/ Exits!MovedOn(g).left \subseteq v6.left /\ Exits!MovedOn(g).to = v6.to
    <2>1. CASE v6.left \ {g} = {}
        BY <2>1 DEF Exits!MovedOn
    <2>2. CASE v6.left \ {g} # {}
        <3>1. Exits!MovedOn(g) = [v6 EXCEPT !.left = v6.left \ {g}]
            BY <2>2 DEF Exits!MovedOn
        <3> QED
            BY <3>1, <1>0
    <2> QED
        BY <2>1, <2>2
<1>1. ASSUME NEW g \in Guests, NEW tier \in {"container", "desktop"}, Exits!Signup(g, tier)
      PROVE  Exits!Inductive'
    <2> DEFINE n == IF tier = "desktop" THEN Exits!PickExitNode ELSE Nowhere
    <2>1. n \in Exits!Pool \cup {Nowhere} /\ n \in Nodes \cup {Nowhere}
        BY <1>n
    <2>2. v2' = [v2 EXCEPT ![g] = tier] /\ v3' = [v3 EXCEPT ![g] = n] /\ UNCHANGED <<v1, v4, v5, v6>>
        BY <1>1 DEF Exits!Signup
    <2> HIDE DEF n
    <2> QED
        BY <2>1, <2>2, <1>0, <1>p, ExitsAlone
<1>2. ASSUME NEW g \in Guests, Exits!Offboard(g)
      PROVE  Exits!Inductive'
    BY <1>2, <1>0, <1>p, ExitsAlone DEF Exits!Offboard
<1>3. ASSUME NEW g \in Guests, Exits!Purge(g)
      PROVE  Exits!Inductive'
    BY <1>3, <1>0, <1>p, ExitsAlone DEF Exits!Purge
<1>4. ASSUME NEW g \in Guests, Exits!RenderSeed(g)
      PROVE  Exits!Inductive'
    <2> DEFINE n == Exits!SeedNode(g)
    <2>1. /\ n \in Nodes \cup {Nowhere}
          /\ n \in Exits!Pool \cup {Nowhere} \/ n = v3[g]
        BY <1>n, <1>0 DEF Exits!SeedNode
    <2>2. v3' = [v3 EXCEPT ![g] = n] /\ v4' = [v4 EXCEPT ![g] = n] /\ UNCHANGED <<v1, v2, v5, v6>>
        BY <1>4 DEF Exits!RenderSeed
    <2> HIDE DEF n
    <2> QED
        BY <2>1, <2>2, <1>0, <1>p, ExitsAlone
<1>5. ASSUME NEW g \in Guests, Exits!Boot(g)
      PROVE  Exits!Inductive'
    BY <1>5, <1>0, <1>p, ExitsAlone DEF Exits!Boot
<1>6. ASSUME NEW g \in Guests, Exits!Destroy(g)
      PROVE  Exits!Inductive'
    BY <1>6, <1>0, <1>p, ExitsAlone DEF Exits!Destroy
<1>7. ASSUME NEW g \in Guests, Exits!Migrated(g)
      PROVE  Exits!Inductive'
    <2>1. v6.to \in Exits!Pool /\ v6.to \in Nodes
        BY <1>7, <1>p, <1>n DEF Exits!Migrated
    <2>2. /\ v5' = [v5 EXCEPT ![g] = v6.to] /\ v3' = [v3 EXCEPT ![g] = v6.to]
          /\ UNCHANGED <<v1, v2, v4>> /\ v6' = Exits!MovedOn(g)
        BY <1>7 DEF Exits!Migrated
    <2> QED
        BY <2>1, <2>2, <1>0, <1>p, <1>m, ExitsAlone
<1>8. ASSUME NEW g \in Guests, Exits!MigrationFails(g)
      PROVE  Exits!Inductive'
    <2>1. v5' \in [Guests -> Nodes \cup {Nowhere, Exits!NoSeed}]
        BY <1>8, <1>0 DEF Exits!MigrationFails
    <2>2. UNCHANGED <<v1, v2, v3, v4>> /\ v6' = Exits!MovedOn(g)
        BY <1>8 DEF Exits!MigrationFails
    <2> QED
        BY <2>1, <2>2, <1>0, <1>p, <1>m, ExitsAlone
<1>9. ASSUME NEW g \in Guests, NEW n \in Nodes, Exits!AssignEgress(g, n)
      PROVE  Exits!Inductive'
    BY <1>9, <1>0, <1>p, ExitsAlone DEF Exits!AssignEgress
<1>10. ASSUME NEW n \in Nodes, Exits!AddExitNode(n)
       PROVE  Exits!Inductive'
    <2>1. UNCHANGED <<v2, v3, v4, v5, v6>> /\ v1' = Append(v1, n) /\ n \notin Exits!Pool
        BY <1>10 DEF Exits!AddExitNode
    <2>2. /\ v1' \in Seq(Nodes) /\ Len(v1') = Len(v1) + 1 /\ Len(v1) \in Nat
          /\ DOMAIN v1 = 1 .. Len(v1) /\ DOMAIN v1' = 1 .. Len(v1')
          /\ \A i \in 1 .. Len(v1) : v1'[i] = v1[i]
          /\ v1'[Len(v1) + 1] = n
        <3>1. /\ Append(v1, n) \in Seq(Nodes) /\ Len(Append(v1, n)) = Len(v1) + 1
              /\ \A i \in 1 .. Len(v1) : Append(v1, n)[i] = v1[i]
              /\ Append(v1, n)[Len(v1) + 1] = n
            <4>1. v1 \in Seq(Nodes) /\ n \in Nodes
                BY <1>0
            <4>2. Append(v1, n) \in Seq(Nodes) /\ Len(Append(v1, n)) = Len(v1) + 1
                BY <4>1, AppendProperties
            <4>3. \A i \in 1 .. Len(v1) : Append(v1, n)[i] = v1[i]
                BY <4>1, AppendProperties
            <4>4. Append(v1, n)[Len(v1) + 1] = n
                BY <4>1, AppendProperties
            <4> QED
                BY <4>2, <4>3, <4>4
        <3>2. /\ Len(v1) \in Nat /\ DOMAIN v1 = 1 .. Len(v1)
              /\ DOMAIN Append(v1, n) = 1 .. Len(Append(v1, n))
            BY <1>0, <3>1, LenProperties
        <3> QED
            BY <2>1, <3>1, <3>2
    <2>3. \A i \in DOMAIN v1 : v1[i] # n
        BY <2>1 DEF Exits!Pool
    <2>4. ASSUME NEW i \in DOMAIN v1', NEW j \in DOMAIN v1', v1'[i] = v1'[j]
          PROVE  i = j
        <3>1. i \in 1 .. Len(v1) \/ i = Len(v1) + 1
            BY <2>2
        <3>2. j \in 1 .. Len(v1) \/ j = Len(v1) + 1
            BY <2>2
        <3> QED
            BY <2>2, <2>3, <2>4, <1>0, <3>1, <3>2
    <2>5. Exits!Pool \subseteq Exits!Pool'
        BY <2>2 DEF Exits!Pool
    <2>6. Exits!TypeOK'
        BY <2>1, <2>2, <2>4 DEF Exits!Inductive, Exits!TypeOK
    <2>7. Exits!PoolCarriesAll' /\ Exits!MovedIntoPool'
        BY <2>1, <2>5, <1>p DEF Exits!PoolCarriesAll, Exits!EgressTenants, Exits!MovedIntoPool
    <2> QED
        BY <2>6, <2>7 DEF Exits!Inductive
<1>11. ASSUME NEW n \in Nodes, Exits!RemoveExitNode(n)
       PROVE  Exits!Inductive'
    <2>1. PICK i \in DOMAIN v1 : v1[i] = n /\ v1' = RemoveAt(v1, i)
        BY <1>11, SameRemoveAt DEF Exits!RemoveExitNode
    <2>2. UNCHANGED <<v2, v3, v4, v5, v6>> /\ v6.left = {} /\ Exits!Carried(n) = {}
        BY <1>11 DEF Exits!RemoveExitNode
    <2>3. /\ v1' \in Seq(Nodes) /\ \A k, j \in DOMAIN v1' : v1'[k] = v1'[j] => k = j
          /\ \A k \in DOMAIN v1 \ {i} : \E j \in DOMAIN v1' : v1'[j] = v1[k]
        <3>1. /\ RemoveAt(v1, i) \in Seq(Nodes)
              /\ \A k, j \in DOMAIN RemoveAt(v1, i) : RemoveAt(v1, i)[k] = RemoveAt(v1, i)[j] => k = j
              /\ \A k \in DOMAIN v1 \ {i} : \E j \in DOMAIN RemoveAt(v1, i) : RemoveAt(v1, i)[j] = v1[k]
            BY <1>0, Removed
        <3> QED
            BY <2>1, <3>1
    <2>4. Exits!Pool \ {n} \subseteq Exits!Pool'
        BY <2>1, <2>3 DEF Exits!Pool
    <2>5. Exits!TypeOK'
        BY <2>2, <2>3 DEF Exits!Inductive, Exits!TypeOK
    <2>6. Exits!PoolCarriesAll'
        BY <2>2, <2>4, <1>p DEF Exits!PoolCarriesAll, Exits!EgressTenants, Exits!Carried
    <2>7. Exits!MovedIntoPool'
        BY <2>2 DEF Exits!MovedIntoPool
    <2> QED
        BY <2>5, <2>6, <2>7 DEF Exits!Inductive
<1>12. ASSUME NEW n \in Nodes, Exits!MigrateEgress(n)
       PROVE  Exits!Inductive'
    <2>1. PICK targets \in {{g} : g \in {h \in Guests : v2[h] \in {"desktop", "desktop off"}}}
                              \cup {Exits!Carried(m) : m \in Exits!Pool \ {n}} :
             v6' = [left |-> targets, to |-> IF targets = {} THEN Nowhere ELSE n]
        BY <1>12 DEF Exits!MigrateEgress
    <2>2. targets \subseteq Guests
        BY DEF Exits!Carried, Exits!EgressTenants
    <2>3. n \in Exits!Pool /\ UNCHANGED <<v1, v2, v3, v4, v5>>
        BY <1>12 DEF Exits!MigrateEgress
    <2>4. /\ v6' \in [left : SUBSET Guests, to : Nodes \cup {Nowhere}]
          /\ v6'.left = {} \/ v6'.to \in Exits!Pool
        BY <2>1, <2>2, <2>3
    <2> QED
        BY <2>3, <2>4, <1>0, <1>p, ExitsAlone
<1>13. CASE Exits!Interrupted
    <2>1. v5' \in [Guests -> Nodes \cup {Nowhere, Exits!NoSeed}]
        <3>1. CASE v5' = v5
            BY <3>1, <1>0
        <3>2. ASSUME NEW g \in Guests, v5' = [v5 EXCEPT ![g] = v6.to]
              PROVE  v5' \in [Guests -> Nodes \cup {Nowhere, Exits!NoSeed}]
            BY <3>2, <1>0
        <3>3. v6.left \subseteq Guests
            BY <1>0
        <3> QED
            BY <1>13, <3>1, <3>2, <3>3 DEF Exits!Interrupted
    <2>2. /\ UNCHANGED <<v1, v2, v3, v4>> /\ v6'.left = {}
          /\ v6' \in [left : SUBSET Guests, to : Nodes \cup {Nowhere}]
        BY <1>13 DEF Exits!Interrupted
    <2> QED
        BY <2>1, <2>2, <1>0, <1>p, ExitsAlone
<1> QED
    BY <1>1, <1>2, <1>3, <1>4, <1>5, <1>6, <1>7, <1>8, <1>9, <1>10, <1>11, <1>12,
        <1>13 DEF Exits!Next

\* A step of no part.
LEMMA ExitsStays == Exits!Inductive /\ UNCHANGED Exits!vars => Exits!Inductive'
<1> SUFFICES ASSUME Exits!Inductive, UNCHANGED Exits!vars
             PROVE  Exits!Inductive'
    OBVIOUS
<1>1. UNCHANGED <<v1, v2, v3, v4, v5, v6>>
    BY DEF Exits!vars
<1>2. /\ v6 \in [left : SUBSET Guests, to : Nodes \cup {Nowhere}]
      /\ v2 \in [Guests -> {"absent", "container", "desktop", "container off", "desktop off"}]
      /\ v3 \in [Guests -> Nodes \cup {Nowhere}]
      /\ v4 \in [Guests -> Nodes \cup {Nowhere, Exits!NoSeed}] /\ v5 \in [Guests -> Nodes \cup {Nowhere, Exits!NoSeed}]
    BY DEF Exits!Inductive, Exits!TypeOK, Exits!NoSeed
<1> QED
    BY <1>1, <1>2, ExitsAlone

\* The invariant of the exit nodes.
LEMMA ExitsHolds == ServicesSpec => [](part = "egress" => Exits!Inductive)
<1> DEFINE Inv == part = "egress" => Exits!Inductive
<1>1. ServicesInit => Inv
    BY ExitsInit DEF ServicesInit
<1>2. Inv /\ [ServicesNext]_partVars => Inv'
    <2> SUFFICES ASSUME Inv, [ServicesNext]_partVars, part' = "egress"
                 PROVE  Exits!Inductive'
        OBVIOUS
    <2>1. CASE UNCHANGED partVars
        BY <2>1, ExitsStays DEF partVars, Exits!vars
    <2>2. CASE ServicesNext
        BY <2>2, ExitsStep, ServicesAssumption DEF ServicesNext
    <2> QED
        BY <2>1, <2>2
<1> QED
    BY <1>1, <1>2, PTL DEF ServicesSpec

\* Nobody is left on a node that left the pool, for any pool and any number of tenants
\* (egress.ts:69-82).
THEOREM Carries == ServicesSpec => []PoolCarriesAll
<1>1. (part = "egress" => Exits!Inductive) => PoolCarriesAll
    BY DEF PoolCarriesAll, Exits!Inductive
<1> QED
    BY <1>1, ExitsHolds, PTL

\* No step but a migration and an assignment changes a node, and a sign-up takes a least loaded one.
LEMMA SticksStep ==
    ASSUME ServicesAssumption, Exits!Inductive, Exits!Next
    PROVE  Exits!Sticks
<1> SUFFICES ASSUME NEW g \in Guests
             PROVE  /\ v2[g] # "absent" /\ v2'[g] # "absent" /\ v3[g] # Nowhere /\ v3'[g] # v3[g] =>
                          Exits!Migrated(g) \/ \E n \in Nodes : Exits!AssignEgress(g, n)
                    /\ v2[g] = "absent" /\ v2'[g] = "desktop" =>
                          IF v1 = <<>> THEN v3'[g] = Nowhere
                          ELSE /\ v3'[g] \in Exits!Pool
                               /\ \A n \in Exits!Pool : Exits!Load(v3'[g]) <= Exits!Load(n)
    BY DEF Exits!Sticks
<1>0. DOMAIN v2 = Guests /\ DOMAIN v3 = Guests /\ Exits!TypeOK
    BY DEF Exits!Inductive, Exits!TypeOK
<1>u. ASSUME UNCHANGED <<v2, v3>>
      PROVE  v2'[g] = v2[g] /\ v3'[g] = v3[g]
    BY <1>u
<1>1. ASSUME NEW h \in Guests, NEW tier \in {"container", "desktop"}, Exits!Signup(h, tier)
      PROVE  /\ v2[g] # "absent" => v3'[g] = v3[g]
             /\ v2[g] = "absent" /\ v2'[g] = "desktop" => v3'[g] = Exits!PickExitNode
    BY <1>1, <1>0 DEF Exits!Signup
<1>2. ASSUME NEW h \in Guests, Exits!Offboard(h) \/ Exits!Purge(h)
      PROVE  /\ v2'[g] # "absent" => v3'[g] = v3[g]
             /\ v2'[g] # "desktop" \/ v2[g] = "desktop"
    BY <1>2, <1>0 DEF Exits!Offboard, Exits!Purge
<1>3. ASSUME NEW h \in Guests, Exits!RenderSeed(h)
      PROVE  v2' = v2 /\ (v3[g] # Nowhere => v3'[g] = v3[g])
    BY <1>3, <1>0 DEF Exits!RenderSeed, Exits!SeedNode
<1>4. ASSUME NEW h \in Guests, Exits!Boot(h) \/ Exits!Destroy(h) \/ Exits!MigrationFails(h)
      PROVE  UNCHANGED <<v2, v3>>
    BY <1>4 DEF Exits!Boot, Exits!Destroy, Exits!MigrationFails
<1>5. ASSUME NEW h \in Guests, Exits!Migrated(h) \/ \E n \in Nodes : Exits!AssignEgress(h, n)
      PROVE  v2' = v2 /\ (h # g => v3'[g] = v3[g])
    BY <1>5, <1>0 DEF Exits!Migrated, Exits!AssignEgress
<1>6. ASSUME \/ Exits!Interrupted
             \/ \E n \in Nodes : Exits!AddExitNode(n) \/ Exits!RemoveExitNode(n) \/ Exits!MigrateEgress(n)
      PROVE  UNCHANGED <<v2, v3>>
    BY <1>6 DEF Exits!Interrupted, Exits!AddExitNode, Exits!RemoveExitNode, Exits!MigrateEgress
<1>7. IF v1 = <<>> THEN Exits!PickExitNode = Nowhere
      ELSE /\ Exits!PickExitNode \in Exits!Pool
           /\ \A n \in Exits!Pool : Exits!Load(Exits!PickExitNode) <= Exits!Load(n)
    BY <1>0, PickIsLeast DEF Exits!PickExitNode
<1>8. CASE \E h \in Guests, tier \in {"container", "desktop"} : Exits!Signup(h, tier)
    BY <1>1, <1>7, <1>8
<1>9. CASE \E h \in Guests : Exits!Offboard(h) \/ Exits!Purge(h)
    BY <1>2, <1>9
<1>10. CASE \E h \in Guests : Exits!RenderSeed(h)
    BY <1>3, <1>10
<1>11. CASE \E h \in Guests : Exits!Boot(h) \/ Exits!Destroy(h) \/ Exits!MigrationFails(h)
    BY <1>4, <1>u, <1>11
<1>12. CASE \E h \in Guests : Exits!Migrated(h) \/ \E n \in Nodes : Exits!AssignEgress(h, n)
    BY <1>5, <1>12
<1>13. CASE \/ Exits!Interrupted
            \/ \E n \in Nodes : Exits!AddExitNode(n) \/ Exits!RemoveExitNode(n) \/ Exits!MigrateEgress(n)
    BY <1>6, <1>u, <1>13
<1> QED
    BY <1>8, <1>9, <1>10, <1>11, <1>12, <1>13 DEF Exits!Next

\* An exit node once assigned is never changed implicitly, and a sign-up takes a node that none
\* in the pool is less loaded than (egress.ts:5-12, 43-51).
THEOREM Sticking == ServicesSpec => Sticky
<1>1. ASSUME part = "egress" => Exits!Inductive, [ServicesNext]_partVars
      PROVE  [part = "egress" => Exits!Sticks]_partVars
    <2>1. CASE UNCHANGED partVars
        BY <2>1
    <2>2. CASE ServicesNext /\ part = "egress"
        BY <1>1, <2>2, SticksStep, ServicesAssumption DEF ServicesNext
    <2> QED
        BY <1>1, <2>1, <2>2
<1> QED
    BY <1>1, ExitsHolds, PTL DEF ServicesSpec, Sticky

------------------------------------------------------------------------------
(* BrowserClient.                                                            *)

\* What a line asks for.
LEMMA BrowserLine ==
    ASSUME NEW line \in Browser!Lines
    PROVE  /\ line.action \in {"tabs", "frame", "text", "click", "select"}
           /\ Browser!FirstStep(line) \in {"tabs", "frame", "typing", "select"}
           /\ Browser!FirstStep(line) = "select" <=> line.action = "select"
           /\ Browser!FirstStep(line) = "tabs" <=> line.action = "tabs"
           /\ Browser!FirstStep(line) = "frame" <=> line.action = "frame"
BY DEF Browser!Lines, Browser!Plain, Browser!Select, Browser!FirstStep

\* The queue after a line was added or the first was taken.
LEMMA BrowserQueue ==
    ASSUME v7 \in Seq(Browser!Lines)
    PROVE  /\ \A line \in Browser!Lines : Append(v7, line) \in Seq(Browser!Lines)
           /\ v7 # <<>> => Head(v7) \in Browser!Lines /\ Tail(v7) \in Seq(Browser!Lines)
<1>1. ASSUME NEW line \in Browser!Lines
      PROVE  Append(v7, line) \in Seq(Browser!Lines)
    BY <1>1, AppendProperties
<1>2. ASSUME v7 # <<>>
      PROVE  Head(v7) \in Browser!Lines /\ Tail(v7) \in Seq(Browser!Lines)
    BY <1>2, HeadTailProperties
<1> QED
    BY <1>1, <1>2

\* Nothing is attached, queued or handled yet (browser-client.mjs:14-20).
LEMMA BrowserInit == Browser!Init => Browser!Inductive
<1> SUFFICES ASSUME Browser!Init
             PROVE  Browser!Inductive
    OBVIOUS
<1> USE DEF Browser!Init, Browser!Nothing
<1>1. v7 \in Seq(Browser!Lines)
    BY EmptySeq
<1>2. Browser!Staged
    BY <1>1 DEF Browser!Staged, Browser!Plain, Browser!FirstStep
<1>3. Browser!ConnectedToShown /\ Browser!InputIsShown
    BY DEF Browser!ConnectedToShown, Browser!InputIsShown
<1> QED
    BY <1>2, <1>3 DEF Browser!Inductive

\* The invariant once a request is over: Nothing is handled, whatever was asked.
LEMMA BrowserOver ==
    ASSUME v7' \in Seq(Browser!Lines), NEW at \in {"idle", "exited"},
           v8' = [line |-> Browser!Plain("none"), at |-> at, recovering |-> FALSE],
           v2' = "open" => v3' = v4' /\ v3' = v9'
    PROVE  Browser!Inductive'
<1>1. Browser!Staged'
    <2>1. v8'.line = Browser!Plain("none") /\ v8'.recovering = FALSE /\ v8'.at = at
        OBVIOUS
    <2>2. Browser!FirstStep(v8'.line) # "typing"
        BY <2>1 DEF Browser!Plain, Browser!FirstStep
    <2>3. v8' \in [line : Browser!Lines \cup {Browser!Plain("none")}, recovering : BOOLEAN,
                   at : {"idle", "listing", "connecting", "fronting", "tabs", "frame", "shooting",
                         "typing", "releasing", "exited"}]
        OBVIOUS
    <2> QED
        BY <2>1, <2>2, <2>3 DEF Browser!Staged
<1>2. Browser!ConnectedToShown' /\ Browser!InputIsShown'
    BY DEF Browser!ConnectedToShown, Browser!InputIsShown
<1> QED
    BY <1>1, <1>2 DEF Browser!Inductive

\* An answer names the tab the connection is to, an input the one that was named before
\* (browser-client.mjs:60-117).
LEMMA BrowserAnswers ==
    ASSUME Browser!Inductive, Browser!Answer, v8.at \in {"fronting", "tabs", "shooting", "typing", "releasing"},
           v8.at = "fronting" => v8.line.action = "select"
    PROVE  Browser!Inductive'
<1>1. /\ v7' \in Seq(Browser!Lines) /\ v8' = Browser!Nothing
      /\ v2' = v2 /\ v3' = v3 /\ v4' = v4
      /\ v9' = IF Browser!FirstStep(v8.line) = "typing" THEN v9 ELSE v4
    BY DEF Browser!Inductive, Browser!Staged, Browser!Answer
<1>2. v2 = "open" => v3 = v4
    BY DEF Browser!Inductive, Browser!ConnectedToShown
<1>3. CASE v8.at \in {"typing", "releasing"}
    <2>1. v3 = v9
        BY <1>3 DEF Browser!Inductive, Browser!InputIsShown
    <2> QED
        BY <1>1, <1>2, <2>1, BrowserOver DEF Browser!Nothing
<1>4. CASE v8.at \in {"fronting", "tabs", "shooting"}
    <2>1. Browser!FirstStep(v8.line) # "typing"
        BY <1>4 DEF Browser!Inductive, Browser!Staged, Browser!FirstStep
    <2> QED
        BY <1>1, <1>2, <2>1, BrowserOver DEF Browser!Nothing
<1> QED
    BY <1>3, <1>4

\* Whatever the owner asks and Chromium does (browser-client.mjs:22-117, browser-bridge.mjs:20-44).
LEMMA BrowserStep == Browser!Inductive /\ Browser!Next => Browser!Inductive'
<1> SUFFICES ASSUME Browser!Inductive, Browser!Next
             PROVE  Browser!Inductive'
    OBVIOUS
<1>0. /\ v7 \in Seq(Browser!Lines)
      /\ v8 \in [line : Browser!Lines \cup {Browser!Plain("none")}, recovering : BOOLEAN,
                 at : {"idle", "listing", "connecting", "fronting", "tabs", "frame", "shooting",
                       "typing", "releasing", "exited"}]
    BY DEF Browser!Inductive, Browser!Staged
<1>a. /\ v8.line \in Browser!Lines \/ v8.at \in {"idle", "exited"}
      /\ v8.at \in {"listing", "connecting", "fronting"} => v8.line.action = "select" \/ v8.recovering
      /\ v8.at \in {"typing", "releasing"} <=>
            /\ Browser!FirstStep(v8.line) = "typing"
            /\ v8.at \notin {"listing", "connecting", "fronting"}
    BY DEF Browser!Inductive, Browser!Staged
<1>b. /\ v2 = "open" => v3 = v4
      /\ v2 = "open" /\ v8.at = "idle" => v3 = v9
      /\ v8.at \in {"typing", "releasing"} => v3 = v9
    BY DEF Browser!Inductive, Browser!ConnectedToShown, Browser!InputIsShown
<1>s. ASSUME UNCHANGED <<v7, v8>>
      PROVE  Browser!Staged'
    BY <1>s DEF Browser!Inductive, Browser!Staged
<1>p. ASSUME NEW at \in {"tabs", "frame", "shooting", "typing", "releasing"}, Browser!Proceed(at),
             v8.at \notin {"idle", "exited"},
             (at \in {"typing", "releasing"}) <=> Browser!FirstStep(v8.line) = "typing",
             at \in {"typing", "releasing"} => v3 = v9
      PROVE  Browser!Inductive'
    <2>1. v8' = [v8 EXCEPT !.at = at] /\ UNCHANGED <<v1, v2, v3, v4, v5, v6, v7, v9>>
        BY <1>p DEF Browser!Proceed
    <2>2. v8'.at = at /\ v8'.line = v8.line /\ v8'.recovering = v8.recovering
        BY <2>1, <1>0
    <2>3. Browser!FirstStep(v8'.line) = Browser!FirstStep(v8.line)
        BY <2>2
    <2>4. Browser!Staged'
        BY <2>1, <2>2, <2>3, <1>0, <1>a, <1>p DEF Browser!Staged
    <2>5. Browser!ConnectedToShown' /\ Browser!InputIsShown'
        BY <2>1, <2>2, <1>b, <1>p DEF Browser!ConnectedToShown, Browser!InputIsShown
    <2> QED
        BY <2>4, <2>5 DEF Browser!Inductive
<1>1. ASSUME NEW line \in Browser!Lines, Browser!Ask(line)
      PROVE  Browser!Inductive'
    <2>1. v7' = Append(v7, line) /\ UNCHANGED <<v1, v2, v3, v4, v5, v6, v8, v9>>
        BY <1>1 DEF Browser!Ask
    <2>2. v7' \in Seq(Browser!Lines)
        BY <2>1, <1>0, BrowserQueue
    <2>3. Browser!Staged'
        BY <2>1, <2>2 DEF Browser!Inductive, Browser!Staged
    <2>4. Browser!ConnectedToShown' /\ Browser!InputIsShown'
        BY <2>1 DEF Browser!Inductive, Browser!ConnectedToShown, Browser!InputIsShown
    <2> QED
        BY <2>3, <2>4 DEF Browser!Inductive
<1>2. ASSUME NEW t \in Tabs, Browser!TabOpens(t) \/ Browser!TabCloses(t)
      PROVE  Browser!Inductive'
    <2>1. UNCHANGED <<v2, v3, v4, v5, v6, v7, v8, v9>>
        BY <1>2 DEF Browser!TabOpens, Browser!TabCloses
    <2>2. Browser!ConnectedToShown' /\ Browser!InputIsShown'
        BY <2>1 DEF Browser!Inductive, Browser!ConnectedToShown, Browser!InputIsShown
    <2> QED
        BY <2>1, <2>2, <1>s DEF Browser!Inductive
<1>3. CASE Browser!Handle
    <2> DEFINE line == Head(v7)
               recovers == line.action # "select" /\ Browser!Detached
               at == IF recovers \/ line.action = "select" THEN "listing" ELSE Browser!FirstStep(line)
    <2>1. line \in Browser!Lines /\ Tail(v7) \in Seq(Browser!Lines)
        BY <1>3, <1>0, BrowserQueue DEF Browser!Handle
    <2>2. /\ v8' = [line |-> line, recovering |-> recovers, at |-> at]
          /\ v7' = Tail(v7) /\ v8.at = "idle" /\ UNCHANGED <<v1, v2, v3, v4, v5, v6, v9>>
        BY <1>3 DEF Browser!Handle
    <2>3. /\ at \in {"listing", "tabs", "frame", "typing"}
          /\ at = "listing" => line.action = "select" \/ recovers
          /\ at = "typing" <=> Browser!FirstStep(line) = "typing" /\ at # "listing"
          /\ at = "typing" => v2 = "open"
        BY <2>1, BrowserLine DEF Browser!Detached
    <2>4. recovers \in BOOLEAN
        OBVIOUS
    <2> HIDE DEF line, recovers, at
    <2>5. Browser!Staged'
        <3>1. v8' \in [line : Browser!Lines \cup {Browser!Plain("none")}, recovering : BOOLEAN,
                       at : {"idle", "listing", "connecting", "fronting", "tabs", "frame", "shooting",
                             "typing", "releasing", "exited"}]
            BY <2>1, <2>2, <2>3, <2>4
        <3>2. v8'.line = line /\ v8'.recovering = recovers /\ v8'.at = at
            BY <2>2
        <3>3. Browser!FirstStep(v8'.line) = Browser!FirstStep(line)
            BY <3>2
        <3> QED
            BY <2>1, <2>2, <2>3, <3>1, <3>2, <3>3 DEF Browser!Staged
    <2>6. Browser!ConnectedToShown' /\ Browser!InputIsShown'
        BY <2>2, <2>3, <1>b DEF Browser!ConnectedToShown, Browser!InputIsShown
    <2> QED
        BY <2>5, <2>6 DEF Browser!Inductive
<1>4. ASSUME Browser!Fail
      PROVE  Browser!Inductive'
    <2>1. v8' = Browser!Nothing /\ v2' = "none" /\ v7' = v7
        BY <1>4 DEF Browser!Fail
    <2> QED
        BY <2>1, <1>0, BrowserOver DEF Browser!Nothing
<1>5. CASE Browser!Interrupted
    BY <1>5, <1>4 DEF Browser!Interrupted
<1>6. CASE Browser!Attach
    <2>1. /\ v8' = [v8 EXCEPT !.at = "connecting"] /\ v2' = "connecting" /\ v7' = v7 /\ v8.at = "listing"
        BY <1>6 DEF Browser!Attach
    <2>2. v8'.at = "connecting" /\ v8'.line = v8.line /\ v8'.recovering = v8.recovering
        BY <2>1, <1>0
    <2>3. Browser!Staged'
        BY <2>1, <2>2, <1>0, <1>a DEF Browser!Staged
    <2>4. Browser!ConnectedToShown' /\ Browser!InputIsShown'
        BY <2>1, <2>2 DEF Browser!ConnectedToShown, Browser!InputIsShown
    <2> QED
        BY <2>3, <2>4 DEF Browser!Inductive
<1>7. CASE Browser!Opened
    <2>1. /\ v8' = [v8 EXCEPT !.at = "fronting"] /\ v4' = v3 /\ v3' = v3 /\ v7' = v7 /\ v8.at = "connecting"
        BY <1>7 DEF Browser!Opened
    <2>2. v8'.at = "fronting" /\ v8'.line = v8.line /\ v8'.recovering = v8.recovering
        BY <2>1, <1>0
    <2>3. Browser!Staged'
        BY <2>1, <2>2, <1>0, <1>a DEF Browser!Staged
    <2>4. Browser!ConnectedToShown' /\ Browser!InputIsShown'
        BY <2>1, <2>2 DEF Browser!ConnectedToShown, Browser!InputIsShown
    <2> QED
        BY <2>3, <2>4 DEF Browser!Inductive
<1>8. CASE Browser!Fronted
    <2>1. CASE v8.line.action = "select"
        BY <1>8, <2>1, BrowserAnswers DEF Browser!Fronted
    <2>2. CASE v8.line.action # "select" /\ Browser!HeldBack
        BY <1>8, <2>2, <1>4 DEF Browser!Fronted
    <2>3. CASE v8.line.action # "select" /\ ~Browser!HeldBack
        <3>1. v8.at = "fronting" /\ Browser!Proceed(Browser!FirstStep(v8.line))
            BY <1>8, <2>3 DEF Browser!Fronted
        <3>2. Browser!FirstStep(v8.line) # "typing"
            BY <3>1, <2>3, <1>a DEF Browser!HeldBack
        <3>3. v8.line \in Browser!Lines
            BY <3>1, <1>a
        <3>4. Browser!FirstStep(v8.line) \in {"tabs", "frame"}
            BY <3>2, <3>3, <2>3, BrowserLine
        <3> QED
            BY <3>1, <3>2, <3>4, <1>p
    <2> QED
        BY <2>1, <2>2, <2>3
<1>9. CASE Browser!ListTabs
    BY <1>9, BrowserAnswers DEF Browser!ListTabs
<1>10. CASE Browser!BringToFront
    BY <1>10, <1>a, <1>p DEF Browser!BringToFront
<1>11. CASE Browser!Shoot
    BY <1>11, BrowserAnswers DEF Browser!Shoot
<1>12. CASE Browser!Typed
    <2>1. CASE v8.line.action = "click"
        BY <1>12, <2>1, <1>a, <1>b, <1>p DEF Browser!Typed
    <2>2. CASE v8.line.action # "click"
        BY <1>12, <2>2, BrowserAnswers DEF Browser!Typed
    <2> QED
        BY <2>1, <2>2
<1>13. CASE Browser!Released
    BY <1>13, BrowserAnswers DEF Browser!Released
<1>14. CASE Browser!ConnectionLost
    <2>1. v2' = "none" /\ UNCHANGED <<v3, v4, v7, v8, v9>>
        BY <1>14 DEF Browser!ConnectionLost
    <2>2. Browser!ConnectedToShown' /\ Browser!InputIsShown'
        BY <2>1, <1>b DEF Browser!ConnectedToShown, Browser!InputIsShown
    <2> QED
        BY <2>1, <2>2, <1>s DEF Browser!Inductive
<1>15. CASE Browser!Exit
    <2>1. v8' = [Browser!Nothing EXCEPT !.at = "exited"] /\ v2' = "none" /\ v7' = <<>>
        BY <1>15 DEF Browser!Exit
    <2>2. v7' \in Seq(Browser!Lines)
        BY <2>1, EmptySeq
    <2> QED
        BY <2>1, <2>2, BrowserOver DEF Browser!Nothing
<1> QED
    BY <1>1, <1>2, <1>3, <1>5, <1>6, <1>7, <1>8, <1>9, <1>10, <1>11, <1>12, <1>13, <1>14, <1>15
    DEF Browser!Next

\* Keys and clicks only reach the tab that was shown, for any tabs, and with any number of requests
\* that wait (browser-client.mjs:78-79).
THEOREM Shown == ServicesSpec => []InputIsShown
<1> DEFINE Inv == part = "browser" => Browser!Inductive
<1>1. ServicesInit => Inv
    BY BrowserInit DEF ServicesInit
<1>2. Inv /\ [ServicesNext]_partVars => Inv'
    <2> SUFFICES ASSUME Inv, [ServicesNext]_partVars, part' = "browser"
                 PROVE  Browser!Inductive'
        OBVIOUS
    <2>1. CASE UNCHANGED partVars
        BY <2>1 DEF partVars, Browser!Inductive, Browser!Staged, Browser!ConnectedToShown,
            Browser!InputIsShown
    <2>2. CASE ServicesNext
        BY <2>2, BrowserStep DEF ServicesNext
    <2> QED
        BY <2>1, <2>2
<1>3. Inv => InputIsShown
    BY DEF InputIsShown, Browser!Inductive
<1> QED
    BY <1>1, <1>2, <1>3, PTL DEF ServicesSpec

------------------------------------------------------------------------------
(* GlassesClient.                                                            *)

\* What the types say of each variable.
LEMMA ClientTypes ==
    ASSUME ServicesAssumption, Client!TypeOK
    PROVE  /\ v1 \in Users \cup {None} /\ v2 \in Users \cup {None} /\ v3 \in Claws /\ v4 \subseteq Users
           /\ (v5 = None \/ v5 \in Client!Owners)
           /\ v6 \in Claws \cup {None} /\ (v7 = None \/ v7 \in Client!Owners)
           /\ (v8 = None \/ (v8.of \in Users /\ v8.claws \subseteq Claws))
           /\ v9 \subseteq Users \X Claws /\ (v10 = None \/ v10 \in Client!Requests)
           /\ v13 \in Calls \cup {None}
           /\ v14 \in [Calls -> Client!CallRecords \cup {None}]
           /\ v15 \in [Users -> [Claws -> Client!Requests \cup {None}]]
           /\ v16 \in 0 .. MaxRequests /\ v17 \subseteq Client!Requests
           /\ MaxRequests \in Nat
           /\ None \notin Users /\ None \notin Claws /\ None \notin Calls
           /\ None \notin Client!Owners /\ None \notin Client!Requests /\ None \notin Client!CallRecords
BY DEF ServicesAssumption, Client!ClientAssumption, Client!TypeOK

\* And the other way round, after a step.
LEMMA ClientTyped ==
    ASSUME v1' \in Users \cup {None}, v2' \in Users \cup {None}, v3' \in Claws, v4' \subseteq Users,
           v5' = None \/ v5' \in Client!Owners,
           v6' \in Claws \cup {None}, v7' = None \/ v7' \in Client!Owners,
           v8' = None \/ (v8'.of \in Users /\ v8'.claws \subseteq Claws),
           v9' \subseteq Users \X Claws, v10' = None \/ v10' \in Client!Requests,
           v11' \in BOOLEAN, v12' \in BOOLEAN, v13' \in Calls \cup {None},
           v14' \in [Calls -> Client!CallRecords \cup {None}],
           v15' \in [Users -> [Claws -> Client!Requests \cup {None}]],
           v16' \in 0 .. MaxRequests, v17' \subseteq Client!Requests
    PROVE  Client!TypeOK'
BY Zenon DEF Client!TypeOK

\* The fields of a call.
LEMMA ClientCall ==
    ASSUME ServicesAssumption, NEW r \in Client!CallRecords
    PROVE  /\ r.kind \in {"me", "events", "send"} /\ r.owner \in Client!Owners /\ r.claw \in Claws
           /\ r.request \in Client!Requests \cup {None} /\ r.holds \in {"nothing", "connecting", "busy"}
           /\ r.current \in BOOLEAN /\ r # None
BY DEF ServicesAssumption, Client!ClientAssumption, Client!CallRecords

\* A conjunct stays true as long as the variables it is about do not change.
LEMMA ClientKept ==
    ASSUME Client!Inductive
    PROVE  /\ UNCHANGED <<v5, v6>> => Client!Selected'
           /\ UNCHANGED <<v5, v6, v14>> => Client!CallsOfNow'
           /\ UNCHANGED v15 => Client!DraftsInPlace'
           /\ UNCHANGED <<v1, v5, v6, v7, v8, v9, v10>> => Client!ShownOfSelection'
           /\ UNCHANGED <<v11, v12, v13, v14>> => Client!Flags'
<1>1. UNCHANGED <<v5, v6>> => Client!Selected'
    BY DEF Client!Inductive, Client!Selected
<1>2. UNCHANGED <<v5, v6, v14>> => Client!CallsOfNow'
    BY DEF Client!Inductive, Client!CallsOfNow
<1>3. UNCHANGED v15 => Client!DraftsInPlace'
    BY DEF Client!Inductive, Client!DraftsInPlace
<1>4. UNCHANGED <<v1, v5, v6, v7, v8, v9, v10>> => Client!ShownOfSelection'
    BY DEF Client!Inductive, Client!ShownOfSelection
<1>5. UNCHANGED <<v11, v12, v13, v14>> => Client!Flags'
    BY DEF Client!Inductive, Client!Flags, Client!Owned, Client!Holding, Client!Answers
<1> QED
    BY <1>1, <1>2, <1>3, <1>4, <1>5

\* An epoch is over: no call is current any more, and no flag set (GlassesModel.swift:84-92).
LEMMA ClientEpochOver ==
    ASSUME \A c \in Calls : v14'[c] # None => ~v14'[c].current,
           v11' = FALSE, v12' = FALSE, v13' = None
    PROVE  Client!CallsOfNow' /\ Client!Flags'
<1>1. Client!CallsOfNow'
    BY DEF Client!CallsOfNow
<1>2. Client!Holding("busy")' = {} /\ Client!Holding("connecting")' = {}
    BY DEF Client!Holding
<1>3. Client!Flags'
    BY <1>2 DEF Client!Flags, Client!Owned
<1> QED
    BY <1>1, <1>3

\* The calls of an epoch that is over.
LEMMA ClientStale ==
    ASSUME ServicesAssumption, v14 \in [Calls -> Client!CallRecords \cup {None}],
           v14' = Client!Stale(v14)
    PROVE  /\ v14' \in [Calls -> Client!CallRecords \cup {None}]
           /\ \A c \in Calls : v14'[c] # None => ~v14'[c].current
<1>1. ASSUME NEW c \in Calls, v14[c] # None
      PROVE  /\ [v14[c] EXCEPT !.current = FALSE] \in Client!CallRecords
             /\ [v14[c] EXCEPT !.current = FALSE].current = FALSE
    <2>1. v14[c] \in Client!CallRecords
        BY <1>1
    <2> QED
        BY <2>1 DEF Client!CallRecords
<1> QED
    BY <1>1 DEF Client!Stale

\* Nothing is shown before anybody is signed in (AppModel.swift).
LEMMA ClientInit == ServicesAssumption /\ Client!Init => Client!Inductive
<1> SUFFICES ASSUME ServicesAssumption, Client!Init
             PROVE  Client!Inductive
    OBVIOUS
<1> USE DEF Client!Init
<1>1. Client!TypeOK
    <2>1. 0 \in 0 .. MaxRequests
        BY DEF ServicesAssumption, Client!ClientAssumption
    <2>2. v15 \in [Users -> [Claws -> Client!Requests \cup {None}]]
        OBVIOUS
    <2>3. v14 \in [Calls -> Client!CallRecords \cup {None}]
        OBVIOUS
    <2>4. v11 \in BOOLEAN /\ v12 \in BOOLEAN
        OBVIOUS
    <2> QED
        BY <2>1, <2>2, <2>3, <2>4, Zenon DEF Client!TypeOK
<1>2. Client!Selected /\ Client!CallsOfNow /\ Client!DraftsInPlace /\ Client!ShownOfSelection
    BY DEF Client!Selected, Client!CallsOfNow, Client!DraftsInPlace, Client!ShownOfSelection
<1>3. Client!Holding("busy") = {} /\ Client!Holding("connecting") = {}
    BY DEF Client!Holding
<1>4. Client!Flags
    BY <1>3 DEF Client!Flags, Client!Owned
<1> QED
    BY <1>1, <1>2, <1>4 DEF Client!Inductive

\* updateSession leaves nothing of the session before (GlassesModel.swift:68-92).
LEMMA ClientUpdated ==
    ASSUME ServicesAssumption, Client!Inductive,
           NEW n \in Users, NEW k \in Claws, Client!UpdateSession(v1, n, k), UNCHANGED <<v1, v15, v16, v17>>,
           v2' \in Users \cup {None}, v3' \in Claws, v4' \subseteq Users
    PROVE  Client!Inductive'
<1> DEFINE o == [token |-> v1, name |-> n]
<1>0. /\ v1 \in Users \cup {None} /\ (v5 = None \/ v5 \in Client!Owners)
      /\ v6 \in Claws \cup {None} /\ (v7 = None \/ v7 \in Client!Owners)
      /\ (v8 = None \/ (v8.of \in Users /\ v8.claws \subseteq Claws))
      /\ v9 \subseteq Users \X Claws /\ (v10 = None \/ v10 \in Client!Requests)
      /\ v13 \in Calls \cup {None}
      /\ v14 \in [Calls -> Client!CallRecords \cup {None}]
      /\ v15 \in [Users -> [Claws -> Client!Requests \cup {None}]]
      /\ v16 \in 0 .. MaxRequests /\ v17 \subseteq Client!Requests
      /\ None \notin Client!Owners /\ None \notin Claws
    BY ClientTypes DEF Client!Inductive
<1>b. v11 \in BOOLEAN /\ v12 \in BOOLEAN
    BY DEF Client!Inductive, Client!TypeOK
<1>d. /\ v15[n][k] = None \/ v15[n][k] \in Client!Requests
      /\ v15[n][k] # None => v15[n][k].name = n /\ v15[n][k].claw = k
    <2>1. v15[n] \in [Claws -> Client!Requests \cup {None}]
        BY <1>0
    <2> QED
        BY <2>1 DEF Client!Inductive, Client!DraftsInPlace
<1>o. v1 # None => o \in Client!Owners /\ o.token = v1 /\ o.name = n
    <2>1. v1 \in Users \cup {None}
        BY <1>0
    <2> QED
        BY <2>1 DEF Client!Owners
<1>k. Client!DraftsInPlace'
    BY ClientKept
<1>t. ASSUME v5' = None \/ v5' \in Client!Owners, v6' \in Claws \cup {None},
             v7' = None \/ v7' \in Client!Owners,
             v8' = None \/ (v8'.of \in Users /\ v8'.claws \subseteq Claws),
             v9' \subseteq Users \X Claws, v10' = None \/ v10' \in Client!Requests,
             v11' \in BOOLEAN, v12' \in BOOLEAN, v13' \in Calls \cup {None},
             v14' \in [Calls -> Client!CallRecords \cup {None}]
      PROVE  Client!TypeOK'
    <2>1. /\ v1' \in Users \cup {None} /\ v15' \in [Users -> [Claws -> Client!Requests \cup {None}]]
          /\ v16' \in 0 .. MaxRequests /\ v17' \subseteq Client!Requests
        BY <1>0
    <2> QED
        BY <1>t, <2>1, ClientTyped
<1>1. CASE v1 = None
    <2>1. /\ v5' = None /\ v6' = None /\ v7' = None /\ v8' = None /\ v9' = {} /\ v10' = None
          /\ v11' = FALSE /\ v12' = FALSE /\ v13' = None /\ v14' = Client!Stale(v14)
        BY <1>1 DEF Client!UpdateSession, Client!Disconnect, Client!FlagsCleared
    <2>2. /\ v14' \in [Calls -> Client!CallRecords \cup {None}]
          /\ \A c \in Calls : v14'[c] # None => ~v14'[c].current
        BY <2>1, <1>0, ClientStale
    <2>3. Client!TypeOK'
        BY <2>1, <2>2, <1>t
    <2>4. Client!CallsOfNow' /\ Client!Flags'
        BY <2>1, <2>2, ClientEpochOver
    <2>5. Client!Selected' /\ Client!ShownOfSelection'
        BY <2>1 DEF Client!Selected, Client!ShownOfSelection
    <2> QED
        BY <2>3, <2>4, <2>5, <1>k DEF Client!Inductive
<1>2. CASE v1 # None /\ v5 # o
    <2>1. /\ v5' = o /\ v6' = k /\ v7' = None /\ v8' = None /\ v9' = {}
          /\ v10' = IF v6 # k THEN v15[o.name][k] ELSE None
          /\ v11' = FALSE /\ v12' = FALSE /\ v13' = None /\ v14' = Client!Stale(v14)
        BY <1>2 DEF Client!UpdateSession, Client!OwnerMoved, Client!FlagsCleared
    <2>2. /\ v14' \in [Calls -> Client!CallRecords \cup {None}]
          /\ \A c \in Calls : v14'[c] # None => ~v14'[c].current
        BY <2>1, <1>0, ClientStale
    <2> HIDE DEF o
    <2>6. /\ v10' = None \/ v10' \in Client!Requests
          /\ v10' # None => v10'.name = n /\ v10'.claw = k
        BY <2>1, <1>2, <1>d, <1>o
    <2>3. Client!TypeOK'
        BY <2>1, <2>2, <2>6, <1>2, <1>o, <1>t
    <2>4. Client!CallsOfNow' /\ Client!Flags'
        BY <2>1, <2>2, ClientEpochOver
    <2>5. Client!Selected' /\ Client!ShownOfSelection'
        BY <2>1, <2>6, <1>2, <1>o, <1>0 DEF Client!Selected, Client!ShownOfSelection
    <2> QED
        BY <2>3, <2>4, <2>5, <1>k DEF Client!Inductive
<1>3. CASE v1 # None /\ v5 = o /\ v6 # k
    <2>1. /\ v5' = v5 /\ v6' = k /\ v7' = v7 /\ v8' = v8 /\ v9' = {}
          /\ v10' = v15[o.name][k]
          /\ v11' = FALSE /\ v12' = FALSE /\ v13' = None /\ v14' = Client!Stale(v14)
        BY <1>3 DEF Client!UpdateSession, Client!ClawMoved, Client!FlagsCleared
    <2>2. /\ v14' \in [Calls -> Client!CallRecords \cup {None}]
          /\ \A c \in Calls : v14'[c] # None => ~v14'[c].current
        BY <2>1, <1>0, ClientStale
    <2> HIDE DEF o
    <2>6. /\ v10' = None \/ v10' \in Client!Requests
          /\ v10' # None => v10'.name = n /\ v10'.claw = k
        BY <2>1, <1>3, <1>d, <1>o
    <2>3. Client!TypeOK'
        BY <2>1, <2>2, <2>6, <1>0, <1>t
    <2>4. Client!CallsOfNow' /\ Client!Flags'
        BY <2>1, <2>2, ClientEpochOver
    <2>5. Client!Selected' /\ Client!ShownOfSelection'
        BY <2>1, <2>6, <1>3, <1>o, <1>0 DEF Client!Inductive, Client!Selected,
            Client!ShownOfSelection
    <2> QED
        BY <2>3, <2>4, <2>5, <1>k DEF Client!Inductive
<1>4. CASE v1 # None /\ v5 = o /\ v6 = k
    <2>1. UNCHANGED <<v5, v6, v7, v8, v9, v10, v11, v12, v13, v14>>
        BY <1>4 DEF Client!UpdateSession, Client!shownVars, Client!flagVars
    <2>2. Client!TypeOK'
        BY <2>1, <1>0, <1>b, <1>t
    <2>3. /\ Client!Selected' /\ Client!CallsOfNow' /\ Client!DraftsInPlace' /\ Client!ShownOfSelection'
          /\ Client!Flags'
        BY <2>1, ClientKept
    <2> QED
        BY <2>2, <2>3 DEF Client!Inductive
<1> QED
    BY <1>1, <1>2, <1>3, <1>4

\* A call returns: the flag that its function set is cleared, and no other (GlassesModel.swift:116,
\* 151, 208).
LEMMA ClientReturns ==
    ASSUME ServicesAssumption, Client!Inductive, NEW c \in Calls, v14[c] # None, Client!Returns(c)
    PROVE  /\ v14' \in [Calls -> Client!CallRecords \cup {None}]
           /\ v14'[c] = None /\ \A d \in Calls \ {c} : v14'[d] = v14[d]
           /\ v11' \in BOOLEAN /\ v12' \in BOOLEAN
           /\ Client!Owned("busy", v11)' /\ Client!Owned("connecting", v12)'
           /\ UNCHANGED <<v5, v6>> => Client!CallsOfNow'
<1>0. v14 \in [Calls -> Client!CallRecords \cup {None}]
    BY ClientTypes DEF Client!Inductive
<1>1. /\ v14' = [v14 EXCEPT ![c] = None]
      /\ v11' = (v11 /\ ~(v14[c].current /\ v14[c].holds = "busy"))
      /\ v12' = (v12 /\ ~(v14[c].current /\ v14[c].holds = "connecting"))
    BY DEF Client!Returns, Client!Without
<1>2. /\ v14' \in [Calls -> Client!CallRecords \cup {None}]
      /\ v14'[c] = None /\ \A d \in Calls \ {c} : v14'[d] = v14[d]
    BY <1>0, <1>1
<1>3. v11' \in BOOLEAN /\ v12' \in BOOLEAN
    BY <1>1
<1>4. Client!Owned("busy", v11) /\ Client!Owned("connecting", v12)
    BY DEF Client!Inductive, Client!Flags
<1>5. /\ Client!Holding("busy")' = Client!Holding("busy") \ {c}
      /\ Client!Holding("connecting")' = Client!Holding("connecting") \ {c}
    BY <1>2 DEF Client!Holding
<1>6. /\ c \in Client!Holding("busy") <=> v14[c].current /\ v14[c].holds = "busy"
      /\ c \in Client!Holding("connecting") <=> v14[c].current /\ v14[c].holds = "connecting"
    BY DEF Client!Holding
<1>7. Client!Owned("busy", v11)'
    <2>1. CASE v11'
        <3>1. v11 /\ c \notin Client!Holding("busy")
            BY <2>1, <1>1, <1>6
        <3>2. Client!Holding("busy")' = Client!Holding("busy")
            BY <3>1, <1>5
        <3> QED
            BY <3>1, <3>2, <2>1, <1>4 DEF Client!Owned
    <2>2. CASE ~v11'
        <3>1. ~v11 \/ c \in Client!Holding("busy")
            BY <2>2, <1>1, <1>6
        <3>2. Client!Holding("busy") \ {c} = {}
            BY <3>1, <1>4 DEF Client!Owned
        <3> QED
            BY <3>2, <2>2, <1>5 DEF Client!Owned
    <2> QED
        BY <2>1, <2>2
<1>8. Client!Owned("connecting", v12)'
    <2>1. CASE v12'
        <3>1. v12 /\ c \notin Client!Holding("connecting")
            BY <2>1, <1>1, <1>6
        <3>2. Client!Holding("connecting")' = Client!Holding("connecting")
            BY <3>1, <1>5
        <3> QED
            BY <3>1, <3>2, <2>1, <1>4 DEF Client!Owned
    <2>2. CASE ~v12'
        <3>1. ~v12 \/ c \in Client!Holding("connecting")
            BY <2>2, <1>1, <1>6
        <3>2. Client!Holding("connecting") \ {c} = {}
            BY <3>1, <1>4 DEF Client!Owned
        <3> QED
            BY <3>2, <2>2, <1>5 DEF Client!Owned
    <2> QED
        BY <2>1, <2>2
<1>9. UNCHANGED <<v5, v6>> => Client!CallsOfNow'
    BY <1>2 DEF Client!Inductive, Client!CallsOfNow
<1> QED
    BY <1>2, <1>3, <1>7, <1>8, <1>9

\* And so is the refreshing, if it was this call's (GlassesModel.swift:171-180).
LEMMA ClientReturnsFlags ==
    ASSUME ServicesAssumption, Client!Inductive, NEW c \in Calls, v14[c] # None, Client!Returns(c),
           v13' = (IF v13 = c THEN None ELSE v13) \/ (v14[c].kind # "events" /\ v13' = v13)
    PROVE  Client!Flags' /\ v13' \in Calls \cup {None}
<1>1. /\ Client!Owned("busy", v11)' /\ Client!Owned("connecting", v12)'
      /\ \A d \in Calls \ {c} : v14'[d] = v14[d]
    BY ClientReturns
<1>2. /\ v13 \in Calls \cup {None} /\ None \notin Calls
      /\ v13 # None => v14[v13] # None /\ v14[v13].kind = "events" /\ v14[v13].current
    BY ClientTypes DEF Client!Inductive, Client!Flags, Client!Answers
<1>3. v13' # None => v13' = v13 /\ v13 # c
    BY <1>2
<1>4. v13' # None => v14'[v13'] = v14[v13]
    BY <1>1, <1>2, <1>3
<1>5. v13' # None => Client!Answers(v13, "events")' /\ v14'[v13'].current
    BY <1>2, <1>3, <1>4 DEF Client!Answers
<1> QED
    BY <1>1, <1>2, <1>3, <1>5 DEF Client!Flags

\* A call that is made is of this epoch, and holds the flag that was free (GlassesModel.swift:116, 151,
\* 171, 208).
LEMMA ClientCalls ==
    ASSUME ServicesAssumption, Client!Inductive, NEW c \in Calls, v14[c] = None, v5 # None,
           NEW kind \in {"me", "events", "send"}, NEW request \in Client!Requests \cup {None},
           NEW holds \in {"nothing", "connecting", "busy"},
           v14' = Client!Called(c, kind, request, holds), UNCHANGED <<v5, v6>>,
           holds = "busy" => v11 = FALSE, holds = "connecting" => v12 = FALSE,
           v11' = IF holds = "busy" THEN TRUE ELSE v11, v12' = IF holds = "connecting" THEN TRUE ELSE v12,
           v13' = v13 \/ (v13' = c /\ kind = "events")
    PROVE  /\ v14' \in [Calls -> Client!CallRecords \cup {None}]
           /\ v13' \in Calls \cup {None}
           /\ v11' \in BOOLEAN /\ v12' \in BOOLEAN
           /\ Client!CallsOfNow' /\ Client!Flags'
<1> DEFINE r == [kind |-> kind, owner |-> v5, claw |-> v6, request |-> request,
                 holds |-> holds, current |-> TRUE]
<1>0. /\ v14 \in [Calls -> Client!CallRecords \cup {None}]
      /\ v5 \in Client!Owners /\ v6 \in Claws
      /\ v13 \in Calls \cup {None} /\ None \notin Calls /\ None \notin Client!CallRecords
    BY ClientTypes DEF Client!Inductive, Client!Selected
<1>b. v11 \in BOOLEAN /\ v12 \in BOOLEAN
    BY DEF Client!Inductive, Client!TypeOK
<1>1. /\ r \in Client!CallRecords /\ r.current /\ r.owner = v5 /\ r.claw = v6 /\ r.kind = kind
      /\ r.holds = holds
    BY <1>0 DEF Client!CallRecords
<1>2. v14' = [v14 EXCEPT ![c] = r]
    BY DEF Client!Called
<1> HIDE DEF r
<1>3. /\ v14' \in [Calls -> Client!CallRecords \cup {None}]
      /\ v14'[c] = r /\ \A d \in Calls \ {c} : v14'[d] = v14[d]
    BY <1>0, <1>1, <1>2
<1>4. v13' \in Calls \cup {None}
    BY <1>0
<1>5. v11' \in BOOLEAN /\ v12' \in BOOLEAN
    BY <1>b
<1>6. Client!CallsOfNow'
    BY <1>1, <1>3 DEF Client!Inductive, Client!CallsOfNow
<1>7. Client!Owned("busy", v11) /\ Client!Owned("connecting", v12)
    BY DEF Client!Inductive, Client!Flags
<1>8. Client!Owned("busy", v11)'
    <2>1. CASE holds = "busy"
        <3>1. Client!Holding("busy") = {}
            BY <2>1, <1>7 DEF Client!Owned
        <3>2. Client!Holding("busy")' = {c}
            BY <3>1, <2>1, <1>0, <1>1, <1>3 DEF Client!Holding
        <3> QED
            BY <3>2, <2>1 DEF Client!Owned
    <2>2. CASE holds # "busy"
        <3>1. Client!Holding("busy")' = Client!Holding("busy")
            BY <2>2, <1>1, <1>3 DEF Client!Holding
        <3> QED
            BY <3>1, <2>2, <1>7 DEF Client!Owned
    <2> QED
        BY <2>1, <2>2
<1>9. Client!Owned("connecting", v12)'
    <2>1. CASE holds = "connecting"
        <3>1. Client!Holding("connecting") = {}
            BY <2>1, <1>7 DEF Client!Owned
        <3>2. Client!Holding("connecting")' = {c}
            BY <3>1, <2>1, <1>0, <1>1, <1>3 DEF Client!Holding
        <3> QED
            BY <3>2, <2>1 DEF Client!Owned
    <2>2. CASE holds # "connecting"
        <3>1. Client!Holding("connecting")' = Client!Holding("connecting")
            BY <2>2, <1>1, <1>3 DEF Client!Holding
        <3> QED
            BY <3>1, <2>2, <1>7 DEF Client!Owned
    <2> QED
        BY <2>1, <2>2
<1>10. v13' # None => Client!Answers(v13, "events")' /\ v14'[v13'].current
    <2>1. CASE v13' = c /\ kind = "events"
        BY <2>1, <1>0, <1>1, <1>3 DEF Client!Answers
    <2>2. CASE v13' = v13
        <3>1. v13 # None => v14[v13] # None /\ v14[v13].kind = "events" /\ v14[v13].current
            BY DEF Client!Inductive, Client!Flags, Client!Answers
        <3>2. v13 # None => v14'[v13] = v14[v13]
            BY <3>1, <1>0, <1>3
        <3> QED
            BY <2>2, <3>1, <3>2 DEF Client!Answers
    <2> QED
        BY <2>1, <2>2
<1>11. Client!Flags'
    BY <1>8, <1>9, <1>10 DEF Client!Flags
<1> QED
    BY <1>3, <1>4, <1>5, <1>6, <1>11

\* connect and retry go on to refresh, under the flag they hold, or return (GlassesModel.swift:104-116,
\* 224-232).
LEMMA ClientRefreshes ==
    ASSUME ServicesAssumption, Client!Inductive, NEW c \in Calls, v14[c] # None, v14[c].kind # "events",
           v14[c].current, NEW connected, Client!RefreshesOr(c, connected), UNCHANGED <<v5, v6>>
    PROVE  /\ v14' \in [Calls -> Client!CallRecords \cup {None}]
           /\ v13' \in Calls \cup {None}
           /\ v11' \in BOOLEAN /\ v12' \in BOOLEAN
           /\ Client!CallsOfNow' /\ Client!Flags'
<1>1. CASE connected /\ v13 = None
    <2> DEFINE r == [v14[c] EXCEPT !.kind = "events", !.request = None]
    <2>0. v14 \in [Calls -> Client!CallRecords \cup {None}] /\ None \notin Client!CallRecords
        BY ClientTypes DEF Client!Inductive
    <2>1. v14' = [v14 EXCEPT ![c].kind = "events", ![c].request = None] /\ v13' = c /\ UNCHANGED <<v11, v12>>
        BY <1>1 DEF Client!RefreshesOr
    <2>2. v14[c] \in Client!CallRecords
        BY <2>0
    <2>3. /\ r \in Client!CallRecords /\ r.kind = "events" /\ r.owner = v14[c].owner /\ r.claw = v14[c].claw
          /\ r.holds = v14[c].holds /\ r.current = v14[c].current
        BY <2>2 DEF Client!CallRecords
    <2>4. v14' = [v14 EXCEPT ![c] = r]
        BY <2>0, <2>1, <2>2 DEF Client!CallRecords
    <2> HIDE DEF r
    <2>5. /\ v14' \in [Calls -> Client!CallRecords \cup {None}]
          /\ v14'[c] = r /\ \A d \in Calls \ {c} : v14'[d] = v14[d]
        BY <2>0, <2>3, <2>4
    <2>6. v11' \in BOOLEAN /\ v12' \in BOOLEAN
        BY <2>1 DEF Client!Inductive, Client!TypeOK
    <2>7. Client!CallsOfNow'
        BY <2>3, <2>5 DEF Client!Inductive, Client!CallsOfNow
    <2>8. /\ Client!Holding("busy")' = Client!Holding("busy")
          /\ Client!Holding("connecting")' = Client!Holding("connecting")
        <3>1. r # None /\ v14[c] # None
            BY <2>0, <2>2, <2>3
        <3>2. \A d \in Calls : /\ v14'[d] # None <=> v14[d] # None
                               /\ v14'[d].current = v14[d].current /\ v14'[d].holds = v14[d].holds
            BY <3>1, <2>3, <2>5
        <3> QED
            BY <3>2 DEF Client!Holding
    <2>9. Client!Owned("busy", v11)' /\ Client!Owned("connecting", v12)'
        BY <2>1, <2>8 DEF Client!Inductive, Client!Flags, Client!Owned
    <2>10. Client!Answers(v13, "events")' /\ v14'[v13'].current
        BY <2>0, <2>1, <2>3, <2>5 DEF Client!Answers
    <2>11. Client!Flags'
        BY <2>9, <2>10 DEF Client!Flags
    <2> QED
        BY <2>1, <2>5, <2>6, <2>7, <2>11
<1>2. CASE ~(connected /\ v13 = None)
    <2>1. Client!Returns(c) /\ v13' = v13
        BY <1>2 DEF Client!RefreshesOr
    <2> QED
        BY <2>1, ClientReturns, ClientReturnsFlags
<1> QED
    BY <1>1, <1>2

\* Forgetting the request at one place of a table leaves the others.
LEMMA ClientBlanked ==
    ASSUME NEW R, NEW f \in [Users -> [Claws -> R \cup {None}]], NEW a, NEW b
    PROVE  /\ [f EXCEPT ![a][b] = None] \in [Users -> [Claws -> R \cup {None}]]
           /\ \A n \in Users, k \in Claws : [f EXCEPT ![a][b] = None][n][k] \in {f[n][k], None}
<1> DEFINE g == [f[a] EXCEPT ![b] = None]
<1>1. a \in Users => g \in [Claws -> R \cup {None}] /\ \A k \in Claws : g[k] \in {f[a][k], None}
    OBVIOUS
<1>2. [f EXCEPT ![a][b] = None] = [f EXCEPT ![a] = g]
    OBVIOUS
<1> HIDE DEF g
<1> QED
    BY <1>1, <1>2

\* Whatever the user does and whichever answer comes next (GlassesModel.swift:68-232).
LEMMA ClientStep == ServicesAssumption /\ Client!Inductive /\ Client!Next => Client!Inductive'
<1> SUFFICES ASSUME ServicesAssumption, Client!Inductive, Client!Next
             PROVE  Client!Inductive'
    OBVIOUS
<1> USE DEF Client!appVars, Client!shownVars
<1>0. /\ v1 \in Users \cup {None} /\ v2 \in Users \cup {None} /\ v3 \in Claws /\ v4 \subseteq Users
      /\ (v5 = None \/ v5 \in Client!Owners)
      /\ v6 \in Claws \cup {None} /\ (v7 = None \/ v7 \in Client!Owners)
      /\ (v8 = None \/ (v8.of \in Users /\ v8.claws \subseteq Claws))
      /\ v9 \subseteq Users \X Claws /\ (v10 = None \/ v10 \in Client!Requests)
      /\ v13 \in Calls \cup {None}
      /\ v14 \in [Calls -> Client!CallRecords \cup {None}]
      /\ v15 \in [Users -> [Claws -> Client!Requests \cup {None}]]
      /\ v16 \in 0 .. MaxRequests /\ v17 \subseteq Client!Requests
      /\ MaxRequests \in Nat
      /\ None \notin Users /\ None \notin Claws /\ None \notin Calls
      /\ None \notin Client!Owners /\ None \notin Client!Requests /\ None \notin Client!CallRecords
    BY ClientTypes DEF Client!Inductive
<1>b. v11 \in BOOLEAN /\ v12 \in BOOLEAN
    BY DEF Client!Inductive, Client!TypeOK
<1>o. v5 # None => v5.token \in Users /\ v5.name \in Users /\ v5.token = v1 /\ v6 \in Claws
    BY <1>0 DEF Client!Inductive, Client!Owners, Client!Selected, Client!ShownOfSelection
\* A step of AppModel alone.
<1>a. ASSUME v1' \in Users, v1 = None \/ v1' = v1, v4' \subseteq Users,
             UNCHANGED <<v2, v3, v5, v6, v7, v8, v9, v10, v11, v12, v13, v14, v15, v16, v17>>
      PROVE  Client!Inductive'
    <2>1. Client!TypeOK'
        BY <1>a, <1>0, <1>b, ClientTyped
    <2>2. Client!Selected' /\ Client!CallsOfNow' /\ Client!DraftsInPlace' /\ Client!Flags'
        BY <1>a, ClientKept
    <2>3. Client!ShownOfSelection'
        <3>1. CASE v1' = v1
            BY <3>1, <1>a, ClientKept
        <3>2. CASE v1 = None
            BY <3>2, <1>a, <1>o, <1>0 DEF Client!Inductive, Client!ShownOfSelection
        <3> QED
            BY <3>1, <3>2, <1>a
    <2> QED
        BY <2>1, <2>2, <2>3 DEF Client!Inductive
<1>1. ASSUME NEW u \in Users, Client!Login(u)
      PROVE  Client!Inductive'
    BY <1>1, <1>0, <1>a DEF Client!Login, Client!flagVars
<1>2. ASSUME Client!Refresh
      PROVE  Client!Inductive'
    BY <1>2, <1>0, <1>a DEF Client!Refresh, Client!flagVars
<1>3. ASSUME NEW u \in Users, Client!RefreshFails(u)
      PROVE  Client!Inductive'
    <2>1. v4' \subseteq Users
        BY <1>3, <1>0 DEF Client!RefreshFails
    <2>2. UNCHANGED <<v1, v2, v3, v5, v6, v7, v8, v9, v10, v11, v12, v13, v14, v15, v16, v17>>
        BY <1>3 DEF Client!RefreshFails, Client!flagVars
    <2>3. Client!TypeOK'
        BY <2>1, <2>2, <1>0, <1>b, ClientTyped
    <2>4. /\ Client!Selected' /\ Client!CallsOfNow' /\ Client!DraftsInPlace' /\ Client!ShownOfSelection'
          /\ Client!Flags'
        BY <2>2, ClientKept
    <2> QED
        BY <2>3, <2>4 DEF Client!Inductive
<1>4. ASSUME NEW u \in Users, Client!Refreshed(u)
      PROVE  Client!Inductive'
    BY <1>4, <1>0, ClientUpdated DEF Client!Refreshed
<1>5. ASSUME NEW k \in Claws, Client!Select(k)
      PROVE  Client!Inductive'
    BY <1>5, <1>0, ClientUpdated DEF Client!Select
\* The session is over: signed out, or the app was started again.
<1>e. ASSUME v1' \in Users \cup {None}, v2' = None, v3' = v3, v4' \subseteq Users,
             v5' = None, v6' = None, v7' = None, v8' = None, v9' = {}, v10' = None,
             v11' = FALSE, v12' = FALSE, v13' = None,
             v14' \in [Calls -> Client!CallRecords \cup {None}],
             \A c \in Calls : v14'[c] # None => ~v14'[c].current,
             UNCHANGED <<v15, v16, v17>>
      PROVE  Client!Inductive'
    <2>1. Client!TypeOK'
        BY <1>e, <1>0, ClientTyped
    <2>2. Client!CallsOfNow' /\ Client!Flags'
        BY <1>e, ClientEpochOver
    <2>3. Client!DraftsInPlace'
        BY <1>e, ClientKept
    <2>4. Client!Selected' /\ Client!ShownOfSelection'
        BY <1>e DEF Client!Selected, Client!ShownOfSelection
    <2> QED
        BY <2>1, <2>2, <2>3, <2>4 DEF Client!Inductive
<1>6. ASSUME Client!SignedOut, v4' \subseteq Users
      PROVE  Client!Inductive'
    <2>1. /\ v1' = None /\ v2' = None /\ v14' = Client!Stale(v14) /\ UNCHANGED <<v3, v15, v16, v17>>
          /\ v5' = None /\ v6' = None /\ v7' = None /\ v8' = None /\ v9' = {} /\ v10' = None
          /\ v11' = FALSE /\ v12' = FALSE /\ v13' = None
        BY <1>6 DEF Client!SignedOut, Client!Disconnect, Client!FlagsCleared
    <2>2. /\ v14' \in [Calls -> Client!CallRecords \cup {None}]
          /\ \A c \in Calls : v14'[c] # None => ~v14'[c].current
        BY <2>1, <1>0, ClientStale
    <2> QED
        BY <2>1, <2>2, <1>6, <1>e
<1>7. ASSUME NEW u \in Users, Client!RefreshUnauthorized(u)
      PROVE  Client!Inductive'
    BY <1>7, <1>0, <1>6 DEF Client!RefreshUnauthorized
<1>8. ASSUME Client!Logout
      PROVE  Client!Inductive'
    BY <1>8, <1>0, <1>6 DEF Client!Logout
<1>9. ASSUME Client!Restart
      PROVE  Client!Inductive'
    <2>1. /\ v1' = v1 /\ v1 # None /\ v2' = None /\ v4' = {v1} /\ v14' = [c \in Calls |-> None]
          /\ v5' = None /\ v6' = None /\ v7' = None /\ v8' = None /\ v9' = {} /\ v10' = None
          /\ v11' = FALSE /\ v12' = FALSE /\ v13' = None /\ UNCHANGED <<v3, v15, v16, v17>>
        BY <1>9 DEF Client!Restart, Client!FlagsCleared
    <2>2. /\ v14' \in [Calls -> Client!CallRecords \cup {None}]
          /\ \A c \in Calls : v14'[c] = None
        BY <2>1
    <2>3. v4' \subseteq Users /\ v1' \in Users \cup {None}
        BY <2>1, <1>0
    <2> QED
        BY <2>1, <2>2, <2>3, <1>e
\* A call to the relay begins.
<1>c. ASSUME UNCHANGED <<v1, v2, v3, v4, v5, v6, v7, v8, v9>>, v10' = None \/ v10' \in Client!Requests,
             v11' \in BOOLEAN, v12' \in BOOLEAN, v13' \in Calls \cup {None},
             v14' \in [Calls -> Client!CallRecords \cup {None}],
             v15' \in [Users -> [Claws -> Client!Requests \cup {None}]],
             v16' \in 0 .. MaxRequests, v17' \subseteq Client!Requests,
             Client!CallsOfNow', Client!Flags', Client!DraftsInPlace',
             v5 = None => v10' = None,
             v5 # None /\ v10' # None => v10'.name = v5.name /\ v10'.claw = v6
      PROVE  Client!Inductive'
    <2>1. Client!TypeOK'
        BY <1>c, <1>0, ClientTyped
    <2>2. Client!Selected'
        BY <1>c, ClientKept
    <2>3. Client!ShownOfSelection'
        BY <1>c DEF Client!Inductive, Client!ShownOfSelection
    <2> QED
        BY <2>1, <2>2, <2>3, <1>c DEF Client!Inductive
<1>p. /\ v5 = None => v10 = None /\ v7 = None /\ v8 = None /\ v9 = {}
      /\ v5 # None /\ v10 # None => v10.name = v5.name /\ v10.claw = v6
      /\ v5 # None => v9 \subseteq {<<v5.token, v6>>}
      /\ v5 # None /\ v7 # None => v7 = v5
      /\ v5 # None /\ v8 # None => v8.of = v5.name
    BY DEF Client!Inductive, Client!ShownOfSelection
<1>d. Client!DraftsInPlace /\ (UNCHANGED v15 => Client!DraftsInPlace')
    BY ClientKept DEF Client!Inductive
<1>10. ASSUME NEW c \in Calls, Client!Connect(c)
       PROVE  Client!Inductive'
    <2>1. /\ v14[c] = None /\ v5 # None /\ v12 = FALSE /\ v14' = Client!Called(c, "me", None, "connecting")
          /\ v12' = TRUE /\ UNCHANGED <<v1, v2, v3, v4, v5, v6, v7, v8, v9, v10, v11, v13, v15, v16, v17>>
        BY <1>10, <1>b DEF Client!Connect
    <2>2. /\ v14' \in [Calls -> Client!CallRecords \cup {None}] /\ v13' \in Calls \cup {None}
          /\ v11' \in BOOLEAN /\ v12' \in BOOLEAN /\ Client!CallsOfNow' /\ Client!Flags'
        BY <2>1, ClientCalls
    <2> QED
        BY <2>1, <2>2, <1>0, <1>p, <1>d, <1>c
<1>11. ASSUME NEW c \in Calls, Client!RefreshEvents(c)
       PROVE  Client!Inductive'
    <2>1. /\ v14[c] = None /\ v7 # None /\ v14' = Client!Called(c, "events", None, "nothing")
          /\ v13' = c /\ UNCHANGED <<v1, v2, v3, v4, v5, v6, v7, v8, v9, v10, v11, v12, v15, v16, v17>>
        BY <1>11 DEF Client!RefreshEvents
    <2>2. v5 # None
        BY <2>1, <1>p
    <2>3. /\ v14' \in [Calls -> Client!CallRecords \cup {None}] /\ v13' \in Calls \cup {None}
          /\ v11' \in BOOLEAN /\ v12' \in BOOLEAN /\ Client!CallsOfNow' /\ Client!Flags'
        BY <2>1, <2>2, ClientCalls
    <2> QED
        BY <2>1, <2>3, <1>0, <1>p, <1>d, <1>c
<1>12. ASSUME NEW c \in Calls, Client!Retry(c)
       PROVE  Client!Inductive'
    <2>1. /\ v14[c] = None /\ v7 # None /\ v11 = FALSE /\ v14' = Client!Called(c, "send", v10, "busy")
          /\ v11' = TRUE /\ UNCHANGED <<v1, v2, v3, v4, v5, v6, v7, v8, v9, v10, v12, v13, v15, v16, v17>>
        BY <1>12, <1>b DEF Client!Retry
    <2>2. v5 # None
        BY <2>1, <1>p
    <2>3. /\ v14' \in [Calls -> Client!CallRecords \cup {None}] /\ v13' \in Calls \cup {None}
          /\ v11' \in BOOLEAN /\ v12' \in BOOLEAN /\ Client!CallsOfNow' /\ Client!Flags'
        BY <2>1, <2>2, <1>0, ClientCalls
    <2> QED
        BY <2>1, <2>3, <1>0, <1>p, <1>d, <1>c
<1>13. ASSUME NEW c \in Calls, Client!Send(c)
       PROVE  Client!Inductive'
    <2> DEFINE request == [id |-> v16 + 1, name |-> v5.name, claw |-> v6]
    <2>1. /\ v14[c] = None /\ v8 # None /\ v11 = FALSE /\ v16 < MaxRequests
          /\ v15' = [v15 EXCEPT ![v5.name][v6] = request] /\ v10' = request /\ v16' = v16 + 1
          /\ v17' = v17 \cup {request} /\ v14' = Client!Called(c, "send", request, "busy")
          /\ v11' = TRUE /\ UNCHANGED <<v1, v2, v3, v4, v5, v6, v7, v8, v9, v12, v13>>
        BY <1>13, <1>b DEF Client!Send, Client!Connected
    <2>2. v5 # None
        BY <2>1, <1>p
    <2>3. /\ request \in Client!Requests /\ request.name = v5.name /\ request.claw = v6
          /\ v16 + 1 \in 0 .. MaxRequests
        BY <2>1, <2>2, <1>0, <1>o DEF Client!Requests
    <2> HIDE DEF request
    <2>4. /\ v14' \in [Calls -> Client!CallRecords \cup {None}] /\ v13' \in Calls \cup {None}
          /\ v11' \in BOOLEAN /\ v12' \in BOOLEAN /\ Client!CallsOfNow' /\ Client!Flags'
        BY <2>1, <2>2, <2>3, ClientCalls
    <2>5. /\ v15' \in [Users -> [Claws -> Client!Requests \cup {None}]]
          /\ \A n \in Users, k \in Claws :
                v15'[n][k] = v15[n][k] \/ (n = v5.name /\ k = v6 /\ v15'[n][k] = request)
        BY <2>1, <2>2, <2>3, <1>0, <1>o
    <2>6. Client!DraftsInPlace'
        BY <2>3, <2>5, <1>d DEF Client!DraftsInPlace
    <2> QED
        BY <2>1, <2>2, <2>3, <2>4, <2>5, <2>6, <1>0, <1>c
<1>14. ASSUME NEW c \in Calls, Client!ConnectAnswered(c)
       PROVE  Client!Inductive'
    <2>1. /\ v14[c] # None /\ v14[c].kind = "me" /\ UNCHANGED <<v1, v2, v3, v4, v5, v6, v9, v15, v16, v17>>
        BY <1>14 DEF Client!ConnectAnswered, Client!Answers
    <2>2. PICK claws \in SUBSET Claws :
             IF Client!Accepted(c, claws)
             THEN /\ v7' = v5 /\ v8' = [of |-> v14[c].owner.token, claws |-> claws]
                  /\ v10' = v15[v5.name][v6]
                  /\ Client!RefreshesOr(c, TRUE)
             ELSE Client!Returns(c) /\ UNCHANGED <<v7, v8, v10, v13>>
        BY <1>14 DEF Client!ConnectAnswered
    <2>3. CASE Client!Accepted(c, claws)
        <3>1. /\ v14[c].current /\ v14[c].owner = v5 /\ v5 # None /\ v5.token = v5.name
            BY <2>1, <2>3 DEF Client!Accepted, Client!Inductive, Client!CallsOfNow
        <3>2. /\ v7' = v5 /\ v8'.of = v5.name /\ v8'.claws = claws
              /\ v10' = v15[v5.name][v6] /\ Client!RefreshesOr(c, TRUE)
            <4>1. /\ v7' = v5 /\ v8' = [of |-> v14[c].owner.token, claws |-> claws]
                  /\ v10' = v15[v5.name][v6] /\ Client!RefreshesOr(c, TRUE)
                BY <2>2, <2>3
            <4>2. v8'.of = v14[c].owner.token /\ v8'.claws = claws
                BY <4>1
            <4> QED
                BY <4>1, <4>2, <3>1
        <3>3. /\ v14' \in [Calls -> Client!CallRecords \cup {None}] /\ v13' \in Calls \cup {None}
              /\ v11' \in BOOLEAN /\ v12' \in BOOLEAN /\ Client!CallsOfNow' /\ Client!Flags'
            BY <2>1, <3>1, <3>2, ClientRefreshes
        <3>4. /\ v10' = None \/ v10' \in Client!Requests
              /\ v10' # None => v10'.name = v5.name /\ v10'.claw = v6
            <4>1. v15[v5.name] \in [Claws -> Client!Requests \cup {None}]
                BY <3>1, <1>0, <1>o
            <4> QED
                BY <4>1, <3>1, <3>2, <1>o, <1>d DEF Client!DraftsInPlace
        <3>5. v7' \in Client!Owners /\ v8'.of \in Users /\ v8'.claws \subseteq Claws
            BY <3>1, <3>2, <1>0, <1>o
        <3>6. Client!TypeOK'
            BY <2>1, <3>3, <3>4, <3>5, <1>0, ClientTyped
        <3>7. Client!Selected' /\ Client!DraftsInPlace'
            BY <2>1, ClientKept
        <3>8. Client!ShownOfSelection'
            BY <2>1, <3>1, <3>2, <3>4, <1>p, <1>o DEF Client!ShownOfSelection
        <3> QED
            BY <3>3, <3>6, <3>7, <3>8 DEF Client!Inductive
    <2>4. CASE ~Client!Accepted(c, claws)
        <3>1. Client!Returns(c) /\ UNCHANGED <<v7, v8, v10, v13>>
            BY <2>2, <2>4
        <3>2. /\ v14' \in [Calls -> Client!CallRecords \cup {None}] /\ v13' \in Calls \cup {None}
              /\ v11' \in BOOLEAN /\ v12' \in BOOLEAN /\ Client!CallsOfNow' /\ Client!Flags'
            BY <2>1, <3>1, ClientReturns, ClientReturnsFlags
        <3> QED
            BY <2>1, <3>1, <3>2, <1>0, <1>p, <1>d, <1>c
    <2> QED
        BY <2>3, <2>4
<1>15. ASSUME NEW c \in Calls, Client!EventsAnswered(c)
       PROVE  Client!Inductive'
    <2>1. /\ v14[c] # None /\ Client!Returns(c) /\ v13' = IF v13 = c THEN None ELSE v13
          /\ v9' = IF v14[c].current THEN v9 \cup {<<v14[c].owner.token, v14[c].claw>>} ELSE v9
          /\ UNCHANGED <<v1, v2, v3, v4, v5, v6, v7, v8, v10, v15, v16, v17>>
        BY <1>15 DEF Client!EventsAnswered, Client!Answers, Client!IsOfNow
    <2>2. /\ v14' \in [Calls -> Client!CallRecords \cup {None}] /\ v13' \in Calls \cup {None}
          /\ v11' \in BOOLEAN /\ v12' \in BOOLEAN /\ Client!CallsOfNow' /\ Client!Flags'
        BY <2>1, ClientReturns, ClientReturnsFlags
    <2>3. /\ v5 = None => v9' = {}
          /\ v5 # None => v9' \subseteq {<<v5.token, v6>>}
          /\ v9' \subseteq Users \X Claws
        <3>1. CASE v14[c].current
            <4>1. v5 # None /\ v14[c].owner = v5 /\ v14[c].claw = v6
                BY <2>1, <3>1 DEF Client!Inductive, Client!CallsOfNow
            <4>2. v9' = v9 \cup {<<v5.token, v6>>}
                BY <2>1, <3>1, <4>1
            <4> QED
                BY <4>1, <4>2, <1>p, <1>o, <1>0
        <3>2. CASE ~v14[c].current
            BY <2>1, <3>2, <1>p, <1>0
        <3> QED
            BY <3>1, <3>2
    <2>4. Client!TypeOK'
        BY <2>1, <2>2, <2>3, <1>0, ClientTyped
    <2>5. Client!Selected' /\ Client!DraftsInPlace'
        BY <2>1, ClientKept
    <2>6. Client!ShownOfSelection'
        BY <2>1, <2>3, <1>p, <1>o DEF Client!ShownOfSelection
    <2> QED
        BY <2>2, <2>4, <2>5, <2>6 DEF Client!Inductive
<1>16. ASSUME NEW c \in Calls, Client!Confirmed(c)
       PROVE  Client!Inductive'
    <2>1. /\ v14[c] # None /\ v14[c].kind = "send" /\ v17' = v17 \ {v14[c].request}
          /\ v15' = [v15 EXCEPT ![v14[c].request.name][v14[c].request.claw] = None]
          /\ UNCHANGED <<v1, v2, v3, v4, v5, v6, v7, v8, v9, v16>>
        BY <1>16 DEF Client!Confirmed, Client!Answers
    <2>2. /\ v14' \in [Calls -> Client!CallRecords \cup {None}] /\ v13' \in Calls \cup {None}
          /\ v11' \in BOOLEAN /\ v12' \in BOOLEAN /\ Client!CallsOfNow' /\ Client!Flags'
          /\ v10' = None \/ v10' = v10
        <3>1. CASE v14[c].current
            <4>1. v10' = None /\ Client!RefreshesOr(c, Client!Connected)
                BY <3>1, <1>16 DEF Client!Confirmed
            <4> QED
                BY <2>1, <3>1, <4>1, ClientRefreshes
        <3>2. CASE ~v14[c].current
            <4>1. Client!Returns(c) /\ UNCHANGED <<v10, v13>>
                BY <3>2, <1>16 DEF Client!Confirmed
            <4> QED
                BY <2>1, <4>1, ClientReturns, ClientReturnsFlags
        <3> QED
            BY <3>1, <3>2
    <2>3. /\ v15' \in [Users -> [Claws -> Client!Requests \cup {None}]]
          /\ \A n \in Users, k \in Claws : v15'[n][k] \in {v15[n][k], None}
        <3>1. v15 \in [Users -> [Claws -> Client!Requests \cup {None}]]
            BY <1>0
        <3>2. v15' = [v15 EXCEPT ![v14[c].request.name][v14[c].request.claw] = None]
            BY <2>1
        <3> QED
            BY <3>1, <3>2, ClientBlanked
    <2>4. Client!DraftsInPlace'
        BY <2>3, <1>d DEF Client!DraftsInPlace
    <2>5. v17' \subseteq Client!Requests /\ v16' \in 0 .. MaxRequests
        BY <2>1, <1>0
    <2> QED
        BY <2>1, <2>2, <2>3, <2>4, <2>5, <1>0, <1>p, <1>c
<1>17. ASSUME NEW c \in Calls, Client!CallFails(c)
       PROVE  Client!Inductive'
    <2>1. /\ v14[c] # None /\ Client!Returns(c) /\ v13' = IF v13 = c THEN None ELSE v13
          /\ (v8' = v8 /\ v4' = v4) \/ (v8' = None /\ v4' = v4 \cup ({v1} \ {None}))
          /\ UNCHANGED <<v1, v2, v3, v5, v6, v7, v9, v10, v15, v16, v17>>
        BY <1>17 DEF Client!CallFails
    <2>2. /\ v14' \in [Calls -> Client!CallRecords \cup {None}] /\ v13' \in Calls \cup {None}
          /\ v11' \in BOOLEAN /\ v12' \in BOOLEAN /\ Client!CallsOfNow' /\ Client!Flags'
        BY <2>1, ClientReturns, ClientReturnsFlags
    <2>3. v4' \subseteq Users /\ (v8' = v8 \/ v8' = None)
        BY <2>1, <1>0
    <2>4. Client!TypeOK'
        BY <2>1, <2>2, <2>3, <1>0, ClientTyped
    <2>5. Client!Selected' /\ Client!DraftsInPlace'
        BY <2>1, ClientKept
    <2>6. Client!ShownOfSelection'
        BY <2>1, <2>3, <1>p, <1>o DEF Client!ShownOfSelection
    <2> QED
        BY <2>2, <2>4, <2>5, <2>6 DEF Client!Inductive
<1> QED
    BY <1>1, <1>2, <1>3, <1>4, <1>5, <1>7, <1>8, <1>9, <1>10, <1>11, <1>12, <1>13, <1>14, <1>15,
        <1>16, <1>17
    DEF Client!Next

\* The invariant of the glasses client.
LEMMA ClientHolds == ServicesSpec => [](part = "client" => Client!Inductive)
<1> DEFINE Inv == part = "client" => Client!Inductive
<1>1. ServicesInit => Inv
    BY ClientInit, ServicesAssumption DEF ServicesInit
<1>2. Inv /\ [ServicesNext]_partVars => Inv'
    <2> SUFFICES ASSUME Inv, [ServicesNext]_partVars, part' = "client"
                 PROVE  Client!Inductive'
        OBVIOUS
    <2>1. CASE UNCHANGED partVars
        <3>1. part = "client" /\ UNCHANGED <<v1, v2, v3, v4, v5, v6, v7, v8, v9, v10, v11, v12, v13, v14, v15, v16, v17>>
            BY <2>1 DEF partVars
        <3>2. Client!TypeOK'
            BY <3>1 DEF Client!Inductive, Client!TypeOK
        <3>3. /\ Client!Selected' /\ Client!CallsOfNow' /\ Client!DraftsInPlace' /\ Client!ShownOfSelection'
              /\ Client!Flags'
            BY <3>1, ClientKept
        <3> QED
            BY <3>2, <3>3 DEF Client!Inductive
    <2>2. CASE ServicesNext
        BY <2>2, ClientStep, ServicesAssumption DEF ServicesNext
    <2> QED
        BY <2>1, <2>2
<1> QED
    BY <1>1, <1>2, PTL DEF ServicesSpec

\* What the glasses show and hold is the selected Claw's and the account's, for any accounts and
\* Claws and any number of calls in flight (GlassesModel.swift:121-124, 171, 211-213).
THEOREM Selection == ServicesSpec => []ShownOfSelection
<1>1. (part = "client" => Client!Inductive) => ShownOfSelection
    BY DEF ShownOfSelection, Client!Inductive
<1> QED
    BY <1>1, ClientHolds, PTL

\* The number of calls that hold a flag.
LEMMA ClientCounts ==
    ASSUME NEW flag, NEW set \in BOOLEAN, Client!Owned(flag, set)
    PROVE  Client!Cardinality(Client!Holding(flag)) = IF set THEN 1 ELSE 0
<1>1. Cardinality(Client!Holding(flag)) = IF set THEN 1 ELSE 0
    BY FS_EmptySet, FS_Singleton DEF Client!Owned
<1>2. Client!Cardinality(Client!Holding(flag)) = Cardinality(Client!Holding(flag))
    BY DEF Client!Cardinality, Cardinality
<1> QED
    BY <1>1, <1>2

\* A flag is set exactly while one call of this epoch is to clear it, for any number of calls in
\* flight (GlassesModel.swift:84, 116, 151, 208).
THEOREM Flagged == ServicesSpec => []FlagsOwned
<1>1. (part = "client" => Client!Inductive) => FlagsOwned
    <2>1. ASSUME Client!Inductive
          PROVE  Client!FlagsOwned
        <3>1. v11 \in BOOLEAN /\ v12 \in BOOLEAN /\ Client!Flags
            BY <2>1 DEF Client!Inductive, Client!TypeOK
        <3> QED
            BY <3>1, ClientCounts DEF Client!FlagsOwned, Client!Flags
    <2> QED
        BY <2>1 DEF FlagsOwned
<1> QED
    BY <1>1, ClientHolds, PTL

------------------------------------------------------------------------------
(* Fleet.                                                                    *)

\* What the types say of each variable.
LEMMA FleetTypes ==
    ASSUME ServicesAssumption, Registry!TypeOK
    PROVE  /\ v1 \in [Tenants -> Registry!Records \cup {None}]
           /\ v2 \in Seq(1 .. MaxPort) /\ v3 \in 1 .. MaxPort + 1 /\ MaxPort \in Nat
           /\ v4 \in [Tenants -> {"down", "up", "sick"}]
           /\ v5 \in [Tenants -> {"none", "env", "escrow"}]
           /\ v6 \in [Tenants -> Registry!Records \cup {None}]
           /\ v7 \subseteq Tenants
           /\ None \notin Registry!Records /\ Canary \in Tenants
BY DEF ServicesAssumption, Registry!FleetAssumption, Registry!TypeOK, Registry!Ports

\* The fields of a record.
LEMMA FleetRecord ==
    ASSUME NEW r \in Registry!Records
    PROVE  /\ r.port \in 1 .. MaxPort /\ r.access \in {"assigned", "suppressed"} /\ r.off \in BOOLEAN
           /\ \A access \in {"assigned", "suppressed"} :
                 /\ [r EXCEPT !.access = access] \in Registry!Records
                 /\ [r EXCEPT !.access = access].port = r.port /\ [r EXCEPT !.access = access].off = r.off
                 /\ [r EXCEPT !.access = access].access = access
           /\ Registry!Marked(r) \in Registry!Records /\ Registry!Marked(r).off = TRUE
BY DEF Registry!Records, Registry!Ports, Registry!Marked

\* The first port is taken from the list.
LEMMA FleetTaken ==
    ASSUME NEW S, NEW s \in Seq(S), s # <<>>, \A m, n \in DOMAIN s : s[m] = s[n] => m = n
    PROVE  /\ Head(s) \in S /\ Tail(s) \in Seq(S)
           /\ Head(s) \in {s[n] : n \in DOMAIN s}
           /\ \A m, n \in DOMAIN Tail(s) : Tail(s)[m] = Tail(s)[n] => m = n
           /\ {Tail(s)[n] : n \in DOMAIN Tail(s)} = {s[n] : n \in DOMAIN s} \ {Head(s)}
<1>1. /\ Head(s) \in S /\ Tail(s) \in Seq(S)
      /\ Len(s) \in Nat /\ DOMAIN s = 1 .. Len(s) /\ Len(s) # 0 /\ Head(s) = s[1]
      /\ DOMAIN Tail(s) = 1 .. Len(s) - 1
      /\ \A i \in 1 .. Len(s) - 1 : Tail(s)[i] = s[i + 1]
    <2>1. /\ Head(s) \in S /\ Tail(s) \in Seq(S) /\ Len(Tail(s)) = Len(s) - 1
          /\ \A i \in 1 .. Len(Tail(s)) : Tail(s)[i] = s[i + 1]
        BY HeadTailProperties
    <2>2. Len(s) \in Nat /\ DOMAIN s = 1 .. Len(s) /\ DOMAIN Tail(s) = 1 .. Len(Tail(s))
        BY <2>1, LenProperties
    <2>3. Len(s) # 0 /\ Head(s) = s[1]
        BY <2>2, EmptySeq
    <2> QED
        BY <2>1, <2>2, <2>3
<1>2. \A m, n \in DOMAIN Tail(s) : Tail(s)[m] = Tail(s)[n] => m = n
    BY <1>1
<1>3. ASSUME NEW n \in DOMAIN Tail(s)
      PROVE  Tail(s)[n] \in {s[i] : i \in DOMAIN s} \ {Head(s)}
    BY <1>1, <1>3
<1>4. ASSUME NEW n \in DOMAIN s, s[n] # Head(s)
      PROVE  s[n] \in {Tail(s)[i] : i \in DOMAIN Tail(s)}
    <2>1. n - 1 \in DOMAIN Tail(s) /\ Tail(s)[n - 1] = s[n]
        BY <1>1, <1>4
    <2> QED
        BY <2>1
<1>5. Head(s) \in {s[n] : n \in DOMAIN s}
    BY <1>1
<1> QED
    BY <1>1, <1>2, <1>3, <1>4, <1>5

\* The members of a list of ports.
ListedIn(s) == {s[n] : n \in DOMAIN s}

\* A port is put at the end of the list.
LEMMA FleetReclaimed ==
    ASSUME NEW S, NEW s \in Seq(S), NEW p \in S, \A m, n \in DOMAIN s : s[m] = s[n] => m = n,
           \A n \in DOMAIN s : s[n] # p
    PROVE  /\ Append(s, p) \in Seq(S)
           /\ \A m, n \in DOMAIN Append(s, p) : Append(s, p)[m] = Append(s, p)[n] => m = n
           /\ ListedIn(Append(s, p)) = ListedIn(s) \cup {p}
<1>1. /\ Append(s, p) \in Seq(S)
      /\ Len(s) \in Nat /\ DOMAIN s = 1 .. Len(s) /\ DOMAIN Append(s, p) = 1 .. Len(s) + 1
      /\ \A i \in 1 .. Len(s) : Append(s, p)[i] = s[i]
      /\ Append(s, p)[Len(s) + 1] = p
    BY AppendProperties, LenProperties
<1>2. \A m, n \in DOMAIN Append(s, p) : Append(s, p)[m] = Append(s, p)[n] => m = n
    BY <1>1
<1>3. \A n \in DOMAIN Append(s, p) : Append(s, p)[n] \in {s[i] : i \in DOMAIN s} \cup {p}
    BY <1>1
<1>4. \A n \in DOMAIN s : s[n] \in {Append(s, p)[i] : i \in DOMAIN Append(s, p)}
    BY <1>1
<1>5. p \in {Append(s, p)[i] : i \in DOMAIN Append(s, p)}
    BY <1>1
<1> QED
    BY <1>1, <1>2, <1>3, <1>4, <1>5 DEF ListedIn

\* Nobody is signed up and no port handed out (store.ts).
LEMMA FleetInit == ServicesAssumption /\ Registry!Init => Registry!Inductive
<1> SUFFICES ASSUME ServicesAssumption, Registry!Init
             PROVE  Registry!Inductive
    OBVIOUS
<1> USE DEF Registry!Init, Registry!NoUpdate
<1>1. v2 \in Seq(Registry!Ports) /\ DOMAIN v2 = {}
    BY EmptySeq
<1>2. 1 \in 1 .. MaxPort + 1
    BY DEF ServicesAssumption, Registry!FleetAssumption
<1>3. Registry!TypeOK
    BY <1>1, <1>2 DEF Registry!TypeOK
<1>4. Registry!Partition
    BY <1>1 DEF Registry!Partition, Registry!Actives, Registry!Active, Registry!Known,
        Registry!FreePorts
<1>5. Registry!Unchanged
    BY DEF Registry!Unchanged
<1> QED
    BY <1>3, <1>4, <1>5 DEF Registry!Inductive

\* While nothing else is called, what an update that awaits its canary holds is what is stored.
LEMMA FleetUpdate ==
    ASSUME Registry!TypeOK
    PROVE  ~Registry!Awaiting => \A t \in Tenants : v6[t] = None
BY DEF Registry!TypeOK, Registry!Awaiting, Registry!NoUpdate

\* Applying some tenants stores the records it was given (docker.ts:163-189).
LEMMA FleetApplied ==
    ASSUME ServicesAssumption, Registry!TypeOK, NEW S \in SUBSET Tenants, NEW recs,
           Registry!Applied(S, recs) \/ \E x \in Tenants : \E r : Registry!AppliedUntil(S, recs, x, r)
    PROVE  /\ v1' = recs /\ v4' \in [Tenants -> {"down", "up", "sick"}]
           /\ v5' \in [Tenants -> {"none", "env", "escrow"}]
<1>0. v4 \in [Tenants -> {"down", "up", "sick"}] /\ v5 \in [Tenants -> {"none", "env", "escrow"}]
    BY FleetTypes
<1>1. /\ \A r : Registry!RuntimeOf(r) \in {"down", "up", "sick"}
      /\ \A t \in Tenants : \A r : Registry!Rendered(t, r) \in {"none", "env", "escrow"}
    BY DEF Registry!RuntimeOf, Registry!Rendered
<1>2. CASE Registry!Applied(S, recs)
    BY <1>0, <1>1, <1>2 DEF Registry!Applied
<1>3. ASSUME NEW x \in Tenants, NEW r, Registry!AppliedUntil(S, recs, x, r)
      PROVE  /\ v1' = recs /\ v4' \in [Tenants -> {"down", "up", "sick"}]
             /\ v5' \in [Tenants -> {"none", "env", "escrow"}]
    <2>1. PICK broken \in {"down", "sick", v4[x]}, keys \in {v5[x], Registry!Rendered(x, r)} :
             /\ v4' = [t \in Tenants |-> IF t \in S THEN Registry!RuntimeOf(recs[t])
                                         ELSE IF t = x THEN broken ELSE v4[t]]
             /\ v5' = [t \in Tenants |-> IF t \in S THEN Registry!Rendered(t, recs[t])
                                         ELSE IF t = x THEN keys ELSE v5[t]]
        BY <1>3 DEF Registry!AppliedUntil
    <2>2. broken \in {"down", "up", "sick"} /\ keys \in {"none", "env", "escrow"}
        BY <1>0, <1>1
    <2>3. v1' = recs
        BY <1>3 DEF Registry!AppliedUntil
    <2>4. v4' \in [Tenants -> {"down", "up", "sick"}]
        BY <2>1, <2>2, <1>0, <1>1
    <2>5. v5' \in [Tenants -> {"none", "env", "escrow"}]
        BY <2>1, <2>2, <1>0, <1>1
    <2> QED
        BY <2>3, <2>4, <2>5
<1> QED
    BY <1>2, <1>3

\* Who has which port stays as it was.
LEMMA FleetKept ==
    ASSUME Registry!Inductive, UNCHANGED <<v2, v3>>,
           \A t \in Tenants : /\ v1'[t] = None <=> v1[t] = None
                              /\ v1[t] # None => v1'[t].port = v1[t].port /\ v1'[t].off = v1[t].off
    PROVE  Registry!Partition'
<1>1. Registry!Actives' = Registry!Actives
    BY DEF Registry!Actives, Registry!Active, Registry!Known
<1>2. \A t \in Registry!Actives : t \in Tenants /\ v1'[t].port = v1[t].port
    BY DEF Registry!Actives, Registry!Active, Registry!Known
<1>3. Registry!FreePorts' = Registry!FreePorts
    BY DEF Registry!FreePorts
<1> QED
    BY <1>1, <1>2, <1>3 DEF Registry!Inductive, Registry!Partition

\* The port of a tenant that goes is put back, once (ops.ts:492-515).
LEMMA FleetPortBack ==
    ASSUME ServicesAssumption, Registry!Inductive, NEW t \in Tenants, v1[t] # None, Registry!PortBack(t),
           v3' = v3, v1' \in [Tenants -> Registry!Records \cup {None}],
           \A u \in Tenants \ {t} : v1'[u] = v1[u], v1'[t] = None \/ v1'[t].off
    PROVE  v2' \in Seq(1 .. MaxPort) /\ Registry!Partition'
<1>0. /\ v1 \in [Tenants -> Registry!Records \cup {None}] /\ v1[t] \in Registry!Records
      /\ v2 \in Seq(1 .. MaxPort) /\ v3 \in 1 .. MaxPort + 1 /\ MaxPort \in Nat
      /\ v1[t].port \in 1 .. MaxPort
    <2>1. /\ v1 \in [Tenants -> Registry!Records \cup {None}]
          /\ v2 \in Seq(1 .. MaxPort) /\ v3 \in 1 .. MaxPort + 1 /\ MaxPort \in Nat
        BY FleetTypes DEF Registry!Inductive
    <2>2. v1[t] \in Registry!Records
        BY <2>1
    <2> QED
        BY <2>1, <2>2, FleetRecord
<1>p. /\ \A u \in Registry!Actives : v1[u].port < v3 /\ v1[u].port \notin Registry!FreePorts
      /\ \A u, w \in Registry!Actives : v1[u].port = v1[w].port => u = w
      /\ \A m, n \in DOMAIN v2 : v2[m] = v2[n] => m = n
      /\ \A p \in Registry!FreePorts : p < v3
      /\ \A p \in 1 .. v3 - 1 : p \in Registry!FreePorts \/ \E u \in Registry!Actives : v1[u].port = p
    BY DEF Registry!Inductive, Registry!Partition
<1>1. /\ Registry!Actives' = Registry!Actives \ {t}
      /\ \A u \in Registry!Actives' : v1'[u] = v1[u]
      /\ t \in Registry!Actives <=> ~v1[t].off
    BY DEF Registry!Actives, Registry!Active, Registry!Known
<1>2. CASE v1[t].off
    <2>1. v2' = v2
        BY <1>2 DEF Registry!PortBack
    <2>2. Registry!FreePorts' = Registry!FreePorts
        BY <2>1 DEF Registry!FreePorts
    <2>3. t \notin Registry!Actives
        BY <1>1, <1>2
    <2>4. Registry!Partition'
        BY <2>1, <2>2, <2>3, <1>1, <1>p DEF Registry!Partition
    <2> QED
        BY <2>1, <2>4, <1>0
<1>3. CASE ~v1[t].off
    <2>1. t \in Registry!Actives /\ v1[t].port \notin Registry!FreePorts
        BY <1>1, <1>3, <1>p
    <2>2. v2' = Append(v2, v1[t].port)
        BY <1>3, <2>1 DEF Registry!PortBack, Registry!Reclaimed, Registry!FreePorts
    <2>3. /\ v2' \in Seq(1 .. MaxPort)
          /\ \A m, n \in DOMAIN v2' : v2'[m] = v2'[n] => m = n
          /\ Registry!FreePorts' = Registry!FreePorts \cup {v1[t].port}
        <3> DEFINE p == v1[t].port
                   S == 1 .. MaxPort
        <3>1. /\ v2 \in Seq(S) /\ p \in S /\ \A n \in DOMAIN v2 : v2[n] # p
              /\ \A m, n \in DOMAIN v2 : v2[m] = v2[n] => m = n
            BY <2>1, <1>0, <1>p DEF Registry!FreePorts
        <3>2. v2' = Append(v2, p)
            BY <2>2
        <3> HIDE DEF p, S
        <3>3. /\ Append(v2, p) \in Seq(S)
              /\ \A m, n \in DOMAIN Append(v2, p) : Append(v2, p)[m] = Append(v2, p)[n] => m = n
              /\ ListedIn(Append(v2, p)) = ListedIn(v2) \cup {p}
            <4>1. Append(v2, p) \in Seq(S)
                BY <3>1, FleetReclaimed
            <4>2. \A m, n \in DOMAIN Append(v2, p) : Append(v2, p)[m] = Append(v2, p)[n] => m = n
                BY <3>1, FleetReclaimed
            <4>3. ListedIn(Append(v2, p)) = ListedIn(v2) \cup {p}
                BY <3>1, FleetReclaimed
            <4> QED
                BY <4>1, <4>2, <4>3
        <3>4. /\ v2' \in Seq(S) /\ \A m, n \in DOMAIN v2' : v2'[m] = v2'[n] => m = n
              /\ {v2'[n] : n \in DOMAIN v2'} = {v2[n] : n \in DOMAIN v2} \cup {p}
            <4>1. \A x : x \in ListedIn(Append(v2, p)) <=> x \in ListedIn(v2) \cup {p}
                BY <3>3
            <4>2. {v2'[n] : n \in DOMAIN v2'} = {v2[n] : n \in DOMAIN v2} \cup {p}
                BY <3>2, <4>1 DEF ListedIn
            <4> QED
                BY <3>2, <3>3, <4>2
        <3> QED
            BY <3>4 DEF p, S, Registry!FreePorts
    <2>4. /\ \A u \in Registry!Actives' : v1'[u].port < v3' /\ v1'[u].port \notin Registry!FreePorts'
          /\ \A u, w \in Registry!Actives' : v1'[u].port = v1'[w].port => u = w
        BY <2>1, <2>3, <1>1, <1>p
    <2>5. /\ \A p \in Registry!FreePorts' : p < v3'
          /\ \A p \in 1 .. v3' - 1 : p \in Registry!FreePorts' \/ \E u \in Registry!Actives' : v1'[u].port = p
        BY <2>1, <2>3, <1>1, <1>p
    <2> QED
        BY <2>3, <2>4, <2>5 DEF Registry!Partition
<1> QED
    BY <1>2, <1>3

\* A tenant that signs up takes a port that nobody has (ops.ts:78-84).
LEMMA FleetPortTaken ==
    ASSUME ServicesAssumption, Registry!Inductive, NEW t \in Tenants, v1[t] = None, Registry!PortTaken,
           NEW r \in Registry!Records, r.port = IF v2 = <<>> THEN v3 ELSE Head(v2), ~r.off,
           v1' = [v1 EXCEPT ![t] = r]
    PROVE  v2' \in Seq(1 .. MaxPort) /\ v3' \in 1 .. MaxPort + 1 /\ Registry!Partition'
<1>0. /\ v1 \in [Tenants -> Registry!Records \cup {None}]
      /\ v2 \in Seq(1 .. MaxPort) /\ v3 \in 1 .. MaxPort + 1 /\ MaxPort \in Nat
      /\ None \notin Registry!Records
    BY FleetTypes DEF Registry!Inductive
<1>p. /\ \A u \in Registry!Actives : v1[u].port < v3 /\ v1[u].port \notin Registry!FreePorts
      /\ \A u, w \in Registry!Actives : v1[u].port = v1[w].port => u = w
      /\ \A m, n \in DOMAIN v2 : v2[m] = v2[n] => m = n
      /\ \A p \in Registry!FreePorts : p < v3
      /\ \A p \in 1 .. v3 - 1 : p \in Registry!FreePorts \/ \E u \in Registry!Actives : v1[u].port = p
    BY DEF Registry!Inductive, Registry!Partition
<1>r. r.port \in 1 .. MaxPort
    BY FleetRecord
<1>1. /\ v1'[t] = r /\ \A u \in Tenants \ {t} : v1'[u] = v1[u]
      /\ t \notin Registry!Actives /\ Registry!Actives' = Registry!Actives \cup {t}
      /\ \A u \in Registry!Actives : v1'[u] = v1[u]
    <2>1. v1'[t] = r /\ \A u \in Tenants \ {t} : v1'[u] = v1[u]
        BY <1>0
    <2>2. r # None
        BY <1>0
    <2> QED
        BY <2>1, <2>2 DEF Registry!Actives, Registry!Active, Registry!Known
<1>2. CASE v2 = <<>>
    <2>1. v2' = v2 /\ v3' = v3 + 1 /\ r.port = v3
        BY <1>2 DEF Registry!PortTaken
    <2>2. Registry!FreePorts' = Registry!FreePorts
        BY <2>1 DEF Registry!FreePorts
    <2>3. /\ \A u \in Registry!Actives' : v1'[u].port < v3' /\ v1'[u].port \notin Registry!FreePorts'
          /\ \A u, w \in Registry!Actives' : v1'[u].port = v1'[w].port => u = w
        <3>1. ASSUME NEW u \in Registry!Actives
              PROVE  v1[u].port # v3 /\ v1[u].port < v3 + 1
            <4>1. v1[u] \in Registry!Records
                BY <1>0 DEF Registry!Actives, Registry!Active, Registry!Known
            <4>2. v1[u].port \in 1 .. MaxPort
                BY <4>1, FleetRecord
            <4> QED
                BY <4>2, <1>p, <1>0
        <3>2. v3 \notin Registry!FreePorts /\ v3 < v3 + 1
            BY <1>p, <1>0
        <3> QED
            BY <3>1, <3>2, <2>1, <2>2, <1>1, <1>p
    <2>4. \A p \in Registry!FreePorts' : p < v3'
        <3>1. \A p \in Registry!FreePorts : p \in Nat
            BY <1>0, LenProperties DEF Registry!FreePorts
        <3> QED
            BY <3>1, <2>1, <2>2, <1>p, <1>0
    <2>5. \A p \in 1 .. v3' - 1 : p \in Registry!FreePorts' \/ \E u \in Registry!Actives' : v1'[u].port = p
        <3>1. \A p \in 1 .. v3' - 1 : p \in 1 .. v3 - 1 \/ p = v3
            BY <2>1, <1>0
        <3> QED
            BY <3>1, <2>1, <2>2, <1>1, <1>p
    <2>6. v2' \in Seq(1 .. MaxPort) /\ v3' \in 1 .. MaxPort + 1
        BY <2>1, <1>0, <1>r
    <2> QED
        BY <2>1, <2>3, <2>4, <2>5, <2>6, <1>p DEF Registry!Partition
<1>3. CASE v2 # <<>>
    <2>1. v2' = Tail(v2) /\ v3' = v3 /\ r.port = Head(v2)
        BY <1>3 DEF Registry!PortTaken
    <2>2. /\ v2' \in Seq(1 .. MaxPort)
          /\ Head(v2) \in Registry!FreePorts
          /\ \A m, n \in DOMAIN v2' : v2'[m] = v2'[n] => m = n
          /\ Registry!FreePorts' = Registry!FreePorts \ {Head(v2)}
        <3>1. /\ Tail(v2) \in Seq(1 .. MaxPort)
              /\ Head(v2) \in {v2[n] : n \in DOMAIN v2}
              /\ \A m, n \in DOMAIN Tail(v2) : Tail(v2)[m] = Tail(v2)[n] => m = n
              /\ {Tail(v2)[n] : n \in DOMAIN Tail(v2)} = {v2[n] : n \in DOMAIN v2} \ {Head(v2)}
            BY <1>3, <1>0, <1>p, FleetTaken
        <3> QED
            BY <2>1, <3>1 DEF Registry!FreePorts
    <2>3. /\ \A u \in Registry!Actives' : v1'[u].port < v3' /\ v1'[u].port \notin Registry!FreePorts'
          /\ \A u, w \in Registry!Actives' : v1'[u].port = v1'[w].port => u = w
        BY <2>1, <2>2, <1>1, <1>p
    <2>4. /\ \A p \in Registry!FreePorts' : p < v3'
          /\ \A p \in 1 .. v3' - 1 : p \in Registry!FreePorts' \/ \E u \in Registry!Actives' : v1'[u].port = p
        BY <2>1, <2>2, <1>1, <1>p
    <2> QED
        BY <2>1, <2>2, <2>3, <2>4, <1>0 DEF Registry!Partition
<1> QED
    BY <1>2, <1>3

\* Whatever operation comes next, and wherever it stops, if none is called while an update awaits its
\* canary (ops.ts:60-120, 280-515).
LEMMA FleetStep ==
    ASSUME ServicesAssumption, Concurrent = FALSE, Registry!Inductive, Registry!Next
    PROVE  Registry!Inductive'
<1>0. /\ v1 \in [Tenants -> Registry!Records \cup {None}]
      /\ v2 \in Seq(1 .. MaxPort) /\ v3 \in 1 .. MaxPort + 1 /\ MaxPort \in Nat
      /\ v4 \in [Tenants -> {"down", "up", "sick"}]
      /\ v5 \in [Tenants -> {"none", "env", "escrow"}]
      /\ v6 \in [Tenants -> Registry!Records \cup {None}]
      /\ v7 \subseteq Tenants
      /\ None \notin Registry!Records /\ Canary \in Tenants
    BY FleetTypes DEF Registry!Inductive
<1>u. /\ Registry!Callable => \A t \in Tenants : v6[t] = None
      /\ ~Registry!Awaiting => \A t \in Tenants : v6[t] = None
      /\ \A t \in Tenants : v6[t] # None => v1[t] = v6[t]
    BY FleetUpdate DEF Registry!Inductive, Registry!Callable, Registry!Unchanged
<1>t. ASSUME v1' \in [Tenants -> Registry!Records \cup {None}],
             v2' \in Seq(1 .. MaxPort), v3' \in 1 .. MaxPort + 1,
             v4' \in [Tenants -> {"down", "up", "sick"}],
             v5' \in [Tenants -> {"none", "env", "escrow"}],
             v6' \in [Tenants -> Registry!Records \cup {None}], v7' \subseteq Tenants
      PROVE  Registry!TypeOK'
    BY <1>t DEF Registry!TypeOK, Registry!Ports
\* Some tenants are applied with records that keep their ports.
<1>a. ASSUME NEW S \in SUBSET Tenants, NEW recs \in [Tenants -> Registry!Records \cup {None}],
             Registry!Applied(S, recs) \/ \E x \in Tenants : \E r : Registry!AppliedUntil(S, recs, x, r),
             \A t \in Tenants : /\ recs[t] = None <=> v1[t] = None
                                /\ v1[t] # None => recs[t].port = v1[t].port /\ recs[t].off = v1[t].off,
             v6' \in [Tenants -> Registry!Records \cup {None}],
             \A t \in Tenants : v6'[t] # None => recs[t] = v6'[t],
             UNCHANGED <<v2, v3, v7>>
      PROVE  Registry!Inductive'
    <2>1. /\ v1' = recs /\ v4' \in [Tenants -> {"down", "up", "sick"}]
          /\ v5' \in [Tenants -> {"none", "env", "escrow"}]
        BY <1>a, FleetApplied DEF Registry!Inductive
    <2>2. Registry!TypeOK'
        BY <2>1, <1>a, <1>0, <1>t
    <2>3. Registry!Partition'
        BY <2>1, <1>a, FleetKept
    <2>4. Registry!Unchanged'
        BY <2>1, <1>a DEF Registry!Unchanged
    <2> QED
        BY <2>2, <2>3, <2>4 DEF Registry!Inductive
<1>1. ASSUME NEW t \in Tenants, Registry!Signup(t)
      PROVE  Registry!Inductive'
    <2> DEFINE port == IF v2 = <<>> THEN v3 ELSE Head(v2)
               r == [port |-> port, access |-> "suppressed", off |-> FALSE]
    <2>1. /\ Registry!Callable /\ v1[t] = None /\ port \in 1 .. MaxPort /\ Registry!PortTaken
          /\ Registry!Applied({t}, [v1 EXCEPT ![t] = r]) /\ v7' = v7 \ {t} /\ v6' = v6
        BY <1>1 DEF Registry!Signup, Registry!Known, Registry!Ports
    <2>2. r \in Registry!Records /\ r.port = port /\ ~r.off
        BY <2>1 DEF Registry!Records, Registry!Ports
    <2>3. port = IF v2 = <<>> THEN v3 ELSE Head(v2)
        OBVIOUS
    <2> HIDE DEF r, port
    <2>4. /\ v1' = [v1 EXCEPT ![t] = r] /\ v4' \in [Tenants -> {"down", "up", "sick"}]
          /\ v5' \in [Tenants -> {"none", "env", "escrow"}]
        BY <2>1, FleetApplied DEF Registry!Inductive
    <2>5. v2' \in Seq(1 .. MaxPort) /\ v3' \in 1 .. MaxPort + 1 /\ Registry!Partition'
        BY <2>1, <2>2, <2>3, <2>4, FleetPortTaken
    <2>6. Registry!TypeOK'
        BY <2>1, <2>2, <2>4, <2>5, <1>0, <1>t
    <2>7. Registry!Unchanged'
        BY <2>1, <1>u DEF Registry!Unchanged
    <2> QED
        BY <2>5, <2>6, <2>7 DEF Registry!Inductive
\* A tenant goes.
<1>g. ASSUME NEW t \in Tenants, NEW r \in Registry!Records \cup {None}, v1[t] # None, Registry!Callable,
             Registry!PortBack(t), v1' = [v1 EXCEPT ![t] = r], r = None \/ r.off,
             v4' = [v4 EXCEPT ![t] = "down"], v5' \in [Tenants -> {"none", "env", "escrow"}],
             v7' = v7 \cup {t}, UNCHANGED <<v3, v6>>
      PROVE  Registry!Inductive'
    <2>1. /\ v1' \in [Tenants -> Registry!Records \cup {None}] /\ v1'[t] = r
          /\ \A u \in Tenants \ {t} : v1'[u] = v1[u]
        BY <1>g, <1>0
    <2>2. v2' \in Seq(1 .. MaxPort) /\ Registry!Partition'
        BY <2>1, <1>g, FleetPortBack
    <2>3. Registry!TypeOK'
        BY <2>1, <2>2, <1>g, <1>0, <1>t
    <2>4. Registry!Unchanged'
        BY <1>g, <1>u DEF Registry!Unchanged
    <2> QED
        BY <2>2, <2>3, <2>4 DEF Registry!Inductive
<1>2. ASSUME NEW t \in Tenants, Registry!Offboard(t)
      PROVE  Registry!Inductive'
    <2>1. /\ v1[t] # None /\ v1' = [v1 EXCEPT ![t] = Registry!Marked(v1[t])] /\ Registry!Callable
          /\ Registry!PortBack(t) /\ v4' = [v4 EXCEPT ![t] = "down"] /\ v7' = v7 \cup {t}
          /\ UNCHANGED <<v3, v5, v6>>
        BY <1>2, <1>0 DEF Registry!Offboard, Registry!Active, Registry!Known
    <2>2. v1[t] \in Registry!Records
        BY <2>1, <1>0
    <2>3. Registry!Marked(v1[t]) \in Registry!Records /\ Registry!Marked(v1[t]).off
        BY <2>2, FleetRecord
    <2> QED
        BY <2>1, <2>3, <1>0, <1>g
<1>3. ASSUME NEW t \in Tenants, Registry!Purge(t)
      PROVE  Registry!Inductive'
    <2>1. /\ v1[t] # None /\ v1' = [v1 EXCEPT ![t] = None] /\ Registry!Callable
          /\ Registry!PortBack(t) /\ v4' = [v4 EXCEPT ![t] = "down"] /\ v7' = v7 \cup {t}
          /\ v5' = [v5 EXCEPT ![t] = "none"] /\ UNCHANGED <<v3, v6>>
        BY <1>3 DEF Registry!Purge, Registry!Known
    <2>2. v5' \in [Tenants -> {"none", "env", "escrow"}]
        BY <2>1, <1>0
    <2> QED
        BY <2>1, <2>2, <1>g
<1>4. ASSUME NEW t \in Tenants, Registry!Apply(t)
      PROVE  Registry!Inductive'
    <2>1. /\ Registry!Applied({t}, v1) \/ Registry!AppliedUntil({}, v1, t, v1[t])
          /\ UNCHANGED <<v2, v3, v6, v7>>
        BY <1>4 DEF Registry!Apply
    <2>2. CASE Registry!Applied({t}, v1)
        <3>1. {t} \in SUBSET Tenants
            OBVIOUS
        <3> QED
            BY <3>1, <2>1, <2>2, <1>0, <1>u, <1>a
    <2>3. CASE Registry!AppliedUntil({}, v1, t, v1[t])
        <3>1. {} \in SUBSET Tenants
            OBVIOUS
        <3> QED
            BY <3>1, <2>1, <2>3, <1>0, <1>u, <1>a
    <2> QED
        BY <2>1, <2>2, <2>3
<1>5. ASSUME NEW t \in Tenants, NEW access \in {"assigned", "suppressed"}, Registry!SetAccess(t, access)
      PROVE  Registry!Inductive'
    <2> DEFINE stored == [v1 EXCEPT ![t].access = access]
    <2>1. /\ v1[t] # None /\ Registry!Callable
          /\ Registry!Applied({t}, stored) \/ Registry!AppliedUntil({}, stored, t, stored[t])
          /\ UNCHANGED <<v2, v3, v6, v7>>
        BY <1>5 DEF Registry!SetAccess, Registry!Known
    <2>2. v1[t] \in Registry!Records
        BY <2>1, <1>0
    <2>3. /\ [v1[t] EXCEPT !.access = access] \in Registry!Records
          /\ [v1[t] EXCEPT !.access = access].port = v1[t].port
          /\ [v1[t] EXCEPT !.access = access].off = v1[t].off
        BY <2>2 DEF Registry!Records
    <2>4. /\ stored \in [Tenants -> Registry!Records \cup {None}]
          /\ stored[t] = [v1[t] EXCEPT !.access = access] /\ \A u \in Tenants \ {t} : stored[u] = v1[u]
        BY <2>3, <1>0
    <2> HIDE DEF stored
    <2>5. \A u \in Tenants : /\ stored[u] = None <=> v1[u] = None
                             /\ v1[u] # None => stored[u].port = v1[u].port /\ stored[u].off = v1[u].off
        BY <2>1, <2>3, <2>4, <1>0
    <2>6. /\ v6' \in [Tenants -> Registry!Records \cup {None}]
          /\ \A u \in Tenants : v6'[u] # None => stored[u] = v6'[u]
        BY <2>1, <1>0, <1>u
    <2>7. CASE Registry!Applied({t}, stored)
        <3>1. {t} \in SUBSET Tenants
            OBVIOUS
        <3> QED
            BY <3>1, <2>1, <2>4, <2>5, <2>6, <2>7, <1>a
    <2>8. CASE Registry!AppliedUntil({}, stored, t, stored[t])
        <3>1. {} \in SUBSET Tenants
            OBVIOUS
        <3> QED
            BY <3>1, <2>1, <2>4, <2>5, <2>6, <2>8, <1>a
    <2> QED
        BY <2>1, <2>7, <2>8
<1>f. ASSUME NEW A \in SUBSET Tenants
      PROVE  /\ Registry!Flagged(A) \in [Tenants -> Registry!Records \cup {None}]
             /\ \A t \in Tenants : /\ Registry!Flagged(A)[t] = None <=> v1[t] = None
                                   /\ v1[t] # None => /\ Registry!Flagged(A)[t].port = v1[t].port
                                                      /\ Registry!Flagged(A)[t].off = v1[t].off
    <2>1. ASSUME NEW t \in Tenants
          PROVE  /\ Registry!Flagged(A)[t] \in Registry!Records \cup {None}
                 /\ Registry!Flagged(A)[t] = None <=> v1[t] = None
                 /\ v1[t] # None => /\ Registry!Flagged(A)[t].port = v1[t].port
                                    /\ Registry!Flagged(A)[t].off = v1[t].off
        <3>1. CASE Registry!Active(t)
            <4> DEFINE access == IF t \in A THEN "assigned" ELSE "suppressed"
            <4>1. Registry!Flagged(A)[t] = [v1[t] EXCEPT !.access = access]
                BY <3>1 DEF Registry!Flagged
            <4>2. v1[t] \in Registry!Records /\ access \in {"assigned", "suppressed"}
                BY <3>1, <1>0 DEF Registry!Active, Registry!Known
            <4> HIDE DEF access
            <4>3. /\ [v1[t] EXCEPT !.access = access] \in Registry!Records
                  /\ [v1[t] EXCEPT !.access = access].port = v1[t].port
                  /\ [v1[t] EXCEPT !.access = access].off = v1[t].off
                BY <4>2 DEF Registry!Records
            <4> QED
                BY <4>1, <4>2, <4>3, <1>0
        <3>2. CASE ~Registry!Active(t)
            <4>1. Registry!Flagged(A)[t] = v1[t]
                BY <3>2 DEF Registry!Flagged
            <4> QED
                BY <4>1, <1>0
        <3> QED
            BY <3>1, <3>2
    <2>2. Registry!Flagged(A) \in [Tenants -> Registry!Records \cup {None}]
        BY <2>1 DEF Registry!Flagged
    <2> QED
        BY <2>1, <2>2
<1>c. \A A \in SUBSET Tenants : Registry!Changed(A) \in SUBSET Tenants
    BY DEF Registry!Changed, Registry!Actives
<1>6. ASSUME NEW A \in SUBSET Tenants, Registry!Sync(A)
      PROVE  Registry!Inductive'
    <2>1. /\ Registry!Callable /\ Registry!Applied(Registry!Changed(A), Registry!Flagged(A))
          /\ UNCHANGED <<v2, v3, v6, v7>>
        BY <1>6 DEF Registry!Sync
    <2>2. /\ v6' \in [Tenants -> Registry!Records \cup {None}]
          /\ \A u \in Tenants : v6'[u] # None => Registry!Flagged(A)[u] = v6'[u]
        BY <2>1, <1>0, <1>u
    <2> QED
        BY <2>1, <2>2, <1>f, <1>c, <1>a
<1>7. ASSUME NEW A \in SUBSET Tenants, Registry!SyncInterrupted(A)
      PROVE  Registry!Inductive'
    <2>1. Registry!Callable /\ UNCHANGED <<v2, v3, v6, v7>>
        BY <1>7 DEF Registry!SyncInterrupted
    <2>2. /\ v6' \in [Tenants -> Registry!Records \cup {None}]
          /\ \A u \in Tenants : v6'[u] # None => Registry!Flagged(A)[u] = v6'[u]
        BY <2>1, <1>0, <1>u
    <2>3. CASE v1' = Registry!Flagged(A) /\ UNCHANGED <<v4, v5>>
        <3>1. Registry!Partition'
            BY <2>1, <2>3, <1>f, FleetKept
        <3>2. Registry!TypeOK'
            BY <2>1, <2>2, <2>3, <1>0, <1>f, <1>t
        <3>3. Registry!Unchanged'
            BY <2>2, <2>3 DEF Registry!Unchanged
        <3> QED
            BY <3>1, <3>2, <3>3 DEF Registry!Inductive
    <2>4. ASSUME NEW S \in SUBSET Registry!Changed(A), NEW x \in Registry!Changed(A) \ S,
                 Registry!AppliedUntil(S, Registry!Flagged(A), x, Registry!Flagged(A)[x])
          PROVE  Registry!Inductive'
        <3>1. S \in SUBSET Tenants /\ x \in Tenants
            BY <1>c
        <3> QED
            BY <3>1, <2>1, <2>2, <2>4, <1>f, <1>a
    <2> QED
        BY <1>7, <2>3, <2>4 DEF Registry!SyncInterrupted
<1>8. CASE Registry!UpdateAll
    <2>1. Registry!Callable /\ UNCHANGED <<v2, v3, v6, v7>>
        BY <1>8 DEF Registry!UpdateAll
    <2>2. Registry!Actives \in SUBSET Tenants
        BY DEF Registry!Actives
    <2>3. /\ v6' \in [Tenants -> Registry!Records \cup {None}]
          /\ \A u \in Tenants : v6'[u] # None => v1[u] = v6'[u]
        BY <2>1, <1>0, <1>u
    <2>4. CASE Registry!Applied(Registry!Actives, v1)
        BY <2>1, <2>2, <2>3, <2>4, <1>0, <1>a
    <2>5. ASSUME NEW S \in SUBSET Registry!Actives, NEW x \in Registry!Actives \ S,
                 Registry!AppliedUntil(S, v1, x, v1[x])
          PROVE  Registry!Inductive'
        <3>1. S \in SUBSET Tenants /\ x \in Tenants
            BY <2>2
        <3> QED
            BY <3>1, <2>1, <2>3, <2>5, <1>0, <1>a
    <2> QED
        BY <1>8, <2>4, <2>5 DEF Registry!UpdateAll
<1>9. CASE Registry!UpdateCanary
    <2>1. UNCHANGED <<v2, v3, v7>>
        BY <1>9 DEF Registry!UpdateCanary
    <2>2. CASE Registry!Applied({Canary}, v1) /\ v6' = Registry!Snapshot
        <3>1. /\ v6' \in [Tenants -> Registry!Records \cup {None}]
              /\ \A u \in Tenants : v6'[u] # None => v1[u] = v6'[u]
            BY <2>2, <1>0 DEF Registry!Snapshot
        <3>2. {Canary} \in SUBSET Tenants
            BY <1>0
        <3> QED
            BY <2>1, <2>2, <3>1, <3>2, <1>0, <1>a
    <2>3. CASE Registry!AppliedUntil({}, v1, Canary, v1[Canary]) /\ v6' = v6
        <3>1. {} \in SUBSET Tenants
            OBVIOUS
        <3> QED
            BY <2>1, <2>3, <3>1, <1>0, <1>u, <1>a
    <2> QED
        BY <1>9, <2>2, <2>3 DEF Registry!UpdateCanary
<1>10. CASE Registry!CanaryHealthy
    <2> DEFINE others == {t \in Tenants : v6[t] # None} \ {Canary}
    <2>1. v6' = Registry!NoUpdate /\ UNCHANGED <<v2, v3, v7>>
        BY <1>10 DEF Registry!CanaryHealthy
    <2>2. /\ v6' \in [Tenants -> Registry!Records \cup {None}] /\ \A u \in Tenants : v6'[u] = None
        BY <2>1 DEF Registry!NoUpdate
    <2>3. ASSUME NEW S \in SUBSET others
          PROVE  Registry!Over(S, v6) = v1 /\ S \in SUBSET Tenants
        <3>1. \A t \in S : v6[t] = v1[t]
            BY <1>u
        <3> QED
            BY <3>1, <1>0 DEF Registry!Over
    <2>4. CASE Registry!Applied(others, Registry!Over(others, v6))
        <3>1. Registry!Applied(others, v1) /\ others \in SUBSET Tenants
            BY <2>3, <2>4
        <3> HIDE DEF others
        <3> QED
            BY <3>1, <2>1, <2>2, <1>0, <1>a
    <2>5. ASSUME NEW S \in SUBSET others, NEW x \in others \ S,
                 Registry!AppliedUntil(S, Registry!Over(S, v6), x, v6[x])
          PROVE  Registry!Inductive'
        <3>1. Registry!AppliedUntil(S, v1, x, v6[x]) /\ S \in SUBSET Tenants /\ x \in Tenants
            BY <2>3, <2>5
        <3> HIDE DEF others
        <3> QED
            BY <3>1, <2>1, <2>2, <1>0, <1>a
    <2> QED
        BY <1>10, <2>4, <2>5 DEF Registry!CanaryHealthy
\* The registry stays as it is.
<1>k. ASSUME UNCHANGED <<v1, v2, v3, v7>>, v4' \in [Tenants -> {"down", "up", "sick"}],
             v5' \in [Tenants -> {"none", "env", "escrow"}],
             v6' = v6 \/ v6' = Registry!NoUpdate
      PROVE  Registry!Inductive'
    <2>1. /\ v6' \in [Tenants -> Registry!Records \cup {None}]
          /\ \A t \in Tenants : v6'[t] # None => v1[t] = v6'[t]
        BY <1>k, <1>0, <1>u DEF Registry!NoUpdate
    <2>2. Registry!TypeOK'
        BY <2>1, <1>k, <1>0, <1>t
    <2>3. Registry!Partition'
        BY <1>k, FleetKept
    <2>4. Registry!Unchanged'
        BY <2>1, <1>k DEF Registry!Unchanged
    <2> QED
        BY <2>2, <2>3, <2>4 DEF Registry!Inductive
<1>11. CASE Registry!CanaryUnhealthy
    BY <1>11, <1>0, <1>k DEF Registry!CanaryUnhealthy
<1>12. ASSUME NEW t \in Tenants, Registry!RuntimeFails(t)
       PROVE  Registry!Inductive'
    <2>1. v4' \in [Tenants -> {"down", "up", "sick"}] /\ UNCHANGED <<v1, v2, v3, v5, v6, v7>>
        BY <1>12, <1>0 DEF Registry!RuntimeFails
    <2> QED
        BY <2>1, <1>0, <1>k
<1>13. ASSUME NEW t \in Tenants, Registry!KeyInstalled(t)
       PROVE  Registry!Inductive'
    <2>1. v5' \in [Tenants -> {"none", "env", "escrow"}] /\ UNCHANGED <<v1, v2, v3, v4, v6, v7>>
        BY <1>13, <1>0 DEF Registry!KeyInstalled
    <2> QED
        BY <2>1, <1>0, <1>k
<1> QED
    BY <1>1, <1>2, <1>3, <1>4, <1>5, <1>6, <1>7, <1>8, <1>9, <1>10, <1>11, <1>12,
        <1>13 DEF Registry!Next

\* The invariant of the registry, if no operation is called while an update awaits its canary.
LEMMA FleetHolds ==
    ASSUME Concurrent = FALSE
    PROVE  ServicesSpec => [](part = "fleet" => Registry!Inductive)
<1> DEFINE Inv == part = "fleet" => Registry!Inductive
<1>1. ServicesInit => Inv
    BY FleetInit, ServicesAssumption DEF ServicesInit
<1>2. Inv /\ [ServicesNext]_partVars => Inv'
    <2> SUFFICES ASSUME Inv, [ServicesNext]_partVars, part' = "fleet"
                 PROVE  Registry!Inductive'
        OBVIOUS
    <2>1. CASE UNCHANGED partVars
        <3>1. part = "fleet" /\ UNCHANGED <<v1, v2, v3, v4, v5, v6, v7>>
            BY <2>1 DEF partVars
        <3>2. Registry!TypeOK'
            BY <3>1 DEF Registry!Inductive, Registry!TypeOK
        <3>3. Registry!Partition'
            BY <3>1, FleetKept
        <3>4. Registry!Unchanged'
            BY <3>1 DEF Registry!Inductive, Registry!Unchanged
        <3> QED
            BY <3>2, <3>3, <3>4 DEF Registry!Inductive
    <2>2. CASE ServicesNext
        BY <2>2, FleetStep, ServicesAssumption DEF ServicesNext
    <2> QED
        BY <2>1, <2>2
<1> QED
    BY <1>1, <1>2, PTL DEF ServicesSpec

\* Every port that was handed out counts once.
LEMMA FleetCounts ==
    ASSUME ServicesAssumption, Registry!Inductive
    PROVE  Registry!PortsPartitioned
<1> SUFFICES ASSUME NEW p \in 1 .. v3 - 1
             PROVE  Registry!Cardinality({t \in Registry!Actives : v1[t].port = p})
                        + Registry!Cardinality({n \in DOMAIN v2 : v2[n] = p}) = 1
    BY DEF Registry!PortsPartitioned
<1> DEFINE T == {t \in Registry!Actives : v1[t].port = p}
           N == {n \in DOMAIN v2 : v2[n] = p}
<1>1. \A S : Registry!Cardinality(S) = Cardinality(S)
    BY DEF Registry!Cardinality, Cardinality
<1>2. /\ \A t \in Registry!Actives : v1[t].port \notin Registry!FreePorts
      /\ \A t, u \in Registry!Actives : v1[t].port = v1[u].port => t = u
      /\ \A m, n \in DOMAIN v2 : v2[m] = v2[n] => m = n
      /\ p \in Registry!FreePorts \/ \E t \in Registry!Actives : v1[t].port = p
    BY DEF Registry!Inductive, Registry!Partition
<1>3. CASE p \in Registry!FreePorts
    <2>1. PICK n \in DOMAIN v2 : v2[n] = p
        BY <1>3 DEF Registry!FreePorts
    <2>2. N = {n} /\ T = {}
        BY <2>1, <1>2, <1>3
    <2>3. Cardinality(N) = 1 /\ Cardinality(T) = 0
        BY <2>2, FS_EmptySet, FS_Singleton
    <2> QED
        BY <2>3, <1>1
<1>4. CASE p \notin Registry!FreePorts
    <2>1. PICK t \in Registry!Actives : v1[t].port = p
        BY <1>2, <1>4
    <2>2. T = {t} /\ N = {}
        BY <2>1, <1>2, <1>4 DEF Registry!FreePorts
    <2>3. Cardinality(T) = 1 /\ Cardinality(N) = 0
        BY <2>2, FS_EmptySet, FS_Singleton
    <2> QED
        BY <2>3, <1>1
<1> QED
    BY <1>3, <1>4

\* No two tenants publish on the same port and none is lost, for any number of tenants and ports, if
\* no operation is called while an update awaits its canary (ops.ts:81, 508-512).
THEOREM Partitioned ==
    ASSUME Concurrent = FALSE
    PROVE  ServicesSpec => []PortsPartitioned
<1>1. (part = "fleet" => Registry!Inductive) => PortsPartitioned
    BY FleetCounts, ServicesAssumption DEF PortsPartitioned
<1> QED
    BY <1>1, FleetHolds, PTL

\* A synchronisation sees what is on disk and running, and applies what differs (ops.ts:300-340).
LEMMA FleetSyncs == ASSUME ServicesAssumption, Registry!TypeOK PROVE Registry!SyncAssigns
<1> SUFFICES ASSUME NEW A \in SUBSET Tenants, Registry!Sync(A), NEW t \in Registry!Actives'
             PROVE  IF t \in A THEN v4'[t] = "up" ELSE v4'[t] = "down" /\ v5'[t] # "env"
    BY DEF Registry!SyncAssigns, Registry!AsAssigned
<1>0. /\ v1 \in [Tenants -> Registry!Records \cup {None}]
      /\ v4 \in [Tenants -> {"down", "up", "sick"}]
      /\ v5 \in [Tenants -> {"none", "env", "escrow"}]
      /\ None \notin Registry!Records
    BY FleetTypes
<1>1. /\ v1' = Registry!Flagged(A)
      /\ v4' = [u \in Tenants |-> IF u \in Registry!Changed(A) THEN Registry!RuntimeOf(Registry!Flagged(A)[u])
                                  ELSE v4[u]]
      /\ v5' = [u \in Tenants |-> IF u \in Registry!Changed(A)
                                  THEN Registry!Rendered(u, Registry!Flagged(A)[u]) ELSE v5[u]]
    BY DEF Registry!Sync, Registry!Applied
<1>2. t \in Tenants /\ v1'[t] # None /\ ~v1'[t].off
    BY DEF Registry!Actives, Registry!Active, Registry!Known
<1>3. Registry!Active(t) /\ v1[t] \in Registry!Records
    <2>1. CASE ~Registry!Active(t)
        <3>1. v1'[t] = v1[t]
            BY <2>1, <1>1, <1>2 DEF Registry!Flagged
        <3> QED
            BY <2>1, <3>1, <1>2 DEF Registry!Active, Registry!Known
    <2> QED
        BY <2>1, <1>0, <1>2 DEF Registry!Active, Registry!Known
<1>4. Registry!Flagged(A)[t].access = IF t \in A THEN "assigned" ELSE "suppressed"
    BY <1>2, <1>3 DEF Registry!Flagged, Registry!Records
<1>5. CASE t \in Registry!Changed(A)
    <2>1. /\ v4'[t] = Registry!RuntimeOf(Registry!Flagged(A)[t])
          /\ v5'[t] = Registry!Rendered(t, Registry!Flagged(A)[t])
        BY <1>1, <1>2, <1>5
    <2> QED
        BY <2>1, <1>4 DEF Registry!RuntimeOf, Registry!Rendered
<1>6. CASE t \notin Registry!Changed(A)
    <2>1. v4'[t] = v4[t] /\ v5'[t] = v5[t]
        BY <1>1, <1>2, <1>6
    <2>2. IF t \in A THEN v4[t] = "up" ELSE v4[t] = "down" /\ v5[t] # "env"
        BY <1>2, <1>3, <1>6 DEF Registry!Changed, Registry!Actives
    <2> QED
        BY <2>1, <2>2
<1> QED
    BY <1>5, <1>6

\* A synchronisation that completes leaves every active tenant as assigned, whatever failed before it,
\* for any number of tenants (ops.ts:300-302).
THEOREM Converges ==
    ASSUME Concurrent = FALSE
    PROVE  ServicesSpec => SyncConverges
<1>1. (part = "fleet" => Registry!Inductive) => (part = "fleet" => Registry!SyncAssigns)
    BY FleetSyncs, ServicesAssumption DEF Registry!Inductive
<1> QED
    BY <1>1, FleetHolds, PTL DEF SyncConverges

\* Only an operation that was called for a tenant makes it active or inactive, and those that
\* store the records of an update store what is there already (ops.ts:462-486, 492-512).
LEMMA FleetGone ==
    ASSUME ServicesAssumption, Concurrent = FALSE, Registry!Inductive, Registry!Next,
           Registry!GoneStaysGone
    PROVE  Registry!GoneStaysGone'
<1>0. /\ v1 \in [Tenants -> Registry!Records \cup {None}] /\ v7 \subseteq Tenants
      /\ None \notin Registry!Records
      /\ \A t \in Tenants : v6[t] # None => v1[t] = v6[t]
    BY FleetTypes DEF Registry!Inductive, Registry!Unchanged
<1>r. \A r \in Registry!Records :
        /\ Registry!Marked(r).off = TRUE
        /\ \A access \in {"assigned", "suppressed"} : /\ [r EXCEPT !.access = access] \in Registry!Records
                                                      /\ [r EXCEPT !.access = access].off = r.off
    BY DEF Registry!Records, Registry!Ports, Registry!Marked
\* The records of the active tenants stay, or no more than their flags change.
<1>k. ASSUME \A t \in Tenants : /\ v1'[t] = None <=> v1[t] = None
                                /\ v1[t] # None => v1'[t].off = v1[t].off,
             v7' = v7
      PROVE  Registry!GoneStaysGone'
    BY <1>k, <1>0 DEF Registry!GoneStaysGone, Registry!Active, Registry!Known
<1>1. ASSUME NEW t \in Tenants, Registry!Signup(t)
      PROVE  Registry!GoneStaysGone'
    <2>1. /\ \A u \in Tenants \ {t} : v1'[u] = v1[u]
          /\ v7' = v7 \ {t}
        BY <1>1, <1>0 DEF Registry!Signup, Registry!Applied
    <2> QED
        BY <2>1, <1>0 DEF Registry!GoneStaysGone, Registry!Active, Registry!Known
<1>2. ASSUME NEW t \in Tenants, Registry!Offboard(t) \/ Registry!Purge(t)
      PROVE  Registry!GoneStaysGone'
    <2>1. /\ \A u \in Tenants \ {t} : v1'[u] = v1[u]
          /\ v7' = v7 \cup {t}
        BY <1>2, <1>0 DEF Registry!Offboard, Registry!Purge
    <2>2. v1'[t] = None \/ v1'[t].off
        <3>1. CASE Registry!Purge(t)
            BY <3>1, <1>0 DEF Registry!Purge
        <3>2. CASE Registry!Offboard(t)
            <4>1. v1[t] \in Registry!Records /\ v1'[t] = Registry!Marked(v1[t])
                BY <3>2, <1>0 DEF Registry!Offboard, Registry!Active, Registry!Known
            <4> QED
                BY <4>1, <1>r
        <3> QED
            BY <1>2, <3>1, <3>2
    <2> QED
        BY <2>1, <2>2, <1>0 DEF Registry!GoneStaysGone, Registry!Active, Registry!Known
<1>3. ASSUME NEW t \in Tenants, Registry!Apply(t)
      PROVE  Registry!GoneStaysGone'
    <2>1. v1' = v1 /\ v7' = v7
        BY <1>3 DEF Registry!Apply, Registry!Applied, Registry!AppliedUntil
    <2> QED
        BY <2>1, <1>k
<1>4. ASSUME NEW t \in Tenants, NEW access \in {"assigned", "suppressed"},
             Registry!SetAccess(t, access)
      PROVE  Registry!GoneStaysGone'
    <2>1. /\ v1' = [v1 EXCEPT ![t].access = access] /\ v7' = v7 /\ v1[t] # None
        BY <1>4 DEF Registry!SetAccess, Registry!Applied, Registry!AppliedUntil, Registry!Known
    <2>2. /\ v1'[t] = [v1[t] EXCEPT !.access = access] /\ v1[t] \in Registry!Records
          /\ \A u \in Tenants \ {t} : v1'[u] = v1[u]
        BY <2>1, <1>0
    <2>3. /\ [v1[t] EXCEPT !.access = access] \in Registry!Records
          /\ [v1[t] EXCEPT !.access = access].off = v1[t].off
        BY <2>2, <1>r
    <2>4. v1'[t] # None /\ v1'[t].off = v1[t].off
        BY <2>2, <2>3, <1>0
    <2> QED
        BY <2>1, <2>2, <2>4, <1>k
<1>5. ASSUME NEW A \in SUBSET Tenants, Registry!Sync(A) \/ Registry!SyncInterrupted(A)
      PROVE  Registry!GoneStaysGone'
    <2>1. v1' = Registry!Flagged(A) /\ v7' = v7
        BY <1>5 DEF Registry!Sync, Registry!SyncInterrupted, Registry!Applied, Registry!AppliedUntil
    <2>2. ASSUME NEW t \in Tenants
          PROVE  /\ v1'[t] = None <=> v1[t] = None
                 /\ v1[t] # None => v1'[t].off = v1[t].off
        <3>1. CASE Registry!Active(t)
            <4>1. v1[t] \in Registry!Records
                BY <3>1, <1>0 DEF Registry!Active, Registry!Known
            <4>2. \E access \in {"assigned", "suppressed"} : v1'[t] = [v1[t] EXCEPT !.access = access]
                BY <2>1, <3>1 DEF Registry!Flagged
            <4>3. v1'[t] \in Registry!Records /\ v1'[t].off = v1[t].off
                <5>1. PICK access \in {"assigned", "suppressed"} : v1'[t] = [v1[t] EXCEPT !.access = access]
                    BY <4>2
                <5>2. /\ [v1[t] EXCEPT !.access = access] \in Registry!Records
                      /\ [v1[t] EXCEPT !.access = access].off = v1[t].off
                    BY <4>1, <1>r
                <5> QED
                    BY <5>1, <5>2
            <4> QED
                BY <4>1, <4>3, <1>0
        <3>2. CASE ~Registry!Active(t)
            BY <3>2, <2>1 DEF Registry!Flagged
        <3> QED
            BY <3>1, <3>2
    <2> QED
        BY <2>1, <2>2, <1>k
<1>6. ASSUME Registry!UpdateAll \/ Registry!UpdateCanary
      PROVE  Registry!GoneStaysGone'
    <2>1. v1' = v1 /\ v7' = v7
        BY <1>6 DEF Registry!UpdateAll, Registry!UpdateCanary, Registry!Applied, Registry!AppliedUntil
    <2> QED
        BY <2>1, <1>k
<1>7. ASSUME Registry!CanaryHealthy
      PROVE  Registry!GoneStaysGone'
    <2> DEFINE others == {t \in Tenants : v6[t] # None} \ {Canary}
    <2>1. v7' = v7 /\ \E S \in SUBSET others : v1' = Registry!Over(S, v6)
        BY <1>7 DEF Registry!CanaryHealthy, Registry!Applied, Registry!AppliedUntil
    <2>2. \A t \in Tenants : v1'[t] = v1[t]
        BY <2>1, <1>0 DEF Registry!Over
    <2> QED
        BY <2>1, <2>2, <1>k
<1>8. ASSUME \/ Registry!CanaryUnhealthy
             \/ \E t \in Tenants : Registry!RuntimeFails(t) \/ Registry!KeyInstalled(t)
      PROVE  Registry!GoneStaysGone'
    <2>1. v1' = v1 /\ v7' = v7
        BY <1>8 DEF Registry!CanaryUnhealthy, Registry!RuntimeFails, Registry!KeyInstalled
    <2> QED
        BY <2>1, <1>k
<1> QED
    BY <1>1, <1>2, <1>3, <1>4, <1>5, <1>6, <1>7, <1>8 DEF Registry!Next

\* Without a call during the wait of an update an offboarded tenant stays inactive and a purged one
\* deleted until it signs up again, so that the overlap is all there is to the finding about
\* GoneStaysGone (ops.ts:473, 492-496, types.ts:100).
THEOREM Gone ==
    ASSUME Concurrent = FALSE
    PROVE  ServicesSpec => [](part = "fleet" => Registry!GoneStaysGone)
<1> DEFINE Inv == part = "fleet" => Registry!GoneStaysGone
           Kept == part = "fleet" => Registry!Inductive
<1>1. ServicesInit => Inv
    BY DEF ServicesInit, Registry!Init, Registry!GoneStaysGone
<1>2. Kept /\ Inv /\ [ServicesNext]_partVars => Inv'
    <2> SUFFICES ASSUME Kept, Inv, [ServicesNext]_partVars, part' = "fleet"
                 PROVE  Registry!GoneStaysGone'
        OBVIOUS
    <2>1. CASE UNCHANGED partVars
        BY <2>1 DEF partVars, Registry!GoneStaysGone, Registry!Active, Registry!Known
    <2>2. CASE ServicesNext
        BY <2>2, FleetGone, ServicesAssumption DEF ServicesNext
    <2> QED
        BY <2>1, <2>2
<1>3. ServicesSpec => []Kept
    BY FleetHolds
<1> QED
    BY <1>1, <1>2, <1>3, PTL DEF ServicesSpec

------------------------------------------------------------------------------
(* OwnerState.                                                               *)

\* The three contents that are no version.
LEMMA StateContents ==
    ASSUME ServicesAssumption
    PROVE  /\ State!Absent \notin Versions /\ State!Own \notin Versions /\ State!Retired \notin Versions
           /\ State!Absent # State!Own /\ State!Absent # State!Retired /\ State!Own # State!Retired
<1>1. Versions \subseteq 1 .. 998
    BY DEF ServicesAssumption, State!OwnerStateAssumption
<1> QED
    BY <1>1 DEF State!Absent, State!Own, State!Retired

\* What a file of each kind may hold.
LEMMA StateKinds ==
    ASSUME ServicesAssumption, v1 \in Kinds
    PROVE  /\ v1 \in {"options", "paths", "text", "block", "body"}
           /\ v1 # "options" => State!Parts = {v1}
           /\ v1 = "paths" => /\ State!Values = SUBSET (Versions \cup {State!Own})
                              /\ State!Proposals = State!Values /\ State!Nothing = {}
           /\ v1 # "paths" => /\ State!Values = Versions \cup {State!Absent, State!Own}
                              /\ State!Nothing = State!Absent
           /\ v1 = "text" => State!Proposals = Versions \cup {State!Retired}
           /\ v1 \notin {"paths", "text"} => State!Proposals = Versions \cup {State!Absent}
           /\ None \notin [State!Parts -> State!Proposals]
<1>1. /\ v1 \in {"options", "paths", "text", "block", "body"}
      /\ v1 # "options" => State!Parts = {v1}
    BY DEF ServicesAssumption, State!OwnerStateAssumption, State!Parts
<1>2. /\ v1 = "paths" => /\ State!Values = SUBSET (Versions \cup {State!Own})
                         /\ State!Proposals = State!Values /\ State!Nothing = {}
      /\ v1 # "paths" => /\ State!Values = Versions \cup {State!Absent, State!Own}
                         /\ State!Nothing = State!Absent
      /\ v1 = "text" => State!Proposals = Versions \cup {State!Retired}
      /\ v1 \notin {"paths", "text"} => State!Proposals = Versions \cup {State!Absent}
    BY DEF State!Values, State!Nothing, State!Proposals
<1>3. None \notin [State!Parts -> State!Proposals]
    <2>1. State!Parts \in {Options} \cup {{k} : k \in Kinds}
        BY DEF State!Parts
    <2>2. /\ None \notin [State!Parts -> Versions \cup {State!Absent, State!Own, State!Retired}]
          /\ None \notin [State!Parts -> SUBSET (Versions \cup {State!Own})]
        BY <2>1 DEF ServicesAssumption, State!OwnerStateAssumption, State!Plain, State!Lists
    <2>3. \/ State!Proposals = SUBSET (Versions \cup {State!Own})
          \/ State!Proposals \subseteq Versions \cup {State!Absent, State!Own, State!Retired}
        BY <1>1, <1>2
    <2> QED
        BY <2>2, <2>3
<1> QED
    BY <1>1, <1>2, <1>3

\* A pass is not the absence of one.
LEMMA StatePasses ==
    ASSUME ServicesAssumption, v1 \in Kinds
    PROVE  None \notin [seen : [State!Parts -> State!Values], next : [State!Parts -> State!Values],
                        desired : [State!Parts -> State!Proposals], wrote : BOOLEAN]
<1>1. State!Parts \in {Options} \cup {{k} : k \in Kinds}
    BY DEF State!Parts
<1>2. /\ None \notin State!Passes(State!Plain(State!Parts))
      /\ None \notin State!Passes(State!Lists(State!Parts))
    BY <1>1 DEF ServicesAssumption, State!OwnerStateAssumption
<1> DEFINE F == [State!Parts -> State!Values]
           D == [State!Parts -> State!Proposals]
<1> SUFFICES None \notin [seen : F, next : F, desired : D, wrote : BOOLEAN]
    OBVIOUS
<1>3. CASE v1 = "paths"
    <2>1. F = State!Lists(State!Parts) /\ D = State!Lists(State!Parts)
        BY <1>3, StateKinds DEF State!Lists
    <2> HIDE DEF F, D
    <2> QED
        BY <2>1, <1>2 DEF State!Passes
<1>4. CASE v1 # "paths"
    <2>1. F \subseteq State!Plain(State!Parts)
        BY <1>4, StateKinds DEF State!Plain
    <2>2. D \subseteq State!Plain(State!Parts)
        <3>1. State!Proposals \subseteq Versions \cup {State!Absent, State!Own, State!Retired}
            BY <1>4, StateKinds
        <3> QED
            BY <3>1 DEF State!Plain
    <2> HIDE DEF F, D
    <2> QED
        BY <2>1, <2>2, <1>2 DEF State!Passes
<1> QED
    BY <1>3, <1>4

\* A text, an option or a block is replaced only if it is as it was proposed, or missing where nothing
\* was proposed, and then by what is desired (index.mjs:41-56, 105-136).
LEMMA StateDecided ==
    ASSUME ServicesAssumption, v1 \in Kinds, v1 # "paths",
           v3 = None \/ v3 \in [State!Parts -> State!Proposals],
           NEW seen \in [State!Parts -> State!Values], NEW desired \in [State!Parts -> State!Proposals]
    PROVE  /\ State!Decided(seen, desired) \in [State!Parts -> State!Values]
           /\ \A p \in State!Parts :
                 /\ \/ State!Decided(seen, desired)[p] = seen[p]
                    \/ State!Decided(seen, desired)[p] = State!Kept(desired[p])
                 /\ seen[p] = State!Own => State!Decided(seen, desired)[p] = seen[p]
                 /\ seen[p] = State!Absent =>
                       \/ State!Decided(seen, desired)[p] = seen[p]
                       \/ v3 = None \/ v3[p] \in {State!Absent, State!Retired}
                 /\ seen[p] = State!Kept(IF v3 = None THEN State!Nothing ELSE v3[p]) =>
                       State!Decided(seen, desired)[p] = State!Kept(desired[p])
<1>0. /\ State!Absent \notin Versions /\ State!Own \notin Versions /\ State!Retired \notin Versions
      /\ State!Absent # State!Own /\ State!Absent # State!Retired /\ State!Own # State!Retired
    BY StateContents
<1>1. /\ v1 \in {"options", "text", "block", "body"}
      /\ v1 # "options" => State!Parts = {v1}
      /\ State!Values = Versions \cup {State!Absent, State!Own} /\ State!Nothing = State!Absent
      /\ v1 = "text" => State!Proposals = Versions \cup {State!Retired}
      /\ v1 # "text" => State!Proposals = Versions \cup {State!Absent}
    BY StateKinds
<1>2. /\ \A p \in State!Parts : seen[p] \in State!Values /\ desired[p] \in State!Proposals
      /\ v3 # None => \A p \in State!Parts : v3[p] \in State!Proposals
    OBVIOUS
<1>3. /\ \A p \in State!Parts : State!Kept(desired[p]) \in State!Values
      /\ v1 # "text" => \A p \in State!Parts : State!Kept(desired[p]) = desired[p]
      /\ v1 # "text" /\ v3 # None => \A p \in State!Parts : State!Kept(v3[p]) = v3[p]
      /\ State!Kept(State!Absent) = State!Absent
    BY <1>0, <1>1, <1>2 DEF State!Kept
<1>4. CASE v1 = "options"
    <2>1. State!Decided(seen, desired) =
             [p \in State!Parts |-> IF v3 = None THEN State!WithMissingDefault(seen[p], desired[p])
                                    ELSE State!Reconcile(v3[p], seen[p], desired[p])]
        BY <1>4 DEF State!Decided
    <2>2. \A p \in State!Parts :
             State!Decided(seen, desired)[p] =
                 IF v3 = None THEN (IF seen[p] = State!Absent THEN desired[p] ELSE seen[p])
                 ELSE (IF seen[p] = v3[p] THEN desired[p] ELSE seen[p])
        BY <2>1 DEF State!WithMissingDefault, State!Reconcile
    <2>3. \A p \in State!Parts : State!Decided(seen, desired)[p] \in State!Values
        BY <2>2, <1>2, <1>3, <1>4
    <2>4. State!Decided(seen, desired) \in [State!Parts -> State!Values]
        BY <2>1, <2>3
    <2> QED
        BY <2>2, <2>4, <1>0, <1>1, <1>2, <1>3, <1>4
<1>5. CASE v1 = "text"
    <2> DEFINE ours == State!TextIsOurs(seen[v1])
    <2>1. State!Decided(seen, desired) =
             IF ours THEN [p \in State!Parts |-> State!Kept(desired[p])] ELSE seen
        BY <1>5 DEF State!Decided
    <2>2. /\ ours => \/ seen[v1] = State!Absent /\ (v3 = None \/ v3[v1] = State!Retired)
                     \/ seen[v1] # State!Absent /\ v3 # None /\ v3[v1] = seen[v1]
          /\ seen[v1] = State!Absent /\ (v3 = None \/ v3[v1] = State!Retired) => ours
          /\ seen[v1] # State!Absent /\ v3 # None /\ v3[v1] = seen[v1] => ours
        BY DEF State!TextIsOurs
    <2>3. \A p \in State!Parts : /\ p = v1
                                 /\ State!Decided(seen, desired)[p] = IF ours THEN State!Kept(desired[p]) ELSE seen[p]
        BY <2>1, <1>1, <1>5
    <2> HIDE DEF ours
    <2>4. State!Decided(seen, desired) \in [State!Parts -> State!Values]
        BY <2>1, <1>3
    <2>5. ASSUME NEW p \in State!Parts, seen[p] = State!Kept(IF v3 = None THEN State!Nothing ELSE v3[p])
          PROVE  ours
        BY <2>2, <2>3, <2>5, <1>0, <1>1, <1>2, <1>5 DEF State!Kept
    <2>6. ASSUME NEW p \in State!Parts, ours
          PROVE  seen[p] # State!Own /\ (seen[p] = State!Absent => v3 = None \/ v3[p] = State!Retired)
        BY <2>2, <2>3, <2>6, <1>0, <1>1, <1>2, <1>5
    <2> QED
        BY <2>3, <2>4, <2>5, <2>6
<1>6. CASE v1 \in {"block", "body"}
    <2> DEFINE ours == State!BlockIsOurs(seen[v1])
    <2>1. State!Decided(seen, desired) = IF ours THEN desired ELSE seen
        BY <1>6 DEF State!Decided
    <2>2. ours <=> IF v3 = None THEN seen[v1] = State!Absent ELSE v3[v1] = seen[v1]
        BY DEF State!BlockIsOurs
    <2>3. \A p \in State!Parts : /\ p = v1
                                 /\ State!Decided(seen, desired)[p] = IF ours THEN desired[p] ELSE seen[p]
        BY <2>1, <1>1, <1>6
    <2> HIDE DEF ours
    <2>4. State!Decided(seen, desired) \in [State!Parts -> State!Values]
        <3>1. desired \in [State!Parts -> State!Values]
            BY <1>1, <1>6
        <3> QED
            BY <2>1, <3>1
    <2>5. ASSUME NEW p \in State!Parts, seen[p] = State!Kept(IF v3 = None THEN State!Nothing ELSE v3[p])
          PROVE  ours
        BY <2>2, <2>3, <2>5, <1>1, <1>3, <1>6
    <2>6. ASSUME NEW p \in State!Parts, ours
          PROVE  seen[p] # State!Own /\ (seen[p] = State!Absent => v3 = None \/ v3[p] = State!Absent)
        BY <2>2, <2>3, <2>6, <1>0, <1>1, <1>2, <1>6
    <2> QED
        BY <2>3, <2>4, <2>5, <2>6, <1>3, <1>6
<1> QED
    BY <1>1, <1>4, <1>5, <1>6

\* A list keeps the owner's plugin, takes the managed one in a single revision, and takes none where
\* she removed it (index.mjs:58-75).
LEMMA StateDecidedPaths ==
    ASSUME ServicesAssumption, v1 \in Kinds, v1 = "paths",
           v3 = None \/ v3 \in [State!Parts -> State!Proposals],
           NEW seen \in [State!Parts -> State!Values], NEW desired \in [State!Parts -> State!Values],
           NEW w \in Versions, \A p \in State!Parts : desired[p] = (seen[p] \ Versions) \cup {w},
           State!OwnersWords
    PROVE  /\ \A p \in State!Parts : State!Family(desired[p]) = State!Family({w})
           /\ State!Decided(seen, desired) \in [State!Parts -> State!Values]
           /\ \A p \in State!Parts :
                 /\ State!Own \in seen[p] => State!Own \in State!Decided(seen, desired)[p]
                 /\ v3 # None /\ State!Family(seen[p]) = {} => State!Decided(seen, desired)[p] = seen[p]
                 /\ v3 = None => State!Family(State!Decided(seen, desired)[p]) = State!Family({w})
                 /\ v3 # None /\ State!Family(seen[p]) = State!Family(v3[p]) =>
                       State!Family(State!Decided(seen, desired)[p]) = State!Family({w})
<1>0. State!Own \notin Versions
    BY StateContents
<1>7. State!Family({w}) = {w}
    BY DEF State!Family
<1>1. State!Values = SUBSET (Versions \cup {State!Own}) /\ State!Proposals = State!Values
    BY StateKinds
<1>2. \A p \in State!Parts : seen[p] \subseteq Versions \cup {State!Own}
    BY <1>1
<1>3. \A p \in State!Parts : /\ desired[p] = (seen[p] \ Versions) \cup {w}
                             /\ desired[p] \subseteq Versions \cup {State!Own}
    BY <1>2
<1>4. /\ desired \in [State!Parts -> State!Values]
      /\ \A p \in State!Parts : State!Family(desired[p]) = {w}
    BY <1>1, <1>3 DEF State!Family
<1>5. CASE v3 = None
    <2>1. State!Decided(seen, desired) = desired
        BY <1>5 DEF State!Decided
    <2> QED
        BY <2>1, <1>0, <1>3, <1>4, <1>5, <1>7
<1>6. CASE v3 # None
    <2>1. State!Decided(seen, desired) = [p \in State!Parts |-> State!ReconcilePaths(v3[p], seen[p], desired[p])]
        BY <1>6 DEF State!Decided
    <2>2. ASSUME NEW p \in State!Parts
          PROVE  /\ State!ReconcilePaths(v3[p], seen[p], desired[p]) \subseteq Versions \cup {State!Own}
                 /\ State!Own \in seen[p] => State!Own \in State!ReconcilePaths(v3[p], seen[p], desired[p])
                 /\ State!Family(seen[p]) = {} => State!ReconcilePaths(v3[p], seen[p], desired[p]) = seen[p]
                 /\ State!Family(seen[p]) = State!Family(v3[p]) =>
                       State!Family(State!ReconcilePaths(v3[p], seen[p], desired[p])) = {w}
        <3>1. PICK b \in Versions : v3[p] \cap Versions = {b}
            BY <1>6 DEF State!OwnersWords, State!Family
        <3>2. CASE desired[p] = v3[p]
            <4>1. State!ReconcilePaths(v3[p], seen[p], desired[p]) = seen[p]
                BY <3>2 DEF State!ReconcilePaths
            <4> QED
                BY <4>1, <3>2, <1>2, <1>4
        <3>3. CASE desired[p] # v3[p]
            <4> DEFINE kept == {v \in seen[p] : v \notin v3[p] \/ v \in desired[p]}
                       unwanted == IF seen[p] \cap Versions = {} THEN {w} ELSE {}
            <4>1. State!ReconcilePaths(v3[p], seen[p], desired[p]) = kept \cup ((desired[p] \ v3[p]) \ unwanted)
                <5>1. State!Family(v3[p]) # {} /\ State!Family(desired[p]) = {w}
                    BY <3>1, <1>4 DEF State!Family
                <5> QED
                    BY <3>3, <5>1 DEF State!ReconcilePaths, State!Family
            <4> DEFINE result == kept \cup ((desired[p] \ v3[p]) \ unwanted)
            <4>2. result \subseteq Versions \cup {State!Own} /\ (State!Own \in seen[p] => State!Own \in result)
                BY <1>0, <1>2, <1>3
            <4>3. seen[p] \cap Versions = {} => result = seen[p]
                <5>1. ASSUME seen[p] \cap Versions = {}
                      PROVE  kept = seen[p] /\ (desired[p] \ v3[p]) \ unwanted \subseteq seen[p]
                    BY <5>1, <1>3
                <5> QED
                    BY <5>1
            <4>4. seen[p] \cap Versions = {b} => result \cap Versions = {w}
                <5> SUFFICES ASSUME seen[p] \cap Versions = {b}
                             PROVE  result \cap Versions = {w}
                    OBVIOUS
                <5>1. unwanted = {}
                    OBVIOUS
                <5>2. \A v \in result \cap Versions : v = w
                    BY <5>1, <3>1, <1>3
                <5>3. w \in result
                    <6>1. CASE w = b
                        BY <6>1, <1>3
                    <6>2. CASE w # b
                        BY <6>2, <5>1, <3>1, <1>3
                    <6> QED
                        BY <6>1, <6>2
                <5> QED
                    BY <5>2, <5>3
            <4> HIDE DEF result
            <4> QED
                BY <4>1, <4>2, <4>3, <4>4, <3>1 DEF result, State!Family
        <3> QED
            BY <3>2, <3>3
    <2>3. \A p \in State!Parts : State!Decided(seen, desired)[p] = State!ReconcilePaths(v3[p], seen[p], desired[p])
        BY <2>1
    <2>4. State!Decided(seen, desired) \in [State!Parts -> State!Values]
        BY <2>1, <2>2, <1>1
    <2> QED
        BY <2>2, <2>3, <2>4, <1>4, <1>6, <1>7
<1> QED
    BY <1>5, <1>6

\* Nothing was proposed yet, and what is there is the owner's.
LEMMA StateInit == ServicesAssumption /\ State!Init => State!Inductive
<1> SUFFICES ASSUME ServicesAssumption, State!Init
             PROVE  State!Inductive
    OBVIOUS
<1>1. /\ v1 \in Kinds /\ v5 = 1 /\ v6 = 0 /\ v3 = None /\ v4 = None /\ v8 = FALSE
      /\ 1 \in Versions /\ MaxCuts \in Nat
    BY DEF State!Init, ServicesAssumption, State!OwnerStateAssumption
<1>2. /\ State!Absent \notin Versions /\ State!Own \notin Versions
      /\ State!Absent # State!Own
    BY StateContents
<1>3. /\ v1 \in {"options", "paths", "text", "block", "body"}
      /\ v1 = "paths" => State!Values = SUBSET (Versions \cup {State!Own}) /\ State!Nothing = {}
      /\ v1 # "paths" => State!Values = Versions \cup {State!Absent, State!Own} /\ State!Nothing = State!Absent
    BY <1>1, StateKinds
<1>4. /\ v2 \in [State!Parts -> State!Values] /\ v7 \subseteq State!Parts
      /\ \A p \in State!Parts : IF v1 = "paths" THEN State!Family(v2[p]) = {}
                                ELSE p \in v7 \/ v2[p] = State!Absent
      /\ v1 \notin {"paths", "body"} => \A p \in v7 : v2[p] \in {State!Own, State!Absent}
    <2>1. CASE v2 = [p \in State!Parts |-> State!Nothing] /\ v7 = {}
        BY <2>1, <1>3 DEF State!Family
    <2>2. CASE /\ v2 \in [State!Parts -> IF v1 = "paths" THEN {{State!Own}} ELSE {State!Absent, State!Own}]
               /\ v7 = {p \in State!Parts : v2[p] # State!Nothing}
        <3>1. CASE v1 = "paths"
            <4>1. /\ v2 \in [State!Parts -> {{State!Own}}]
                  /\ State!Values = SUBSET (Versions \cup {State!Own})
                BY <2>2, <3>1, <1>3
            <4>2. \A p \in State!Parts : v2[p] = {State!Own}
                BY <4>1
            <4>3. State!Family({State!Own}) = {}
                BY <1>2 DEF State!Family
            <4>4. v2 \in [State!Parts -> State!Values]
                BY <4>1
            <4> QED
                BY <4>2, <4>3, <4>4, <2>2, <3>1
        <3>2. CASE v1 # "paths"
            <4>1. v2 \in [State!Parts -> {State!Absent, State!Own}]
                BY <2>2, <3>2
            <4> QED
                BY <4>1, <2>2, <3>2, <1>3
        <3> QED
            BY <3>1, <3>2
    <2>3. CASE v1 = "body" /\ v2 = [p \in State!Parts |-> 1] /\ v7 = State!Parts
        BY <2>3, <1>1, <1>3
    <2> QED
        BY <2>1, <2>2, <2>3 DEF State!Init
<1>5. State!TypeOK
    <2>1. v6 \in 0 .. MaxCuts /\ v5 \in Versions
        BY <1>1
    <2>2. v8 \in BOOLEAN
        BY <1>1
    <2> QED
        BY <2>1, <2>2, <1>1, <1>4, Zenon DEF State!TypeOK
<1>6. State!PassKept
    BY <1>1 DEF State!PassKept
<1>7. State!OwnersWords
    BY <1>1, <1>4 DEF State!OwnersWords
<1>8. State!LeftAlone
    <2>1. ASSUME NEW p \in State!Parts
          PROVE  State!Left(p, State!Nothing)
        <3>1. CASE v1 = "paths"
            <4>1. State!Family(State!Nothing) = {}
                BY <3>1, <1>3 DEF State!Family
            <4> QED
                BY <4>1, <3>1, <1>4 DEF State!Left
        <3>2. CASE v1 # "paths"
            <4>1. State!Kept(State!Nothing) = State!Absent
                BY <3>2, <1>3 DEF State!Kept
            <4> QED
                BY <4>1, <3>2, <1>4 DEF State!Left
        <3> QED
            BY <3>1, <3>2
    <2> QED
        BY <2>1, <1>1 DEF State!LeftAlone
<1> QED
    BY <1>5, <1>6, <1>7, <1>8 DEF State!Inductive

\* What the types say of each variable.
LEMMA StateTypes ==
    ASSUME ServicesAssumption, State!TypeOK
    PROVE  /\ v1 \in Kinds /\ v2 \in [State!Parts -> State!Values]
           /\ (v3 = None \/ v3 \in [State!Parts -> State!Proposals])
           /\ v5 \in Versions /\ v6 \in 0 .. MaxCuts /\ v7 \subseteq State!Parts
           /\ v4 # None => /\ v4 \in [seen : [State!Parts -> State!Values], next : [State!Parts -> State!Values],
                                      desired : [State!Parts -> State!Proposals], wrote : BOOLEAN]
                           /\ v4.seen \in [State!Parts -> State!Values]
                           /\ v4.next \in [State!Parts -> State!Values]
                           /\ v4.desired \in [State!Parts -> State!Proposals]
                           /\ v4.wrote \in BOOLEAN
BY DEF State!TypeOK

\* What a pass is about to write, seen from what it read.
LEMMA StateNext ==
    ASSUME ServicesAssumption, State!Inductive, v4 # None
    PROVE  /\ v1 # "paths" => \A p \in State!Parts :
                 /\ v4.next[p] = v4.seen[p] \/ v4.next[p] = State!Kept(v4.desired[p])
                 /\ v4.seen[p] = State!Own => v4.next[p] = v4.seen[p]
                 /\ v4.seen[p] = State!Absent =>
                       v4.next[p] = v4.seen[p] \/ v3 = None \/ v3[p] \in {State!Absent, State!Retired}
                 /\ v4.seen[p] = State!Kept(IF v3 = None THEN State!Nothing ELSE v3[p]) =>
                       v4.next[p] = State!Kept(v4.desired[p])
           /\ v1 = "paths" => \E w \in Versions : \A p \in State!Parts :
                 /\ State!Family(v4.desired[p]) = State!Family({w})
                 /\ State!Own \in v4.seen[p] => State!Own \in v4.next[p]
                 /\ v3 # None /\ State!Family(v4.seen[p]) = {} => v4.next[p] = v4.seen[p]
                 /\ v3 = None => State!Family(v4.next[p]) = State!Family({w})
                 /\ v3 # None /\ State!Family(v4.seen[p]) = State!Family(v3[p]) =>
                       State!Family(v4.next[p]) = State!Family({w})
<1>0. /\ v1 \in Kinds /\ (v3 = None \/ v3 \in [State!Parts -> State!Proposals])
      /\ v4.seen \in [State!Parts -> State!Values]
      /\ v4.desired \in [State!Parts -> State!Proposals]
      /\ v4.next = State!Decided(v4.seen, v4.desired)
    BY StateTypes DEF State!Inductive, State!PassKept
<1>1. CASE v1 # "paths"
    <2>1. \A p \in State!Parts :
             /\ \/ State!Decided(v4.seen, v4.desired)[p] = v4.seen[p]
                \/ State!Decided(v4.seen, v4.desired)[p] = State!Kept(v4.desired[p])
             /\ v4.seen[p] = State!Own => State!Decided(v4.seen, v4.desired)[p] = v4.seen[p]
             /\ v4.seen[p] = State!Absent =>
                   \/ State!Decided(v4.seen, v4.desired)[p] = v4.seen[p]
                   \/ v3 = None \/ v3[p] \in {State!Absent, State!Retired}
             /\ v4.seen[p] = State!Kept(IF v3 = None THEN State!Nothing ELSE v3[p]) =>
                   State!Decided(v4.seen, v4.desired)[p] = State!Kept(v4.desired[p])
        BY <1>0, <1>1, StateDecided
    <2> QED
        BY <2>1, <1>0, <1>1
<1>2. CASE v1 = "paths"
    <2>1. PICK w \in Versions : \A p \in State!Parts : v4.desired[p] = (v4.seen[p] \ Versions) \cup {w}
        BY <1>2 DEF State!Inductive, State!PassKept
    <2>2. v4.desired \in [State!Parts -> State!Values]
        BY <1>0, <1>2, StateKinds
    <2>3. State!OwnersWords
        BY DEF State!Inductive
    <2>4. \A p \in State!Parts :
             /\ State!Family(v4.desired[p]) = State!Family({w})
             /\ State!Own \in v4.seen[p] => State!Own \in State!Decided(v4.seen, v4.desired)[p]
             /\ v3 # None /\ State!Family(v4.seen[p]) = {} =>
                   State!Decided(v4.seen, v4.desired)[p] = v4.seen[p]
             /\ v3 = None => State!Family(State!Decided(v4.seen, v4.desired)[p]) = State!Family({w})
             /\ v3 # None /\ State!Family(v4.seen[p]) = State!Family(v3[p]) =>
                   State!Family(State!Decided(v4.seen, v4.desired)[p]) = State!Family({w})
        BY <2>1, <2>2, <2>3, <1>0, <1>2, StateDecidedPaths
    <2> QED
        BY <2>4, <1>0, <1>2
<1> QED
    BY <1>1, <1>2

\* A pass writes what it decided over what it read, or nothing.
LEMMA StateWrites ==
    ASSUME State!Inductive, State!PassWrites
    PROVE  /\ v4 # None /\ ~v4.wrote
           /\ \/ v2' = v2 /\ v4.next = v4.seen
              \/ v2 = v4.seen /\ v2' = v4.next
<1>1. v4 # None /\ ~v4.wrote /\ ~State!Intervened /\ v2' = IF v4.next = v4.seen THEN v2 ELSE v4.next
    BY DEF State!PassWrites
<1>2. v4.next = v4.seen \/ v2 = v4.seen
    BY <1>1 DEF State!Intervened, State!Inductive, State!PassKept
<1> QED
    BY <1>1, <1>2

\* What the owner wrote is neither a default that was proposed, nor missing where none was
\* (index.mjs:41-136).
LEMMA StateKeeps == ASSUME ServicesAssumption, State!Inductive PROVE State!KeepsEdits
<1> SUFFICES ASSUME State!PassWrites, NEW p \in v7
             PROVE  IF v1 = "paths"
                    THEN /\ State!Own \in v2[p] => State!Own \in v2'[p]
                         /\ v8 /\ v3 # None => State!Family(v2'[p]) \subseteq State!Family(v2[p])
                    ELSE v2'[p] = v2[p] \/ State!Forgotten(p)
    BY DEF State!KeepsEdits
<1>1. /\ v4 # None
      /\ \/ v2' = v2 /\ v4.next = v4.seen
         \/ v2 = v4.seen /\ v2' = v4.next
    BY StateWrites
<1>2. p \in State!Parts
    BY StateTypes DEF State!Inductive
<1>3. CASE v2' = v2
    BY <1>3
<1>4. CASE v2 = v4.seen /\ v2' = v4.next /\ v1 = "paths"
    <2>1. PICK w \in Versions : \A q \in State!Parts :
             /\ State!Own \in v4.seen[q] => State!Own \in v4.next[q]
             /\ v3 # None /\ State!Family(v4.seen[q]) = {} => v4.next[q] = v4.seen[q]
        BY <1>1, <1>4, StateNext
    <2>2. v8 => State!Family(v2[p]) = {}
        BY <1>2, <1>4 DEF State!Inductive, State!OwnersWords
    <2> QED
        BY <2>1, <2>2, <1>2, <1>4
<1>5. CASE v2 = v4.seen /\ v2' = v4.next /\ v1 # "paths"
    <2>1. /\ v4.seen[p] = State!Own => v4.next[p] = v4.seen[p]
          /\ v4.seen[p] = State!Absent =>
                v4.next[p] = v4.seen[p] \/ v3 = None \/ v3[p] \in {State!Absent, State!Retired}
        BY <1>1, <1>2, <1>5, StateNext
    <2>2. v2[p] \in {State!Own, State!Absent}
        BY <1>1, <1>5 DEF State!Inductive, State!OwnersWords
    <2> QED
        BY <2>1, <2>2, <1>5 DEF State!Forgotten
<1> QED
    BY <1>1, <1>3, <1>4, <1>5

\* What is written over what the owner left alone is the default that is desired.
LEMMA StateWritten ==
    ASSUME ServicesAssumption, State!Inductive, State!PassWrites, v6 = 0, NEW p \in State!Parts
    PROVE  State!Left(p, v4.desired[p])'
<1>1. /\ v4 # None /\ ~v4.wrote
      /\ \/ v2' = v2 /\ v4.next = v4.seen
         \/ v2 = v4.seen /\ v2' = v4.next
    BY StateWrites
<1>2. /\ v1 \in Kinds /\ v4.seen \in [State!Parts -> State!Values] /\ v4.next \in [State!Parts -> State!Values]
      /\ (v1 # "options" => State!Parts = {v1})
    BY <1>1, StateTypes, StateKinds DEF State!Inductive
<1>3. /\ v1' = v1 /\ v4'.desired = v4.desired
      /\ v7' = {q \in v7 : v2'[q] = v2[q]} /\ (v8' <=> v8 /\ v2' = v2)
    <2>1. /\ v1' = v1 /\ v4' = [v4 EXCEPT !.wrote = TRUE]
          /\ v7' = {q \in v7 : v2'[q] = v2[q]} /\ v8' = (v8 /\ v2' = v2)
        BY DEF State!PassWrites
    <2>2. v4 \in [seen : [State!Parts -> State!Values], next : [State!Parts -> State!Values],
                  desired : [State!Parts -> State!Proposals], wrote : BOOLEAN]
        BY <1>1, StateTypes DEF State!Inductive
    <2>3. v4'.desired = v4.desired
        BY <2>1, <2>2
    <2> QED
        BY <2>1, <2>3
<1>4. State!Left(p, IF v3 = None THEN State!Nothing ELSE v3[p])
    BY <1>1 DEF State!Inductive, State!LeftAlone
<1>5. CASE v1 = "paths"
    <2> SUFFICES ASSUME ~v8'
                 PROVE  State!Family(v2'[p]) = State!Family(v4.desired[p])
        BY <1>3, <1>5 DEF State!Left, State!Family
    <2>1. PICK w \in Versions : \A q \in State!Parts :
             /\ State!Family(v4.desired[q]) = State!Family({w})
             /\ v3 # None /\ State!Family(v4.seen[q]) = {} => v4.next[q] = v4.seen[q]
             /\ v3 = None => State!Family(v4.next[q]) = State!Family({w})
             /\ v3 # None /\ State!Family(v4.seen[q]) = State!Family(v3[q]) =>
                   State!Family(v4.next[q]) = State!Family({w})
        BY <1>1, <1>5, StateNext
    <2>2. CASE ~v8
        <3>1. State!Family(v2[p]) = State!Family(v4.seen[p])
            BY <1>1, <1>5, <2>2 DEF State!Inductive, State!PassKept
        <3>2. v3 # None => State!Family(v2[p]) = State!Family(v3[p])
            BY <1>4, <1>5, <2>2 DEF State!Left
        <3>3. State!Family(v4.next[p]) = State!Family({w})
            BY <2>1, <3>1, <3>2
        <3>4. State!Family(v2'[p]) = State!Family(v4.next[p])
            BY <1>1, <3>1
        <3> QED
            BY <3>3, <3>4, <2>1
    <2>3. CASE v8
        <3>1. v2 = v4.seen /\ v2' = v4.next /\ v2' # v2
            BY <1>1, <1>3, <2>3
        <3>2. State!Family(v4.seen[p]) = {}
            BY <3>1, <2>3, <1>5 DEF State!Inductive, State!OwnersWords
        <3>3. CASE v3 = None
            BY <3>1, <3>3, <2>1
        <3>4. CASE v3 # None
            <4>1. \A q \in State!Parts : v4.next[q] = v4.seen[q]
                BY <2>1, <3>2, <3>4, <1>2, <1>5
            <4>2. v4.next = v4.seen
                BY <4>1, <1>2
            <4> QED
                BY <4>2, <3>1
        <3> QED
            BY <3>3, <3>4
    <2> QED
        BY <2>2, <2>3
<1>6. CASE v1 # "paths"
    <2> SUFFICES ASSUME p \notin v7'
                 PROVE  v2'[p] = State!Kept(v4.desired[p])
        BY <1>3, <1>6 DEF State!Left, State!Kept
    <2>1. /\ v4.next[p] = v4.seen[p] \/ v4.next[p] = State!Kept(v4.desired[p])
          /\ v4.seen[p] = State!Kept(IF v3 = None THEN State!Nothing ELSE v3[p]) =>
                v4.next[p] = State!Kept(v4.desired[p])
        BY <1>1, <1>6, StateNext
    <2>2. CASE p \in v7
        <3>1. v2'[p] # v2[p]
            BY <2>2, <1>3
        <3>2. v2 = v4.seen /\ v2' = v4.next
            BY <3>1, <1>1
        <3> QED
            BY <3>1, <3>2, <2>1
    <2>3. CASE p \notin v7
        <3>1. v2[p] = v4.seen[p]
            BY <1>1, <1>6, <2>3 DEF State!Inductive, State!PassKept
        <3>2. v2[p] = State!Kept(IF v3 = None THEN State!Nothing ELSE v3[p])
            BY <1>4, <1>6, <2>3 DEF State!Left
        <3>3. v4.next[p] = State!Kept(v4.desired[p])
            BY <3>1, <3>2, <2>1
        <3> QED
            BY <3>1, <3>3, <1>1
    <2> QED
        BY <2>2, <2>3
<1> QED
    BY <1>5, <1>6

\* The kind of a file never changes, and nor does what it may hold.
LEMMA StateFrame ==
    ASSUME v1' = v1
    PROVE  /\ State!Parts' = State!Parts /\ State!Values' = State!Values
           /\ State!Nothing' = State!Nothing /\ State!Proposals' = State!Proposals
<1>1. State!Parts' = State!Parts /\ State!Values' = State!Values /\ State!Nothing' = State!Nothing
    BY DEF State!Parts, State!Values, State!Nothing
<1>2. State!Proposals' = State!Proposals
    BY <1>1 DEF State!Proposals
<1> QED
    BY <1>1, <1>2

\* What a pass decides depends on the ledger alone, beside what it read.
LEMMA StateDecides ==
    ASSUME v1' = v1, v3' = v3, v4'.seen = v4.seen, v4'.desired = v4.desired, v4'.next = v4.next,
           v4.next = State!Decided(v4.seen, v4.desired)
    PROVE  (v4.next = State!Decided(v4.seen, v4.desired))'
BY DEF State!Decided, State!TextIsOurs, State!BlockIsOurs, State!Parts

\* A pass desires something of every part, for a list what the owner keeps and one revision.
LEMMA StateDesires ==
    ASSUME ServicesAssumption, State!Inductive, NEW desired \in State!Desires
    PROVE  /\ desired \in [State!Parts -> State!Proposals]
           /\ State!Decided(v2, desired) \in [State!Parts -> State!Values]
           /\ v1 = "paths" => \A p \in State!Parts : desired[p] = (v2[p] \ Versions) \cup {v5}
<1>1. /\ v1 \in Kinds /\ v2 \in [State!Parts -> State!Values] /\ v5 \in Versions
      /\ (v3 = None \/ v3 \in [State!Parts -> State!Proposals])
      /\ State!OwnersWords
    BY StateTypes DEF State!Inductive
<1>2. CASE v1 = "paths"
    <2>1. desired = [p \in State!Parts |-> (v2[p] \ Versions) \cup {v5}]
        BY <1>2 DEF State!Desires, State!Installed
    <2>2. State!Values = SUBSET (Versions \cup {State!Own}) /\ State!Proposals = State!Values
        BY <1>1, <1>2, StateKinds
    <2>3. \A p \in State!Parts : (v2[p] \ Versions) \cup {v5} \in State!Values
        BY <2>2, <1>1
    <2>4. desired \in [State!Parts -> State!Values]
        BY <2>1, <2>3
    <2>5. \A p \in State!Parts : desired[p] = (v2[p] \ Versions) \cup {v5}
        BY <2>1
    <2>6. State!Decided(v2, desired) \in [State!Parts -> State!Values]
        BY <2>4, <2>5, <1>1, <1>2, StateDecidedPaths
    <2> QED
        BY <2>2, <2>4, <2>5, <2>6
<1>3. CASE v1 # "paths"
    <2>1. desired \in [State!Parts -> State!Proposals]
        <3>1. /\ v1 = "text" => State!Proposals = Versions \cup {State!Retired}
              /\ v1 # "text" => State!Proposals = Versions \cup {State!Absent}
            BY <1>1, <1>3, StateKinds
        <3>2. CASE v1 = "text"
            BY <3>1, <3>2, <1>1 DEF State!Desires
        <3>3. CASE v1 = "options"
            <4>1. desired \in [State!Parts -> {State!Absent, v5}]
                BY <3>3 DEF State!Desires
            <4> QED
                BY <4>1, <3>1, <3>3, <1>1
        <3>4. CASE v1 \notin {"text", "options"}
            <4>1. desired = [p \in State!Parts |-> v5]
                BY <3>4, <1>3 DEF State!Desires
            <4> QED
                BY <4>1, <3>1, <3>4, <1>1
        <3> QED
            BY <3>2, <3>3, <3>4
    <2>2. State!Decided(v2, desired) \in [State!Parts -> State!Values]
        BY <2>1, <1>1, <1>3, StateDecided
    <2> QED
        BY <2>1, <2>2, <1>3
<1> QED
    BY <1>2, <1>3

\* A pass begins where the file is the owner's, as she left it, or nobody's.
LEMMA StatePassReads ==
    ASSUME ServicesAssumption, State!Inductive, State!PassReads
    PROVE  State!Inductive'
<1>1. PICK desired \in State!Desires :
         v4' = [seen |-> v2, next |-> State!Decided(v2, desired), desired |-> desired, wrote |-> FALSE]
    BY DEF State!PassReads
<1>2. /\ v4 = None /\ ~State!Unproven
      /\ v1' = v1 /\ v2' = v2 /\ v3' = v3 /\ v5' = v5 /\ v6' = v6 /\ v7' = v7 /\ (v8' <=> v8)
    <2>1. /\ v4 = None /\ ~State!Unproven
          /\ v1' = v1 /\ v2' = v2 /\ v3' = v3 /\ v5' = v5 /\ v6' = v6 /\ v7' = v7
        BY DEF State!PassReads
    <2>2. v8' = v8
        BY DEF State!PassReads
    <2> QED
        BY <2>1, <2>2
<1>3. /\ v1 \in Kinds /\ v2 \in [State!Parts -> State!Values] /\ v5 \in Versions /\ v7 \subseteq State!Parts
      /\ (v1 # "options" => State!Parts = {v1})
    BY StateTypes, StateKinds DEF State!Inductive
<1>4. /\ desired \in [State!Parts -> State!Proposals]
      /\ State!Decided(v2, desired) \in [State!Parts -> State!Values]
      /\ v1 = "paths" => \A p \in State!Parts : desired[p] = (v2[p] \ Versions) \cup {v5}
    BY StateDesires
<1>5. /\ State!Parts' = State!Parts /\ State!Values' = State!Values
      /\ State!Nothing' = State!Nothing /\ State!Proposals' = State!Proposals
    BY <1>2, StateFrame
<1>6. /\ v4'.seen = v2 /\ v4'.next = State!Decided(v2, desired) /\ v4'.desired = desired /\ v4'.wrote = FALSE
    BY <1>1
<1>7. State!TypeOK'
    <2>1. v4' \in [seen : [State!Parts -> State!Values], next : [State!Parts -> State!Values],
                   desired : [State!Parts -> State!Proposals], wrote : BOOLEAN]
        BY <1>1, <1>3, <1>4
    <2>2. /\ v1' \in Kinds /\ v2' \in [State!Parts -> State!Values]
          /\ (v3' = None \/ v3' \in [State!Parts -> State!Proposals])
          /\ v5' \in Versions /\ v6' \in 0 .. MaxCuts /\ v7' \subseteq State!Parts
        BY <1>2, StateTypes DEF State!Inductive
    <2>3. v8' \in BOOLEAN
        BY DEF State!PassReads, State!Inductive, State!TypeOK
    <2> QED
        BY <2>1, <2>2, <2>3, <1>5, Zenon DEF State!TypeOK
<1>8. State!PassKept'
    <2>1. (v4.next = State!Decided(v4.seen, v4.desired))'
        BY <1>2, <1>6 DEF State!Decided, State!TextIsOurs, State!BlockIsOurs, State!Parts
    <2>2. v1' = "paths" => \E v \in Versions : \A p \in State!Parts' : v4'.desired[p] = (v4'.seen[p] \ Versions) \cup {v}
        <3> SUFFICES ASSUME v1' = "paths"
                     PROVE  \A p \in State!Parts' : v4'.desired[p] = (v4'.seen[p] \ Versions) \cup {v5}
            BY <1>3
        <3> QED
            BY <1>2, <1>4, <1>5, <1>6
    <2>3. v2' = v4'.seen
        BY <1>2, <1>6
    <2> QED
        BY <2>1, <2>2, <2>3 DEF State!PassKept
<1>9. State!OwnersWords'
    <2>1. v1 # "paths" => \A p \in v7 : v2[p] \in {State!Own, State!Absent}
        <3> SUFFICES ASSUME v1 # "paths", NEW p \in v7, v2[p] \notin {State!Own, State!Absent}
                     PROVE  FALSE
            OBVIOUS
        <3>1. v1 = "body" /\ v3 = None
            BY DEF State!Inductive, State!OwnersWords
        <3>2. p = v1
            BY <3>1, <1>3
        <3> QED
            BY <3>1, <3>2, <1>2 DEF State!Unproven
    <2>2. v1 = "paths" => \A p \in State!Parts :
             /\ v8 => State!Family(v2[p]) = {}
             /\ v3 # None => \E v \in Versions : State!Family(v3[p]) = {v}
        BY DEF State!Inductive, State!OwnersWords
    <2> QED
        BY <2>1, <2>2, <1>2, <1>5 DEF State!OwnersWords, State!Family
<1>10. State!LeftAlone'
    <2>1. v6 = 0 => \A p \in State!Parts : State!Left(p, IF v3 = None THEN State!Nothing ELSE v3[p])
        BY <1>2 DEF State!Inductive, State!LeftAlone
    <2> QED
        BY <2>1, <1>2, <1>5, <1>6 DEF State!LeftAlone, State!Left
<1> QED
    BY <1>7, <1>8, <1>9, <1>10 DEF State!Inductive

\* What is written leaves only what is the owner's marked as hers.
LEMMA StatePassWrites ==
    ASSUME ServicesAssumption, State!Inductive, State!PassWrites
    PROVE  State!Inductive'
<1>1. /\ v4 # None /\ ~v4.wrote
      /\ \/ v2' = v2 /\ v4.next = v4.seen
         \/ v2 = v4.seen /\ v2' = v4.next
    BY StateWrites
<1>2. /\ v4' = [v4 EXCEPT !.wrote = TRUE] /\ v7' = {p \in v7 : v2'[p] = v2[p]}
      /\ v1' = v1 /\ v3' = v3 /\ v5' = v5 /\ v6' = v6
    BY DEF State!PassWrites
<1>3. v8' = (v8 /\ v2' = v2)
    BY DEF State!PassWrites
<1>4. /\ v1 \in Kinds /\ v2 \in [State!Parts -> State!Values] /\ v7 \subseteq State!Parts
      /\ (v3 = None \/ v3 \in [State!Parts -> State!Proposals])
      /\ v5 \in Versions /\ v6 \in 0 .. MaxCuts
      /\ v4 \in [seen : [State!Parts -> State!Values], next : [State!Parts -> State!Values],
                 desired : [State!Parts -> State!Proposals], wrote : BOOLEAN]
      /\ v4.next \in [State!Parts -> State!Values]
    BY <1>1, StateTypes DEF State!Inductive
<1>5. /\ State!Parts' = State!Parts /\ State!Values' = State!Values
      /\ State!Nothing' = State!Nothing /\ State!Proposals' = State!Proposals
    BY <1>2, StateFrame
<1>6. /\ v4'.seen = v4.seen /\ v4'.next = v4.next /\ v4'.desired = v4.desired /\ v4'.wrote = TRUE
      /\ v4' \in [seen : [State!Parts -> State!Values], next : [State!Parts -> State!Values],
                  desired : [State!Parts -> State!Proposals], wrote : BOOLEAN]
    BY <1>2, <1>4
<1>7. State!TypeOK'
    <2>1. v2' \in [State!Parts -> State!Values]
        BY <1>1, <1>4
    <2>2. v7' \subseteq State!Parts
        BY <1>2, <1>4
    <2>3. v8' \in BOOLEAN
        BY <1>3, Zenon
    <2> QED
        BY <2>1, <2>2, <2>3, <1>2, <1>4, <1>5, <1>6, Zenon DEF State!TypeOK
<1>8. State!PassKept'
    <2>1. (v4.next = State!Decided(v4.seen, v4.desired))'
        BY <1>1, <1>2, <1>6, StateDecides DEF State!Inductive, State!PassKept
    <2>2. v1 = "paths" => \E v \in Versions : \A p \in State!Parts : v4.desired[p] = (v4.seen[p] \ Versions) \cup {v}
        BY <1>1 DEF State!Inductive, State!PassKept
    <2> QED
        BY <2>1, <2>2, <1>2, <1>5, <1>6 DEF State!PassKept
<1>9. State!OwnersWords'
    <2>1. v1 # "paths" => \A p \in v7' : v2'[p] \in {State!Own, State!Absent}
        BY <1>1, <1>2 DEF State!Inductive, State!OwnersWords
    <2>2. v1 = "paths" => \A p \in State!Parts :
             /\ v8' => State!Family(v2'[p]) = {}
             /\ v3 # None => \E v \in Versions : State!Family(v3[p]) = {v}
        BY <1>3 DEF State!Inductive, State!OwnersWords
    <2> QED
        BY <2>1, <2>2, <1>2, <1>5 DEF State!OwnersWords, State!Family
<1>10. State!LeftAlone'
    <2>1. ASSUME v6' = 0, NEW p \in State!Parts
          PROVE  State!Left(p, v4.desired[p])'
        BY <2>1, <1>2, StateWritten
    <2>2. v4' # None
        BY <1>4, <1>6, StatePasses
    <2> QED
        BY <2>1, <2>2, <1>5, <1>6 DEF State!LeftAlone
<1> QED
    BY <1>7, <1>8, <1>9, <1>10 DEF State!Inductive

\* A pass that ends without writing leaves everything as it was.
LEMMA StatePassRefuses ==
    ASSUME ServicesAssumption, State!Inductive, State!PassRefuses
    PROVE  State!Inductive'
<1>1. /\ v4 # None /\ ~v4.wrote /\ v4' = None
      /\ v1' = v1 /\ v2' = v2 /\ v3' = v3 /\ v5' = v5 /\ v6' = v6 /\ v7' = v7
    BY DEF State!PassRefuses
<1>2. v8' = v8
    BY DEF State!PassRefuses
<1>3. /\ State!Parts' = State!Parts /\ State!Values' = State!Values
      /\ State!Nothing' = State!Nothing /\ State!Proposals' = State!Proposals
    BY <1>1, StateFrame
<1>4. State!TypeOK'
    BY <1>1, <1>2, <1>3, Zenon DEF State!Inductive, State!TypeOK
<1>5. State!PassKept'
    BY <1>1 DEF State!PassKept
<1>6. State!OwnersWords'
    BY <1>1, <1>2, <1>3 DEF State!Inductive, State!OwnersWords, State!Family
<1>7. State!LeftAlone'
    BY <1>1, <1>2, <1>3 DEF State!Inductive, State!LeftAlone, State!Left
<1> QED
    BY <1>4, <1>5, <1>6, <1>7 DEF State!Inductive

\* What is recorded is what was desired, and it is what the file has where the owner left it alone.
LEMMA StatePassRecords ==
    ASSUME ServicesAssumption, State!Inductive, State!PassRecords
    PROVE  State!Inductive'
<1>1. /\ v4 # None /\ v4.wrote /\ v4' = None /\ v3' = v4.desired
      /\ v1' = v1 /\ v2' = v2 /\ v5' = v5 /\ v6' = v6 /\ v7' = v7
    BY DEF State!PassRecords
<1>2. v8' = v8
    BY DEF State!PassRecords
<1>3. /\ State!Parts' = State!Parts /\ State!Values' = State!Values
      /\ State!Nothing' = State!Nothing /\ State!Proposals' = State!Proposals
    BY <1>1, StateFrame
<1>4. v4.desired \in [State!Parts -> State!Proposals] /\ v1 \in Kinds
    BY <1>1, StateTypes DEF State!Inductive
<1>5. v3' # None
    BY <1>1, <1>4, StateKinds
<1>6. State!TypeOK'
    <2>1. v3' \in [State!Parts -> State!Proposals]
        BY <1>1, <1>4
    <2> QED
        BY <2>1, <1>1, <1>2, <1>3, Zenon DEF State!Inductive, State!TypeOK
<1>7. State!PassKept'
    BY <1>1 DEF State!PassKept
<1>8. State!OwnersWords'
    <2>1. v1 # "paths" => \A p \in v7 : v2[p] \in {State!Own, State!Absent}
        BY <1>1 DEF State!Inductive, State!OwnersWords
    <2>2. v1 = "paths" => \A p \in State!Parts : v8 => State!Family(v2[p]) = {}
        BY DEF State!Inductive, State!OwnersWords
    <2>3. v1 = "paths" => \A p \in State!Parts : \E v \in Versions : State!Family(v4.desired[p]) = {v}
        <3> SUFFICES ASSUME v1 = "paths", NEW p \in State!Parts
                     PROVE  \E v \in Versions : State!Family(v4.desired[p]) = {v}
            OBVIOUS
        <3>1. PICK w \in Versions : State!Family(v4.desired[p]) = State!Family({w})
            BY <1>1, StateNext
        <3>2. State!Family({w}) = {w}
            BY DEF State!Family
        <3> QED
            BY <3>1, <3>2
    <2> QED
        BY <2>1, <2>2, <2>3, <1>1, <1>2, <1>3 DEF State!OwnersWords, State!Family
<1>9. State!LeftAlone'
    <2>1. v6 = 0 => \A p \in State!Parts : State!Left(p, v4.desired[p])
        BY <1>1 DEF State!Inductive, State!LeftAlone
    <2> QED
        BY <2>1, <1>1, <1>2, <1>3, <1>5 DEF State!LeftAlone, State!Left
<1> QED
    BY <1>6, <1>7, <1>8, <1>9 DEF State!Inductive

\* After a pass that was cut off nothing is said of the defaults.
LEMMA StatePassCut ==
    ASSUME ServicesAssumption, State!Inductive, State!PassCut
    PROVE  State!Inductive'
<1>1. /\ v4 # None /\ v6 < MaxCuts /\ v4' = None /\ v6' = v6 + 1
      /\ v1' = v1 /\ v2' = v2 /\ v3' = v3 /\ v5' = v5 /\ v7' = v7
    BY DEF State!PassCut
<1>2. v8' = v8
    BY DEF State!PassCut
<1>3. /\ State!Parts' = State!Parts /\ State!Values' = State!Values
      /\ State!Nothing' = State!Nothing /\ State!Proposals' = State!Proposals
    BY <1>1, StateFrame
<1>4. v6' \in 0 .. MaxCuts /\ v6' # 0
    BY <1>1, StateTypes DEF State!Inductive, ServicesAssumption, State!OwnerStateAssumption
<1>5. State!TypeOK'
    BY <1>1, <1>2, <1>3, <1>4, Zenon DEF State!Inductive, State!TypeOK
<1>6. State!PassKept'
    BY <1>1 DEF State!PassKept
<1>7. State!OwnersWords'
    BY <1>1, <1>2, <1>3 DEF State!Inductive, State!OwnersWords, State!Family
<1>8. State!LeftAlone'
    BY <1>4 DEF State!LeftAlone
<1> QED
    BY <1>5, <1>6, <1>7, <1>8 DEF State!Inductive

\* A body that is adopted was proposed once.
LEMMA StateAdopt ==
    ASSUME ServicesAssumption, State!Inductive, State!Adopt
    PROVE  State!Inductive'
<1>1. /\ v1 = "body" /\ v4 = None /\ v2[v1] = 1 /\ v3' = v2 /\ v7' = {}
      /\ v1' = v1 /\ v2' = v2 /\ v4' = v4 /\ v5' = v5 /\ v6' = v6
    BY DEF State!Adopt
<1>2. v8' = v8
    BY DEF State!Adopt
<1>3. /\ State!Parts' = State!Parts /\ State!Values' = State!Values
      /\ State!Nothing' = State!Nothing /\ State!Proposals' = State!Proposals
    BY <1>1, StateFrame
<1>4. /\ v1 \in Kinds /\ v2 \in [State!Parts -> State!Values] /\ State!Parts = {v1}
      /\ State!Proposals = Versions \cup {State!Absent} /\ 1 \in Versions
    <2>1. 1 \in Versions
        BY DEF ServicesAssumption, State!OwnerStateAssumption
    <2>2. v1 \in Kinds /\ v2 \in [State!Parts -> State!Values]
        BY StateTypes DEF State!Inductive
    <2>3. State!Parts = {v1} /\ State!Proposals = Versions \cup {State!Absent}
        BY <2>2, <1>1, StateKinds
    <2> QED
        BY <2>1, <2>2, <2>3
<1>5. v3' \in [State!Parts -> State!Proposals]
    BY <1>1, <1>4
<1>6. v3' # None
    BY <1>4, <1>5, StateKinds
<1>7. State!TypeOK'
    <2>1. v7' \subseteq State!Parts
        BY <1>1
    <2> QED
        BY <2>1, <1>1, <1>2, <1>3, <1>5, Zenon DEF State!Inductive, State!TypeOK
<1>8. State!PassKept'
    BY <1>1 DEF State!PassKept
<1>9. State!OwnersWords'
    BY <1>1 DEF State!OwnersWords
<1>10. State!LeftAlone'
    <2>1. \A p \in State!Parts : v2[p] = State!Kept(v2[p])
        <3>1. State!Kept(1) = 1
            BY <1>4, StateContents DEF State!Kept
        <3> QED
            BY <3>1, <1>1, <1>4
    <2> QED
        BY <2>1, <1>1, <1>3, <1>6 DEF State!LeftAlone, State!Left
<1> QED
    BY <1>7, <1>8, <1>9, <1>10 DEF State!Inductive

\* New defaults change no file.
LEMMA StateShip ==
    ASSUME ServicesAssumption, State!Inductive, State!Ship
    PROVE  State!Inductive'
<1>1. /\ v5' \in Versions
      /\ v1' = v1 /\ v2' = v2 /\ v3' = v3 /\ v4' = v4 /\ v6' = v6 /\ v7' = v7
    BY DEF State!Ship
<1>2. v8' = v8
    BY DEF State!Ship
<1>3. /\ State!Parts' = State!Parts /\ State!Values' = State!Values
      /\ State!Nothing' = State!Nothing /\ State!Proposals' = State!Proposals
    BY <1>1, StateFrame
<1>4. State!TypeOK'
    BY <1>1, <1>2, <1>3, Zenon DEF State!Inductive, State!TypeOK
<1>5. State!PassKept'
    <2>1. v4 # None => (v4.next = State!Decided(v4.seen, v4.desired))'
        BY <1>1, StateDecides DEF State!Inductive, State!PassKept
    <2>2. (State!Unchecked)' <=> State!Unchecked
        BY <1>1 DEF State!Unchecked
    <2> QED
        BY <2>1, <2>2, <1>1, <1>2, <1>3 DEF State!Inductive, State!PassKept, State!Family
<1>6. State!OwnersWords'
    BY <1>1, <1>2, <1>3 DEF State!Inductive, State!OwnersWords, State!Family
<1>7. State!LeftAlone'
    BY <1>1, <1>2, <1>3 DEF State!Inductive, State!LeftAlone, State!Left
<1> QED
    BY <1>4, <1>5, <1>6, <1>7 DEF State!Inductive

\* What the owner changes becomes hers; a list she changes in its managed revisions has none left.
LEMMA StateOwnerEdits ==
    ASSUME ServicesAssumption, UncheckedEdits = FALSE, State!Inductive, State!OwnerEdits
    PROVE  State!Inductive'
<1>1. PICK p \in State!Parts, v \in State!Values :
         /\ State!Edit(p, v)
         /\ v1 # "paths" => v \in {State!Own, State!Absent}
         /\ v1 = "paths" => v = v2[p] \cup {State!Own} \/ State!Family(v) = {}
    <2>1. /\ v1 \in Kinds /\ v2 \in [State!Parts -> State!Values]
        BY StateTypes DEF State!Inductive
    <2>2. PICK p \in State!Parts :
             IF v1 = "paths"
             THEN \/ State!Edit(p, v2[p] \cup {State!Own})
                  \/ State!Edit(p, v2[p] \ Versions) \/ State!Edit(p, {})
             ELSE State!Edit(p, State!Own) \/ State!Edit(p, State!Absent)
        BY DEF State!OwnerEdits
    <2>3. CASE v1 = "paths"
        <3>1. State!Values = SUBSET (Versions \cup {State!Own})
            BY <2>1, <2>3, StateKinds
        <3>2. /\ v2[p] \cup {State!Own} \in State!Values /\ v2[p] \ Versions \in State!Values
              /\ {} \in State!Values
            BY <3>1, <2>1
        <3>3. State!Family(v2[p] \ Versions) = {} /\ State!Family({}) = {}
            BY DEF State!Family
        <3> QED
            BY <2>2, <2>3, <3>2, <3>3
    <2>4. CASE v1 # "paths"
        <3>1. State!Own \in State!Values /\ State!Absent \in State!Values
            BY <2>1, <2>4, StateKinds
        <3> QED
            BY <2>2, <2>4, <3>1
    <2> QED
        BY <2>3, <2>4
<1>2. /\ ~State!Unchecked /\ v2' = [v2 EXCEPT ![p] = v] /\ v7' = v7 \cup {p}
      /\ v1' = v1 /\ v3' = v3 /\ v4' = v4 /\ v5' = v5 /\ v6' = v6
    BY <1>1 DEF State!Edit
<1>3. v8' = (v8 \/ (v1 = "paths" /\ State!Family(v) # State!Family(v2[p])))
    BY <1>1 DEF State!Edit
<1>4. /\ State!Parts' = State!Parts /\ State!Values' = State!Values
      /\ State!Nothing' = State!Nothing /\ State!Proposals' = State!Proposals
    BY <1>2, StateFrame
<1>5. /\ v1 \in Kinds /\ v2 \in [State!Parts -> State!Values] /\ v7 \subseteq State!Parts
      /\ (v1 # "options" => State!Parts = {v1})
    BY StateTypes, StateKinds DEF State!Inductive
<1>6. /\ v2' \in [State!Parts -> State!Values] /\ v2'[p] = v
      /\ \A q \in State!Parts : q # p => v2'[q] = v2[q]
    BY <1>1, <1>2, <1>5
<1>7. v1 = "paths" /\ v = v2[p] \cup {State!Own} => State!Family(v) = State!Family(v2[p])
    BY StateContents DEF State!Family
<1>8. v1 = "paths" /\ ~v8' => /\ ~v8
                              /\ \A q \in State!Parts : State!Family(v2'[q]) = State!Family(v2[q])
    BY <1>3, <1>6
<1>9. v1 = "paths" /\ v8' => \A q \in State!Parts : State!Family(v2'[q]) = {}
    <2> SUFFICES ASSUME v1 = "paths", v8'
                 PROVE  State!Family(v2'[p]) = {}
        BY <1>5
    <2>1. CASE State!Family(v) = {}
        BY <2>1, <1>6
    <2>2. CASE v = v2[p] \cup {State!Own}
        <3>1. v8
            BY <2>2, <1>3, <1>7
        <3>2. State!Family(v2[p]) = {}
            BY <3>1 DEF State!Inductive, State!OwnersWords
        <3> QED
            BY <2>2, <3>2, <1>6, <1>7
    <2> QED
        BY <2>1, <2>2, <1>1
<1>10. State!TypeOK'
    <2>1. v7' \subseteq State!Parts
        BY <1>2, <1>5
    <2>2. v8' \in BOOLEAN
        BY <1>3, Zenon DEF State!Inductive, State!TypeOK
    <2> QED
        BY <2>1, <2>2, <1>2, <1>4, <1>6, Zenon DEF State!Inductive, State!TypeOK
<1>11. State!PassKept'
    <2> SUFFICES ASSUME v4 # None
                 PROVE  State!PassKept'
        BY <1>2 DEF State!PassKept
    <2>1. (v4.next = State!Decided(v4.seen, v4.desired))'
        BY <1>2, StateDecides DEF State!Inductive, State!PassKept
    <2>2. ~(State!Unchecked)'
        BY <1>2 DEF State!Unchecked
    <2>3. v1 = "paths" => \E w \in Versions : \A q \in State!Parts : v4.desired[q] = (v4.seen[q] \ Versions) \cup {w}
        BY DEF State!Inductive, State!PassKept
    <2>4. ~v4.wrote => \A q \in State!Parts : IF v1 = "paths"
             THEN v8' \/ State!Family(v2'[q]) = State!Family(v4.seen[q])
             ELSE q \in v7' \/ v2'[q] = v4.seen[q]
        <3>1. ~v4.wrote => \A q \in State!Parts : IF v1 = "paths"
                 THEN v8 \/ State!Family(v2[q]) = State!Family(v4.seen[q])
                 ELSE q \in v7 \/ v2[q] = v4.seen[q]
            BY DEF State!Inductive, State!PassKept
        <3> QED
            BY <3>1, <1>2, <1>6, <1>8
    <2> QED
        BY <2>1, <2>2, <2>3, <2>4, <1>2, <1>4 DEF State!PassKept, State!Family
<1>12. State!OwnersWords'
    <2>1. v1 # "paths" => \A q \in v7' :
             v2'[q] \in {State!Own, State!Absent} \/ (v1 = "body" /\ v3 = None /\ v4 = None)
        <3>1. v1 # "paths" => \A q \in v7 :
                 v2[q] \in {State!Own, State!Absent} \/ (v1 = "body" /\ v3 = None /\ v4 = None)
            BY DEF State!Inductive, State!OwnersWords
        <3> QED
            BY <3>1, <1>1, <1>2, <1>5, <1>6
    <2>2. v1 = "paths" /\ v3 # None => \A q \in State!Parts : \E w \in Versions : State!Family(v3[q]) = {w}
        BY DEF State!Inductive, State!OwnersWords
    <2> QED
        BY <2>1, <2>2, <1>2, <1>4, <1>9 DEF State!OwnersWords, State!Family
<1>13. State!LeftAlone'
    <2>1. ASSUME NEW q \in State!Parts, NEW proposed, State!Left(q, proposed)
          PROVE  IF v1 = "paths" THEN v8' \/ State!Family(v2'[q]) = State!Family(proposed)
                 ELSE q \in v7' \/ v2'[q] = State!Kept(proposed)
        BY <2>1, <1>2, <1>6, <1>8 DEF State!Left
    <2>2. v6 = 0 => \A q \in State!Parts :
             IF v4 # None /\ v4.wrote THEN State!Left(q, v4.desired[q])
             ELSE State!Left(q, IF v3 = None THEN State!Nothing ELSE v3[q])
        BY DEF State!Inductive, State!LeftAlone
    <2> QED
        BY <2>1, <2>2, <1>2, <1>4 DEF State!LeftAlone, State!Left, State!Family, State!Kept
<1> QED
    BY <1>10, <1>11, <1>12, <1>13 DEF State!Inductive

\* Every step of a pass, of the owner and of the team keeps the invariant of the ledger.
LEMMA StateStep ==
    ASSUME ServicesAssumption, UncheckedEdits = FALSE, State!Inductive, State!Next
    PROVE  State!Inductive'
BY StatePassReads, StatePassWrites, StatePassRefuses, StatePassRecords, StatePassCut, StateAdopt,
   StateShip, StateOwnerEdits DEF State!Next

\* The invariant of the ledger, if the owner edits nothing that a pass is about to write unchecked.
LEMMA StateHolds ==
    ASSUME UncheckedEdits = FALSE
    PROVE  ServicesSpec => [](part = "state" => State!Inductive)
<1> DEFINE Inv == part = "state" => State!Inductive
<1>1. ServicesInit => Inv
    BY StateInit, ServicesAssumption DEF ServicesInit
<1>2. Inv /\ [ServicesNext]_partVars => Inv'
    <2> SUFFICES ASSUME Inv, [ServicesNext]_partVars, part' = "state"
                 PROVE  State!Inductive'
        OBVIOUS
    <2>1. CASE UNCHANGED partVars
        <3>1. /\ part = "state" /\ v1' = v1 /\ v2' = v2 /\ v3' = v3 /\ v4' = v4 /\ v5' = v5
              /\ v6' = v6 /\ v7' = v7
            BY <2>1 DEF partVars
        <3>2. v8' = v8
            BY <2>1 DEF partVars
        <3>3. State!Inductive
            BY <3>1
        <3>4. /\ State!Parts' = State!Parts /\ State!Values' = State!Values
              /\ State!Nothing' = State!Nothing /\ State!Proposals' = State!Proposals
            BY <3>1, StateFrame
        <3>5. State!TypeOK'
            BY <3>1, <3>2, <3>3, <3>4, Zenon DEF State!Inductive, State!TypeOK
        <3>6. State!PassKept'
            <4>1. v4 # None => (v4.next = State!Decided(v4.seen, v4.desired))'
                BY <3>1, <3>3, StateDecides DEF State!Inductive, State!PassKept
            <4>2. (State!Unchecked)' <=> State!Unchecked
                BY <3>1 DEF State!Unchecked
            <4> QED
                BY <4>1, <4>2, <3>1, <3>2, <3>3, <3>4 DEF State!Inductive, State!PassKept,
                    State!Family
        <3>7. State!OwnersWords'
            BY <3>1, <3>2, <3>3, <3>4 DEF State!Inductive, State!OwnersWords, State!Family
        <3>8. State!LeftAlone'
            BY <3>1, <3>2, <3>3, <3>4 DEF State!Inductive, State!LeftAlone, State!Left
        <3> QED
            BY <3>5, <3>6, <3>7, <3>8 DEF State!Inductive
    <2>2. CASE ServicesNext
        BY <2>2, StateStep, ServicesAssumption DEF ServicesNext
    <2> QED
        BY <2>1, <2>2
<1> QED
    BY <1>1, <1>2, PTL DEF ServicesSpec

\* What the owner wrote or deleted is never replaced, for any options, versions and number of passes cut
\* off, if she edits nothing that a pass is about to write without a look (index.mjs:1, README.md:6-8).
THEOREM EditsWin ==
    ASSUME UncheckedEdits = FALSE
    PROVE  ServicesSpec => OwnerEditsWin
<1>1. (part = "state" => State!Inductive) => (part = "state" => State!KeepsEdits)
    BY StateKeeps, ServicesAssumption
<1> QED
    BY <1>1, StateHolds, PTL DEF OwnerEditsWin

\* What a pass records is what the owner left alone, and a plugin has one revision (README.md:8, 13-15).
LEMMA StateAdvances == ASSUME ServicesAssumption, State!Inductive PROVE State!Advances
<1> SUFFICES ASSUME State!PassRecords, v6 = 0, NEW p \in State!Parts
             PROVE  IF v1 = "paths"
                    THEN /\ State!Cardinality(State!Family(v2[p])) <= 1
                         /\ ~v8 => State!Family(v2[p]) = State!Family(v4.desired[p])
                    ELSE p \notin v7 => v2[p] = State!Kept(v4.desired[p])
    BY DEF State!Advances
<1>1. v4 # None /\ v4.wrote
    BY DEF State!PassRecords
<1>2. State!Left(p, v4.desired[p])
    BY <1>1 DEF State!Inductive, State!LeftAlone
<1>3. CASE v1 = "paths"
    <2>1. PICK w \in Versions : State!Family(v4.desired[p]) = State!Family({w})
        BY <1>1, <1>3, StateNext
    <2>2. State!Family({w}) = {w}
        BY DEF State!Family
    <2>3. State!Family(v2[p]) = {} \/ State!Family(v2[p]) = {w}
        BY <2>1, <2>2, <1>2, <1>3 DEF State!Left, State!Inductive, State!OwnersWords
    <2>4. \A S : State!Cardinality(S) = Cardinality(S)
        BY DEF State!Cardinality, Cardinality
    <2>5. Cardinality(State!Family(v2[p])) \in {0, 1}
        BY <2>3, FS_EmptySet, FS_Singleton
    <2> QED
        BY <2>4, <2>5, <1>2, <1>3 DEF State!Left
<1>4. CASE v1 # "paths"
    BY <1>2, <1>4 DEF State!Left
<1> QED
    BY <1>3, <1>4

\* A default the owner left alone is the shipped one after every pass, for any options and versions, unless
\* a pass was cut off before (README.md:8, 13-15).
THEOREM Advance ==
    ASSUME UncheckedEdits = FALSE
    PROVE  ServicesSpec => DefaultsAdvance
<1>1. (part = "state" => State!Inductive) => (part = "state" => State!Advances)
    BY StateAdvances, ServicesAssumption
<1> QED
    BY <1>1, StateHolds, PTL DEF DefaultsAdvance
=============================================================================
