--------------------------- MODULE TerminalTransport ---------------------------
(***************************************************************************)
(* The two ends of one shell's pipe in detail: stdioTerminal of            *)
(* remote-terminal/transport.mjs in the broker and the loop of             *)
(* pty-bridge.py in the container.  RemoteTerminal has a shell type an     *)
(* input in one step and leaves output out; here an input is written to    *)
(* the PTY in pieces, output is kept in a bounded ring and read in bounded *)
(* batches by a viewer who may lose an answer or reload, and the lines of  *)
(* both pipes arrive later than they were written, some after the exit.    *)
(*                                                                         *)
(* Bytes are counted, not spelled.  The size of the window, and limits     *)
(* that only end the bridge on malformed input, are left out.              *)
(***************************************************************************)
EXTENDS Naturals, FiniteSets, Sequences, SequencesExt, FiniteSetsExt

CONSTANTS
    MaxBytes,     \* of output kept: 1 MiB in the code
    BatchBytes,   \* of one answer: 128 KiB in the code
    MaxPending,   \* inputs the bridge takes at a time: 16 in the code
    InputBytes,   \* bound: the size of an input
    MaxInputs, MaxOutputs   \* bounds: how many inputs and pieces of output there are

VARIABLES
    ready,        \* the promise: pending, yes, no
    closed, running,
    inputs, pending,        \* nextCommand, and the requests without an answer
    acked,        \* history variable: the requests that were resolved
    toBridge, fromBridge,
    bridge,       \* the process in the container
    unwritten,    \* its pending: inputs and how much of each is left
    written,      \* history variable: the input each byte given to the PTY was of
    sequence, chunks,
    viewer        \* its cursor, the pieces it shows, and whether it was told of a gap

TransportAssumption ==
    /\ MaxBytes \in Nat /\ MaxPending \in Nat /\ InputBytes \in Nat \ {0}
    /\ MaxInputs \in Nat /\ MaxOutputs \in Nat

broker == <<ready, closed, running, inputs, pending, acked>>
container == <<bridge, unwritten, written>>
output == <<sequence, chunks>>
vars == <<broker, toBridge, fromBridge, container, output, viewer>>

Reloaded == [cursor |-> 0, shows |-> {}, truncated |-> FALSE]

TypeOK ==
    /\ ready \in {"pending", "yes", "no"} /\ closed \in BOOLEAN /\ running \in BOOLEAN
    /\ inputs \in 0 .. MaxInputs /\ pending \subseteq 1 .. inputs /\ acked \subseteq 1 .. inputs
    /\ bridge \in {"starting", "up", "gone", "noticed"}
    /\ unwritten \in Seq([id : 1 .. MaxInputs, left : 1 .. InputBytes])
    /\ written \in Seq(1 .. MaxInputs)
    /\ sequence \in 0 .. MaxOutputs
    /\ chunks \in Seq([sequence : 1 .. MaxOutputs, size : 1 .. MaxBytes])
    /\ viewer.cursor \in 0 .. sequence /\ viewer.shows \subseteq 1 .. sequence

Init ==
    /\ ready = "pending" /\ closed = FALSE /\ running = TRUE
    /\ inputs = 0 /\ pending = {} /\ acked = {}
    /\ toBridge = <<>> /\ fromBridge = <<>>
    /\ bridge = "starting" /\ unwritten = <<>> /\ written = <<>>
    /\ sequence = 0 /\ chunks = <<>> /\ viewer = Reloaded

------------------------------------------------------------------------------
(* stdioTerminal: requests and the end.                                      *)

\* A line for a bridge that is gone is lost.
Written(line) == toBridge' = IF bridge \in {"gone", "noticed"} THEN toBridge ELSE Append(toBridge, line)

Request ==
    /\ ready = "yes" /\ ~closed /\ running /\ inputs < MaxInputs
    /\ inputs' = inputs + 1 /\ pending' = pending \cup {inputs + 1}
    /\ Written(inputs + 1)
    /\ UNCHANGED <<ready, closed, running, acked, fromBridge, container, output, viewer>>

\* close(): what waits is rejected and the output discarded; 0 stands for its line.
Ending ==
    /\ closed' = TRUE /\ running' = FALSE /\ pending' = {} /\ chunks' = <<>>
    /\ IF closed THEN UNCHANGED toBridge ELSE Written(0)
    /\ UNCHANGED <<inputs, acked, fromBridge, container, sequence, viewer>>

\* A session that ends, an input or a start that takes too long, output that is no line.
Close == ~closed /\ Ending /\ ready' = IF ready = "pending" THEN "no" ELSE ready

\* The child's exit, which may be noticed before the last of its output.
ExitNoticed ==
    /\ bridge = "gone" /\ bridge' = "noticed"
    /\ running' = FALSE /\ pending' = {}
    /\ ready' = IF ready = "pending" THEN "no" ELSE ready
    /\ UNCHANGED <<closed, inputs, acked, toBridge, fromBridge, unwritten, written, output, viewer>>

------------------------------------------------------------------------------
(* stdioTerminal: the lines of the bridge.                                   *)

Bytes(cs) == FoldLeft(LAMBDA n, c : n + c.size, 0, cs)

\* The oldest pieces go while there is too much; the latest one always stays.
Kept(cs) ==
    LET fits(k) == k = Len(cs) \/ Bytes(SubSeq(cs, k, Len(cs))) <= MaxBytes
    IN  SubSeq(cs, Min({k \in DOMAIN cs : fits(k)}), Len(cs))

Arrives(what) == fromBridge # <<>> /\ Head(fromBridge).event = what /\ fromBridge' = Tail(fromBridge)

ReadyArrives ==
    /\ Arrives("ready")
    /\ ready' = IF ready = "pending" THEN "yes" ELSE ready
    /\ UNCHANGED <<closed, running, inputs, pending, acked, toBridge, container, output, viewer>>

OutputArrives ==
    /\ Arrives("output")
    /\ IF closed THEN UNCHANGED output
       ELSE /\ sequence' = sequence + 1
            /\ chunks' = Kept(Append(chunks, [sequence |-> sequence + 1, size |-> Head(fromBridge).value]))
    /\ UNCHANGED <<broker, toBridge, container, viewer>>

ReplyArrives ==
    /\ Arrives("reply")
    /\ LET id == Head(fromBridge).value
       IN  acked' = (IF id \in pending THEN acked \cup {id} ELSE acked) /\ pending' = pending \ {id}
    /\ UNCHANGED <<ready, closed, running, inputs, toBridge, container, output, viewer>>

ExitArrives ==
    /\ Arrives("exit") /\ running' = FALSE
    /\ UNCHANGED <<ready, closed, inputs, pending, acked, toBridge, container, output, viewer>>

------------------------------------------------------------------------------
(* read(after).                                                              *)

\* Pieces are kept in the order of their numbers, so that those after one are the last of them.
Available(after) ==
    LET read == {k \in DOMAIN chunks : chunks[k].sequence <= after}
    IN  SubSeq(chunks, Max({0} \cup read) + 1, Len(chunks))

\* The first piece, and more until there are enough bytes.
Batch(after) ==
    LET all == Available(after)
        fits(k) == k = 1 \/ Bytes(SubSeq(all, 1, k - 1)) < BatchBytes
    IN  SubSeq(all, 1, Max({0} \cup {k \in DOMAIN all : fits(k)}))

TruncatedAfterTheFirst(after) == after > 0 /\ chunks # <<>> /\ after < chunks[1].sequence - 1
Truncated(after) == chunks # <<>> /\ after < chunks[1].sequence - 1

\* A viewer polls with its cursor; an answer that is lost changes nothing.
Read ==
    /\ LET batch == Batch(viewer.cursor)
       IN  viewer' = [cursor |-> IF batch = <<>> THEN viewer.cursor ELSE Last(batch).sequence,
                      shows |-> viewer.shows \cup {batch[k].sequence : k \in DOMAIN batch},
                      truncated |-> viewer.truncated \/ Truncated(viewer.cursor)]
    /\ UNCHANGED <<broker, toBridge, fromBridge, container, output>>

Reload ==
    /\ viewer' = Reloaded
    /\ UNCHANGED <<broker, toBridge, fromBridge, container, output>>

------------------------------------------------------------------------------
(* pty-bridge.py.                                                            *)

Emits(event, value) == fromBridge' = Append(fromBridge, [event |-> event, value |-> value])

BridgeStarts ==
    /\ bridge = "starting" /\ bridge' = "up" /\ Emits("ready", 0)
    /\ UNCHANGED <<broker, toBridge, unwritten, written, output, viewer>>

\* The loop is left and everything that waits in the bridge is gone.  An exit is emitted
\* unless the process was killed.
BridgeEnds ==
    /\ bridge \in {"starting", "up"} /\ bridge' = "gone"
    /\ unwritten' = <<>> /\ toBridge' = <<>>
    /\ Emits("exit", 0) \/ UNCHANGED fromBridge
    /\ UNCHANGED <<broker, written, output, viewer>>

BridgeTakes ==
    /\ bridge = "up" /\ toBridge # <<>> /\ Head(toBridge) # 0 /\ Len(unwritten) < MaxPending
    /\ unwritten' = Append(unwritten, [id |-> Head(toBridge), left |-> InputBytes])
    /\ toBridge' = Tail(toBridge)
    /\ UNCHANGED <<broker, fromBridge, bridge, written, output, viewer>>

\* What the PTY did not take stays first.
Rest(n) == [unwritten EXCEPT ![1].left = @ - n]

BridgeWrites ==
    /\ bridge = "up" /\ unwritten # <<>>
    /\ \E n \in 1 .. Head(unwritten).left :
          /\ written' = written \o [k \in 1 .. n |-> Head(unwritten).id]
          /\ IF n = Head(unwritten).left
             THEN unwritten' = Tail(unwritten) /\ Emits("reply", Head(unwritten).id)
             ELSE unwritten' = Rest(n) /\ UNCHANGED fromBridge
    /\ UNCHANGED <<broker, toBridge, bridge, output, viewer>>

ShellPrints(size) ==
    /\ bridge = "up"
    /\ sequence + Cardinality({k \in DOMAIN fromBridge : fromBridge[k].event = "output"}) < MaxOutputs
    /\ Emits("output", size)
    /\ UNCHANGED <<broker, toBridge, container, output, viewer>>

Next ==
    \/ Request \/ Close \/ ExitNoticed \/ ReadyArrives \/ OutputArrives \/ ReplyArrives \/ ExitArrives
    \/ Read \/ Reload
    \/ BridgeStarts \/ BridgeEnds \/ BridgeTakes \/ BridgeWrites
    \/ \E size \in 1 .. MaxBytes : ShellPrints(size)

Spec == Init /\ [][Next]_vars

------------------------------------------------------------------------------
\* The PTY gets the bytes of the inputs whole and in the order of the requests, however
\* little it takes at a time, and what was acknowledged it has got, also when the bridge
\* dies or the request's time runs out (pty-bridge.py:53-62, transport.mjs:54-56, 65).
InputsWhole ==
    /\ \A k \in DOMAIN written : written[k] = ((k - 1) \div InputBytes) + 1
    /\ \A id \in acked : Len(written) >= id * InputBytes

\* Output that was dropped before a viewer read it is the only output it does not show,
\* and it is told exactly then (README.md:56-60, transport.mjs:48-51, 71-80).
GapsAreTold == viewer.truncated <=> viewer.shows # 1 .. viewer.cursor

StreamsWhole == InputsWhole /\ GapsAreTold

\* What their proof rests on.  While the bridge is there, n inputs have been written whole and
\* the bytes, the inputs in its hands and the lines on their way continue them without a gap.
Continues(n) ==
    /\ \A i \in DOMAIN unwritten : /\ unwritten[i].id = n + i
                                   /\ i > 1 => unwritten[i].left = InputBytes
    /\ IF unwritten = <<>> THEN Len(written) = n * InputBytes
       ELSE Len(written) + unwritten[1].left = (n + 1) * InputBytes
    /\ \A j \in DOMAIN toBridge : toBridge[j] \in {0, n + Len(unwritten) + j}
    /\ closed \/ inputs = n + Len(unwritten) + Len(toBridge)
Continued == bridge \in {"starting", "up"} => \E n \in 0 .. inputs : Continues(n)

\* The lines to the bridge are of inputs there are, and so are those it has taken.
OnTheWay ==
    /\ toBridge \in Seq(0 .. inputs)
    /\ \A k \in DOMAIN unwritten : unwritten[k].id <= inputs

\* The lines from the bridge tell of inputs that were written, and of no more output than is
\* still to come.
Reported ==
    /\ fromBridge \in Seq([event : {"ready", "output", "reply", "exit"}, value : Nat])
    /\ \A k \in DOMAIN fromBridge : fromBridge[k].event = "output" => fromBridge[k].value \in 1 .. MaxBytes
    /\ \A k \in DOMAIN fromBridge :
          fromBridge[k].event = "reply" => Len(written) >= fromBridge[k].value * InputBytes
    /\ sequence + Cardinality({k \in DOMAIN fromBridge : fromBridge[k].event = "output"}) <= MaxOutputs

\* The pieces kept are the latest, and what a viewer shows it has read.
Numbered ==
    /\ Len(chunks) <= sequence
    /\ \A k \in DOMAIN chunks : chunks[k].sequence = sequence - Len(chunks) + k
    /\ viewer \in [cursor : 0 .. sequence, shows : SUBSET (1 .. sequence), truncated : BOOLEAN]
    /\ viewer.shows \subseteq 1 .. viewer.cursor

Inductive == TypeOK /\ Continued /\ OnTheWay /\ Reported /\ Numbered /\ StreamsWhole
=============================================================================
