------------------------------- MODULE StreamProofs -------------------------------
(***************************************************************************)
(* Proofs about the two parts that work on sequences, TerminalTransport    *)
(* and BrowserClient, and the types of all parts.  In the first one        *)
(*    ready, closed, running, inputs, pending, acked  are  v1 .. v6,       *)
(*    toBridge, fromBridge, bridge, unwritten, written  are  v7 .. v11,    *)
(*    sequence, chunks, viewer  are  v12, v13, v14,                        *)
(* and in the other pages, socket, attached, targetId, history, reconnect, *)
(* queue, work, shown are v1 .. v9.                                        *)
(***************************************************************************)
EXTENDS ServicesProofs

------------------------------------------------------------------------------
(* Numbers.                                                                  *)

\* The byte after n whole inputs, and before n + 1, is of the input after the nth.
LEMMA Divided ==
    ASSUME NEW b \in Nat \ {0}, NEW n \in Nat, NEW j \in Nat, n * b <= j, j < (n + 1) * b
    PROVE  j \div b = n
<1> DEFINE q == j \div b
<1>1. q \in Int /\ b * q <= j /\ j < b * q + b
    BY SMT
<1> HIDE DEF q
<1>2. CASE q < n
    <2>1. q + 1 <= n
        BY <1>1, <1>2
    <2>2. b * (q + 1) <= b * n
        BY <1>1, <2>1
    <2> QED
        BY <1>1, <2>2
<1>3. CASE q > n
    <2>1. n + 1 <= q
        BY <1>1, <1>3
    <2>2. b * (n + 1) <= b * q
        BY <1>1, <2>1
    <2> QED
        BY <1>1, <2>2
<1> QED
    BY <1>1, <1>2, <1>3 DEF q

\* A set of numbers up to k has a greatest one, and it is what Max returns.
LEMMA Greatest ==
    ASSUME NEW k \in Nat, NEW S \in SUBSET (0 .. k), S # {}
    PROVE  Transport!Max(S) \in S /\ \A y \in S : y <= Transport!Max(S)
<1> DEFINE R == {k - x : x \in S}
<1>0. \A x \in S : x \in Int /\ 0 <= x /\ x <= k
    OBVIOUS
<1>1. R \in SUBSET Nat /\ R # {}
    <2>1. \A x \in S : k - x \in Nat
        BY <1>0
    <2>2. R # {}
        OBVIOUS
    <2> QED
        BY <2>1, <2>2
<1>2. PICK m \in R : \A y \in R : m <= y
    BY <1>1, Least
<1>3. PICK x \in S : m = k - x
    BY <1>2
<1>4. \A y \in S : x >= y
    <2> SUFFICES ASSUME NEW y \in S PROVE x >= y
        OBVIOUS
    <2>1. m <= k - y
        BY <1>2
    <2>2. x \in Int /\ y \in Int /\ k \in Int
        BY <1>0
    <2> HIDE DEF R
    <2> QED
        BY <1>3, <2>1, <2>2
<1>5. Transport!Max(S) \in S /\ \A y \in S : Transport!Max(S) >= y
    BY <1>4 DEF Transport!Max
<1>6. S \subseteq Int
    BY <1>0
<1> QED
    BY <1>5, <1>6

\* A set of numbers has a least one, and it is what Min returns.
LEMMA LeastIsMin ==
    ASSUME NEW S \in SUBSET Nat, S # {}
    PROVE  Transport!Min(S) \in S
<1>1. PICK n \in S : \A m \in S : n <= m
    BY Least
<1> QED
    BY <1>1 DEF Transport!Min

\* What is shown of 1 .. l once f .. l were added to numbers up to c.
LEMMA Gap ==
    ASSUME NEW c \in Nat, NEW f \in Nat, NEW l \in Nat, c < f, f <= l, NEW S \in SUBSET (1 .. c)
    PROVE  /\ S \cup (f .. l) \subseteq 1 .. l
           /\ S \cup (f .. l) = 1 .. l <=> S = 1 .. c /\ f = c + 1
<1>1. S \cup (f .. l) \subseteq 1 .. l
    OBVIOUS
<1>2. ASSUME S \cup (f .. l) = 1 .. l
      PROVE  S = 1 .. c /\ f = c + 1
    <2>1. 1 .. c \subseteq S
        <3> SUFFICES ASSUME NEW x \in 1 .. c PROVE x \in S
            OBVIOUS
        <3>1. x \in 1 .. l /\ x \notin f .. l
            OBVIOUS
        <3> QED
            BY <1>2, <3>1
    <2>2. c + 1 \in 1 .. l /\ c + 1 \notin S
        OBVIOUS
    <2>3. c + 1 \in f .. l
        BY <1>2, <2>2
    <2>4. f <= c + 1
        BY <2>3
    <2>5. S = 1 .. c
        BY <2>1, Zenon
    <2> QED
        BY <2>4, <2>5
<1>3. ASSUME S = 1 .. c, f = c + 1
      PROVE  S \cup (f .. l) = 1 .. l
    BY <1>3
<1> QED
    BY <1>1, <1>2, <1>3

------------------------------------------------------------------------------
(* Sequences.                                                                *)

\* A first element is taken off.
LEMMA TakenOff ==
    ASSUME NEW S, NEW s \in Seq(S), s # <<>>
    PROVE  /\ Head(s) = s[1] /\ Head(s) \in S /\ Tail(s) \in Seq(S)
           /\ 1 \in DOMAIN s /\ Len(s) \in Nat \ {0} /\ Len(Tail(s)) = Len(s) - 1
           /\ DOMAIN s = 1 .. Len(s) /\ DOMAIN Tail(s) = 1 .. Len(s) - 1
           /\ \A i \in DOMAIN Tail(s) : i + 1 \in DOMAIN s /\ Tail(s)[i] = s[i + 1]
<1>1. /\ Head(s) \in S /\ Tail(s) \in Seq(S) /\ Len(Tail(s)) = Len(s) - 1
      /\ \A i \in 1 .. Len(Tail(s)) : Tail(s)[i] = s[i + 1]
    BY HeadTailProperties
<1>2. /\ Len(s) \in Nat \ {0} /\ DOMAIN s = 1 .. Len(s)
      /\ DOMAIN Tail(s) = 1 .. Len(Tail(s))
    BY <1>1, EmptySeq, LenProperties
<1>3. Head(s) = s[1]
    OBVIOUS
<1> QED
    BY <1>1, <1>2, <1>3

\* A last element is put on.
LEMMA PutOn ==
    ASSUME NEW S, NEW s \in Seq(S), NEW e \in S
    PROVE  /\ Append(s, e) \in Seq(S) /\ Append(s, e) # <<>>
           /\ Len(s) \in Nat /\ Len(Append(s, e)) = Len(s) + 1
           /\ DOMAIN s = 1 .. Len(s) /\ DOMAIN Append(s, e) = 1 .. Len(s) + 1
           /\ \A i \in DOMAIN s : Append(s, e)[i] = s[i]
           /\ Append(s, e)[Len(s) + 1] = e
<1>1. /\ Append(s, e) \in Seq(S) /\ Append(s, e) # <<>> /\ Len(Append(s, e)) = Len(s) + 1
      /\ \A i \in 1 .. Len(s) : Append(s, e)[i] = s[i]
      /\ Append(s, e)[Len(s) + 1] = e
    BY AppendProperties
<1>2. Len(s) \in Nat /\ DOMAIN s = 1 .. Len(s) /\ DOMAIN Append(s, e) = 1 .. Len(Append(s, e))
    BY <1>1, LenProperties
<1> QED
    BY <1>1, <1>2

------------------------------------------------------------------------------
(* The lines of the bridge.                                                  *)

LineSet == [event : {"ready", "output", "reply", "exit"}, value : Nat]
OutputsIn(f) == {k \in DOMAIN f : f[k].event = "output"}

\* The lines f tell the truth when w bytes were written and s pieces of output have arrived.
Truthful(f, w, s) ==
    /\ f \in Seq(LineSet)
    /\ \A k \in DOMAIN f : f[k].event = "output" => f[k].value \in 1 .. MaxBytes
    /\ \A k \in DOMAIN f : f[k].event = "reply" => w >= f[k].value * InputBytes
    /\ s + Cardinality(OutputsIn(f)) <= MaxOutputs

\* Two names of one operator.
LEMMA SameCount == \A S : Transport!Cardinality(S) = Cardinality(S)
BY DEF Transport!Cardinality, Cardinality

\* The limits are numbers.
LEMMA Limits ==
    /\ MaxBytes \in Nat /\ MaxPending \in Nat /\ InputBytes \in Nat \ {0}
    /\ MaxInputs \in Nat /\ MaxOutputs \in Nat
BY LimitsAssumption DEF Transport!TransportAssumption

\* The invariant says of the lines under way that they are truthful.
LEMMA ReportedTruthful == Transport!Reported <=> Truthful(v8, Len(v11), v12)
BY SameCount, Zenon DEF Transport!Reported, Truthful, OutputsIn, LineSet

\* The outputs among some lines are finitely many.
LEMMA OutputsFinite ==
    ASSUME NEW f \in Seq(LineSet)
    PROVE  /\ IsFiniteSet(OutputsIn(f)) /\ Cardinality(OutputsIn(f)) \in Nat
           /\ Len(f) + 1 \notin OutputsIn(f)
<1>1. DOMAIN f = 1 .. Len(f) /\ Len(f) \in Nat
    BY LenProperties
<1>2. IsFiniteSet(1 .. Len(f))
    BY <1>1, FS_Interval
<1>3. OutputsIn(f) \in SUBSET (1 .. Len(f))
    BY <1>1 DEF OutputsIn
<1>4. IsFiniteSet(OutputsIn(f))
    BY <1>2, <1>3, FS_Subset
<1> QED
    BY <1>1, <1>3, <1>4, FS_CardinalityType

\* A line less: what is left stays truthful, and an output that was taken off has its place.
LEMMA LineTaken ==
    ASSUME NEW f, NEW w \in Nat, NEW s \in Nat, Truthful(f, w, s), f # <<>>
    PROVE  /\ Truthful(Tail(f), w, s) /\ Head(f) \in LineSet
           /\ Head(f).event = "output" => Head(f).value \in 1 .. MaxBytes /\ Truthful(Tail(f), w, s + 1)
           /\ Head(f).event = "reply" => w >= Head(f).value * InputBytes
<1> DEFINE t == Tail(f)
           a == OutputsIn(f)
           b == OutputsIn(t)
<1>1. /\ f \in Seq(LineSet) /\ t \in Seq(LineSet) /\ Head(f) = f[1] /\ Head(f) \in LineSet /\ 1 \in DOMAIN f
      /\ \A i \in DOMAIN t : i + 1 \in DOMAIN f /\ t[i] = f[i + 1]
      /\ DOMAIN t \subseteq Nat \ {0}
    <2>1. f \in Seq(LineSet)
        BY DEF Truthful
    <2>2. t \in Seq(LineSet)
        BY <2>1, TakenOff
    <2>3. DOMAIN t = 1 .. Len(t) /\ Len(t) \in Nat
        BY <2>2, LenProperties
    <2> QED
        BY <2>1, <2>2, <2>3, TakenOff
<1>2. /\ IsFiniteSet(a) /\ Cardinality(a) \in Nat
      /\ IsFiniteSet(b) /\ Cardinality(b) \in Nat
    BY <1>1, OutputsFinite
<1>3. /\ \A k \in DOMAIN t : t[k].event = "output" => t[k].value \in 1 .. MaxBytes
      /\ \A k \in DOMAIN t : t[k].event = "reply" => w >= t[k].value * InputBytes
    <2> SUFFICES ASSUME NEW k \in DOMAIN t
                 PROVE  /\ t[k].event = "output" => t[k].value \in 1 .. MaxBytes
                        /\ t[k].event = "reply" => w >= t[k].value * InputBytes
        OBVIOUS
    <2>1. k + 1 \in DOMAIN f /\ t[k] = f[k + 1]
        BY <1>1
    <2> QED
        BY <2>1 DEF Truthful
<1>4. Cardinality(b) <= Cardinality(a \ {1}) /\ IsFiniteSet(a \ {1})
    <2> DEFINE g == [i \in b |-> i + 1]
    <2>1. \A i \in b : i \in Nat \ {0} /\ i + 1 \in a
        BY <1>1 DEF OutputsIn
    <2>2. g \in [b -> a \ {1}]
        BY <2>1
    <2>3. \A i, j \in b : g[i] = g[j] => i = j
        BY <2>1
    <2>4. g \in Injection(b, a \ {1})
        BY <2>2, <2>3 DEF Injection, IsInjective
    <2>5. IsFiniteSet(a \ {1})
        BY <1>2, FS_RemoveElement
    <2> HIDE DEF g, a, b
    <2> QED
        BY <2>4, <2>5, FS_Injection
<1>5. Cardinality(a \ {1}) = IF 1 \in a THEN Cardinality(a) - 1 ELSE Cardinality(a)
    BY <1>2, FS_RemoveElement
<1>6. 1 \in a <=> Head(f).event = "output"
    BY <1>1 DEF OutputsIn
<1>7. s + Cardinality(a) <= MaxOutputs
    BY DEF Truthful
<1> DEFINE x == Cardinality(a)
           y == Cardinality(b)
           z == Cardinality(a \ {1})
<1>8. x \in Nat /\ y \in Nat /\ s + x <= MaxOutputs /\ y <= z /\ z = IF 1 \in a THEN x - 1 ELSE x
    BY <1>2, <1>4, <1>5, <1>7
<1>9. s + y <= MaxOutputs /\ (1 \in a => (s + 1) + y <= MaxOutputs)
    <2> HIDE DEF x, y, z, a
    <2> QED
        BY <1>8, Limits
<1>10. Truthful(t, w, s) /\ (1 \in a => Truthful(t, w, s + 1))
    BY <1>1, <1>3, <1>9 DEF Truthful
<1>11. /\ Head(f).event = "output" => Head(f).value \in 1 .. MaxBytes
       /\ Head(f).event = "reply" => w >= Head(f).value * InputBytes
    BY <1>1 DEF Truthful
<1> HIDE DEF t, a
<1>12. /\ Truthful(t, w, s) /\ Head(f) \in LineSet
       /\ Head(f).event = "output" => Head(f).value \in 1 .. MaxBytes /\ Truthful(t, w, s + 1)
       /\ Head(f).event = "reply" => w >= Head(f).value * InputBytes
    BY <1>1, <1>6, <1>10, <1>11
<1> QED
    BY <1>12 DEF t

\* A line more: it may be any but an untimely reply or one output too many.
LEMMA LineAdded ==
    ASSUME NEW f, NEW w \in Nat, NEW s \in Nat, Truthful(f, w, s), NEW e \in LineSet,
           e.event = "output" => /\ e.value \in 1 .. MaxBytes
                                 /\ s + Cardinality(OutputsIn(f)) < MaxOutputs,
           e.event = "reply" => w >= e.value * InputBytes
    PROVE  Truthful(Append(f, e), w, s)
<1> DEFINE t == Append(f, e)
           a == OutputsIn(f)
           b == OutputsIn(t)
           n == Len(f)
<1>1. f \in Seq(LineSet)
    BY DEF Truthful
<1>2. /\ t \in Seq(LineSet) /\ n \in Nat /\ DOMAIN f = 1 .. n /\ DOMAIN t = 1 .. n + 1
      /\ \A i \in DOMAIN f : t[i] = f[i]
      /\ t[n + 1] = e
    BY <1>1, PutOn
<1>3. \A i \in DOMAIN t : i \in DOMAIN f \/ i = n + 1
    BY <1>2
<1> HIDE DEF t, n
<1>4. /\ \A k \in DOMAIN t : t[k].event = "output" => t[k].value \in 1 .. MaxBytes
      /\ \A k \in DOMAIN t : t[k].event = "reply" => w >= t[k].value * InputBytes
    <2> SUFFICES ASSUME NEW k \in DOMAIN t
                 PROVE  /\ t[k].event = "output" => t[k].value \in 1 .. MaxBytes
                        /\ t[k].event = "reply" => w >= t[k].value * InputBytes
        OBVIOUS
    <2>1. CASE k \in DOMAIN f
        BY <1>2, <2>1 DEF Truthful
    <2>2. CASE k = n + 1
        BY <1>2, <2>2
    <2> QED
        BY <1>3, <2>1, <2>2
<1>5. b = IF e.event = "output" THEN a \cup {n + 1} ELSE a
    <2>1. \A k : k \in b <=> k \in a \/ (k = n + 1 /\ e.event = "output")
        BY <1>2, <1>3 DEF OutputsIn
    <2> HIDE DEF a, b
    <2> QED
        BY <2>1
<1>6. IsFiniteSet(a) /\ Cardinality(a) \in Nat /\ n + 1 \notin a
    BY <1>1, OutputsFinite DEF n
<1>7. Cardinality(a \cup {n + 1}) = Cardinality(a) + 1
    BY <1>6, FS_AddElement
<1>8. s + Cardinality(a) <= MaxOutputs
    BY DEF Truthful
<1> HIDE DEF a, b
<1>9. s + Cardinality(b) <= MaxOutputs
    <2>1. CASE e.event = "output"
        <3>1. s + Cardinality(a) < MaxOutputs
            BY <2>1 DEF a
        <3>2. Cardinality(b) = Cardinality(a) + 1
            BY <1>5, <1>7, <2>1
        <3> QED
            BY <1>6, <3>1, <3>2, Limits
    <2>2. CASE e.event # "output"
        BY <1>5, <1>8, <2>2
    <2> QED
        BY <2>1, <2>2
<1>10. Truthful(t, w, s)
    BY <1>2, <1>4, <1>9 DEF Truthful, b
<1> QED
    BY <1>10 DEF t

\* More bytes written make no line untrue.
LEMMA MoreWritten ==
    ASSUME NEW f, NEW w \in Nat, NEW s \in Nat, Truthful(f, w, s), NEW u \in Nat, w <= u
    PROVE  Truthful(f, u, s)
<1> SUFFICES ASSUME NEW k \in DOMAIN f, f[k].event = "reply"
             PROVE  u >= f[k].value * InputBytes
    BY DEF Truthful
<1>1. w >= f[k].value * InputBytes
    BY DEF Truthful
<1>2. f[k].value \in Nat
    <2>1. f \in Seq(LineSet) /\ DOMAIN f = 1 .. Len(f)
        BY LenProperties DEF Truthful
    <2>2. f[k] \in LineSet
        BY <2>1, ElementOfSeq
    <2> QED
        BY <2>2 DEF LineSet
<1>3. f[k].value * InputBytes \in Nat
    BY <1>2, Limits
<1> DEFINE p == f[k].value * InputBytes
<1> HIDE DEF p
<1>4. w >= p /\ p \in Nat
    BY <1>1, <1>3 DEF p
<1>5. u >= p
    BY <1>4
<1> QED
    BY <1>5 DEF p

------------------------------------------------------------------------------
(* The pieces of output.                                                     *)

Piece == [sequence : 1 .. MaxOutputs, size : 1 .. MaxBytes]

\* The pieces cs are the latest of q.
Latest(cs, q) ==
    /\ cs \in Seq(Piece) /\ Len(cs) <= q
    /\ \A k \in DOMAIN cs : cs[k].sequence = q - Len(cs) + k

\* What is left when the oldest go are still the latest.
LEMMA SuffixLatest ==
    ASSUME NEW q \in Nat, NEW cs, Latest(cs, q), NEW m \in 1 .. Len(cs)
    PROVE  Latest(SubSeq(cs, m, Len(cs)), q)
<1> DEFINE n == Len(cs)
           t == SubSeq(cs, m, n)
<1>1. cs \in Seq(Piece) /\ n \in Nat /\ DOMAIN cs = 1 .. n /\ n <= q
    BY LenProperties DEF Latest
<1>2. \A i \in m .. n : cs[i] \in Piece
    BY <1>1, ElementOfSeq
<1>3. m \in Int /\ n \in Int /\ 1 <= m /\ m <= n
    BY <1>1
<1>4. /\ t \in Seq(Piece) /\ Len(t) = n - m + 1
      /\ \A i \in 1 .. n - m + 1 : t[i] = cs[m + i - 1]
    BY <1>2, <1>3, SubSeqProperties
<1>5. DOMAIN t = 1 .. n - m + 1
    BY <1>4, LenProperties
<1> HIDE DEF t
<1>6. ASSUME NEW k \in DOMAIN t
      PROVE  t[k].sequence = q - Len(t) + k
    <2>1. k \in 1 .. n - m + 1 /\ m + k - 1 \in 1 .. n
        BY <1>1, <1>3, <1>5
    <2>2. t[k] = cs[m + k - 1]
        BY <1>4, <2>1
    <2>3. cs[m + k - 1].sequence = q - n + (m + k - 1)
        BY <1>1, <2>1 DEF Latest
    <2> HIDE DEF n
    <2>4. q - n + (m + k - 1) = q - (n - m + 1) + k
        BY <1>3, <2>1
    <2> QED
        BY <1>4, <2>2, <2>3, <2>4
<1>7. Len(t) <= q
    BY <1>1, <1>3, <1>4
<1>8. Latest(t, q)
    BY <1>4, <1>6, <1>7 DEF Latest
<1> QED
    BY <1>8 DEF t

\* A piece more, and as many of the oldest less as the ring has no room for.
LEMMA KeptLatest ==
    ASSUME NEW q \in Nat, NEW cs, Latest(cs, q), q < MaxOutputs, NEW size \in 1 .. MaxBytes
    PROVE  Latest(Transport!Kept(Append(cs, [sequence |-> q + 1, size |-> size])), q + 1)
<1> DEFINE e == [sequence |-> q + 1, size |-> size]
           t == Append(cs, e)
           n == Len(cs)
<1>1. cs \in Seq(Piece) /\ n <= q
    BY DEF Latest
<1>2. e \in Piece /\ e.sequence = q + 1
    BY Limits DEF Piece
<1> HIDE DEF e
<1>3. /\ t \in Seq(Piece) /\ n \in Nat /\ Len(t) = n + 1 /\ DOMAIN cs = 1 .. n /\ DOMAIN t = 1 .. n + 1
      /\ \A i \in DOMAIN cs : t[i] = cs[i]
      /\ t[n + 1] = e
    BY <1>1, <1>2, PutOn
<1> HIDE DEF t
<1>4. Latest(t, q + 1)
    <2> SUFFICES ASSUME NEW k \in DOMAIN t
                 PROVE  t[k].sequence = (q + 1) - Len(t) + k
        BY <1>1, <1>3 DEF Latest
    <2>1. CASE k \in DOMAIN cs
        <3>1. cs[k].sequence = q - n + k
            BY <2>1 DEF Latest
        <3>2. q - n + k = (q + 1) - (n + 1) + k
            BY <1>3, <2>1
        <3> QED
            BY <1>3, <2>1, <3>1, <3>2
    <2>2. CASE k = n + 1
        <3>1. (q + 1) - (n + 1) + (n + 1) = q + 1
            BY <1>3
        <3> QED
            BY <1>2, <1>3, <2>2, <3>1
    <2> QED
        BY <1>3, <2>1, <2>2
<1> DEFINE F == {k \in DOMAIN t : k = Len(t) \/ Transport!Bytes(SubSeq(t, k, Len(t))) <= MaxBytes}
<1>5. Transport!Kept(t) = SubSeq(t, Transport!Min(F), Len(t))
    BY DEF Transport!Kept
<1>6. F \in SUBSET Nat /\ F # {} /\ F \subseteq 1 .. Len(t)
    BY <1>3
<1> HIDE DEF F
<1>7. Transport!Min(F) \in 1 .. Len(t)
    BY <1>6, LeastIsMin
<1> HIDE DEF n
<1>8. Latest(SubSeq(t, Transport!Min(F), Len(t)), q + 1)
    BY <1>4, <1>7, SuffixLatest
<1> QED
    BY <1>5, <1>8 DEF t, e

\* What a viewer is sent goes on from what it has, or from the oldest piece there is, and it is
\* told which.
LEMMA BatchGoesOn ==
    ASSUME NEW q \in Nat, Latest(v13, q), NEW c \in 0 .. q
    PROVE  \/ Transport!Batch(c) = <<>> /\ ~Transport!Truncated(c)
           \/ \E f, l \in Nat :
                 /\ c < f /\ f <= l /\ l <= q
                 /\ Transport!Batch(c) # <<>>
                 /\ Transport!Last(Transport!Batch(c)).sequence = l
                 /\ {Transport!Batch(c)[k].sequence : k \in DOMAIN Transport!Batch(c)} = f .. l
                 /\ Transport!Truncated(c) <=> f # c + 1
<1> DEFINE n == Len(v13)
           d == q - n
           read == {k \in DOMAIN v13 : v13[k].sequence <= c}
           a == Transport!Max({0} \cup read)
           all == SubSeq(v13, a + 1, n)
           fit == {k \in DOMAIN all : k = 1 \/ Transport!Bytes(SubSeq(all, 1, k - 1)) < BatchBytes}
           e == Transport!Max({0} \cup fit)
           b == SubSeq(all, 1, e)
<1>1. Transport!Batch(c) = b
    BY DEF Transport!Batch, Transport!Available
<1>2. /\ v13 \in Seq(Piece) /\ n \in Nat /\ n <= q /\ DOMAIN v13 = 1 .. n
      /\ \A k \in 1 .. n : v13[k].sequence = d + k
    <2>1. v13 \in Seq(Piece)
        BY DEF Latest
    <2>2. n \in Nat /\ DOMAIN v13 = 1 .. n
        BY <2>1, LenProperties
    <2> QED
        BY <2>1, <2>2 DEF Latest
<1>3. v13 # <<>> <=> n > 0
    BY <1>2, EmptySeq
<1> HIDE DEF b, e, fit, all, a, n
<1>d. d \in Nat /\ d + n = q
    BY <1>2
<1> HIDE DEF d
<1>4. a \in 0 .. n /\ (a > 0 => d + a <= c) /\ \A k \in 1 .. n : k > a => d + k > c
    <2>1. {0} \cup read \in SUBSET (0 .. n) /\ {0} \cup read # {}
        BY <1>2
    <2>2. a \in {0} \cup read /\ \A y \in {0} \cup read : y <= a
        <3> HIDE DEF read
        <3> QED
            BY <1>2, <2>1, Greatest DEF a
    <2>3. a > 0 => a \in 1 .. n /\ v13[a].sequence <= c
        BY <1>2, <2>2
    <2>4. a \in 0 .. n
        BY <2>1, <2>2
    <2>5. a > 0 => d + a <= c
        BY <1>2, <2>3
    <2>6. ASSUME NEW k \in 1 .. n, k > a
          PROVE  d + k > c
        <3>1. k \notin read
            <4> HIDE DEF read
            <4> QED
                BY <2>2, <2>4, <2>6
        <3>2. ~ (v13[k].sequence <= c) /\ v13[k].sequence = d + k
            BY <1>2, <3>1
        <3> QED
            BY <1>d, <3>2
    <2> QED
        BY <2>4, <2>5, <2>6
<1>5. /\ all \in Seq(Piece) /\ Len(all) = n - a /\ DOMAIN all = 1 .. n - a
      /\ \A i \in 1 .. n - a : all[i] = v13[a + i]
    <2>1. \A i \in a + 1 .. n : v13[i] \in Piece
        BY <1>2, <1>4, ElementOfSeq DEF n
    <2>2. a + 1 \in Int /\ n \in Int
        BY <1>2, <1>4
    <2>3. /\ all \in Seq(Piece) /\ Len(all) = IF a + 1 <= n THEN n - (a + 1) + 1 ELSE 0
          /\ \A i \in 1 .. n - (a + 1) + 1 : all[i] = v13[(a + 1) + i - 1]
        BY <2>1, <2>2, SubSeqProperties DEF all
    <2>4. Len(all) = n - a
        BY <1>2, <1>4, <2>3
    <2>5. DOMAIN all = 1 .. n - a
        BY <2>3, <2>4, LenProperties
    <2>6. ASSUME NEW i \in 1 .. n - a
          PROVE  all[i] = v13[a + i]
        <3>1. i \in 1 .. n - (a + 1) + 1 /\ (a + 1) + i - 1 = a + i
            BY <1>2, <1>4
        <3> QED
            BY <2>3, <3>1
    <2> QED
        BY <2>3, <2>4, <2>5, <2>6
<1>6. e \in 0 .. n - a /\ (n - a > 0 => e > 0)
    <2>1. {0} \cup fit \in SUBSET (0 .. n - a) /\ {0} \cup fit # {} /\ n - a \in Nat
        <3>1. n - a \in Nat
            BY <1>2, <1>4
        <3>2. fit \subseteq 1 .. n - a
            BY <1>5 DEF fit
        <3> QED
            BY <3>1, <3>2
    <2>2. e \in {0} \cup fit /\ \A y \in {0} \cup fit : y <= e
        BY <2>1, Greatest DEF e
    <2>3. n - a > 0 => 1 \in fit
        BY <1>5, <2>1 DEF fit
    <2>4. e \in 0 .. n - a
        BY <2>1, <2>2
    <2> QED
        BY <2>1, <2>2, <2>3, <2>4
<1>7. /\ b \in Seq(Piece) /\ Len(b) = e /\ DOMAIN b = 1 .. e
      /\ \A i \in 1 .. e : b[i].sequence = d + (a + i)
    <2>1. \A i \in 1 .. e : i \in 1 .. n - a /\ a + i \in 1 .. n
        BY <1>2, <1>4, <1>6
    <2>2. \A i \in 1 .. e : all[i] \in Piece
        BY <1>5, <2>1, ElementOfSeq
    <2>3. 1 \in Int /\ e \in Int /\ e >= 0
        BY <1>6
    <2>4. /\ b \in Seq(Piece) /\ Len(b) = IF 1 <= e THEN e - 1 + 1 ELSE 0
          /\ \A i \in 1 .. e - 1 + 1 : b[i] = all[1 + i - 1]
        BY <2>2, <2>3, SubSeqProperties DEF b
    <2>5. Len(b) = e
        BY <2>3, <2>4
    <2>6. DOMAIN b = 1 .. e
        BY <2>4, <2>5, LenProperties
    <2>7. ASSUME NEW i \in 1 .. e
          PROVE  b[i].sequence = d + (a + i)
        <3>1. i \in 1 .. e - 1 + 1 /\ 1 + i - 1 = i
            BY <2>3
        <3>2. b[i] = v13[a + i]
            BY <1>5, <2>1, <2>4, <3>1
        <3> QED
            BY <1>2, <2>1, <3>2
    <2> QED
        BY <2>4, <2>5, <2>6, <2>7
<1>8. Transport!Truncated(c) <=> n > 0 /\ c < d
    <2>1. CASE n > 0
        <3>1. v13[1].sequence - 1 = d
            BY <1>2, <1>d, <2>1
        <3> QED
            BY <1>3, <2>1, <3>1 DEF Transport!Truncated
    <2>2. CASE ~ (n > 0)
        BY <1>3, <2>2 DEF Transport!Truncated
    <2> QED
        BY <2>1, <2>2
<1>9. CASE e = 0
    <2>1. b = <<>>
        BY <1>7, <1>9, EmptySeq
    <2>2. a = n
        BY <1>2, <1>4, <1>6, <1>9
    <2>3. ~ (n > 0 /\ c < d)
        BY <1>2, <1>4, <1>d, <2>2
    <2> QED
        BY <1>1, <1>8, <2>1, <2>3
<1>10. CASE e # 0
    <2> DEFINE f == d + (a + 1)
               l == d + (a + e)
    <2>1. f \in Nat /\ l \in Nat /\ f <= l /\ l <= q /\ a + 1 \in 1 .. n
        BY <1>2, <1>4, <1>6, <1>10, <1>d
    <2>2. c < f
        BY <1>4, <2>1
    <2>3. b # <<>>
        BY <1>7, <1>10, EmptySeq
    <2>4. Transport!Last(b).sequence = l
        BY <1>6, <1>7, <1>10 DEF Transport!Last
    <2>5. {b[k].sequence : k \in DOMAIN b} = f .. l
        <3>1. ASSUME NEW x \in f .. l
              PROVE  x \in {b[k].sequence : k \in DOMAIN b}
            <4>1. x - d - a \in 1 .. e /\ d + (a + (x - d - a)) = x
                BY <1>4, <1>6, <1>d, <3>1
            <4>2. b[x - d - a].sequence = d + (a + (x - d - a))
                BY <1>7, <4>1
            <4> QED
                BY <1>7, <4>1, <4>2
        <3>2. ASSUME NEW k \in DOMAIN b
              PROVE  b[k].sequence \in f .. l
            <4>1. k \in 1 .. e /\ b[k].sequence = d + (a + k)
                BY <1>7
            <4>2. d + (a + k) \in f .. l
                BY <1>4, <1>6, <1>d, <4>1
            <4> QED
                BY <4>1, <4>2
        <3> HIDE DEF f, l
        <3> QED
            BY <3>1, <3>2
    <2>6. (n > 0 /\ c < d) <=> f # c + 1
        BY <1>2, <1>4, <1>d, <2>1, <2>2
    <2> HIDE DEF f, l
    <2>7. Transport!Truncated(c) <=> f # c + 1
        BY <1>8, <2>6
    <2> QED
        BY <1>1, <2>1, <2>2, <2>3, <2>4, <2>5, <2>7
<1> QED
    BY <1>9, <1>10

------------------------------------------------------------------------------
(* TerminalTransport: its invariant.                                         *)

Input == [id : 1 .. MaxInputs, left : 1 .. InputBytes]

\* What the types of the invariant come to.
LEMMA TransportTypes ==
    ASSUME Transport!Inductive
    PROVE  /\ v4 \in Nat /\ v4 <= MaxInputs /\ v5 \subseteq 1 .. v4 /\ v6 \subseteq 1 .. v4
           /\ v7 \in Seq(0 .. v4) /\ v8 \in Seq(LineSet) /\ Truthful(v8, Len(v11), v12)
           /\ v10 \in Seq(Input) /\ Len(v10) \in Nat /\ DOMAIN v10 = 1 .. Len(v10)
           /\ \A k \in DOMAIN v10 : v10[k] \in Input /\ v10[k].id <= v4
           /\ v11 \in Seq(1 .. MaxInputs) /\ Len(v11) \in Nat /\ DOMAIN v11 = 1 .. Len(v11)
           /\ v12 \in Nat /\ v12 <= MaxOutputs /\ Latest(v13, v12)
           /\ v14.cursor \in 0 .. v12
<1>1. Transport!TypeOK /\ Transport!OnTheWay /\ Transport!Reported /\ Transport!Numbered
    BY DEF Transport!Inductive
<1>2. v4 \in Nat /\ v4 <= MaxInputs /\ v5 \subseteq 1 .. v4 /\ v6 \subseteq 1 .. v4
    BY <1>1, Limits DEF Transport!TypeOK
<1>3. v7 \in Seq(0 .. v4) /\ Truthful(v8, Len(v11), v12)
    BY <1>1, ReportedTruthful DEF Transport!OnTheWay
<1>4. v8 \in Seq(LineSet)
    BY <1>3 DEF Truthful
<1>5. v10 \in Seq(Input) /\ Len(v10) \in Nat /\ DOMAIN v10 = 1 .. Len(v10)
    BY <1>1, LenProperties DEF Transport!TypeOK, Input
<1>6. \A k \in DOMAIN v10 : v10[k] \in Input /\ v10[k].id <= v4
    BY <1>1, <1>5, ElementOfSeq DEF Transport!OnTheWay
<1>7. v11 \in Seq(1 .. MaxInputs) /\ Len(v11) \in Nat /\ DOMAIN v11 = 1 .. Len(v11)
    BY <1>1, LenProperties DEF Transport!TypeOK
<1>8. v12 \in Nat /\ v12 <= MaxOutputs
    BY <1>1, Limits DEF Transport!TypeOK
<1>9. Latest(v13, v12)
    BY <1>1 DEF Transport!TypeOK, Transport!Numbered, Latest, Piece
<1>10. v14.cursor \in 0 .. v12
    BY <1>1 DEF Transport!TypeOK
<1> QED
    BY <1>2, <1>3, <1>4, <1>5, <1>6, <1>7, <1>8, <1>9, <1>10

\* What the broker closes, and the end of the bridge, breaks no continuity.
LEMMA ContinuedStays ==
    ASSUME Transport!Continued, UNCHANGED <<v4, v7, v10, v11>>, v2 => v2',
           v9' \in {"starting", "up"} => v9 \in {"starting", "up"}
    PROVE  Transport!Continued'
<1> SUFFICES ASSUME v9' \in {"starting", "up"}
             PROVE  \E n \in 0 .. v4 : Transport!Continues(n)'
    BY DEF Transport!Continued
<1>1. PICK n \in 0 .. v4 : Transport!Continues(n)
    BY DEF Transport!Continued
<1>2. Transport!Continues(n)'
    BY <1>1 DEF Transport!Continues
<1> QED
    BY <1>2

\* Neither a line from the bridge nor a viewer has to do with the lines to it.
LEMMA OnTheWayStays ==
    ASSUME Transport!OnTheWay, UNCHANGED <<v4, v7, v10>>
    PROVE  Transport!OnTheWay'
BY DEF Transport!OnTheWay

\* Lines, bytes and pieces as they were.
LEMMA ReportedStays ==
    ASSUME Transport!Reported, UNCHANGED <<v8, v11, v12>>
    PROVE  Transport!Reported'
BY DEF Transport!Reported

\* Output and viewer as they were.
LEMMA OutputStays ==
    ASSUME Transport!Numbered, Transport!GapsAreTold, UNCHANGED <<v12, v13, v14>>
    PROVE  Transport!Numbered' /\ Transport!GapsAreTold'
BY DEF Transport!Numbered, Transport!GapsAreTold

\* What was written and acknowledged as it was.
LEMMA InputsStay ==
    ASSUME Transport!InputsWhole, UNCHANGED <<v6, v11>>
    PROVE  Transport!InputsWhole'
BY DEF Transport!InputsWhole

\* The invariant after a step, in its parts.
LEMMA TransportParts ==
    ASSUME Transport!TypeOK', Transport!Continued', Transport!OnTheWay', Transport!Reported',
           Transport!Numbered', Transport!InputsWhole', Transport!GapsAreTold'
    PROVE  Transport!Inductive'
BY DEF Transport!Inductive, Transport!StreamsWhole

\* Nothing was sent, written or shown.
LEMMA TransportInit == Transport!Init => Transport!Inductive
<1> SUFFICES ASSUME Transport!Init PROVE Transport!Inductive
    OBVIOUS
<1> USE Limits DEF Transport!Init
<1>e. \A S : <<>> \in Seq(S)
    OBVIOUS
<1>l. Len(<<>>) = 0 /\ DOMAIN <<>> = {}
    OBVIOUS
<1>1. Transport!TypeOK
    <2>1. v14.cursor = 0 /\ v14.shows = {}
        BY DEF Transport!Reloaded
    <2>2. /\ v10 \in Seq([id : 1 .. MaxInputs, left : 1 .. InputBytes])
          /\ v11 \in Seq(1 .. MaxInputs)
          /\ v13 \in Seq([sequence : 1 .. MaxOutputs, size : 1 .. MaxBytes])
        BY <1>e
    <2>3. /\ v4 \in 0 .. MaxInputs /\ v5 \subseteq 1 .. v4 /\ v6 \subseteq 1 .. v4
          /\ v12 \in 0 .. MaxOutputs /\ v14.cursor \in 0 .. v12 /\ v14.shows \subseteq 1 .. v12
        BY <2>1
    <2> QED
        BY <2>2, <2>3 DEF Transport!TypeOK
<1>2. Transport!Continued
    <2>1. Transport!Continues(0)
        BY <1>l DEF Transport!Continues
    <2> QED
        BY <2>1 DEF Transport!Continued
<1>3. Transport!OnTheWay
    BY <1>e, <1>l DEF Transport!OnTheWay
<1>4. Transport!Reported
    <2>1. OutputsIn(<<>>) = {}
        BY <1>l DEF OutputsIn
    <2>2. Cardinality(OutputsIn(<<>>)) = 0
        BY <2>1, FS_EmptySet
    <2>3. Truthful(v8, Len(v11), v12)
        BY <1>e, <1>l, <2>2 DEF Truthful
    <2> QED
        BY <2>3, ReportedTruthful
<1>5. Transport!Numbered /\ Transport!GapsAreTold
    <2>1. v14 = [cursor |-> 0, shows |-> {}, truncated |-> FALSE]
        BY DEF Transport!Reloaded
    <2> QED
        BY <1>l, <2>1 DEF Transport!Numbered, Transport!GapsAreTold
<1>6. Transport!InputsWhole
    BY <1>l DEF Transport!InputsWhole
<1> QED
    BY <1>1, <1>2, <1>3, <1>4, <1>5, <1>6 DEF Transport!Inductive, Transport!StreamsWhole

\* Every action changes broker, container and output as wholes; these are their variables.
LEMMA TransportFrames ==
    /\ UNCHANGED Transport!broker <=> UNCHANGED <<v1, v2, v3, v4, v5, v6>>
    /\ UNCHANGED Transport!container <=> UNCHANGED <<v9, v10, v11>>
    /\ UNCHANGED Transport!output <=> UNCHANGED <<v12, v13>>
BY DEF Transport!broker, Transport!container, Transport!output

\* A line more for the bridge: an input or the end.
LEMMA TransportWritten ==
    ASSUME Transport!Inductive, NEW line \in 0 .. v4', Transport!Written(line),
           v4' \in Nat, v4 <= v4', UNCHANGED v10
    PROVE  Transport!OnTheWay'
<1>1. /\ v4 \in Nat /\ v7 \in Seq(0 .. v4) /\ DOMAIN v10 = 1 .. Len(v10)
      /\ \A k \in DOMAIN v10 : v10[k] \in Input /\ v10[k].id <= v4
    BY TransportTypes
<1>2. v7 \in Seq(0 .. v4')
    <2>1. 0 .. v4 \subseteq 0 .. v4'
        BY <1>1
    <2> QED
        BY <1>1, <2>1, SeqMonotonic
<1>3. Append(v7, line) \in Seq(0 .. v4')
    BY <1>2, PutOn
<1>4. v7' \in Seq(0 .. v4')
    BY <1>2, <1>3 DEF Transport!Written
<1>5. ASSUME NEW k \in DOMAIN v10
      PROVE  v10[k].id <= v4'
    <2>1. v10[k].id \in Nat /\ v10[k].id <= v4
        BY <1>1, Limits DEF Input
    <2> QED
        BY <1>1, <2>1
<1> QED
    BY <1>4, <1>5 DEF Transport!OnTheWay

\* A request has the next number, and its line is the next on its way.
LEMMA TransportRequest == Transport!Inductive /\ Transport!Request => Transport!Inductive'
<1> SUFFICES ASSUME Transport!Inductive, Transport!Request PROVE Transport!Inductive'
    OBVIOUS
<1> USE DEF Transport!Request
<1>0. /\ Transport!TypeOK /\ Transport!Continued /\ Transport!OnTheWay /\ Transport!Reported
      /\ Transport!Numbered /\ Transport!InputsWhole /\ Transport!GapsAreTold
    BY DEF Transport!Inductive, Transport!StreamsWhole
<1>t. v4 \in Nat /\ v4 <= MaxInputs /\ v5 \subseteq 1 .. v4 /\ v6 \subseteq 1 .. v4
    BY TransportTypes
<1>u. /\ v4' = v4 + 1 /\ v4' \in 0 .. MaxInputs /\ v4 < MaxInputs /\ v5' = v5 \cup {v4 + 1}
      /\ UNCHANGED <<v1, v2, v3, v6, v8, v9, v10, v11, v12, v13, v14>>
    BY <1>t, Limits, TransportFrames
<1>1. Transport!TypeOK'
    <2>1. v5' \subseteq 1 .. v4' /\ v6' \subseteq 1 .. v4'
        BY <1>t, <1>u
    <2> QED
        BY <1>0, <1>u, <2>1 DEF Transport!TypeOK
<1>2. Transport!Continued'
    <2> SUFFICES ASSUME v9' \in {"starting", "up"}
                 PROVE  \E n \in 0 .. v4' : Transport!Continues(n)'
        BY DEF Transport!Continued
    <2>1. PICK n \in 0 .. v4 : Transport!Continues(n)
        BY <1>0, <1>u DEF Transport!Continued
    <2>2. v7' = Append(v7, v4 + 1)
        BY <1>u DEF Transport!Written
    <2>3. n \in 0 .. v4'
        BY <1>t, <1>u
    <2>4. v4 = n + Len(v10) + Len(v7)
        BY <2>1 DEF Transport!Continues
    <2>5. /\ Len(v7) \in Nat /\ Len(v7') = Len(v7) + 1 /\ DOMAIN v7 = 1 .. Len(v7)
          /\ DOMAIN v7' = 1 .. Len(v7) + 1
          /\ \A j \in DOMAIN v7 : v7'[j] = v7[j]
          /\ v7'[Len(v7) + 1] = v4 + 1
        <3>1. v7 \in Seq(0 .. v4 + 1) /\ v4 + 1 \in 0 .. v4 + 1
            <4>1. 0 .. v4 \subseteq 0 .. v4 + 1
                BY <1>t
            <4>2. v7 \in Seq(0 .. v4)
                BY TransportTypes
            <4> QED
                BY <1>t, <4>1, <4>2, SeqMonotonic
        <3> QED
            BY <2>2, <3>1, PutOn
    <2>6. ASSUME NEW j \in DOMAIN v7'
          PROVE  v7'[j] \in {0, n + Len(v10) + j}
        <3>1. CASE j \in DOMAIN v7
            BY <2>1, <2>5, <3>1 DEF Transport!Continues
        <3>2. CASE j = Len(v7) + 1
            <4>1. v4 + 1 = n + Len(v10) + j
                BY <2>4, <2>5, <3>2, <1>t, TransportTypes
            <4> QED
                BY <2>5, <3>2, <4>1
        <3> QED
            BY <2>5, <3>1, <3>2
    <2>7. v4' = n + Len(v10) + Len(v7')
        BY <1>t, <1>u, <2>4, <2>5, TransportTypes
    <2>8. Transport!Continues(n)'
        BY <1>u, <2>1, <2>6, <2>7 DEF Transport!Continues
    <2> QED
        BY <2>3, <2>8
<1>3. Transport!OnTheWay'
    <2>1. v4 + 1 \in 0 .. v4' /\ v4' \in Nat /\ v4 <= v4'
        BY <1>t, <1>u
    <2> QED
        BY <1>u, <2>1, TransportWritten
<1> QED
    BY <1>0, <1>1, <1>2, <1>3, <1>u, ReportedStays, OutputStays, InputsStay, TransportParts

\* The end of a session closes the pipe behind the inputs that are on their way.
LEMMA TransportClose == Transport!Inductive /\ Transport!Close => Transport!Inductive'
<1> SUFFICES ASSUME Transport!Inductive, Transport!Close PROVE Transport!Inductive'
    OBVIOUS
<1>0. /\ Transport!TypeOK /\ Transport!Continued /\ Transport!OnTheWay /\ Transport!Reported
      /\ Transport!Numbered /\ Transport!InputsWhole /\ Transport!GapsAreTold
    BY DEF Transport!Inductive, Transport!StreamsWhole
<1>t. v4 \in Nat /\ v7 \in Seq(0 .. v4) /\ Len(v10) \in Nat /\ v12 \in Nat
    BY TransportTypes
<1>u. /\ v2' = TRUE /\ v3' = FALSE /\ v5' = {} /\ v13' = <<>> /\ Transport!Written(0)
      /\ v1' \in {"no", v1}
      /\ UNCHANGED <<v4, v6, v8, v9, v10, v11, v12, v14>>
    BY TransportFrames DEF Transport!Close, Transport!Ending
<1>1. Transport!TypeOK'
    <2>1. /\ v1' \in {"pending", "yes", "no"}
          /\ v13' \in Seq([sequence : 1 .. MaxOutputs, size : 1 .. MaxBytes])
        BY <1>0, <1>u DEF Transport!TypeOK
    <2> QED
        BY <1>0, <1>u, <2>1 DEF Transport!TypeOK
<1>2. Transport!Continued'
    <2> SUFFICES ASSUME v9' \in {"starting", "up"}
                 PROVE  \E n \in 0 .. v4 : Transport!Continues(n)'
        BY <1>u DEF Transport!Continued
    <2>1. PICK n \in 0 .. v4 : Transport!Continues(n)
        BY <1>0, <1>u DEF Transport!Continued
    <2>2. v7' = Append(v7, 0)
        BY <1>u DEF Transport!Written
    <2>3. /\ DOMAIN v7 = 1 .. Len(v7) /\ DOMAIN v7' = 1 .. Len(v7) + 1 /\ Len(v7) \in Nat
          /\ \A j \in DOMAIN v7 : v7'[j] = v7[j]
          /\ v7'[Len(v7) + 1] = 0
        <3>1. 0 \in 0 .. v4
            BY <1>t
        <3> QED
            BY <1>t, <2>2, <3>1, PutOn
    <2>4. ASSUME NEW j \in DOMAIN v7'
          PROVE  v7'[j] \in {0, n + Len(v10) + j}
        <3>1. CASE j \in DOMAIN v7
            BY <2>1, <2>3, <3>1 DEF Transport!Continues
        <3>2. CASE j = Len(v7) + 1
            BY <2>3, <3>2
        <3> QED
            BY <2>3, <3>1, <3>2
    <2>5. Transport!Continues(n)'
        BY <1>u, <2>1, <2>4 DEF Transport!Continues
    <2> QED
        BY <2>5
<1>3. Transport!OnTheWay'
    <2>1. 0 \in 0 .. v4' /\ v4' \in Nat /\ v4 <= v4'
        BY <1>t, <1>u
    <2> QED
        BY <1>u, <2>1, TransportWritten
<1>4. Transport!Numbered' /\ Transport!GapsAreTold'
    <2>1. Len(v13') = 0 /\ DOMAIN v13' = {}
        BY <1>u
    <2> QED
        BY <1>0, <1>t, <1>u, <2>1 DEF Transport!Numbered, Transport!GapsAreTold
<1> QED
    BY <1>0, <1>1, <1>2, <1>3, <1>4, <1>u, ReportedStays, InputsStay, TransportParts

\* The exit of the child may overtake its last lines.
LEMMA TransportExitNoticed == Transport!Inductive /\ Transport!ExitNoticed => Transport!Inductive'
<1> SUFFICES ASSUME Transport!Inductive, Transport!ExitNoticed PROVE Transport!Inductive'
    OBVIOUS
<1>0. /\ Transport!TypeOK /\ Transport!Continued /\ Transport!OnTheWay /\ Transport!Reported
      /\ Transport!Numbered /\ Transport!InputsWhole /\ Transport!GapsAreTold
    BY DEF Transport!Inductive, Transport!StreamsWhole
<1>u. /\ v9' = "noticed" /\ v3' = FALSE /\ v5' = {} /\ v1' \in {"no", v1}
      /\ UNCHANGED <<v2, v4, v6, v7, v8, v10, v11, v12, v13, v14>>
    BY TransportFrames DEF Transport!ExitNoticed
<1>1. Transport!TypeOK'
    <2>1. v1' \in {"pending", "yes", "no"} /\ v9' \in {"starting", "up", "gone", "noticed"}
        BY <1>0, <1>u DEF Transport!TypeOK
    <2> QED
        BY <1>0, <1>u, <2>1 DEF Transport!TypeOK
<1>2. Transport!Continued'
    BY <1>u DEF Transport!Continued
<1> QED
    BY <1>0, <1>1, <1>2, <1>u, OnTheWayStays, ReportedStays, OutputStays, InputsStay, TransportParts

\* A line of the bridge is taken off its pipe.
LEMMA TransportArrives ==
    ASSUME Transport!Inductive, NEW what, Transport!Arrives(what), UNCHANGED <<v11, v12>>
    PROVE  Transport!Reported'
<1>1. Truthful(v8, Len(v11), v12) /\ Len(v11) \in Nat /\ v12 \in Nat
    BY TransportTypes
<1>2. v8 # <<>> /\ v8' = Tail(v8)
    BY DEF Transport!Arrives
<1>3. Truthful(v8', Len(v11), v12)
    BY <1>1, <1>2, LineTaken
<1>4. Transport!Reported' <=> Truthful(v8', Len(v11'), v12')
    BY SameCount, Zenon DEF Transport!Reported, Truthful, OutputsIn, LineSet
<1> QED
    BY <1>3, <1>4

\* The bridge is ready.
LEMMA TransportReady == Transport!Inductive /\ Transport!ReadyArrives => Transport!Inductive'
<1> SUFFICES ASSUME Transport!Inductive, Transport!ReadyArrives PROVE Transport!Inductive'
    OBVIOUS
<1>0. /\ Transport!TypeOK /\ Transport!Continued /\ Transport!OnTheWay /\ Transport!Reported
      /\ Transport!Numbered /\ Transport!InputsWhole /\ Transport!GapsAreTold
    BY DEF Transport!Inductive, Transport!StreamsWhole
<1>u. /\ Transport!Arrives("ready") /\ v1' \in {"yes", v1}
      /\ UNCHANGED <<v2, v3, v4, v5, v6, v7, v9, v10, v11, v12, v13, v14>>
    BY TransportFrames DEF Transport!ReadyArrives
<1>1. Transport!TypeOK'
    <2>1. v1' \in {"pending", "yes", "no"}
        BY <1>0, <1>u DEF Transport!TypeOK
    <2> QED
        BY <1>0, <1>u, <2>1 DEF Transport!TypeOK
<1>2. Transport!Continued'
    BY <1>0, <1>u, ContinuedStays
<1> QED
    BY <1>0, <1>1, <1>2, <1>u, OnTheWayStays, TransportArrives, OutputStays, InputsStay, TransportParts

\* Its exit is told in a line, too.
LEMMA TransportExitArrives == Transport!Inductive /\ Transport!ExitArrives => Transport!Inductive'
<1> SUFFICES ASSUME Transport!Inductive, Transport!ExitArrives PROVE Transport!Inductive'
    OBVIOUS
<1>0. /\ Transport!TypeOK /\ Transport!Continued /\ Transport!OnTheWay /\ Transport!Reported
      /\ Transport!Numbered /\ Transport!InputsWhole /\ Transport!GapsAreTold
    BY DEF Transport!Inductive, Transport!StreamsWhole
<1>u. /\ Transport!Arrives("exit") /\ v3' = FALSE
      /\ UNCHANGED <<v1, v2, v4, v5, v6, v7, v9, v10, v11, v12, v13, v14>>
    BY TransportFrames DEF Transport!ExitArrives
<1>1. Transport!TypeOK'
    BY <1>0, <1>u DEF Transport!TypeOK
<1>2. Transport!Continued'
    BY <1>0, <1>u, ContinuedStays
<1> QED
    BY <1>0, <1>1, <1>2, <1>u, OnTheWayStays, TransportArrives, OutputStays, InputsStay, TransportParts

\* A piece of output gets the next number, unless the session is over.
LEMMA TransportOutput == Transport!Inductive /\ Transport!OutputArrives => Transport!Inductive'
<1> SUFFICES ASSUME Transport!Inductive, Transport!OutputArrives PROVE Transport!Inductive'
    OBVIOUS
<1>0. /\ Transport!TypeOK /\ Transport!Continued /\ Transport!OnTheWay /\ Transport!Reported
      /\ Transport!Numbered /\ Transport!InputsWhole /\ Transport!GapsAreTold
    BY DEF Transport!Inductive, Transport!StreamsWhole
<1>u. /\ Transport!Arrives("output")
      /\ UNCHANGED <<v1, v2, v3, v4, v5, v6, v7, v9, v10, v11, v14>>
    BY TransportFrames DEF Transport!OutputArrives
<1>2. Transport!Continued'
    BY <1>0, <1>u, ContinuedStays
<1>3. CASE v2
    <2>1. UNCHANGED <<v12, v13>>
        BY <1>3, TransportFrames DEF Transport!OutputArrives
    <2>2. Transport!TypeOK'
        BY <1>0, <1>u, <2>1 DEF Transport!TypeOK
    <2> QED
        BY <1>0, <1>2, <1>u, <2>1, <2>2, OnTheWayStays, TransportArrives, OutputStays, InputsStay,
           TransportParts
<1>4. CASE ~v2
    <2> DEFINE size == Head(v8).value
    <2>1. v12' = v12 + 1 /\ v13' = Transport!Kept(Append(v13, [sequence |-> v12 + 1, size |-> size]))
        BY <1>4 DEF Transport!OutputArrives
    <2>2. v8 # <<>> /\ Head(v8).event = "output" /\ v8' = Tail(v8)
        BY <1>u DEF Transport!Arrives
    <2>3. /\ Truthful(v8, Len(v11), v12) /\ Len(v11) \in Nat /\ v12 \in Nat /\ v12 <= MaxOutputs
          /\ Latest(v13, v12)
        BY TransportTypes
    <2>4. size \in 1 .. MaxBytes /\ Truthful(v8', Len(v11), v12 + 1)
        BY <2>2, <2>3, LineTaken
    <2>5. v12 + 1 <= MaxOutputs
        <3>1. v8' \in Seq(LineSet) /\ (v12 + 1) + Cardinality(OutputsIn(v8')) <= MaxOutputs
            BY <2>4 DEF Truthful
        <3>2. Cardinality(OutputsIn(v8')) \in Nat
            BY <3>1, OutputsFinite
        <3> QED
            BY <2>3, <3>1, <3>2, Limits
    <2>6. v12 < MaxOutputs
        BY <2>3, <2>5, Limits
    <2> HIDE DEF size
    <2>7. Latest(v13', v12')
        BY <2>1, <2>3, <2>4, <2>6, KeptLatest
    <2>8. Transport!Reported'
        <3>1. Truthful(v8', Len(v11'), v12')
            BY <1>u, <2>1, <2>4
        <3> QED
            BY <3>1, SameCount, Zenon DEF Transport!Reported, Truthful, OutputsIn, LineSet
    <2>9. Transport!Numbered' /\ Transport!GapsAreTold'
        <3>1. 0 .. v12 \subseteq 0 .. v12' /\ 1 .. v12 \subseteq 1 .. v12'
            BY <2>1, <2>3
        <3>2. v14' \in [cursor : 0 .. v12', shows : SUBSET (1 .. v12'), truncated : BOOLEAN]
            BY <1>0, <1>u, <3>1 DEF Transport!Numbered
        <3> QED
            BY <1>0, <1>u, <2>7, <3>2 DEF Transport!Numbered, Transport!GapsAreTold, Latest
    <2>10. Transport!TypeOK'
        <3>1. v13' \in Seq([sequence : 1 .. MaxOutputs, size : 1 .. MaxBytes])
            BY <2>7 DEF Latest, Piece
        <3>2. v12' \in 0 .. MaxOutputs
            BY <2>1, <2>3, <2>5, Limits
        <3>3. v14.cursor' \in 0 .. v12' /\ v14.shows' \subseteq 1 .. v12'
            BY <2>9 DEF Transport!Numbered
        <3> QED
            BY <1>0, <1>u, <3>1, <3>2, <3>3 DEF Transport!TypeOK
    <2> QED
        BY <1>0, <1>2, <1>u, <2>8, <2>9, <2>10, OnTheWayStays, InputsStay, TransportParts
<1> QED
    BY <1>3, <1>4

\* A reply resolves a request that still waits, and then its input has been written.
LEMMA TransportReply == Transport!Inductive /\ Transport!ReplyArrives => Transport!Inductive'
<1> SUFFICES ASSUME Transport!Inductive, Transport!ReplyArrives PROVE Transport!Inductive'
    OBVIOUS
<1>0. /\ Transport!TypeOK /\ Transport!Continued /\ Transport!OnTheWay /\ Transport!Reported
      /\ Transport!Numbered /\ Transport!InputsWhole /\ Transport!GapsAreTold
    BY DEF Transport!Inductive, Transport!StreamsWhole
<1> DEFINE id == Head(v8).value
<1>u. /\ Transport!Arrives("reply")
      /\ v6' = (IF id \in v5 THEN v6 \cup {id} ELSE v6) /\ v5' = v5 \ {id}
      /\ UNCHANGED <<v1, v2, v3, v4, v7, v9, v10, v11, v12, v13, v14>>
    BY TransportFrames DEF Transport!ReplyArrives
<1>t. v5 \subseteq 1 .. v4 /\ v6 \subseteq 1 .. v4
    BY TransportTypes
<1>1. Transport!TypeOK'
    <2>1. v5' \subseteq 1 .. v4' /\ v6' \subseteq 1 .. v4'
        <3> HIDE DEF id
        <3> QED
            BY <1>t, <1>u
    <2> QED
        BY <1>0, <1>u, <2>1 DEF Transport!TypeOK
<1>2. Transport!Continued'
    BY <1>0, <1>u, ContinuedStays
<1>3. Transport!InputsWhole'
    <2>1. v8 # <<>> /\ Head(v8).event = "reply"
        BY <1>u DEF Transport!Arrives
    <2>2. Len(v11) >= id * InputBytes
        BY <2>1, LineTaken, TransportTypes
    <2> HIDE DEF id
    <2>3. \A x \in v6' : Len(v11) >= x * InputBytes
        BY <1>0, <1>u, <2>2 DEF Transport!InputsWhole
    <2> QED
        BY <1>0, <1>u, <2>3 DEF Transport!InputsWhole
<1> QED
    BY <1>0, <1>1, <1>2, <1>3, <1>u, OnTheWayStays, TransportArrives, OutputStays, TransportParts

\* An answer: the viewer shows more without a gap, or with one and is told.
LEMMA TransportRead == Transport!Inductive /\ Transport!Read => Transport!Inductive'
<1> SUFFICES ASSUME Transport!Inductive, Transport!Read PROVE Transport!Inductive'
    OBVIOUS
<1>0. /\ Transport!TypeOK /\ Transport!Continued /\ Transport!OnTheWay /\ Transport!Reported
      /\ Transport!Numbered /\ Transport!InputsWhole /\ Transport!GapsAreTold
    BY DEF Transport!Inductive, Transport!StreamsWhole
<1> DEFINE c == v14.cursor
           batch == Transport!Batch(c)
           got == {batch[k].sequence : k \in DOMAIN batch}
<1>u. UNCHANGED <<v1, v2, v3, v4, v5, v6, v7, v8, v9, v10, v11, v12, v13>>
    BY TransportFrames DEF Transport!Read
<1>v. v14' = [cursor |-> IF batch = <<>> THEN c ELSE Transport!Last(batch).sequence,
              shows |-> v14.shows \cup got,
              truncated |-> v14.truncated \/ Transport!Truncated(c)]
    BY DEF Transport!Read
<1>t. v12 \in Nat /\ Latest(v13, v12) /\ c \in 0 .. v12
    BY TransportTypes
<1>n. /\ v14 \in [cursor : 0 .. v12, shows : SUBSET (1 .. v12), truncated : BOOLEAN]
      /\ v14.shows \subseteq 1 .. c
      /\ v14.truncated <=> v14.shows # 1 .. c
    BY <1>0 DEF Transport!Numbered, Transport!GapsAreTold
<1> HIDE DEF batch
<1>b. \/ batch = <<>> /\ ~Transport!Truncated(c)
      \/ \E f, l \in Nat :
            /\ c < f /\ f <= l /\ l <= v12
            /\ batch # <<>>
            /\ Transport!Last(batch).sequence = l
            /\ got = f .. l
            /\ Transport!Truncated(c) <=> f # c + 1
    BY <1>t, BatchGoesOn DEF batch
<1> HIDE DEF got, c
<1>w. /\ v14' \in [cursor : 0 .. v12, shows : SUBSET (1 .. v12), truncated : BOOLEAN]
      /\ v14'.shows \subseteq 1 .. v14'.cursor
      /\ v14'.truncated <=> v14'.shows # 1 .. v14'.cursor
    <2>b. /\ v14.truncated \in BOOLEAN /\ Transport!Truncated(c) \in BOOLEAN
          /\ v14'.cursor = (IF batch = <<>> THEN c ELSE Transport!Last(batch).sequence)
          /\ v14'.shows = v14.shows \cup got
          /\ v14'.truncated = (v14.truncated \/ Transport!Truncated(c))
        BY <1>n, <1>v DEF Transport!Truncated
    <2>1. CASE batch = <<>> /\ ~Transport!Truncated(c)
        <3>1. got = {}
            <4>1. DOMAIN batch = {}
                BY <2>1
            <4> QED
                BY <4>1 DEF got
        <3>2. v14'.cursor = c /\ v14'.shows = v14.shows /\ (v14'.truncated <=> v14.truncated)
            BY <2>1, <2>b, <3>1
        <3>3. v14' = [cursor |-> v14'.cursor, shows |-> v14'.shows, truncated |-> v14'.truncated]
            BY <1>v
        <3>4. v14'.truncated \in BOOLEAN
            BY <2>b
        <3>5. v14.shows \subseteq 1 .. v12 /\ c \in 0 .. v12
            BY <1>n, <1>t
        <3> QED
            BY <1>n, <3>2, <3>3, <3>4, <3>5
    <2>2. ASSUME NEW f \in Nat, NEW l \in Nat, c < f, f <= l, l <= v12, batch # <<>>,
                 Transport!Last(batch).sequence = l, got = f .. l,
                 Transport!Truncated(c) <=> f # c + 1
          PROVE  /\ v14' \in [cursor : 0 .. v12, shows : SUBSET (1 .. v12), truncated : BOOLEAN]
                 /\ v14'.shows \subseteq 1 .. v14'.cursor
                 /\ v14'.truncated <=> v14'.shows # 1 .. v14'.cursor
        <3>1. v14'.cursor = l /\ v14'.shows = v14.shows \cup (f .. l)
            BY <2>2, <2>b
        <3>2. c \in Nat
            BY <1>t
        <3>3. /\ v14.shows \cup (f .. l) \subseteq 1 .. l
              /\ v14.shows \cup (f .. l) = 1 .. l <=> v14.shows = 1 .. c /\ f = c + 1
            <4>1. v14.shows \in SUBSET (1 .. c)
                BY <1>n
            <4>2. /\ c < f /\ f <= l /\ f \in Nat /\ l \in Nat
                BY <2>2
            <4>3. \A S \in SUBSET (1 .. c) :
                     /\ S \cup (f .. l) \subseteq 1 .. l
                     /\ S \cup (f .. l) = 1 .. l <=> S = 1 .. c /\ f = c + 1
                BY <3>2, <4>2, Gap
            <4> QED
                BY <4>1, <4>3, Zenon
        <3>4. 1 .. l \subseteq 1 .. v12 /\ l \in 0 .. v12
            BY <1>t, <2>2
        <3>5. v14'.truncated <=> v14'.shows # 1 .. v14'.cursor
            BY <1>n, <2>2, <2>b, <3>1, <3>3, Zenon
        <3>6. v14' = [cursor |-> v14'.cursor, shows |-> v14'.shows, truncated |-> v14'.truncated]
            BY <1>v
        <3>7. v14'.truncated \in BOOLEAN
            BY <2>b
        <3>8. v14'.shows \in SUBSET (1 .. v12) /\ v14'.shows \subseteq 1 .. v14'.cursor
            BY <3>1, <3>3, <3>4
        <3> QED
            BY <3>1, <3>4, <3>5, <3>6, <3>7, <3>8
    <2> QED
        BY <1>b, <2>1, <2>2
<1>1. Transport!TypeOK'
    <2>1. v14'.cursor \in 0 .. v12 /\ v14'.shows \subseteq 1 .. v12
        BY <1>w
    <2> QED
        BY <1>0, <1>u, <2>1 DEF Transport!TypeOK
<1>2. Transport!Numbered' /\ Transport!GapsAreTold'
    BY <1>0, <1>u, <1>w DEF Transport!Numbered, Transport!GapsAreTold
<1>3. Transport!Continued'
    BY <1>0, <1>u, ContinuedStays
<1> QED
    BY <1>0, <1>1, <1>2, <1>3, <1>u, OnTheWayStays, ReportedStays, InputsStay, TransportParts

\* A page that is loaded again begins at the beginning.
LEMMA TransportReload == Transport!Inductive /\ Transport!Reload => Transport!Inductive'
<1> SUFFICES ASSUME Transport!Inductive, Transport!Reload PROVE Transport!Inductive'
    OBVIOUS
<1>0. /\ Transport!TypeOK /\ Transport!Continued /\ Transport!OnTheWay /\ Transport!Reported
      /\ Transport!Numbered /\ Transport!InputsWhole /\ Transport!GapsAreTold
    BY DEF Transport!Inductive, Transport!StreamsWhole
<1>u. /\ UNCHANGED <<v1, v2, v3, v4, v5, v6, v7, v8, v9, v10, v11, v12, v13>>
      /\ v14' = [cursor |-> 0, shows |-> {}, truncated |-> FALSE]
    BY TransportFrames DEF Transport!Reload, Transport!Reloaded
<1>t. v12 \in Nat
    BY TransportTypes
<1>w. /\ v14'.cursor = 0 /\ v14'.shows = {} /\ v14'.truncated = FALSE
      /\ v14' \in [cursor : 0 .. v12, shows : SUBSET (1 .. v12), truncated : BOOLEAN]
    BY <1>t, <1>u
<1>1. Transport!TypeOK'
    <2>1. v14'.cursor \in 0 .. v12 /\ v14'.shows \subseteq 1 .. v12
        BY <1>t, <1>w
    <2> QED
        BY <1>0, <1>u, <2>1 DEF Transport!TypeOK
<1>2. Transport!Numbered' /\ Transport!GapsAreTold'
    <2>1. v14'.shows = 1 .. v14'.cursor
        BY <1>w
    <2> QED
        BY <1>0, <1>u, <1>w, <2>1 DEF Transport!Numbered, Transport!GapsAreTold
<1>3. Transport!Continued'
    BY <1>0, <1>u, ContinuedStays
<1> QED
    BY <1>0, <1>1, <1>2, <1>3, <1>u, OnTheWayStays, ReportedStays, InputsStay, TransportParts

\* A line of the bridge is put on its pipe.
LEMMA TransportEmits ==
    ASSUME Transport!Inductive, NEW event \in {"ready", "output", "reply", "exit"}, NEW value \in Nat,
           Transport!Emits(event, value), Len(v11') \in Nat, Len(v11) <= Len(v11'), UNCHANGED v12,
           event = "output" => value \in 1 .. MaxBytes /\ v12 + Cardinality(OutputsIn(v8)) < MaxOutputs,
           event = "reply" => Len(v11') >= value * InputBytes
    PROVE  Transport!Reported'
<1> DEFINE e == [event |-> event, value |-> value]
<1>1. v8' = Append(v8, e)
    BY DEF Transport!Emits
<1>2. e \in LineSet /\ e.event = event /\ e.value = value
    BY DEF LineSet
<1>3. Truthful(v8, Len(v11), v12) /\ Len(v11) \in Nat /\ v12 \in Nat
    BY TransportTypes
<1>4. Truthful(v8, Len(v11'), v12)
    BY <1>3, MoreWritten
<1> HIDE DEF e
<1>5. Truthful(v8', Len(v11'), v12)
    BY <1>1, <1>2, <1>3, <1>4, LineAdded
<1>6. Transport!Reported' <=> Truthful(v8', Len(v11'), v12')
    BY SameCount, Zenon DEF Transport!Reported, Truthful, OutputsIn, LineSet
<1> QED
    BY <1>5, <1>6

\* The bridge is up and says so.
LEMMA TransportStarts == Transport!Inductive /\ Transport!BridgeStarts => Transport!Inductive'
<1> SUFFICES ASSUME Transport!Inductive, Transport!BridgeStarts PROVE Transport!Inductive'
    OBVIOUS
<1>0. /\ Transport!TypeOK /\ Transport!Continued /\ Transport!OnTheWay /\ Transport!Reported
      /\ Transport!Numbered /\ Transport!InputsWhole /\ Transport!GapsAreTold
    BY DEF Transport!Inductive, Transport!StreamsWhole
<1>u. /\ v9 = "starting" /\ v9' = "up" /\ Transport!Emits("ready", 0)
      /\ UNCHANGED <<v1, v2, v3, v4, v5, v6, v7, v10, v11, v12, v13, v14>>
    BY TransportFrames DEF Transport!BridgeStarts
<1>1. Transport!TypeOK'
    BY <1>0, <1>u DEF Transport!TypeOK
<1>2. Transport!Continued'
    BY <1>0, <1>u, ContinuedStays
<1>3. Transport!Reported'
    <2>1. Len(v11) \in Nat
        BY TransportTypes
    <2> QED
        BY <1>u, <2>1, TransportEmits
<1> QED
    BY <1>0, <1>1, <1>2, <1>3, <1>u, OnTheWayStays, OutputStays, InputsStay, TransportParts

\* The bridge ends; what it had in hand and what was on its way to it is gone.
LEMMA TransportEnds == Transport!Inductive /\ Transport!BridgeEnds => Transport!Inductive'
<1> SUFFICES ASSUME Transport!Inductive, Transport!BridgeEnds PROVE Transport!Inductive'
    OBVIOUS
<1>0. /\ Transport!TypeOK /\ Transport!Continued /\ Transport!OnTheWay /\ Transport!Reported
      /\ Transport!Numbered /\ Transport!InputsWhole /\ Transport!GapsAreTold
    BY DEF Transport!Inductive, Transport!StreamsWhole
<1>u. /\ v9' = "gone" /\ v10' = <<>> /\ v7' = <<>> /\ (Transport!Emits("exit", 0) \/ UNCHANGED v8)
      /\ UNCHANGED <<v1, v2, v3, v4, v5, v6, v11, v12, v13, v14>>
    BY TransportFrames DEF Transport!BridgeEnds
<1>e. \A S : <<>> \in Seq(S)
    OBVIOUS
<1>1. Transport!TypeOK'
    <2>1. v10' \in Seq([id : 1 .. MaxInputs, left : 1 .. InputBytes])
        BY <1>e, <1>u
    <2> QED
        BY <1>0, <1>u, <2>1 DEF Transport!TypeOK
<1>2. Transport!Continued'
    BY <1>u DEF Transport!Continued
<1>3. Transport!OnTheWay'
    <2>1. DOMAIN v10' = {}
        BY <1>u
    <2> QED
        BY <1>e, <1>u, <2>1 DEF Transport!OnTheWay
<1>4. Transport!Reported'
    <2>1. Len(v11) \in Nat
        BY TransportTypes
    <2>2. CASE Transport!Emits("exit", 0)
        BY <1>u, <2>1, <2>2, TransportEmits
    <2>3. CASE UNCHANGED v8
        BY <1>0, <1>u, <2>3, ReportedStays
    <2> QED
        BY <1>u, <2>2, <2>3
<1> QED
    BY <1>0, <1>1, <1>2, <1>3, <1>4, <1>u, OutputStays, InputsStay, TransportParts

\* The shell prints something.
LEMMA TransportPrints ==
    ASSUME Transport!Inductive, NEW size \in 1 .. MaxBytes, Transport!ShellPrints(size)
    PROVE  Transport!Inductive'
<1>0. /\ Transport!TypeOK /\ Transport!Continued /\ Transport!OnTheWay /\ Transport!Reported
      /\ Transport!Numbered /\ Transport!InputsWhole /\ Transport!GapsAreTold
    BY DEF Transport!Inductive, Transport!StreamsWhole
<1>u. /\ Transport!Emits("output", size)
      /\ UNCHANGED <<v1, v2, v3, v4, v5, v6, v7, v9, v10, v11, v12, v13, v14>>
    BY TransportFrames DEF Transport!ShellPrints
<1>c. v12 + Cardinality(OutputsIn(v8)) < MaxOutputs
    BY SameCount, Zenon DEF Transport!ShellPrints, OutputsIn
<1>1. Transport!TypeOK'
    BY <1>0, <1>u DEF Transport!TypeOK
<1>2. Transport!Continued'
    BY <1>0, <1>u, ContinuedStays
<1>3. Transport!Reported'
    <2>1. Len(v11) \in Nat /\ size \in Nat
        BY TransportTypes, Limits
    <2> QED
        BY <1>c, <1>u, <2>1, TransportEmits
<1> QED
    BY <1>0, <1>1, <1>2, <1>3, <1>u, OnTheWayStays, OutputStays, InputsStay, TransportParts

\* The bridge takes the next input: it is the one after those it has.
LEMMA TransportTakes == Transport!Inductive /\ Transport!BridgeTakes => Transport!Inductive'
<1> SUFFICES ASSUME Transport!Inductive, Transport!BridgeTakes PROVE Transport!Inductive'
    OBVIOUS
<1>0. /\ Transport!TypeOK /\ Transport!Continued /\ Transport!OnTheWay /\ Transport!Reported
      /\ Transport!Numbered /\ Transport!InputsWhole /\ Transport!GapsAreTold
    BY DEF Transport!Inductive, Transport!StreamsWhole
<1> DEFINE e == [id |-> Head(v7), left |-> InputBytes]
           u == Len(v10)
<1>u. /\ v9 = "up" /\ v7 # <<>> /\ Head(v7) # 0
      /\ v10' = Append(v10, e) /\ v7' = Tail(v7)
      /\ UNCHANGED <<v1, v2, v3, v4, v5, v6, v8, v9, v11, v12, v13, v14>>
    BY TransportFrames DEF Transport!BridgeTakes
<1>t. /\ v4 \in Nat /\ v4 <= MaxInputs /\ v7 \in Seq(0 .. v4)
      /\ v10 \in Seq(Input) /\ u \in Nat /\ DOMAIN v10 = 1 .. u
      /\ \A k \in DOMAIN v10 : v10[k] \in Input /\ v10[k].id <= v4
      /\ Len(v11) \in Nat
    BY TransportTypes
<1>h. /\ Head(v7) = v7[1] /\ Head(v7) \in 0 .. v4 /\ Tail(v7) \in Seq(0 .. v4)
      /\ 1 \in DOMAIN v7 /\ Len(v7) \in Nat \ {0} /\ Len(Tail(v7)) = Len(v7) - 1
      /\ \A i \in DOMAIN Tail(v7) : i \in Nat /\ i + 1 \in DOMAIN v7 /\ Tail(v7)[i] = v7[i + 1]
    <2>1. v7 \in Seq(0 .. v4) /\ v7 # <<>>
        BY <1>t, <1>u
    <2>2. \A i \in DOMAIN Tail(v7) : i \in Nat
        BY <2>1, TakenOff
    <2> QED
        BY <2>1, <2>2, TakenOff
<1>e. e \in Input /\ e.id = Head(v7) /\ e.left = InputBytes /\ e.id <= v4
    BY <1>h, <1>t, <1>u, Limits DEF Input
<1> HIDE DEF e, u
<1>p. /\ v10' \in Seq(Input) /\ v10' # <<>> /\ Len(v10') = u + 1 /\ DOMAIN v10' = 1 .. u + 1
      /\ \A i \in DOMAIN v10 : v10'[i] = v10[i]
      /\ v10'[u + 1] = e
    <2> DEFINE a == Append(v10, e)
    <2>1. v10 \in Seq(Input) /\ e \in Input
        BY <1>e, <1>t
    <2>2. /\ a \in Seq(Input) /\ a # <<>> /\ Len(a) = Len(v10) + 1 /\ DOMAIN a = 1 .. Len(v10) + 1
          /\ \A i \in DOMAIN v10 : a[i] = v10[i]
          /\ a[Len(v10) + 1] = e
        BY <2>1, PutOn
    <2>3. v10' = a
        BY <1>u
    <2> HIDE DEF a
    <2> QED
        BY <2>2, <2>3 DEF u
<1>d. \A i \in DOMAIN v10' : i \in DOMAIN v10 \/ i = u + 1
    BY <1>p, <1>t
<1>1. Transport!TypeOK'
    <2>1. v10' \in Seq([id : 1 .. MaxInputs, left : 1 .. InputBytes])
        BY <1>p DEF Input
    <2> QED
        BY <1>0, <1>u, <2>1 DEF Transport!TypeOK
<1>2. Transport!Continued'
    <2>1. PICK n \in 0 .. v4 : Transport!Continues(n)
        BY <1>0, <1>u DEF Transport!Continued
    <2>n. n \in Nat
        BY <1>t
    <2>2. Head(v7) = n + u + 1
        BY <1>h, <1>u, <2>1 DEF Transport!Continues, u
    <2>m. \A i \in DOMAIN v10 : v10[i].id = n + i /\ (i > 1 => v10[i].left = InputBytes)
        BY <2>1, Zenon DEF Transport!Continues
    <2>3. ASSUME NEW i \in DOMAIN v10'
          PROVE  /\ v10'[i].id = n + i
                 /\ i > 1 => v10'[i].left = InputBytes
        <3>1. CASE i \in DOMAIN v10
            <4>1. v10[i].id = n + i /\ (i > 1 => v10[i].left = InputBytes)
                BY <2>m, <3>1
            <4>2. v10'[i] = v10[i]
                BY <1>p, <3>1
            <4> QED
                BY <4>1, <4>2
        <3>2. CASE i = u + 1
            <4>1. v10'[i].id = n + u + 1 /\ v10'[i].left = InputBytes
                BY <1>e, <1>p, <2>2, <3>2
            <4>2. n + u + 1 = n + i
                BY <1>t, <2>n, <3>2
            <4> QED
                BY <4>1, <4>2
        <3> QED
            BY <1>d, <3>1, <3>2
    <2>4. Len(v11) + v10'[1].left = (n + 1) * InputBytes
        <3>1. CASE v10 = <<>>
            <4>1. Len(v11) = n * InputBytes
                BY <2>1, <3>1 DEF Transport!Continues
            <4>2. u = 0
                BY <3>1 DEF u
            <4>3. v10'[1].left = InputBytes
                BY <1>e, <1>p, <4>2
            <4>4. n * InputBytes + InputBytes = (n + 1) * InputBytes
                BY <2>n, Limits
            <4> QED
                BY <4>1, <4>3, <4>4
        <3>2. CASE v10 # <<>>
            <4>1. Len(v11) + v10[1].left = (n + 1) * InputBytes
                BY <2>1, <3>2 DEF Transport!Continues
            <4>2. 1 \in DOMAIN v10
                BY <1>t, <3>2, TakenOff
            <4> QED
                BY <1>p, <4>1, <4>2
        <3> QED
            BY <3>1, <3>2
    <2>5. ASSUME NEW j \in DOMAIN v7'
          PROVE  v7'[j] \in {0, n + (u + 1) + j}
        <3>1. j \in Nat /\ j + 1 \in DOMAIN v7 /\ v7'[j] = v7[j + 1]
            BY <1>h, <1>u
        <3>2. v7[j + 1] \in {0, n + u + (j + 1)}
            BY <2>1, <3>1 DEF Transport!Continues, u
        <3>3. n + u + (j + 1) = n + (u + 1) + j
            BY <1>t, <2>n, <3>1
        <3> QED
            BY <3>1, <3>2, <3>3
    <2>6. v2 \/ v4 = n + (u + 1) + Len(v7')
        <3> SUFFICES ASSUME ~v2 PROVE v4 = n + (u + 1) + Len(v7')
            OBVIOUS
        <3>1. v4 = n + u + Len(v7)
            BY <2>1 DEF Transport!Continues, u
        <3>2. Len(v7') = Len(v7) - 1
            BY <1>h, <1>u
        <3> QED
            BY <1>h, <1>t, <2>n, <3>1, <3>2
    <2>7. Transport!Continues(n)'
        BY <1>p, <1>u, <2>3, <2>4, <2>5, <2>6 DEF Transport!Continues
    <2> QED
        BY <1>u, <2>7 DEF Transport!Continued
<1>3. Transport!OnTheWay'
    <2>1. ASSUME NEW k \in DOMAIN v10'
          PROVE  v10'[k].id <= v4
        <3>1. CASE k \in DOMAIN v10
            BY <1>p, <1>t, <3>1
        <3>2. CASE k = u + 1
            BY <1>e, <1>p, <3>2
        <3> QED
            BY <1>d, <3>1, <3>2
    <2> QED
        BY <1>h, <1>u, <2>1 DEF Transport!OnTheWay
<1> QED
    BY <1>0, <1>1, <1>2, <1>3, <1>u, ReportedStays, OutputStays, InputsStay, TransportParts

\* Some bytes of the input in hand are written: they are the next of the stream.
LEMMA TransportWrites == Transport!Inductive /\ Transport!BridgeWrites => Transport!Inductive'
<1> SUFFICES ASSUME Transport!Inductive, Transport!BridgeWrites PROVE Transport!Inductive'
    OBVIOUS
<1>0. /\ Transport!TypeOK /\ Transport!Continued /\ Transport!OnTheWay /\ Transport!Reported
      /\ Transport!Numbered /\ Transport!InputsWhole /\ Transport!GapsAreTold
    BY DEF Transport!Inductive, Transport!StreamsWhole
<1>t. /\ v4 \in Nat /\ v10 \in Seq(Input) /\ Len(v10) \in Nat /\ DOMAIN v10 = 1 .. Len(v10)
      /\ \A k \in DOMAIN v10 : v10[k] \in Input /\ v10[k].id <= v4
      /\ v11 \in Seq(1 .. MaxInputs) /\ Len(v11) \in Nat /\ DOMAIN v11 = 1 .. Len(v11)
    BY TransportTypes
<1> DEFINE b == InputBytes
           u == Len(v10)
           w == Len(v11)
           id == Head(v10).id
           left == Head(v10).left
<1>u. v9 = "up" /\ v10 # <<>> /\ UNCHANGED <<v1, v2, v3, v4, v5, v6, v7, v9, v12, v13, v14>>
    BY TransportFrames DEF Transport!BridgeWrites
<1>b. b \in Nat \ {0} /\ MaxInputs \in Nat
    BY Limits
<1>h. /\ Head(v10) = v10[1] /\ 1 \in DOMAIN v10 /\ u \in Nat \ {0}
      /\ Tail(v10) \in Seq(Input) /\ Len(Tail(v10)) = u - 1 /\ DOMAIN Tail(v10) = 1 .. u - 1
      /\ \A i \in DOMAIN Tail(v10) : i + 1 \in DOMAIN v10 /\ Tail(v10)[i] = v10[i + 1]
    <2>1. v10 \in Seq(Input) /\ v10 # <<>>
        BY <1>t, <1>u
    <2> QED
        BY <2>1, TakenOff
<1>i. v10[1].id = id /\ v10[1].left = left /\ id \in 1 .. MaxInputs /\ left \in 1 .. b /\ v10[1] \in Input
    BY <1>h, <1>t DEF Input
<1>m. PICK m \in 1 .. left :
          /\ v11' = v11 \o [k \in 1 .. m |-> id]
          /\ IF m = left THEN v10' = Tail(v10) /\ Transport!Emits("reply", id)
             ELSE v10' = [v10 EXCEPT ![1].left = left - m] /\ UNCHANGED v8
    <2>1. v10[1].left = left
        BY <1>i
    <2> QED
        BY <2>1 DEF Transport!BridgeWrites, Transport!Rest
<1>n. PICK n \in 0 .. v4 : Transport!Continues(n)
    BY <1>0, <1>u DEF Transport!Continued
<1>c. /\ \A i \in DOMAIN v10 : v10[i].id = n + i /\ (i > 1 => v10[i].left = b)
      /\ w + left = (n + 1) * b
      /\ \A j \in DOMAIN v7 : v7[j] \in {0, n + u + j}
      /\ v2 \/ v4 = n + u + Len(v7)
    <2>1. /\ \A i \in DOMAIN v10 : v10[i].id = n + i /\ (i > 1 => v10[i].left = b)
          /\ Len(v11) + v10[1].left = (n + 1) * b
          /\ \A j \in DOMAIN v7 : v7[j] \in {0, n + Len(v10) + j}
          /\ v2 \/ v4 = n + Len(v10) + Len(v7)
        BY <1>n, <1>u, Zenon DEF Transport!Continues
    <2> QED
        BY <1>i, <2>1
<1>N. n \in Nat /\ n <= v4 /\ w \in Nat /\ left \in Nat /\ m \in Nat \ {0} /\ m <= left /\ left <= b
    BY <1>b, <1>i, <1>m, <1>t
<1>I. id = n + 1
    BY <1>c, <1>h, <1>i
<1> HIDE DEF b, u, w, id, left
<1>r. w < (n + 1) * b /\ n * b <= w /\ w + m <= (n + 1) * b /\ (n + 1) * b \in Nat /\ n * b \in Nat
    <2>1. (n + 1) * b = n * b + b /\ n * b \in Nat
        BY <1>b, <1>N
    <2> DEFINE p == n * b
    <2>2. p \in Nat /\ w + left = p + b
        BY <1>c, <2>1
    <2> HIDE DEF p
    <2>3. w < p + b /\ p <= w /\ w + m <= p + b /\ p + b \in Nat
        BY <1>b, <1>N, <2>2
    <2> QED
        BY <2>1, <2>3 DEF p
<1>w. /\ v11' \in Seq(1 .. MaxInputs) /\ Len(v11') = w + m /\ DOMAIN v11' = 1 .. w + m
      /\ \A k \in 1 .. w + m : v11'[k] = IF k <= w THEN v11[k] ELSE id
    <2> DEFINE more == [k \in 1 .. m |-> id]
    <2>1. more \in [1 .. m -> 1 .. MaxInputs]
        BY <1>i
    <2>2. more \in Seq(1 .. MaxInputs) /\ Len(more) = m
        BY <1>N, <2>1
    <2>3. v11 \in Seq(1 .. MaxInputs)
        BY <1>t
    <2>x. \A k \in 1 .. m : more[k] = id
        OBVIOUS
    <2> HIDE DEF more
    <2>4. /\ v11 \o more \in Seq(1 .. MaxInputs) /\ Len(v11 \o more) = w + m
          /\ \A k \in 1 .. w + m : (v11 \o more)[k] = IF k <= w THEN v11[k] ELSE more[k - w]
        BY <2>2, <2>3, ConcatProperties DEF w
    <2>5. v11' = v11 \o more
        BY <1>m DEF more
    <2>6. DOMAIN v11' = 1 .. Len(v11')
        BY <2>4, <2>5, LenProperties
    <2>7. \A k \in 1 .. w + m : k <= w \/ k - w \in 1 .. m
        BY <1>N
    <2> QED
        BY <2>4, <2>5, <2>6, <2>7, <2>x
<1>1. Transport!InputsWhole'
    <2>0. /\ \A k \in DOMAIN v11 : v11[k] = ((k - 1) \div b) + 1
          /\ \A x \in v6 : w >= x * b
        BY <1>0 DEF Transport!InputsWhole, b, w
    <2>1. ASSUME NEW k \in 1 .. w + m
          PROVE  v11'[k] = ((k - 1) \div b) + 1
        <3>1. CASE k <= w
            <4>1. k \in DOMAIN v11
                BY <1>t, <3>1 DEF w
            <4> QED
                BY <1>w, <2>0, <3>1, <4>1
        <3>2. CASE ~ (k <= w)
            <4>1. k - 1 \in Nat /\ w <= k - 1 /\ k - 1 < w + m
                BY <1>N, <3>2
            <4>2. n * b <= k - 1 /\ k - 1 < (n + 1) * b
                <5> DEFINE p == n * b
                           q == (n + 1) * b
                <5>1. p \in Nat /\ q \in Nat /\ p <= w /\ w + m <= q
                    BY <1>r
                <5> HIDE DEF p, q
                <5>2. p <= k - 1 /\ k - 1 < q
                    BY <1>N, <4>1, <5>1
                <5> QED
                    BY <5>2 DEF p, q
            <4>3. (k - 1) \div b = n
                BY <1>b, <1>N, <4>1, <4>2, Divided
            <4> QED
                BY <1>I, <1>w, <3>2, <4>3
        <3> QED
            BY <3>1, <3>2
    <2>2. ASSUME NEW x \in v6
          PROVE  w + m >= x * b
        <3>1. x \in Nat
            <4>1. v6 \subseteq 1 .. v4
                BY TransportTypes
            <4> QED
                BY <1>t, <4>1
        <3>2. x * b \in Nat /\ w >= x * b
            BY <1>b, <2>0, <3>1
        <3> DEFINE p == x * b
        <3>3. p \in Nat /\ w >= p
            BY <3>2
        <3> HIDE DEF p
        <3>4. w + m >= p
            BY <1>N, <3>3
        <3> QED
            BY <3>4 DEF p
    <2>3. /\ \A k \in DOMAIN v11' : v11'[k] = ((k - 1) \div InputBytes) + 1
          /\ \A x \in v6' : Len(v11') >= x * InputBytes
        BY <1>u, <1>w, <2>1, <2>2 DEF b
    <2> QED
        BY <2>3 DEF Transport!InputsWhole
<1>2. CASE m = left
    <2>1. v10' = Tail(v10) /\ Transport!Emits("reply", id)
        BY <1>m, <1>2
    <2>2. Len(v11') = (n + 1) * b
        BY <1>2, <1>c, <1>w
    <2>3. Transport!Reported'
        <3>1. id \in Nat /\ Len(v11') >= id * InputBytes
            BY <1>I, <1>N, <1>r, <2>2 DEF b
        <3>2. Len(v11') \in Nat /\ Len(v11) <= Len(v11')
            BY <1>N, <1>w DEF w
        <3> QED
            BY <1>u, <2>1, <3>1, <3>2, TransportEmits
    <2>4. \A i \in DOMAIN v10' : i \in Nat \ {0} /\ i + 1 \in DOMAIN v10 /\ v10'[i] = v10[i + 1]
        BY <1>h, <2>1
    <2>5. Transport!TypeOK'
        <3>1. v10' \in Seq([id : 1 .. MaxInputs, left : 1 .. InputBytes])
            BY <1>h, <2>1 DEF Input
        <3> QED
            BY <1>0, <1>u, <1>w, <3>1 DEF Transport!TypeOK
    <2>6. Transport!OnTheWay'
        <3>1. \A k \in DOMAIN v10' : v10'[k].id <= v4
            BY <1>t, <2>4
        <3> QED
            BY <1>0, <1>u, <3>1 DEF Transport!OnTheWay
    <2>7. Transport!Continued'
        <3>1. n + 1 \in 0 .. v4
            <4>1. id <= v4
                BY <1>h, <1>i, <1>t
            <4> QED
                BY <1>I, <1>N, <1>t, <4>1
        <3>2. ASSUME NEW i \in DOMAIN v10'
              PROVE  v10'[i].id = (n + 1) + i /\ (i > 1 => v10'[i].left = b) /\ v10'[i].left = b
            <4>1. i \in Nat \ {0} /\ i + 1 \in DOMAIN v10 /\ v10'[i] = v10[i + 1]
                BY <2>4
            <4>2. v10[i + 1].id = n + (i + 1) /\ v10[i + 1].left = b
                BY <1>c, <4>1
            <4>3. n + (i + 1) = (n + 1) + i
                BY <1>N, <4>1
            <4> QED
                BY <4>1, <4>2, <4>3
        <3>3. IF v10' = <<>> THEN Len(v11') = (n + 1) * b
              ELSE Len(v11') + v10'[1].left = ((n + 1) + 1) * b
            <4>1. CASE v10' = <<>>
                BY <2>2, <4>1
            <4>2. CASE v10' # <<>>
                <5>1. 1 \in DOMAIN v10'
                    BY <1>h, <2>1, <4>2, TakenOff
                <5>2. v10'[1].left = b
                    BY <3>2, <5>1
                <5>3. (n + 1) * b + b = ((n + 1) + 1) * b
                    BY <1>b, <1>N
                <5> QED
                    BY <2>2, <4>2, <5>2, <5>3
            <4> QED
                BY <4>1, <4>2
        <3>4. Len(v10') = u - 1
            BY <1>h, <2>1
        <3>5. ASSUME NEW j \in DOMAIN v7'
              PROVE  v7'[j] \in {0, (n + 1) + Len(v10') + j}
            <4>1. v7'[j] \in {0, n + u + j}
                BY <1>c, <1>u
            <4>2. j \in Nat
                <5>1. v7 \in Seq(0 .. v4)
                    BY TransportTypes
                <5>2. DOMAIN v7 = 1 .. Len(v7) /\ Len(v7) \in Nat
                    BY <5>1, LenProperties
                <5> QED
                    BY <1>u, <5>2
            <4>3. (n + 1) + (u - 1) + j = n + u + j
                BY <1>h, <1>N, <4>2
            <4> QED
                BY <3>4, <4>1, <4>3
        <3>6. v2' \/ v4' = (n + 1) + Len(v10') + Len(v7')
            <4>1. (n + 1) + (u - 1) = n + u
                BY <1>h, <1>N
            <4> QED
                BY <1>c, <1>u, <3>4, <4>1
        <3>7. Transport!Continues(n + 1)'
            <4>1. /\ \A i \in DOMAIN v10' : /\ v10'[i].id = (n + 1) + i
                                            /\ i > 1 => v10'[i].left = InputBytes
                  /\ IF v10' = <<>> THEN Len(v11') = (n + 1) * InputBytes
                     ELSE Len(v11') + v10'[1].left = ((n + 1) + 1) * InputBytes
                BY <3>2, <3>3 DEF b
            <4> QED
                BY <3>5, <3>6, <4>1, Zenon DEF Transport!Continues
        <3> QED
            BY <1>u, <3>1, <3>7 DEF Transport!Continued
    <2> QED
        BY <1>0, <1>1, <1>u, <2>3, <2>5, <2>6, <2>7, OutputStays, TransportParts
<1>3. CASE m # left
    <2>1. v10' = [v10 EXCEPT ![1].left = left - m] /\ UNCHANGED v8
        BY <1>m, <1>3
    <2>l. left - m \in 1 .. b
        BY <1>3, <1>N, <1>b
    <2> DEFINE e == [v10[1] EXCEPT !.left = left - m]
    <2>e. e \in Input /\ e.id = v10[1].id /\ e.left = left - m
        <3>1. v10[1] \in [id : 1 .. MaxInputs, left : 1 .. InputBytes]
            BY <1>i DEF Input
        <3>2. left - m \in 1 .. InputBytes
            BY <2>l DEF b
        <3> QED
            BY <3>1, <3>2 DEF Input
    <2>2. v10' = [v10 EXCEPT ![1] = e]
        BY <2>1
    <2> HIDE DEF e
    <2>3. /\ v10' \in Seq(Input) /\ Len(v10') = u
          /\ \A j \in 1 .. u : v10'[j] = IF j = 1 THEN e ELSE v10[j]
        <3>1. 1 \in 1 .. Len(v10)
            BY <1>h, <1>t
        <3> QED
            BY <1>t, <2>2, <2>e, <3>1, ExceptSeq DEF u
    <2>4. DOMAIN v10' = DOMAIN v10 /\ v10' # <<>>
        <3>1. DOMAIN v10' = 1 .. u /\ DOMAIN v10 = 1 .. u
            BY <1>t, <2>3, LenProperties DEF u
        <3>2. v10' # <<>>
            BY <1>h, <2>3, EmptySeq
        <3> QED
            BY <3>1, <3>2
    <2>5. \A i \in DOMAIN v10' : v10'[i].id = v10[i].id /\ (i > 1 => v10'[i].left = v10[i].left)
        <3>1. \A i \in DOMAIN v10' : i \in 1 .. u
            BY <1>t, <2>4 DEF u
        <3> QED
            BY <2>3, <2>e, <3>1
    <2>6. v10'[1].left = left - m
        <3>1. 1 \in 1 .. u
            BY <1>h
        <3> QED
            BY <2>3, <2>e, <3>1
    <2>7. Transport!TypeOK'
        <3>1. v10' \in Seq([id : 1 .. MaxInputs, left : 1 .. InputBytes])
            BY <2>3 DEF Input
        <3> QED
            BY <1>0, <1>u, <1>w, <3>1 DEF Transport!TypeOK
    <2>8. Transport!OnTheWay'
        <3>1. \A k \in DOMAIN v10' : v10'[k].id <= v4
            BY <1>t, <2>4, <2>5
        <3> QED
            BY <1>0, <1>u, <3>1 DEF Transport!OnTheWay
    <2>9. Transport!Reported'
        <3>1. Truthful(v8, w, v12) /\ v12 \in Nat
            BY TransportTypes DEF w
        <3>2. w + m \in Nat /\ w <= w + m
            BY <1>N
        <3>3. Truthful(v8, w + m, v12)
            BY <1>N, <3>1, <3>2, MoreWritten
        <3>4. Truthful(v8', Len(v11'), v12')
            BY <1>u, <1>w, <2>1, <3>3
        <3> QED
            BY <3>4, SameCount, Zenon DEF Transport!Reported, Truthful, OutputsIn, LineSet
    <2>10. Transport!Continued'
        <3>1. Len(v11') + v10'[1].left = (n + 1) * b
            <4>1. (w + m) + (left - m) = w + left
                BY <1>N
            <4> QED
                BY <1>c, <1>w, <2>6, <4>1
        <3>2. \A i \in DOMAIN v10' : v10'[i].id = n + i /\ (i > 1 => v10'[i].left = b)
            BY <1>c, <2>4, <2>5
        <3>3. /\ \A j \in DOMAIN v7' : v7'[j] \in {0, n + Len(v10') + j}
              /\ v2' \/ v4' = n + Len(v10') + Len(v7')
            BY <1>c, <1>u, <2>3
        <3>4. Transport!Continues(n)'
            <4>1. /\ \A i \in DOMAIN v10' : /\ v10'[i].id = n + i
                                            /\ i > 1 => v10'[i].left = InputBytes
                  /\ IF v10' = <<>> THEN Len(v11') = n * InputBytes
                     ELSE Len(v11') + v10'[1].left = (n + 1) * InputBytes
                BY <2>4, <3>1, <3>2 DEF b
            <4> QED
                BY <3>3, <4>1, Zenon DEF Transport!Continues
        <3> QED
            BY <1>u, <3>4 DEF Transport!Continued
    <2> QED
        BY <1>0, <1>1, <1>u, <2>7, <2>8, <2>9, <2>10, OutputStays, TransportParts
<1> QED
    BY <1>2, <1>3

\* No step breaks the invariant.
LEMMA TransportStep == Transport!Inductive /\ Transport!Next => Transport!Inductive'
<1> SUFFICES ASSUME Transport!Inductive, Transport!Next PROVE Transport!Inductive'
    OBVIOUS
<1>1. ASSUME NEW size \in 1 .. MaxBytes, Transport!ShellPrints(size)
      PROVE  Transport!Inductive'
    BY <1>1, TransportPrints
<1> QED
    BY <1>1, TransportRequest, TransportClose, TransportExitNoticed, TransportReady, TransportOutput,
       TransportReply, TransportExitArrives, TransportRead, TransportReload, TransportStarts,
       TransportEnds, TransportTakes, TransportWrites DEF Transport!Next

\* Nor does a step of another part.
LEMMA TransportStays == Transport!Inductive /\ UNCHANGED Transport!vars => Transport!Inductive'
<1> SUFFICES ASSUME Transport!Inductive, UNCHANGED Transport!vars PROVE Transport!Inductive'
    OBVIOUS
<1>0. /\ Transport!TypeOK /\ Transport!Continued /\ Transport!OnTheWay /\ Transport!Reported
      /\ Transport!Numbered /\ Transport!InputsWhole /\ Transport!GapsAreTold
    BY DEF Transport!Inductive, Transport!StreamsWhole
<1>u. UNCHANGED <<v1, v2, v3, v4, v5, v6, v7, v8, v9, v10, v11, v12, v13, v14>>
    BY TransportFrames DEF Transport!vars
<1>1. Transport!TypeOK'
    BY <1>0, <1>u DEF Transport!TypeOK
<1>2. Transport!Continued'
    BY <1>0, <1>u, ContinuedStays
<1> QED
    BY <1>0, <1>1, <1>2, <1>u, OnTheWayStays, ReportedStays, OutputStays, InputsStay, TransportParts

\* The invariant of the two ends of a pipe.
LEMMA TransportHolds == ServicesSpec => [](part = "transport" => Transport!Inductive)
<1> DEFINE Inv == part = "transport" => Transport!Inductive
<1>1. ServicesInit => Inv
    BY TransportInit DEF ServicesInit
<1>2. Inv /\ [ServicesNext]_partVars => Inv'
    <2> SUFFICES ASSUME Inv, [ServicesNext]_partVars, part' = "transport"
                 PROVE  Transport!Inductive'
        OBVIOUS
    <2>1. CASE UNCHANGED partVars
        <3>1. UNCHANGED Transport!vars /\ part = "transport"
            BY <2>1 DEF partVars, Transport!vars, Transport!broker, Transport!container, Transport!output
        <3> QED
            BY <3>1, TransportStays
    <2>2. CASE ServicesNext
        BY <2>2, TransportStep DEF ServicesNext
    <2> QED
        BY <2>1, <2>2
<1> QED
    BY <1>1, <1>2, PTL DEF ServicesSpec

\* For any number and size of inputs and any limits, the PTY gets the inputs whole and in order,
\* what was acknowledged it has got, and a viewer is told of output it does not show exactly when
\* there is some (pty-bridge.py:53-62, transport.mjs:48-80).
THEOREM Whole == ServicesSpec => []StreamsWhole
<1>1. (part = "transport" => Transport!Inductive) => StreamsWhole
    BY DEF StreamsWhole, Transport!Inductive
<1> QED
    BY <1>1, TransportHolds, PTL

------------------------------------------------------------------------------
(* BrowserClient: its types.                                                 *)

\* What the types say of each variable but the queue and the request, which the invariant has.
BrowserTyped ==
    /\ v1 \subseteq Tabs /\ v2 \in {"none", "connecting", "open"}
    /\ v3 \in Tabs \cup {NoTab} /\ v4 \in Tabs \cup {NoTab} /\ v9 \in Tabs \cup {NoTab}
    /\ v5 \in Seq(Tabs) /\ Len(v5) <= Remembered /\ v6 \in BOOLEAN
    /\ Len(v7) <= MaxQueued

\* The two together are the types.
LEMMA BrowserTypes == Browser!Inductive => (Browser!TypeOK <=> BrowserTyped)
BY DEF Browser!Inductive, Browser!Staged, Browser!TypeOK, BrowserTyped

\* The tab a lost connection is made to again is one that is open.
LEMMA BrowserRecovers ==
    ASSUME BrowserTyped
    PROVE  Browser!Recovered \subseteq Tabs
<1> DEFINE left == {k \in DOMAIN v5 : v5[k] \in v1}
           n == Len(v5)
<1>1. v5 \in Seq(Tabs) /\ n \in Nat /\ DOMAIN v5 = 1 .. n /\ v1 \subseteq Tabs
    BY LenProperties DEF BrowserTyped
<1>2. left \in SUBSET (0 .. n)
    BY <1>1
<1> HIDE DEF left, n
<1>3. CASE left # {}
    <2>1. Transport!Max(left) \in left
        BY <1>1, <1>2, <1>3, Greatest
    <2>2. Browser!Max(left) = Transport!Max(left)
        BY DEF Browser!Max, Transport!Max
    <2>3. v5[Browser!Max(left)] \in v1
        BY <2>1, <2>2 DEF left
    <2>4. Browser!Recovered = {v5[Browser!Max(left)]}
        BY <1>3 DEF Browser!Recovered, left
    <2> QED
        BY <1>1, <2>3, <2>4
<1>4. CASE left = {}
    <2>1. Browser!Recovered = IF v4 \in v1 THEN {v4} ELSE v1
        BY <1>4 DEF Browser!Recovered, left
    <2> QED
        BY <1>1, <2>1
<1> QED
    BY <1>3, <1>4

\* No more tabs are remembered than may be.
LEMMA BrowserRemembers ==
    ASSUME BrowserTyped, NEW t \in Tabs
    PROVE  Browser!Remember(t) \in Seq(Tabs) /\ Len(Browser!Remember(t)) <= Remembered
<1> DEFINE longer == IF v5 # <<>> /\ Browser!Last(v5) = t THEN v5 ELSE Append(v5, t)
           n == Len(longer)
<1>1. v5 \in Seq(Tabs) /\ Len(v5) <= Remembered /\ Remembered \in Nat
    BY LimitsAssumption DEF BrowserTyped
<1>2. longer \in Seq(Tabs) /\ n \in Nat /\ n <= Remembered + 1
    <2>1. Append(v5, t) \in Seq(Tabs) /\ Len(v5) \in Nat /\ Len(Append(v5, t)) = Len(v5) + 1
        BY <1>1, PutOn
    <2>2. longer \in {v5, Append(v5, t)}
        OBVIOUS
    <2> HIDE DEF longer
    <2>3. CASE longer = v5
        BY <1>1, <2>1, <2>3
    <2>4. CASE longer = Append(v5, t)
        BY <1>1, <2>1, <2>4
    <2> QED
        BY <2>2, <2>3, <2>4
<1>3. Browser!Remember(t) = IF n > Remembered THEN Tail(longer) ELSE longer
    BY DEF Browser!Remember
<1> HIDE DEF longer
<1>4. CASE n > Remembered
    <2>1. longer # <<>>
        BY <1>1, <1>4, EmptySeq
    <2>2. Tail(longer) \in Seq(Tabs) /\ Len(Tail(longer)) = n - 1
        BY <1>2, <2>1, TakenOff
    <2>3. n - 1 <= Remembered
        BY <1>1, <1>2
    <2> QED
        BY <1>3, <1>4, <2>2, <2>3
<1>5. CASE ~ (n > Remembered)
    BY <1>1, <1>2, <1>3, <1>5
<1> QED
    BY <1>4, <1>5

\* Every step keeps the types.
LEMMA BrowserTypesStep ==
    ASSUME Browser!Inductive, BrowserTyped, Browser!Next
    PROVE  BrowserTyped'
<1>0. /\ v1 \subseteq Tabs /\ v2 \in {"none", "connecting", "open"}
      /\ v3 \in Tabs \cup {NoTab} /\ v4 \in Tabs \cup {NoTab} /\ v9 \in Tabs \cup {NoTab}
      /\ v5 \in Seq(Tabs) /\ Len(v5) <= Remembered /\ v6 \in BOOLEAN
      /\ Len(v7) <= MaxQueued /\ MaxQueued \in Nat /\ v7 \in Seq(Browser!Lines)
    BY LimitsAssumption DEF BrowserTyped, Browser!Inductive, Browser!Staged
<1>k. ASSUME UNCHANGED <<v1, v5, v7>>, v2' \in {"none", "connecting", "open"},
             v3' \in Tabs \cup {NoTab}, v4' \in Tabs \cup {NoTab}, v9' \in Tabs \cup {NoTab},
             v6' \in BOOLEAN
      PROVE  BrowserTyped'
    BY <1>0, <1>k DEF BrowserTyped
<1>f. ASSUME Browser!Fail
      PROVE  BrowserTyped'
    BY <1>0, <1>k, <1>f DEF Browser!Fail
<1>a. ASSUME Browser!Answer
      PROVE  BrowserTyped'
    BY <1>0, <1>k, <1>a DEF Browser!Answer
<1>p. ASSUME NEW at, Browser!Proceed(at)
      PROVE  BrowserTyped'
    BY <1>0, <1>k, <1>p DEF Browser!Proceed
<1>1. ASSUME NEW line \in Browser!Lines, Browser!Ask(line)
      PROVE  BrowserTyped'
    <2>1. /\ v7' = Append(v7, line) /\ Len(v7) < MaxQueued
          /\ UNCHANGED <<v1, v2, v3, v4, v5, v6, v9>>
        BY <1>1 DEF Browser!Ask
    <2>2. Len(v7) \in Nat /\ Len(Append(v7, line)) = Len(v7) + 1
        BY <1>0, PutOn
    <2>3. Len(v7') <= MaxQueued
        BY <1>0, <2>1, <2>2
    <2> QED
        BY <1>0, <2>1, <2>3 DEF BrowserTyped
<1>2. ASSUME NEW t \in Tabs, Browser!TabOpens(t) \/ Browser!TabCloses(t)
      PROVE  BrowserTyped'
    <2>1. v1' \subseteq Tabs /\ UNCHANGED <<v2, v3, v4, v5, v6, v7, v9>>
        BY <1>0, <1>2 DEF Browser!TabOpens, Browser!TabCloses
    <2> QED
        BY <1>0, <2>1 DEF BrowserTyped
<1>3. CASE Browser!Handle
    <2>1. v7 # <<>> /\ v7' = Tail(v7) /\ UNCHANGED <<v1, v2, v3, v4, v5, v6, v9>>
        BY <1>3 DEF Browser!Handle
    <2>2. Len(v7) \in Nat /\ Len(Tail(v7)) = Len(v7) - 1
        BY <1>0, <2>1, TakenOff
    <2>3. Len(v7') <= MaxQueued
        BY <1>0, <2>1, <2>2
    <2> QED
        BY <1>0, <2>1, <2>3 DEF BrowserTyped
<1>4. CASE Browser!Interrupted
    BY <1>4, <1>f DEF Browser!Interrupted
<1>5. CASE Browser!Attach
    <2>1. /\ v3' \in IF v8.recovering THEN Browser!Recovered ELSE Browser!Selected(v8.line)
          /\ v2' = "connecting" /\ UNCHANGED <<v1, v4, v5, v6, v7, v9>>
        BY <1>5 DEF Browser!Attach
    <2>2. Browser!Recovered \subseteq Tabs
        BY BrowserRecovers
    <2>3. Browser!Selected(v8.line) \subseteq v1
        BY DEF Browser!Selected
    <2>4. v3' \in Tabs
        BY <1>0, <2>1, <2>2, <2>3
    <2> QED
        BY <1>0, <1>k, <2>1, <2>4
<1>6. CASE Browser!Opened
    <2>1. /\ v3 \in v1 /\ v2' = "open" /\ v4' = v3 /\ v5' = Browser!Remember(v3) /\ v6' = FALSE
          /\ UNCHANGED <<v1, v3, v7, v9>>
        BY <1>6 DEF Browser!Opened
    <2>2. v5' \in Seq(Tabs) /\ Len(v5') <= Remembered
        BY <1>0, <2>1, BrowserRemembers
    <2> QED
        BY <1>0, <2>1, <2>2 DEF BrowserTyped
<1>7. CASE Browser!Fronted
    BY <1>7, <1>f, <1>a, <1>p DEF Browser!Fronted
<1>8. CASE Browser!ListTabs \/ Browser!Shoot \/ Browser!Released
    BY <1>8, <1>a DEF Browser!ListTabs, Browser!Shoot, Browser!Released
<1>9. CASE Browser!BringToFront
    BY <1>9, <1>p DEF Browser!BringToFront
<1>10. CASE Browser!Typed
    BY <1>10, <1>a, <1>p DEF Browser!Typed
<1>11. CASE Browser!ConnectionLost
    BY <1>0, <1>k, <1>11 DEF Browser!ConnectionLost
<1>12. CASE Browser!Exit
    <2>1. v2' = "none" /\ v7' = <<>> /\ UNCHANGED <<v1, v3, v4, v5, v6, v9>>
        BY <1>12 DEF Browser!Exit
    <2>2. Len(v7') <= MaxQueued
        BY <1>0, <2>1, EmptySeq
    <2> QED
        BY <1>0, <2>1, <2>2 DEF BrowserTyped
<1> QED
    BY <1>1, <1>2, <1>3, <1>4, <1>5, <1>6, <1>7, <1>8, <1>9, <1>10, <1>11, <1>12 DEF Browser!Next

\* The invariant of the browser client with its types.
LEMMA BrowserHolds ==
    ServicesSpec => [](part = "browser" => Browser!Inductive /\ Browser!TypeOK)
<1> DEFINE Inv == part = "browser" => Browser!Inductive /\ BrowserTyped
<1>1. ServicesInit => Inv
    <2> SUFFICES ASSUME Browser!Init PROVE Browser!Inductive /\ BrowserTyped
        BY DEF ServicesInit
    <2>1. v5 \in Seq(Tabs) /\ Len(v5) = 0 /\ Len(v7) = 0
        BY EmptySeq DEF Browser!Init
    <2>2. /\ v1 \subseteq Tabs /\ v2 = "none" /\ v3 = NoTab /\ v4 = NoTab /\ v9 = NoTab
          /\ v6 = FALSE
        BY DEF Browser!Init
    <2>3. Remembered \in Nat /\ MaxQueued \in Nat
        BY LimitsAssumption
    <2>4. v1 \subseteq Tabs /\ v5 \in Seq(Tabs) /\ Len(v5) <= Remembered /\ Len(v7) <= MaxQueued
        BY <2>1, <2>2, <2>3
    <2>5. BrowserTyped
        BY <2>2, <2>4, Zenon DEF BrowserTyped
    <2> QED
        BY <2>5, BrowserInit
<1>2. Inv /\ [ServicesNext]_partVars => Inv'
    <2> SUFFICES ASSUME Inv, [ServicesNext]_partVars, part' = "browser"
                 PROVE  Browser!Inductive' /\ BrowserTyped'
        OBVIOUS
    <2>1. CASE UNCHANGED partVars
        <3>1. part = "browser" /\ UNCHANGED <<v1, v2, v3, v4, v5, v6, v7, v8, v9>>
            BY <2>1 DEF partVars
        <3>2. Browser!Inductive'
            BY <3>1 DEF Browser!Inductive, Browser!Staged, Browser!ConnectedToShown,
                Browser!InputIsShown
        <3> QED
            BY <3>1, <3>2 DEF BrowserTyped
    <2>2. CASE ServicesNext
        <3>1. part = "browser" /\ Browser!Next
            BY <2>2 DEF ServicesNext
        <3> QED
            BY <3>1, BrowserStep, BrowserTypesStep
    <2> QED
        BY <2>1, <2>2
<1>3. Inv => (part = "browser" => Browser!Inductive /\ Browser!TypeOK)
    BY BrowserTypes
<1> QED
    BY <1>1, <1>2, <1>3, PTL DEF ServicesSpec

------------------------------------------------------------------------------
(* All parts.                                                                *)

\* Every part keeps its types, so that ports, keys, queues, rings and counters stay within their
\* bounds, for any values of these and as long as nothing is done to the registry, to the files
\* or to the keys while one of their operations is under way (ops.ts:81, transport.mjs:48-51,
\* browser-client.mjs:58-59).
THEOREM Types ==
    ASSUME Concurrent = FALSE, UncheckedEdits = FALSE, MintEarly = FALSE
    PROVE  ServicesSpec => []TypesOK
<1>1. ServicesSpec => [](part = "fleet" => Registry!Inductive)
    BY FleetHolds
<1>2. ServicesSpec => [](part = "state" => State!Inductive)
    BY StateHolds
<1>3. ServicesSpec => [](part = "apply" => Applying!Inductive)
    BY ApplyingHolds
<1>4. (part = "fleet" => Registry!Inductive) => (part = "fleet" => Registry!TypeOK)
    BY DEF Registry!Inductive
<1>5. (part = "state" => State!Inductive) => (part = "state" => State!TypeOK)
    BY DEF State!Inductive
<1>6. (part = "upgrade" => Upgrade!Inductive) => (part = "upgrade" => Upgrade!TypeOK)
    BY DEF Upgrade!Inductive
<1>7. (part = "apply" => Applying!Inductive) => (part = "apply" => Applying!TypeOK)
    BY DEF Applying!Inductive
<1>8. (part = "egress" => Exits!Inductive) => (part = "egress" => Exits!TypeOK)
    BY DEF Exits!Inductive
<1>9. (part = "client" => Client!Inductive) => (part = "client" => Client!TypeOK)
    BY DEF Client!Inductive
<1>10. (part = "dashboard" => Proxy!Inductive) => (part = "dashboard" => Proxy!TypeOK)
    BY DEF Proxy!Inductive
<1>11. (part = "browser" => Browser!Inductive /\ Browser!TypeOK) => (part = "browser" => Browser!TypeOK)
    OBVIOUS
<1>12. (part = "transport" => Transport!Inductive) => (part = "transport" => Transport!TypeOK)
    BY DEF Transport!Inductive
<1>13. ASSUME part = "fleet" => Registry!TypeOK, part = "state" => State!TypeOK,
              part = "upgrade" => Upgrade!TypeOK, part = "apply" => Applying!TypeOK,
              part = "egress" => Exits!TypeOK, part = "client" => Client!TypeOK,
              part = "dashboard" => Proxy!TypeOK, part = "browser" => Browser!TypeOK,
              part = "transport" => Transport!TypeOK
       PROVE  TypesOK
    BY <1>13 DEF TypesOK
<1> QED
    BY <1>1, <1>2, <1>3, <1>4, <1>5, <1>6, <1>7, <1>8, <1>9, <1>10, <1>11, <1>12, <1>13,
       UpgradeHolds, ExitsHolds, ClientHolds, ProxyHolds, BrowserHolds, TransportHolds, PTL
===================================================================================
