------------------------------ MODULE AtMostOnce ------------------------------
(***************************************************************************)
(* What the glasses relay promises for a request it accepted (README of    *)
(* openclaw-meta-glasses, Operations): the Claw runs it at most once, its  *)
(* answer never changes, and the answer tells apart a request that was     *)
(* never started, one that ran and replied, and one nobody can be sure of. *)
(***************************************************************************)
EXTENDS Naturals

CONSTANT Requests

VARIABLES
    answer,   \* "none" until the request is accepted, "open" until it is answered
    runs      \* how often the Claw was made to run it

vars == <<answer, runs>>

Init == answer = [r \in Requests |-> "none"] /\ runs = [r \in Requests |-> 0]

Accept(r) ==
    /\ answer[r] = "none"
    /\ answer' = [answer EXCEPT ![r] = "open"]
    /\ UNCHANGED runs

Run(r) ==
    /\ answer[r] = "open" /\ runs[r] = 0
    /\ runs' = [runs EXCEPT ![r] = 1]
    /\ UNCHANGED answer

Answer(r, kind) ==
    /\ answer[r] = "open"
    /\ \/ kind = "failed" /\ runs[r] = 0
       \/ kind = "replied" /\ runs[r] = 1
       \/ kind = "uncertain"
    /\ answer' = [answer EXCEPT ![r] = kind]
    /\ UNCHANGED runs

Next == \E r \in Requests :
            \/ Accept(r) \/ Run(r)
            \/ \E kind \in {"failed", "replied", "uncertain"} : Answer(r, kind)

Spec == Init /\ [][Next]_vars
===============================================================================
