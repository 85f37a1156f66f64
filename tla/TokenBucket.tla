---------------------------- MODULE TokenBucket ----------------------------
(* What a rate limiter promises its clients: every address has one bucket, *)
(* for ever, that fills with time; a request is let through if and only if *)
(* there is a token in the bucket of its address, and takes it.            *)
EXTENDS Naturals

CONSTANTS Addresses,    \* clients
          Capacity,     \* what a full bucket holds, in units of time
          Cost,         \* what a token is worth
          None          \* no request was answered since time last passed

VARIABLES level,        \* what each bucket holds
          answer        \* the latest answer: to whom, and whether let through

vars == <<level, answer>>

Init == level = [a \in Addresses |-> Capacity] /\ answer = None

Pass == /\ level' = [a \in Addresses |->
                        IF level[a] < Capacity THEN level[a] + 1 ELSE Capacity]
        /\ answer' = None

Admit(a) == /\ level[a] >= Cost
            /\ level' = [level EXCEPT ![a] = @ - Cost]
            /\ answer' = [to |-> a, ok |-> TRUE]

Refuse(a) == /\ level[a] < Cost
             /\ answer' = [to |-> a, ok |-> FALSE]
             /\ UNCHANGED level

Next == Pass \/ \E a \in Addresses : Admit(a) \/ Refuse(a)

Spec == Init /\ [][Next]_vars
=============================================================================
