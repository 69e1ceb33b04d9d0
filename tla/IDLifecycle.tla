---------------------------- MODULE IDLifecycle ----------------------------
(***************************************************************************)
(* What a Wayland client owes the server about the IDs of its own range,   *)
(* stated without a table, a stack or a counter: an ID that was never used *)
(* enters use in ascending order and without gaps, and an ID that was used *)
(* enters use again only after the server has acknowledged its deletion.   *)
(***************************************************************************)
EXTENDS Integers

CONSTANT LastClientID    \* the last ID of the client's range

VARIABLE state           \* the life of each client ID

States == {"unused",     \* never handed out
           "held",       \* some proxy is registered at it
           "ready",      \* acknowledged by delete_id, waiting to be recycled
           "gone"}       \* dropped without an acknowledgement: out of use

(* The display holds ID 1 from the first moment.                           *)
Init == state = [n \in 1 .. LastClientID |-> IF n = 1 THEN "held" ELSE "unused"]

Introduce(n) ==
    /\ state[n] = "unused"
    /\ \A m \in 1 .. n - 1 : state[m] # "unused"
    /\ state' = [state EXCEPT ![n] = "held"]

Recycle(n) ==
    /\ state[n] = "ready"
    /\ state' = [state EXCEPT ![n] = "held"]

Acknowledge(n) ==
    /\ state[n] = "held"
    /\ n # 1
    /\ state' = [state EXCEPT ![n] = "ready"]

Drop(n) ==
    /\ state[n] = "held"
    /\ state' = [state EXCEPT ![n] = "gone"]

Next == \E n \in 1 .. LastClientID :
            Introduce(n) \/ Recycle(n) \/ Acknowledge(n) \/ Drop(n)

Spec == Init /\ [][Next]_state

=============================================================================
