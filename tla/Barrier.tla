------------------------------ MODULE Barrier ------------------------------
(***************************************************************************)
(* What Display.Roundtrip promises, without callbacks, IDs or queues, in   *)
(* the words of the comment on Display.Sync: "a barrier to ensure all      *)
(* previous requests and the resulting events have been handled".          *)
(*                                                                         *)
(* A call that returns nil found every request that was outstanding when   *)
(* it was made answered, and the handlers of the answers finished, unless  *)
(* the call was itself made by such a handler; and the connection had not  *)
(* failed.  A call that returns an error promises nothing.                 *)
(***************************************************************************)
CONSTANTS
    Requests,   \* the requests of the application
    Calls       \* names for the calls of Roundtrip in progress

VARIABLES
    stage,      \* how far each request and its answer have come
    open,       \* the calls in progress
    waits,      \* what each of them waits for
    failed,     \* the connection has failed
    returned    \* how the last call ended

vars == <<stage, open, waits, failed, returned>>

Stages == {"unsent", "sent", "replied", "delivering", "settled"}
Outstanding == {r \in Requests : stage[r] \in {"sent", "replied"}}

Init ==
    /\ stage = [r \in Requests |-> "unsent"]
    /\ open = {}
    /\ waits = [c \in Calls |-> {}]
    /\ failed = FALSE
    /\ returned = "none"

Move(r, from, to) ==
    /\ stage[r] = from
    /\ stage' = [stage EXCEPT ![r] = to]
    /\ UNCHANGED <<open, waits, returned>>

Send(r) == Move(r, "unsent", "sent") /\ ~failed /\ UNCHANGED failed
Answer(r) ==
    /\ Move(r, "sent", "replied") \/ Move(r, "sent", "settled")
    /\ UNCHANGED failed
Deliver(r) == Move(r, "replied", "delivering") /\ ~failed /\ UNCHANGED failed
(* A handler ends by returning, or by a panic that fails the connection.   *)
Settle(r) == Move(r, "delivering", "settled") /\ failed' \in {failed, TRUE}

Enter(c) ==
    /\ c \notin open
    /\ open' = open \cup {c}
    /\ waits' = [waits EXCEPT ![c] = Outstanding]
    /\ UNCHANGED <<stage, failed, returned>>

Leave(c, result) ==
    /\ c \in open
    /\ open' = open \ {c}
    /\ waits' = [waits EXCEPT ![c] = {}]
    /\ returned' = result
    /\ UNCHANGED <<stage, failed>>

Pass(c) ==
    /\ ~failed
    /\ \A r \in waits[c] : stage[r] = "settled"
    /\ Leave(c, "nil")
GiveUp(c) == Leave(c, "error")

Fail == failed' = TRUE /\ UNCHANGED <<stage, open, waits, returned>>
Refuse == failed' = TRUE /\ returned' = "error" /\ UNCHANGED <<stage, open, waits>>

Next ==
    \/ \E r \in Requests : Send(r) \/ Answer(r) \/ Deliver(r) \/ Settle(r)
    \/ \E c \in Calls : Enter(c) \/ Pass(c) \/ GiveUp(c)
    \/ Fail
    \/ Refuse

Spec == Init /\ [][Next]_vars

=============================================================================
