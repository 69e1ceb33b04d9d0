----------------------------- MODULE Roundtrip -----------------------------
(***************************************************************************)
(* Display.Roundtrip (client/display.go): a wl_callback registered by      *)
(* Sync, a loop of Context.Dispatch until its done event, and a deferred   *)
(* Destroy of the callback on every way out.                               *)
(*                                                                         *)
(* Calls nest: Dispatch runs handlers, a handler may call Roundtrip or     *)
(* Dispatch itself, and the inner loop then dispatches what the outer one  *)
(* waits for.  The Go call stack is the variable stack.  A call that ends  *)
(* on a read deadline leaves its done event in flight, and the ID of its   *)
(* callback comes back for the callback of another call.                   *)
(*                                                                         *)
(* The object table is ObjectTable's; the server follows libwayland        *)
(* (external).  A request of the application is one element of Requests,   *)
(* sent at most once; the event that answers it carries the same name.     *)
(***************************************************************************)
EXTENDS Integers, Sequences

CONSTANTS
    Proxies, Display, FirstServerID, MaxID,   \* as in ObjectTable
    Requests,   \* the application's other requests
    Unasked,    \* names an event that answers no request
    MaxDepth    \* bound on the depth of nested calls

ASSUME RoundtripAssumption ==
    /\ Display \in Proxies
    /\ FirstServerID \in Nat /\ MaxID \in Nat
    /\ 2 < FirstServerID /\ FirstServerID <= MaxID
    /\ Unasked \notin Requests
    /\ MaxDepth \in Nat \ {0, 1}

VARIABLES
    objects, freeIDs, currentID, pid, zombie, outcome,  \* as in ObjectTable
    fatal,      \* Context.fatalErr # nil
    unsent,     \* the requests the application has not made
    requests,   \* written by the client, not yet handled by the server
    events,     \* sent by the server, not yet dispatched by the client
    stack,      \* the running calls of Roundtrip and the running handlers
    done,       \* the calls whose variable done is true, by their callback
    returned,   \* how the last Roundtrip ended
    alive       \* the server has not closed the connection

table == <<objects, freeIDs, currentID, pid, zombie, outcome>>
vars == <<table, fatal, unsent, requests, events, stack, done, returned, alive>>

T == INSTANCE ObjectTable

Callbacks == Proxies \ {Display}
Content(q) == {q[i] : i \in DOMAIN q}

(* Messages.  That of a sync names the ID on the wire and, for the         *)
(* properties, the callback the client meant by it.                        *)
Plain(r) == [type |-> "plain", id |-> 0, of |-> r]
Sync(n, p) == [type |-> "sync", id |-> n, of |-> p]
Done(n, p) == [type |-> "done", id |-> n, of |-> p]
DeleteIDEvent(n, p) == [type |-> "delete_id", id |-> n, of |-> p]
ErrorEvent == [type |-> "error", id |-> 0, of |-> Unasked]

(* Frames of the call stack.  A call's waits is history: the requests that *)
(* were outstanding when the call was made.                                *)
Call(p, w) == [type |-> "call", of |-> p, waits |-> w]
Handler(r) == [type |-> "handler", of |-> r, waits |-> {}]

Top == stack[Len(stack)]
Pop == SubSeq(stack, 1, Len(stack) - 1)
Running(type) == stack # << >> /\ Top.type = type
InCall(p) == \E f \in Content(stack) : f.type = "call" /\ f.of = p

(* Where the application's own code runs: outside every call, or in a      *)
(* handler.                                                                *)
ApplicationRuns == stack = << >> \/ Running("handler")

(* A callback struct nobody refers to stands for a new one.                *)
Unused(p) ==
    /\ p \notin T!Registered
    /\ ~InCall(p)
    /\ \A m \in Content(requests) \cup Content(events) : m.of # p

InFlight(q, r) == Plain(r) \in Content(q)
Outstanding == {r \in Requests : InFlight(requests, r) \/ InFlight(events, r)}

Init ==
    /\ T!Init
    /\ fatal = FALSE
    /\ unsent = Requests
    /\ requests = << >>
    /\ events = << >>
    /\ stack = << >>
    /\ done = {}
    /\ returned = "none"
    /\ alive = TRUE

-----------------------------------------------------------------------------
(* The application's requests.  A failed write fails the connection.       *)
Issue(r) ==
    /\ ApplicationRuns /\ ~fatal
    /\ r \in unsent
    /\ unsent' = unsent \ {r}
    /\ requests' = Append(requests, Plain(r))
    /\ UNCHANGED <<table, fatal, events, stack, done, returned, alive>>

WriteFails ==
    /\ ApplicationRuns /\ ~fatal
    /\ fatal' = TRUE
    /\ UNCHANGED <<table, unsent, requests, events, stack, done, returned, alive>>

(* Roundtrip: Sync registers a callback and writes the request ...         *)
Begin(p) ==
    /\ ApplicationRuns /\ ~fatal
    /\ Len(stack) + 2 <= MaxDepth
    /\ Unused(p)
    /\ T!RegisterRecycled(p) \/ T!RegisterNew(p)
    /\ requests' = Append(requests, Sync(pid'[p], p))
    /\ stack' = Append(stack, Call(p, Outstanding))
    /\ UNCHANGED <<fatal, unsent, events, done, returned, alive>>

(* ... or returns the error of WriteMsg: the connection had failed, or     *)
(* fails now.  The callback stays registered.                              *)
BeginFails(p) ==
    /\ ApplicationRuns
    /\ Unused(p)
    /\ T!RegisterRecycled(p) \/ T!RegisterNew(p)
    /\ fatal' = TRUE
    /\ returned' = "error"
    /\ UNCHANGED <<unsent, requests, events, stack, done, alive>>

(* The deferred callback.Destroy: local, the ID stays taken.               *)
WrongDestroyFreesID(p) ==
    IF pid[p] \in DOMAIN objects THEN T!DeleteID(pid[p]) ELSE UNCHANGED table
Destroy(p) == T!MarkZombie(p)

Leave(result) ==
    /\ Destroy(Top.of)
    /\ stack' = Pop
    /\ done' = done \ {Top.of}
    /\ returned' = result
    /\ UNCHANGED <<fatal, unsent, requests, events, alive>>

(* The loop condition, tested when Dispatch has returned nil ...           *)
Finished(p) == p \in done

ReturnNil == Running("call") /\ ~fatal /\ Finished(Top.of) /\ Leave("nil")

(* ... and its error, which wins even when done has been set: a handler    *)
(* inside that Dispatch failed the connection later.                       *)
ReturnError == Running("call") /\ fatal /\ Leave("error")

(* ErrReadTimeout at a frame boundary: nothing was read, the connection    *)
(* stays usable, and the events in flight stay in flight.                  *)
Deadline == Running("call") /\ ~fatal /\ ~Finished(Top.of) /\ Leave("error")

-----------------------------------------------------------------------------
(* Context.Dispatch, called by the loop of the innermost Roundtrip or by   *)
(* the application.                                                        *)
Awaiting == Running("call") /\ ~fatal /\ ~Finished(Top.of)
ApplicationDispatches == ApplicationRuns /\ ~fatal /\ Len(stack) < MaxDepth

Enter(r) == stack' = Append(stack, Handler(r))

DispatchPlain(e) ==
    /\ e.type = "plain"
    /\ Enter(e.of)
    /\ UNCHANGED <<table, fatal, done>>

(* Callback.Dispatch at the holder of the ID; a zombie absorbs the event.  *)
WrongCompletesZombie(e) ==
    /\ e.type = "done"
    /\ done' = done \cup {objects[e.id]}
    /\ UNCHANGED <<table, fatal, stack>>

WrongCompletesOnlyTop(e) ==
    /\ e.type = "done"
    /\ done' = done \cup {p \in {objects[e.id]} : Running("call") /\ Top.of = p}
    /\ UNCHANGED <<table, fatal, stack>>

DispatchDone(e) ==
    /\ e.type = "done"
    /\ \/ e.id \notin DOMAIN objects /\ fatal' = TRUE /\ UNCHANGED done
       \/ /\ e.id \in DOMAIN objects /\ ~zombie[objects[e.id]]
          /\ done' = done \cup {objects[e.id]}
          /\ UNCHANGED fatal
       \/ e.id \in DOMAIN objects /\ zombie[objects[e.id]] /\ UNCHANGED <<fatal, done>>
    /\ UNCHANGED <<table, stack>>

(* Display.Dispatch: the table or fatalErr first, then the handler.        *)
WrongKeepsZombieID(e) ==
    /\ e.type = "delete_id"
    /\ IF zombie[e.of] THEN UNCHANGED table ELSE T!DeleteID(e.id)
    /\ Enter(Unasked)
    /\ UNCHANGED <<fatal, done>>

DispatchDeleteID(e) ==
    /\ e.type = "delete_id"
    /\ T!DeleteID(e.id)
    /\ Enter(Unasked)
    /\ UNCHANGED <<fatal, done>>

DispatchError(e) ==
    /\ e.type = "error"
    /\ fatal' = TRUE
    /\ Enter(Unasked)
    /\ UNCHANGED <<table, done>>

ReadEvent ==
    /\ events # << >>
    /\ events' = Tail(events)
    /\ LET e == Head(events) IN
         DispatchPlain(e) \/ DispatchDone(e) \/ DispatchDeleteID(e) \/ DispatchError(e)
    /\ UNCHANGED <<unsent, requests, returned, alive>>

(* End of stream, a deadline in the middle of a frame, any other error.    *)
ReadFails ==
    /\ fatal' = TRUE
    /\ UNCHANGED <<table, unsent, requests, events, stack, done, returned, alive>>
EndOfStream == ~alive /\ events = << >> /\ ReadFails

Dispatch == (Awaiting \/ ApplicationDispatches) /\ (ReadEvent \/ ReadFails)

(* A handler returns to the Dispatch that ran it, or panics into its       *)
(* recover.                                                                *)
HandlerReturns ==
    /\ Running("handler")
    /\ stack' = Pop
    /\ UNCHANGED <<table, fatal, unsent, requests, events, done, returned, alive>>

HandlerPanics ==
    /\ Running("handler")
    /\ stack' = Pop
    /\ fatal' = TRUE
    /\ UNCHANGED <<table, unsent, requests, events, done, returned, alive>>

-----------------------------------------------------------------------------
(* The server (external) handles requests in order.  Done and delete_id    *)
(* answer a sync; another request is answered by an event or not at all.   *)
Handle ==
    /\ alive
    /\ requests # << >>
    /\ requests' = Tail(requests)
    /\ LET m == Head(requests) IN
         \/ m.type = "sync" /\ events' = events \o <<Done(m.id, m.of), DeleteIDEvent(m.id, m.of)>>
         \/ m.type = "plain" /\ events' = Append(events, m)
         \/ m.type = "plain" /\ UNCHANGED events
    /\ UNCHANGED <<table, fatal, unsent, stack, done, returned, alive>>

SendUnasked ==
    /\ alive
    /\ ~InFlight(events, Unasked)
    /\ events' = Append(events, Plain(Unasked))
    /\ UNCHANGED <<table, fatal, unsent, requests, stack, done, returned, alive>>

(* A protocol error, or a server that goes away without a word.            *)
Quit ==
    /\ alive
    /\ alive' = FALSE
    /\ events' = Append(events, ErrorEvent) \/ UNCHANGED events
    /\ UNCHANGED <<table, fatal, unsent, requests, stack, done, returned>>

-----------------------------------------------------------------------------
Return == ReturnNil \/ ReturnError

Next ==
    \/ \E r \in Requests : Issue(r)
    \/ \E p \in Callbacks : Begin(p) \/ BeginFails(p)
    \/ WriteFails
    \/ Return \/ Deadline
    \/ Dispatch
    \/ HandlerReturns \/ HandlerPanics
    \/ Handle \/ SendUnasked \/ Quit

Spec == Init /\ [][Next]_vars

(* The loop of Roundtrip goes on reading, a server handles what it is sent *)
(* as long as it is there, and a handler at any depth comes to an end.  No *)
(* deadline is ever owed, nor is any call of Dispatch by the application.  *)
HandlerAt(d) == Len(stack) = d /\ HandlerReturns
FairSpec ==
    /\ Spec
    /\ WF_vars(Awaiting /\ (ReadEvent \/ EndOfStream))
    /\ WF_vars(Return)
    /\ WF_vars(Handle)
    /\ \A d \in 1 .. MaxDepth : SF_vars(HandlerAt(d))

-----------------------------------------------------------------------------
TypeOK ==
    /\ T!TypeOK
    /\ fatal \in BOOLEAN /\ alive \in BOOLEAN
    /\ unsent \subseteq Requests
    /\ done \subseteq {p \in Callbacks : InCall(p)}
    /\ returned \in {"none", "nil", "error"}
    /\ \A m \in Content(requests) \cup Content(events) :
         m.type \in {"sync", "done", "delete_id"} => m.id \in T!ClientIDs \ {T!DisplayID}
    /\ \A i \in DOMAIN stack : stack[i].type = "call" =>
         /\ stack[i].of \in Callbacks
         /\ i > 1 => stack[i - 1].type = "handler"
    /\ Len(stack) <= MaxDepth

Stage(r) ==
    IF r \in unsent THEN "unsent"
    ELSE IF InFlight(requests, r) THEN "sent"
    ELSE IF InFlight(events, r) THEN "replied"
    ELSE IF Handler(r) \in Content(stack) THEN "delivering"
    ELSE "settled"

B == INSTANCE Barrier WITH
       Calls <- Callbacks,
       stage <- [r \in Requests |-> Stage(r)],
       open <- {p \in Callbacks : InCall(p)},
       waits <- [p \in Callbacks |->
                   UNION {f.waits : f \in {g \in Content(stack) : g.of = p}}],
       failed <- fatal

(* Roundtrip is the barrier its comments claim: it returns nil only when   *)
(* every earlier request has been handled and the resulting events have    *)
(* been handled, however calls nest, whatever deadlines ended earlier      *)
(* calls, and whichever IDs their callbacks left behind.                   *)
ImplementsBarrier == B!Spec

(* A callback given up on a deadline does not cost an ID for ever: as long *)
(* as the connection works, a registered callback still has its sync or    *)
(* its delete_id to come, unless the server has gone away.                 *)
AbandonedIDsComeBack ==
    (alive /\ ~fatal)
        => \A n \in DOMAIN objects \ {T!DisplayID} :
             \E m \in Content(requests) \cup Content(events) :
                m.type \in {"sync", "delete_id"} /\ m.id = n /\ m.of = objects[n]

(* Every call of Roundtrip returns, nested calls and calls on a failing    *)
(* connection included: no call waits for a done event that a nested loop  *)
(* has consumed, that a zombie has absorbed or that will never be sent.    *)
RoundtripReturns == \A p \in Callbacks : InCall(p) ~> ~InCall(p)

=============================================================================
