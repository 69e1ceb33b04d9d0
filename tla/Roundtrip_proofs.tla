-------------------------- MODULE Roundtrip_proofs --------------------------
(***************************************************************************)
(* Roundtrip is a barrier: proofs about Roundtrip for any requests, any    *)
(* number of callbacks, any ID range and any depth of nested calls.        *)
(*                                                                         *)
(* The object table's part of the argument is ObjectTable_proofs'.         *)
(***************************************************************************)
EXTENDS Roundtrip, TLAPS

TP == INSTANCE ObjectTable_proofs

-----------------------------------------------------------------------------
(* The inductive invariant.                                                *)

TableInv == T!TypeOK /\ T!FreeListSound /\ T!CounterCoversClientIDs /\ T!IdentityAgrees

CallbackIDs == 2 .. FirstServerID - 1
RequestMsg ==
    [type : {"plain"}, id : {0}, of : Requests]
      \cup [type : {"sync"}, id : CallbackIDs, of : Callbacks]
EventMsg ==
    [type : {"plain"}, id : {0}, of : Requests \cup {Unasked}]
      \cup [type : {"done", "delete_id"}, id : CallbackIDs, of : Callbacks]
      \cup [type : {"error"}, id : {0}, of : {Unasked}]
Frame ==
    [type : {"call"}, of : Callbacks, waits : SUBSET Requests]
      \cup [type : {"handler"}, of : Requests \cup {Unasked}, waits : {{}}]

Queues ==
    /\ requests \in Seq(RequestMsg)
    /\ events \in Seq(EventMsg)
    /\ stack \in Seq(Frame)

OpenCalls == {p \in Callbacks : InCall(p)}

Control ==
    /\ fatal \in BOOLEAN /\ alive \in BOOLEAN
    /\ unsent \subseteq Requests
    /\ done \subseteq OpenCalls
    /\ returned \in {"none", "nil", "error"}
    /\ \A i \in DOMAIN stack : (stack[i].type = "call" /\ i > 1) => stack[i - 1].type = "handler"
    /\ Len(stack) <= MaxDepth

(* A request of the application is in one place only.                      *)
OnePlace ==
    /\ \A i, j \in DOMAIN requests :
         (requests[i].type = "plain" /\ requests[j].type = "plain"
            /\ requests[i].of = requests[j].of) => i = j
    /\ \A i, j \in DOMAIN events :
         (events[i].type = "plain" /\ events[j].type = "plain"
            /\ events[i].of = events[j].of) => i = j
    /\ \A i \in DOMAIN requests, j \in DOMAIN events :
         (requests[i].type = "plain" /\ events[j].type = "plain")
            => requests[i].of # events[j].of
    /\ \A i \in DOMAIN requests : requests[i].type = "plain" => requests[i].of \notin unsent
    /\ \A i \in DOMAIN events : events[i].type = "plain" => events[i].of \notin unsent
    /\ \A i, j \in DOMAIN stack :
         (stack[i].type = "handler" /\ stack[j].type = "handler"
            /\ stack[i].of = stack[j].of) => i = j \/ stack[i].of = Unasked
    /\ \A i \in DOMAIN stack :
         (stack[i].type = "handler" /\ stack[i].of # Unasked) =>
           /\ stack[i].of \notin unsent
           /\ \A j \in DOMAIN requests : requests[j].type = "plain" => requests[j].of # stack[i].of
           /\ \A j \in DOMAIN events : events[j].type = "plain" => events[j].of # stack[i].of

(* The running calls.  What a call waits for is delivered above it.        *)
CallStack ==
    /\ \A i, j \in DOMAIN stack :
         (stack[i].type = "call" /\ stack[j].type = "call" /\ stack[i].of = stack[j].of) => i = j
    /\ \A i \in DOMAIN stack : stack[i].type = "call" =>
         i < MaxDepth /\ stack[i].waits \cap unsent = {}
    /\ \A i, k \in DOMAIN stack :
         (stack[i].type = "call" /\ stack[k].type = "handler" /\ stack[k].of \in stack[i].waits)
            => i < k

(* The sync and the done of a running call are behind all that the call    *)
(* waits for; once done is set, nothing of that is in flight.              *)
Behind ==
    \A i \in DOMAIN stack : stack[i].type = "call" =>
        /\ \A j \in DOMAIN requests :
             (requests[j].type = "sync" /\ requests[j].of = stack[i].of) =>
               \A k \in DOMAIN requests :
                 (requests[k].type = "plain" /\ requests[k].of \in stack[i].waits) => k < j
        /\ \A j \in DOMAIN events :
             (events[j].type = "done" /\ events[j].of = stack[i].of) =>
               /\ \A k \in DOMAIN requests :
                    requests[k].type = "plain" => requests[k].of \notin stack[i].waits
               /\ \A k \in DOMAIN events :
                    (events[k].type = "plain" /\ events[k].of \in stack[i].waits) => k < j
        /\ stack[i].of \in done =>
             /\ \A k \in DOMAIN requests :
                  requests[k].type = "plain" => requests[k].of \notin stack[i].waits
             /\ \A k \in DOMAIN events :
                  events[k].type = "plain" => events[k].of \notin stack[i].waits

(* The ID of a message in flight is still its callback's, and a callback   *)
(* whose done is to come is awaited or a zombie.                           *)
Routing ==
    /\ \A j \in DOMAIN requests : requests[j].type = "sync" =>
         /\ requests[j].id \in DOMAIN objects /\ objects[requests[j].id] = requests[j].of
         /\ zombie[requests[j].of] \/ requests[j].of \in OpenCalls
    /\ \A j \in DOMAIN events : events[j].type \in {"done", "delete_id"} =>
         events[j].id \in DOMAIN objects /\ objects[events[j].id] = events[j].of
    /\ \A j \in DOMAIN events : events[j].type = "done" =>
         zombie[events[j].of] \/ events[j].of \in OpenCalls

(* An ID is given back once, and after its done.                           *)
GivenBackOnce ==
    /\ \A i, j \in DOMAIN requests :
         (requests[i].type = "sync" /\ requests[j].type = "sync"
            /\ requests[i].id = requests[j].id) => i = j
    /\ \A i \in DOMAIN requests, j \in DOMAIN events :
         (requests[i].type = "sync" /\ events[j].type \in {"done", "delete_id"})
            => requests[i].id # events[j].id
    /\ \A i, j \in DOMAIN events :
         (events[i].type = "delete_id" /\ events[j].type = "delete_id"
            /\ events[i].id = events[j].id) => i = j
    /\ \A i, j \in DOMAIN events :
         (events[i].type = "done" /\ events[j].type = "delete_id"
            /\ events[i].id = events[j].id) => i < j

IInv == /\ TableInv /\ Queues /\ Control /\ OnePlace /\ CallStack /\ Behind
        /\ Routing /\ GivenBackOnce /\ AbandonedIDsComeBack

-----------------------------------------------------------------------------
(* The object table.                                                       *)
LEMMA TableAssumption == TP!ObjectTableAssumption
BY RoundtripAssumption DEF TP!ObjectTableAssumption

LEMMA TableInvIsTheirs ==
    (TableInv <=> TP!IInv) /\ (TableInv' <=> TP!IInv')
BY DEF TableInv, TP!IInv, T!TypeOK, TP!TypeOK, T!FreeListSound, TP!FreeListSound,
       T!CounterCoversClientIDs, TP!CounterCoversClientIDs, T!IdentityAgrees, TP!IdentityAgrees,
       T!Live, TP!Live, T!IDs, TP!IDs, T!ClientIDs, TP!ClientIDs, T!DisplayID, TP!DisplayID

LEMMA RegisterTable ==
    ASSUME TableInv, NEW p \in Proxies, T!RegisterRecycled(p) \/ T!RegisterNew(p)
    PROVE  TableInv'
<1>1. TP!IInv
  BY TableInvIsTheirs
<1>2. CASE T!RegisterRecycled(p)
  <2>1. TP!RegisterRecycled(p)
    BY <1>2 DEF T!RegisterRecycled, TP!RegisterRecycled, T!TopUsable, TP!TopUsable,
                T!Bind, TP!Bind, T!Bound, TP!Bound, T!Live, TP!Live, T!Registered, TP!Registered
  <2>2. TP!IInv'
    BY <1>1, <2>1, TableAssumption, TP!RegisterRecycledIInv, Zenon
  <2> QED
    BY <2>2, TableInvIsTheirs
<1>3. CASE T!RegisterNew(p)
  <2>1. TP!RegisterNew(p)
    BY <1>3 DEF T!RegisterNew, TP!RegisterNew, T!NoneUsable, TP!NoneUsable,
                T!Bind, TP!Bind, T!Bound, TP!Bound, T!Live, TP!Live, T!Registered, TP!Registered
  <2>2. TP!IInv'
    BY <1>1, <2>1, TableAssumption, TP!RegisterNewIInv, Zenon
  <2> QED
    BY <2>2, TableInvIsTheirs
<1> QED
  BY <1>2, <1>3

LEMMA MarkZombieTable ==
    ASSUME TableInv, NEW p \in Proxies, T!MarkZombie(p)
    PROVE  TableInv'
<1>1. TP!IInv /\ TP!MarkZombie(p)
  BY TableInvIsTheirs DEF T!MarkZombie, TP!MarkZombie
<1>2. TP!IInv'
  BY <1>1, TableAssumption, TP!MarkZombieIInv, Zenon
<1> QED
  BY <1>2, TableInvIsTheirs

LEMMA DeleteIDTable ==
    ASSUME TableInv, NEW n \in T!IDs, T!DeleteID(n)
    PROVE  TableInv'
<1>1. TP!IInv /\ TP!DeleteID(n) /\ n \in TP!IDs
  BY TableInvIsTheirs
     DEF T!DeleteID, TP!DeleteID, T!Without, TP!Without, T!Live, TP!Live,
         T!Recyclable, TP!Recyclable, T!IDs, TP!IDs, T!DisplayID, TP!DisplayID
<1>2. TP!IInv'
  BY <1>1, TableAssumption, TP!DeleteIDIInv, Zenon
<1> QED
  BY <1>2, TableInvIsTheirs

(* The ID Sync takes for its callback is nobody's.                         *)
LEMMA RegisterFacts ==
    ASSUME TableInv, NEW p \in Callbacks, T!RegisterRecycled(p) \/ T!RegisterNew(p)
    PROVE  \E n \in CallbackIDs :
             /\ n \notin DOMAIN objects /\ p \notin T!Registered
             /\ DOMAIN objects' = DOMAIN objects \cup {n}
             /\ objects'[n] = p /\ \A m \in DOMAIN objects : objects'[m] = objects[m]
             /\ pid'[p] = n
             /\ zombie'[p] = FALSE /\ \A q \in Proxies : q # p => zombie'[q] = zombie[q]
<1>1. \E n \in CallbackIDs : T!Bind(p, n) /\ n \notin DOMAIN objects
  <2>1. CASE T!RegisterRecycled(p)
    <3>1. PICK i \in 1 .. Len(freeIDs) : T!TopUsable(i) /\ T!Bind(p, freeIDs[i])
      BY <2>1 DEF T!RegisterRecycled
    <3>2. freeIDs[i] \in CallbackIDs
      BY RoundtripAssumption
         DEF TableInv, T!FreeListSound, T!TypeOK, T!ClientIDs, T!DisplayID, CallbackIDs
    <3> QED
      BY <3>1, <3>2 DEF T!TopUsable, T!Live
  <2>2. CASE T!RegisterNew(p)
    <3>1. PICK n \in currentID + 1 .. FirstServerID - 1 : ~T!Live(n) /\ T!Bind(p, n)
      BY <2>2 DEF T!RegisterNew
    <3>2. n \in CallbackIDs
      BY <3>1, RoundtripAssumption DEF TableInv, T!TypeOK, T!ClientIDs, CallbackIDs
    <3> QED
      BY <3>1, <3>2 DEF T!Live
  <2> QED
    BY <2>1, <2>2
<1>2. PICK n \in CallbackIDs : T!Bind(p, n) /\ n \notin DOMAIN objects
  BY <1>1
<1>3. p \notin T!Registered /\ p \in Proxies
  BY DEF T!RegisterRecycled, T!RegisterNew, Callbacks
<1>4. /\ DOMAIN objects' = DOMAIN objects \cup {n}
      /\ objects'[n] = p /\ \A m \in DOMAIN objects : objects'[m] = objects[m]
  BY <1>2 DEF T!Bind, T!Bound
<1>5. /\ pid'[p] = n
      /\ zombie'[p] = FALSE /\ \A q \in Proxies : q # p => zombie'[q] = zombie[q]
  BY <1>2, <1>3 DEF T!Bind, TableInv, T!TypeOK
<1> QED
  BY <1>2, <1>3, <1>4, <1>5

(* delete_id forgets the ID it names.                                      *)
LEMMA DeleteIDFacts ==
    ASSUME TableInv, NEW n \in DOMAIN objects, T!DeleteID(n)
    PROVE  /\ DOMAIN objects' = DOMAIN objects \ {n}
           /\ \A m \in DOMAIN objects' : objects'[m] = objects[m]
           /\ zombie' = zombie
BY DEF T!DeleteID, T!Without, T!Live

-----------------------------------------------------------------------------
(* Queues and the stack, element by element.                               *)
LEMMA AppendFacts ==
    ASSUME NEW S, NEW q \in Seq(S), NEW x \in S
    PROVE  /\ Append(q, x) \in Seq(S)
           /\ Len(q) \in Nat /\ DOMAIN q = 1 .. Len(q)
           /\ Len(Append(q, x)) = Len(q) + 1
           /\ DOMAIN Append(q, x) = 1 .. Len(q) + 1
           /\ \A i \in 1 .. Len(q) : Append(q, x)[i] = q[i]
           /\ Append(q, x)[Len(q) + 1] = x
OBVIOUS

LEMMA TailFacts ==
    ASSUME NEW S, NEW q \in Seq(S), q # << >>
    PROVE  /\ Tail(q) \in Seq(S)
           /\ Len(q) \in Nat /\ Len(q) > 0 /\ DOMAIN q = 1 .. Len(q)
           /\ Head(q) = q[1] /\ q[1] \in S
           /\ DOMAIN Tail(q) = 1 .. Len(q) - 1
           /\ \A i \in 1 .. Len(q) - 1 : Tail(q)[i] = q[i + 1]
           /\ \A i \in DOMAIN q : i = 1 \/ (i - 1 \in DOMAIN Tail(q) /\ Tail(q)[i - 1] = q[i])
OBVIOUS

LEMMA FrontFacts ==
    ASSUME NEW S, NEW q \in Seq(S), q # << >>
    PROVE  /\ SubSeq(q, 1, Len(q) - 1) \in Seq(S)
           /\ Len(q) \in Nat /\ Len(q) > 0 /\ DOMAIN q = 1 .. Len(q)
           /\ q[Len(q)] \in S
           /\ DOMAIN SubSeq(q, 1, Len(q) - 1) = 1 .. Len(q) - 1
           /\ Len(SubSeq(q, 1, Len(q) - 1)) = Len(q) - 1
           /\ \A i \in 1 .. Len(q) - 1 : SubSeq(q, 1, Len(q) - 1)[i] = q[i]
<1>1. Len(q) \in Nat /\ Len(q) > 0 /\ DOMAIN q = 1 .. Len(q) /\ Len(q) \in 1 .. Len(q)
  OBVIOUS
<1>2. ASSUME NEW i \in 1 .. Len(q)
      PROVE  /\ SubSeq(q, 1, i - 1) \in Seq(S)
             /\ Len(SubSeq(q, 1, i - 1)) = i - 1
             /\ \A j \in 1 .. i - 1 : SubSeq(q, 1, i - 1)[j] = q[j]
  OBVIOUS
<1>3. /\ SubSeq(q, 1, Len(q) - 1) \in Seq(S)
      /\ Len(SubSeq(q, 1, Len(q) - 1)) = Len(q) - 1
      /\ \A j \in 1 .. Len(q) - 1 : SubSeq(q, 1, Len(q) - 1)[j] = q[j]
  BY <1>1, <1>2
<1>4. DOMAIN SubSeq(q, 1, Len(q) - 1) = 1 .. Len(q) - 1 /\ q[Len(q)] \in S
  BY <1>1, <1>3
<1> QED
  BY <1>1, <1>3, <1>4

LEMMA PopFacts ==
    ASSUME Queues, stack # << >>
    PROVE  /\ Pop \in Seq(Frame)
           /\ Len(stack) \in Nat /\ Len(stack) > 0 /\ DOMAIN stack = 1 .. Len(stack)
           /\ Top \in Frame
           /\ DOMAIN Pop = 1 .. Len(stack) - 1 /\ Len(Pop) = Len(stack) - 1
           /\ \A i \in 1 .. Len(stack) - 1 : Pop[i] = stack[i]
BY FrontFacts DEF Queues, Pop, Top

-----------------------------------------------------------------------------
LEMMA InitIInv == Init => IInv
<1> SUFFICES ASSUME Init PROVE IInv
  OBVIOUS
<1>1. TableInv
  <2>1. TP!Init
    BY DEF Init, T!Init, TP!Init, T!DisplayID, TP!DisplayID
  <2>2. TP!IInv
    BY <2>1, TableAssumption, TP!InitIInv, Zenon
  <2> QED
    BY <2>2, TableInvIsTheirs
<1>2. Queues
  BY DEF Init, Queues
<1>3. requests = << >> /\ events = << >> /\ stack = << >> /\ Len(stack) = 0
      /\ DOMAIN requests = {} /\ DOMAIN events = {} /\ DOMAIN stack = {}
      /\ Content(requests) = {} /\ Content(events) = {}
  BY DEF Init, Content
<1>4. Control
  <2>1. 0 <= MaxDepth
    BY RoundtripAssumption
  <2>2. done \subseteq OpenCalls
    BY DEF Init
  <2> QED
    BY <1>3, <2>1, <2>2 DEF Init, Control
<1>5. OnePlace /\ CallStack
  BY <1>3 DEF OnePlace, CallStack
<1>6. Behind /\ Routing /\ GivenBackOnce
  BY <1>3 DEF Behind, Routing, GivenBackOnce
<1>7. AbandonedIDsComeBack
  <2>1. DOMAIN objects = {T!DisplayID}
    BY DEF Init, T!Init
  <2> QED
    BY <2>1 DEF AbandonedIDsComeBack
<1> QED
  BY <1>1, <1>2, <1>4, <1>5, <1>6, <1>7 DEF IInv

-----------------------------------------------------------------------------
(* The elements of the queues and of the stack.                            *)
LEMMA RequestFacts ==
    ASSUME NEW m \in RequestMsg
    PROVE  /\ m.type \in {"plain", "sync"}
           /\ m.type = "plain" => m.of \in Requests /\ m = Plain(m.of)
           /\ m.type = "sync" => m.id \in CallbackIDs /\ m.of \in Callbacks
BY DEF RequestMsg, Plain

LEMMA EventFacts ==
    ASSUME NEW m \in EventMsg
    PROVE  /\ m.type \in {"plain", "done", "delete_id", "error"}
           /\ m.type = "plain" => m.of \in Requests \cup {Unasked} /\ m = Plain(m.of)
           /\ m.type \in {"done", "delete_id"} => m.id \in CallbackIDs /\ m.of \in Callbacks
BY DEF EventMsg, Plain

LEMMA FrameFacts ==
    ASSUME NEW f \in Frame
    PROVE  /\ f.type \in {"call", "handler"}
           /\ f.type = "call" => f.of \in Callbacks /\ f.waits \subseteq Requests
           /\ f.type = "handler" =>
                f.of \in Requests \cup {Unasked} /\ f.waits = {} /\ f = Handler(f.of)
BY DEF Frame, Handler

LEMMA QueueFacts ==
    ASSUME Queues
    PROVE  /\ DOMAIN requests = 1 .. Len(requests) /\ Len(requests) \in Nat
           /\ DOMAIN events = 1 .. Len(events) /\ Len(events) \in Nat
           /\ DOMAIN stack = 1 .. Len(stack) /\ Len(stack) \in Nat
           /\ \A i \in DOMAIN requests : requests[i] \in RequestMsg
           /\ \A i \in DOMAIN events : events[i] \in EventMsg
           /\ \A i \in DOMAIN stack : stack[i] \in Frame
<1> HIDE DEF RequestMsg, EventMsg, Frame
<1> QED
  BY DEF Queues

LEMMA MessagesMade ==
    /\ \A r \in Requests : Plain(r) \in RequestMsg
    /\ \A r \in Requests \cup {Unasked} :
         /\ Plain(r) \in EventMsg /\ Plain(r).type = "plain" /\ Plain(r).of = r
         /\ Handler(r) \in Frame /\ Handler(r).type = "handler" /\ Handler(r).of = r
         /\ Handler(r).waits = {}
    /\ \A n \in CallbackIDs, p \in Callbacks :
         /\ Sync(n, p) \in RequestMsg
         /\ Sync(n, p).type = "sync" /\ Sync(n, p).id = n /\ Sync(n, p).of = p
         /\ Done(n, p) \in EventMsg
         /\ Done(n, p).type = "done" /\ Done(n, p).id = n /\ Done(n, p).of = p
         /\ DeleteIDEvent(n, p) \in EventMsg
         /\ DeleteIDEvent(n, p).type = "delete_id" /\ DeleteIDEvent(n, p).id = n
         /\ DeleteIDEvent(n, p).of = p
    /\ ErrorEvent \in EventMsg /\ ErrorEvent.type = "error"
    /\ \A p \in Callbacks, w \in SUBSET Requests :
         /\ Call(p, w) \in Frame /\ Call(p, w).type = "call"
         /\ Call(p, w).of = p /\ Call(p, w).waits = w
BY DEF RequestMsg, EventMsg, Frame, Plain, Handler, Sync, Done, DeleteIDEvent, ErrorEvent, Call

(* Whether a call is running, and what is in flight, by index.             *)
LEMMA OpenCallsByIndex ==
    /\ OpenCalls = {p \in Callbacks :
                      \E i \in DOMAIN stack : stack[i].type = "call" /\ stack[i].of = p}
    /\ OpenCalls' = {p \in Callbacks :
                      \E i \in DOMAIN stack' : stack'[i].type = "call" /\ stack'[i].of = p}
BY DEF OpenCalls, InCall, Content

LEMMA InFlightByIndex ==
    ASSUME Queues, NEW r \in Requests \cup {Unasked}
    PROVE  /\ InFlight(requests, r) <=>
                \E i \in DOMAIN requests : requests[i].type = "plain" /\ requests[i].of = r
           /\ InFlight(events, r) <=>
                \E i \in DOMAIN events : events[i].type = "plain" /\ events[i].of = r
<1>1. \A i \in DOMAIN requests : requests[i].type = "plain" => requests[i] = Plain(requests[i].of)
  BY QueueFacts, RequestFacts
<1>2. \A i \in DOMAIN events : events[i].type = "plain" => events[i] = Plain(events[i].of)
  BY QueueFacts, EventFacts
<1>3. Plain(r).type = "plain" /\ Plain(r).of = r
  BY DEF Plain
<1> QED
  BY <1>1, <1>2, <1>3 DEF InFlight, Content

-----------------------------------------------------------------------------
(* The table is left alone.                                                *)
LEMMA TableKept ==
    ASSUME TableInv, UNCHANGED table
    PROVE  TableInv' /\ objects' = objects /\ zombie' = zombie
<1>1. TP!IInv /\ UNCHANGED TP!vars
  BY TableInvIsTheirs DEF table, TP!vars
<1>2. TP!IInv'
  BY <1>1, TableAssumption, TP!NextIInv, Zenon
<1> QED
  BY <1>2, TableInvIsTheirs DEF table

(* A step that only fails the connection, ends the server or returns.      *)
LEMMA QuietIInv ==
    ASSUME IInv, UNCHANGED <<table, unsent, requests, events, stack, done>>,
           fatal' \in BOOLEAN, alive' \in BOOLEAN, returned' \in {"none", "nil", "error"},
           (alive' /\ ~fatal') => (alive /\ ~fatal)
    PROVE  IInv'
<1>1. TableInv'
  BY TableKept DEF IInv
<1>2. OpenCalls' = OpenCalls
  BY DEF OpenCalls, InCall
<1>3. Queues' /\ Control'
  BY <1>2 DEF IInv, Queues, Control
<1>4. OnePlace' /\ CallStack' /\ GivenBackOnce'
  BY DEF IInv, OnePlace, CallStack, GivenBackOnce
<1>5. Behind'
  BY DEF IInv, Behind
<1>6. Routing'
  BY <1>2 DEF IInv, Routing, table
<1>7. AbandonedIDsComeBack'
  BY DEF IInv, AbandonedIDsComeBack, table
<1> QED
  BY <1>1, <1>3, <1>4, <1>5, <1>6, <1>7 DEF IInv


-----------------------------------------------------------------------------
(* The application's calls.                                                *)
LEMMA IssueIInv ==
    ASSUME IInv, NEW r \in Requests, Issue(r)
    PROVE  IInv'
<1> DEFINE L == Len(requests)
<1>1. /\ r \in unsent /\ unsent' = unsent \ {r} /\ requests' = Append(requests, Plain(r))
      /\ UNCHANGED <<table, fatal, events, stack, done, returned, alive>>
  BY DEF Issue
<1>2. Plain(r) \in RequestMsg /\ Plain(r).type = "plain" /\ Plain(r).of = r
  BY MessagesMade
<1>3. /\ requests' \in Seq(RequestMsg) /\ L \in Nat /\ DOMAIN requests = 1 .. L
      /\ DOMAIN requests' = 1 .. L + 1
      /\ \A i \in 1 .. L : requests'[i] = requests[i]
      /\ requests'[L + 1].type = "plain" /\ requests'[L + 1].of = r
  BY <1>1, <1>2, AppendFacts DEF IInv, Queues
<1>4. \A i \in DOMAIN requests' : i \in DOMAIN requests \/ i = L + 1
  BY <1>3
<1>5. TableInv' /\ objects' = objects /\ zombie' = zombie
  BY <1>1, TableKept DEF IInv
<1>6. OpenCalls' = OpenCalls
  BY <1>1 DEF OpenCalls, InCall
<1>7. Queues' /\ Control'
  BY <1>1, <1>3, <1>6 DEF IInv, Queues, Control
<1>8. OnePlace'
  BY <1>1, <1>3, <1>4 DEF IInv, OnePlace
<1>9. CallStack'
  BY <1>1 DEF IInv, CallStack
<1>10. Behind'
  <2> SUFFICES ASSUME NEW i \in DOMAIN stack, stack[i].type = "call"
               PROVE  /\ \A j \in DOMAIN requests' :
                          (requests'[j].type = "sync" /\ requests'[j].of = stack[i].of) =>
                            \A k \in DOMAIN requests' :
                              (requests'[k].type = "plain" /\ requests'[k].of \in stack[i].waits) => k < j
                      /\ \A j \in DOMAIN events :
                          (events[j].type = "done" /\ events[j].of = stack[i].of) =>
                            \A k \in DOMAIN requests' :
                              requests'[k].type = "plain" => requests'[k].of \notin stack[i].waits
                      /\ stack[i].of \in done =>
                          \A k \in DOMAIN requests' :
                              requests'[k].type = "plain" => requests'[k].of \notin stack[i].waits
    BY <1>1 DEF IInv, Behind
  <2>1. r \notin stack[i].waits
    BY <1>1 DEF IInv, CallStack
  <2> QED
    BY <1>3, <1>4, <2>1 DEF IInv, Behind
<1>11. Routing'
  BY <1>1, <1>3, <1>4, <1>5, <1>6 DEF IInv, Routing
<1>12. GivenBackOnce'
  BY <1>1, <1>3, <1>4 DEF IInv, GivenBackOnce
<1>13. AbandonedIDsComeBack'
  <2>1. Content(requests) \subseteq Content(requests')
    BY <1>3 DEF Content
  <2> QED
    BY <1>1, <1>5, <2>1 DEF IInv, AbandonedIDsComeBack
<1> QED
  BY <1>5, <1>7, <1>8, <1>9, <1>10, <1>11, <1>12, <1>13 DEF IInv

(* A new call: its sync is behind everything, its ID and its callback are  *)
(* nobody's, and what it waits for has no handler yet.                     *)
LEMMA BeginIInv ==
    ASSUME IInv, NEW p \in Callbacks, Begin(p)
    PROVE  IInv'
<1> DEFINE L == Len(requests)
<1> DEFINE D == Len(stack)
<1>1. /\ ApplicationRuns /\ ~fatal /\ D + 2 <= MaxDepth /\ Unused(p)
      /\ T!RegisterRecycled(p) \/ T!RegisterNew(p)
      /\ requests' = Append(requests, Sync(pid'[p], p))
      /\ stack' = Append(stack, Call(p, Outstanding))
      /\ UNCHANGED <<fatal, unsent, events, done, returned, alive>>
  BY DEF Begin
<1>2. p \in Proxies
  BY DEF Callbacks
<1>3. TableInv'
  BY <1>1, <1>2, RegisterTable DEF IInv
<1>4. PICK n \in CallbackIDs :
        /\ n \notin DOMAIN objects
        /\ DOMAIN objects' = DOMAIN objects \cup {n}
        /\ objects'[n] = p /\ \A m \in DOMAIN objects : objects'[m] = objects[m]
        /\ pid'[p] = n
        /\ zombie'[p] = FALSE /\ \A q \in Proxies : q # p => zombie'[q] = zombie[q]
  BY <1>1, RegisterFacts DEF IInv
<1>5. Sync(n, p) \in RequestMsg /\ Sync(n, p).type = "sync" /\ Sync(n, p).id = n /\ Sync(n, p).of = p
  BY MessagesMade
<1>6. /\ requests' \in Seq(RequestMsg) /\ L \in Nat /\ DOMAIN requests = 1 .. L
      /\ DOMAIN requests' = 1 .. L + 1
      /\ \A i \in 1 .. L : requests'[i] = requests[i]
      /\ requests'[L + 1] = Sync(n, p)
  BY <1>1, <1>4, <1>5, AppendFacts DEF IInv, Queues
<1>7. \A i \in DOMAIN requests' : i \in DOMAIN requests \/ i = L + 1
  BY <1>6
<1>8. Outstanding \in SUBSET Requests
  BY DEF Outstanding
<1>9. /\ Call(p, Outstanding) \in Frame /\ Call(p, Outstanding).type = "call"
      /\ Call(p, Outstanding).of = p /\ Call(p, Outstanding).waits = Outstanding
  BY <1>8, MessagesMade
<1>10. /\ stack' \in Seq(Frame) /\ D \in Nat /\ DOMAIN stack = 1 .. D
       /\ DOMAIN stack' = 1 .. D + 1 /\ Len(stack') = D + 1
       /\ \A i \in 1 .. D : stack'[i] = stack[i]
       /\ stack'[D + 1] = Call(p, Outstanding)
  BY <1>1, <1>9, AppendFacts DEF IInv, Queues
<1>11. \A i \in DOMAIN stack' : i \in DOMAIN stack \/ i = D + 1
  BY <1>10
<1>12. /\ \A i \in DOMAIN stack : stack[i].type = "call" => stack[i].of # p
       /\ \A i \in DOMAIN requests : requests[i].of # p
       /\ \A i \in DOMAIN events : events[i].of # p
  BY <1>1 DEF Unused, InCall, Content
<1>13. /\ \A i \in DOMAIN requests : requests[i].type = "sync" => requests[i].id # n
       /\ \A i \in DOMAIN events : events[i].type \in {"done", "delete_id"} => events[i].id # n
  BY <1>4 DEF IInv, Routing
<1>14. OpenCalls' = OpenCalls \cup {p}
  BY <1>9, <1>10, <1>11, OpenCallsByIndex
<1>15. Queues'
  BY <1>1, <1>6, <1>10 DEF IInv, Queues
<1>16. Control'
  <2>1. \A i \in DOMAIN stack' : (stack'[i].type = "call" /\ i > 1) => stack'[i - 1].type = "handler"
    <3> SUFFICES ASSUME NEW i \in DOMAIN stack', stack'[i].type = "call", i > 1
                 PROVE  stack'[i - 1].type = "handler"
      OBVIOUS
    <3>1. CASE i \in DOMAIN stack
      BY <1>10, <3>1 DEF IInv, Control
    <3>2. CASE i = D + 1
      <4>1. stack # << >> /\ i - 1 = D /\ D \in 1 .. D
        BY <1>10, <3>2
      <4> QED
        BY <1>1, <1>10, <4>1 DEF ApplicationRuns, Running, Top
    <3> QED
      BY <1>11, <3>1, <3>2
  <2>2. Len(stack') <= MaxDepth
    BY <1>1, <1>10, RoundtripAssumption
  <2>3. done' \subseteq OpenCalls'
    BY <1>1, <1>14 DEF IInv, Control
  <2> QED
    BY <1>1, <2>1, <2>2, <2>3 DEF IInv, Control
<1>17. Outstanding = {r \in Requests :
          \/ \E i \in DOMAIN requests : requests[i].type = "plain" /\ requests[i].of = r
          \/ \E i \in DOMAIN events : events[i].type = "plain" /\ events[i].of = r}
  BY InFlightByIndex DEF Outstanding, IInv
<1>18. OnePlace'
  BY <1>1, <1>5, <1>6, <1>7, <1>9, <1>10, <1>11 DEF IInv, OnePlace
<1>19. CallStack'
  <2>1. ASSUME NEW i \in DOMAIN stack', NEW j \in DOMAIN stack',
               stack'[i].type = "call", stack'[j].type = "call", stack'[i].of = stack'[j].of
        PROVE  i = j
    BY <1>9, <1>10, <1>11, <1>12, <2>1 DEF IInv, CallStack
  <2>2. ASSUME NEW i \in DOMAIN stack', stack'[i].type = "call"
        PROVE  i < MaxDepth /\ stack'[i].waits \cap unsent' = {}
    <3>1. CASE i \in DOMAIN stack
      BY <1>1, <1>10, <2>2, <3>1 DEF IInv, CallStack
    <3>2. CASE i = D + 1
      <4>1. i < MaxDepth
        BY <1>1, <1>10, <3>2, RoundtripAssumption
      <4>2. Outstanding \cap unsent = {}
        BY <1>17 DEF IInv, OnePlace
      <4> QED
        BY <1>1, <1>9, <1>10, <3>2, <4>1, <4>2
    <3> QED
      BY <1>11, <3>1, <3>2
  <2>3. ASSUME NEW i \in DOMAIN stack', NEW k \in DOMAIN stack',
               stack'[i].type = "call", stack'[k].type = "handler",
               stack'[k].of \in stack'[i].waits
        PROVE  i < k
    <3>1. k \in DOMAIN stack /\ stack'[k] = stack[k]
      BY <1>9, <1>10, <1>11, <2>3
    <3>2. CASE i \in DOMAIN stack
      BY <1>10, <2>3, <3>1, <3>2 DEF IInv, CallStack
    <3>3. CASE i = D + 1
      <4>1. stack[k].of \in Outstanding /\ stack[k].of # Unasked
        BY <1>8, <1>9, <1>10, <2>3, <3>1, <3>3, RoundtripAssumption
      <4> QED
        BY <1>17, <2>3, <3>1, <4>1 DEF IInv, OnePlace
    <3> QED
      BY <1>11, <3>2, <3>3
  <2> QED
    BY <2>1, <2>2, <2>3 DEF CallStack
<1>20. Behind'
  <2> SUFFICES ASSUME NEW i \in DOMAIN stack', stack'[i].type = "call"
               PROVE  /\ \A j \in DOMAIN requests' :
                          (requests'[j].type = "sync" /\ requests'[j].of = stack'[i].of) =>
                            \A k \in DOMAIN requests' :
                              (requests'[k].type = "plain" /\ requests'[k].of \in stack'[i].waits) => k < j
                      /\ \A j \in DOMAIN events :
                          (events[j].type = "done" /\ events[j].of = stack'[i].of) =>
                            /\ \A k \in DOMAIN requests' :
                                 requests'[k].type = "plain" => requests'[k].of \notin stack'[i].waits
                            /\ \A k \in DOMAIN events :
                                 (events[k].type = "plain" /\ events[k].of \in stack'[i].waits) => k < j
                      /\ stack'[i].of \in done =>
                          /\ \A k \in DOMAIN requests' :
                               requests'[k].type = "plain" => requests'[k].of \notin stack'[i].waits
                          /\ \A k \in DOMAIN events :
                               events[k].type = "plain" => events[k].of \notin stack'[i].waits
    BY SMTT(60), <1>1 DEF Behind
  <2>1. CASE i \in DOMAIN stack
    <3>1. stack'[i] = stack[i] /\ stack[i].type = "call" /\ stack[i].of # p
      BY <1>10, <1>12, <2>1
    <3> QED
      BY <1>5, <1>6, <1>7, <2>1, <3>1 DEF IInv, Behind
  <2>2. CASE i = D + 1
    <3>1. stack'[i].of = p
      BY <1>9, <1>10, <2>2
    <3>2. \A j \in DOMAIN requests' : requests'[j].of = p => j = L + 1
      BY <1>6, <1>7, <1>12
    <3>3. \A k \in DOMAIN requests' : requests'[k].type = "plain" => k < L + 1
      BY <1>5, <1>6, <1>7
    <3>4. p \notin done
      BY <1>1 DEF IInv, Control, OpenCalls, Unused
    <3> QED
      BY <1>12, <3>1, <3>2, <3>3, <3>4
  <2> QED
    BY <1>11, <2>1, <2>2
<1>21. Routing'
  <2>1. \A j \in DOMAIN requests : requests[j].type = "sync" => requests[j].of \in Proxies
    BY QueueFacts, RequestFacts DEF IInv, Callbacks
  <2>2. \A j \in DOMAIN events : events[j].type = "done" => events[j].of \in Proxies
    BY QueueFacts, EventFacts DEF IInv, Callbacks
  <2>3. ASSUME NEW j \in DOMAIN requests', requests'[j].type = "sync"
        PROVE  /\ requests'[j].id \in DOMAIN objects' /\ objects'[requests'[j].id] = requests'[j].of
               /\ zombie'[requests'[j].of] \/ requests'[j].of \in OpenCalls'
    <3>1. CASE j \in DOMAIN requests
      <4>1. requests'[j] = requests[j] /\ requests[j].of # p /\ requests[j].of \in Proxies
        BY <1>6, <1>12, <2>1, <2>3, <3>1
      <4>2. /\ requests[j].id \in DOMAIN objects /\ objects[requests[j].id] = requests[j].of
            /\ zombie[requests[j].of] \/ requests[j].of \in OpenCalls
        BY <2>3, <3>1, <4>1 DEF IInv, Routing
      <4> QED
        BY <1>4, <1>14, <4>1, <4>2
    <3>2. CASE j = L + 1
      BY <1>4, <1>5, <1>6, <1>14, <3>2
    <3> QED
      BY <1>7, <3>1, <3>2
  <2>4. ASSUME NEW j \in DOMAIN events, events[j].type \in {"done", "delete_id"}
        PROVE  events[j].id \in DOMAIN objects' /\ objects'[events[j].id] = events[j].of
    BY <1>4, <2>4 DEF IInv, Routing
  <2>5. ASSUME NEW j \in DOMAIN events, events[j].type = "done"
        PROVE  zombie'[events[j].of] \/ events[j].of \in OpenCalls'
    BY <1>4, <1>12, <1>14, <2>2, <2>5 DEF IInv, Routing
  <2>6. events' = events
    BY <1>1
  <2> QED
    BY <2>3, <2>4, <2>5, <2>6 DEF Routing
<1>22. GivenBackOnce'
  BY <1>1, <1>5, <1>6, <1>7, <1>13 DEF IInv, GivenBackOnce
<1>23. AbandonedIDsComeBack'
  <2>1. Content(requests) \subseteq Content(requests') /\ Sync(n, p) \in Content(requests')
    BY <1>6 DEF Content
  <2>2. alive' /\ ~fatal' => alive /\ ~fatal
    BY <1>1
  <2>3. ASSUME alive', ~fatal', NEW m \in DOMAIN objects' \ {T!DisplayID}
        PROVE  \E x \in Content(requests') \cup Content(events') :
                  x.type \in {"sync", "delete_id"} /\ x.id = m /\ x.of = objects'[m]
    <3>1. CASE m = n
      BY <1>4, <1>5, <2>1, <3>1
    <3>2. CASE m \in DOMAIN objects
      <4>1. PICK x \in Content(requests) \cup Content(events) :
                  x.type \in {"sync", "delete_id"} /\ x.id = m /\ x.of = objects[m]
        BY <2>2, <2>3, <3>2 DEF IInv, AbandonedIDsComeBack
      <4> QED
        BY <1>1, <1>4, <2>1, <3>2, <4>1
    <3> QED
      BY <1>4, <3>1, <3>2
  <2> QED
    BY <2>3 DEF AbandonedIDsComeBack, T!DisplayID
<1> QED
  BY <1>3, <1>15, <1>16, <1>18, <1>19, <1>20, <1>21, <1>22, <1>23 DEF IInv

(* A Sync that fails registers its callback and writes nothing.            *)
LEMMA BeginFailsIInv ==
    ASSUME IInv, NEW p \in Callbacks, BeginFails(p)
    PROVE  IInv'
<1>1. /\ Unused(p)
      /\ T!RegisterRecycled(p) \/ T!RegisterNew(p)
      /\ fatal' = TRUE /\ returned' = "error"
      /\ UNCHANGED <<unsent, requests, events, stack, done, alive>>
  BY DEF BeginFails
<1>2. TableInv'
  BY <1>1, RegisterTable DEF IInv, Callbacks
<1>3. PICK n \in CallbackIDs :
        /\ n \notin DOMAIN objects
        /\ DOMAIN objects' = DOMAIN objects \cup {n}
        /\ \A m \in DOMAIN objects : objects'[m] = objects[m]
        /\ \A q \in Proxies : q # p => zombie'[q] = zombie[q]
  BY <1>1, RegisterFacts DEF IInv
<1>4. OpenCalls' = OpenCalls
  BY <1>1 DEF OpenCalls, InCall
<1>5. Queues' /\ Control'
  BY <1>1, <1>4 DEF IInv, Queues, Control
<1>6. OnePlace' /\ CallStack' /\ GivenBackOnce'
  BY <1>1 DEF IInv, OnePlace, CallStack, GivenBackOnce
<1>7. Behind'
  BY <1>1 DEF IInv, Behind
<1>8. Routing'
  <2>1. \A j \in DOMAIN requests : requests[j].type = "sync" => requests[j].of \in Proxies
    BY QueueFacts, RequestFacts DEF IInv, Callbacks
  <2>2. \A j \in DOMAIN events : events[j].type = "done" => events[j].of \in Proxies
    BY QueueFacts, EventFacts DEF IInv, Callbacks
  <2>3. /\ \A j \in DOMAIN requests : requests[j].of # p
        /\ \A j \in DOMAIN events : events[j].of # p
    BY <1>1 DEF Unused, Content
  <2> QED
    BY <1>1, <1>3, <1>4, <2>1, <2>2, <2>3 DEF IInv, Routing
<1>9. AbandonedIDsComeBack'
  BY <1>1 DEF AbandonedIDsComeBack
<1> QED
  BY <1>2, <1>5, <1>6, <1>7, <1>8, <1>9 DEF IInv

(* A frame leaves the stack.                                               *)
LEMMA PopShape ==
    ASSUME IInv, stack # << >>, stack' = Pop, UNCHANGED <<requests, events, unsent>>
    PROVE  /\ Queues' /\ OnePlace' /\ CallStack' /\ Len(stack') <= MaxDepth
           /\ \A i \in DOMAIN stack' :
                (stack'[i].type = "call" /\ i > 1) => stack'[i - 1].type = "handler"
<1> DEFINE D == Len(stack)
<1>1. /\ stack' \in Seq(Frame) /\ D \in Nat /\ D > 0 /\ DOMAIN stack = 1 .. D
      /\ DOMAIN stack' = 1 .. D - 1 /\ Len(stack') = D - 1
      /\ \A i \in 1 .. D - 1 : stack'[i] = stack[i]
  BY PopFacts DEF IInv
<1>2. \A i \in DOMAIN stack' : i \in DOMAIN stack /\ stack'[i] = stack[i]
  BY <1>1
<1>3. Queues'
  BY <1>1 DEF IInv, Queues
<1>4. OnePlace'
  BY <1>2 DEF IInv, OnePlace
<1>5. CallStack'
  BY <1>2 DEF IInv, CallStack
<1>6. \A i \in DOMAIN stack' :
         (stack'[i].type = "call" /\ i > 1) => stack'[i - 1].type = "handler"
  <2> SUFFICES ASSUME NEW i \in DOMAIN stack', stack'[i].type = "call", i > 1
               PROVE  stack'[i - 1].type = "handler"
    OBVIOUS
  <2>1. i - 1 \in DOMAIN stack' /\ i \in DOMAIN stack
    BY <1>1
  <2> QED
    BY <1>2, <2>1 DEF IInv, Control
<1>7. Len(stack') <= MaxDepth
  BY <1>1, RoundtripAssumption DEF IInv, Control
<1> QED
  BY <1>3, <1>4, <1>5, <1>6, <1>7

(* Roundtrip returns and destroys its callback.                            *)
LEMMA LeaveIInv ==
    ASSUME IInv, Running("call"), NEW result \in {"nil", "error"}, Leave(result)
    PROVE  IInv'
<1> DEFINE D == Len(stack)
<1> DEFINE p == Top.of
<1>1. /\ stack # << >> /\ Top.type = "call" /\ T!MarkZombie(p)
      /\ stack' = Pop /\ done' = done \ {p} /\ returned' = result
      /\ UNCHANGED <<fatal, unsent, requests, events, alive>>
  BY DEF Running, Leave, Destroy
<1>2. /\ D \in Nat /\ D > 0 /\ DOMAIN stack = 1 .. D /\ Top \in Frame
      /\ DOMAIN stack' = 1 .. D - 1 /\ \A i \in 1 .. D - 1 : stack'[i] = stack[i]
  BY <1>1, PopFacts DEF IInv
<1>3. p \in Callbacks /\ p \in Proxies
  BY <1>1, <1>2, FrameFacts DEF Callbacks
<1>4. /\ TableInv' /\ objects' = objects
      /\ zombie'[p] = TRUE /\ \A q \in Proxies : q # p => zombie'[q] = zombie[q]
  <2>1. zombie \in [Proxies -> BOOLEAN]
    BY DEF IInv, TableInv, T!TypeOK
  <2> QED
    BY <1>1, <1>3, <2>1, MarkZombieTable DEF IInv, T!MarkZombie
<1>5. \A i \in DOMAIN stack' :
        i \in DOMAIN stack /\ stack'[i] = stack[i] /\ (stack[i].type = "call" => stack[i].of # p)
  <2>1. D \in DOMAIN stack /\ stack[D] = Top
    BY <1>2 DEF Top
  <2> QED
    BY <1>1, <1>2, <2>1 DEF IInv, CallStack
<1>6. OpenCalls' = OpenCalls \ {p}
  <2>1. \A i \in DOMAIN stack : i \in DOMAIN stack' \/ (i = D /\ stack[i] = Top)
    BY <1>2 DEF Top
  <2> QED
    BY <1>1, <1>5, <2>1, OpenCallsByIndex
<1>7. /\ Queues' /\ OnePlace' /\ CallStack' /\ Len(stack') <= MaxDepth
      /\ \A i \in DOMAIN stack' :
           (stack'[i].type = "call" /\ i > 1) => stack'[i - 1].type = "handler"
  BY <1>1, PopShape
<1>8. Control'
  BY <1>1, <1>6, <1>7 DEF IInv, Control
<1>9. Behind'
  <2>1. \A q : q # p => (q \in done' <=> q \in done)
    BY <1>1
  <2> QED
    BY <1>1, <1>5, <2>1 DEF IInv, Behind
<1>10. Routing'
  <2>1. \A j \in DOMAIN requests : requests[j].type = "sync" => requests[j].of \in Proxies
    BY QueueFacts, RequestFacts DEF IInv, Callbacks
  <2>2. \A j \in DOMAIN events : events[j].type = "done" => events[j].of \in Proxies
    BY QueueFacts, EventFacts DEF IInv, Callbacks
  <2> QED
    BY <1>1, <1>4, <1>6, <2>1, <2>2 DEF IInv, Routing
<1>11. GivenBackOnce' /\ AbandonedIDsComeBack'
  BY <1>1, <1>4 DEF IInv, GivenBackOnce, AbandonedIDsComeBack
<1> QED
  BY <1>4, <1>7, <1>8, <1>9, <1>10, <1>11 DEF IInv

(* A handler returns, or panics.                                           *)
LEMMA HandlerEndsIInv ==
    ASSUME IInv, HandlerReturns \/ HandlerPanics
    PROVE  IInv'
<1> DEFINE D == Len(stack)
<1>1. /\ stack # << >> /\ Top.type = "handler" /\ stack' = Pop
      /\ UNCHANGED <<table, unsent, requests, events, done, returned, alive>>
      /\ fatal' \in {fatal, TRUE}
  BY DEF HandlerReturns, HandlerPanics, Running
<1>2. /\ D \in Nat /\ D > 0 /\ DOMAIN stack = 1 .. D
      /\ DOMAIN stack' = 1 .. D - 1 /\ \A i \in 1 .. D - 1 : stack'[i] = stack[i]
  BY <1>1, PopFacts DEF IInv
<1>3. TableInv' /\ objects' = objects /\ zombie' = zombie
  BY <1>1, TableKept DEF IInv
<1>4. /\ \A i \in DOMAIN stack' : i \in DOMAIN stack /\ stack'[i] = stack[i]
      /\ \A i \in DOMAIN stack : i \in DOMAIN stack' \/ stack[i].type # "call"
  BY <1>1, <1>2 DEF Top
<1>5. OpenCalls' = OpenCalls
  BY <1>4, OpenCallsByIndex
<1>6. /\ Queues' /\ OnePlace' /\ CallStack' /\ Len(stack') <= MaxDepth
      /\ \A i \in DOMAIN stack' :
           (stack'[i].type = "call" /\ i > 1) => stack'[i - 1].type = "handler"
  BY <1>1, PopShape
<1>7. Control'
  BY <1>1, <1>5, <1>6 DEF IInv, Control
<1>8. Behind'
  BY <1>1, <1>4 DEF IInv, Behind
<1>9. Routing'
  BY <1>1, <1>3, <1>5 DEF IInv, Routing
<1>10. GivenBackOnce'
  BY <1>1 DEF IInv, GivenBackOnce
<1>11. AbandonedIDsComeBack'
  <2>1. (alive' /\ ~fatal') => (alive /\ ~fatal)
    BY <1>1
  <2> QED
    BY <1>1, <1>3, <2>1 DEF IInv, AbandonedIDsComeBack
<1> QED
  BY <1>3, <1>6, <1>7, <1>8, <1>9, <1>10, <1>11 DEF IInv

-----------------------------------------------------------------------------
(* Dispatch takes the first event.  What an event that answers a request   *)
(* leaves, its handler takes up, above every running call.                 *)
LEMMA ReadShape ==
    ASSUME IInv, Awaiting \/ ApplicationDispatches, events # << >>, events' = Tail(events),
           UNCHANGED <<unsent, requests, returned, alive>>,
           \/ stack' = stack
           \/ \E r \in Requests \cup {Unasked} :
                /\ stack' = Append(stack, Handler(r))
                /\ r # Unasked => events[1].type = "plain" /\ events[1].of = r
    PROVE  /\ Queues' /\ OnePlace' /\ CallStack' /\ GivenBackOnce' /\ OpenCalls' = OpenCalls
           /\ Len(stack') <= MaxDepth
           /\ \A i \in DOMAIN stack' :
                (stack'[i].type = "call" /\ i > 1) => stack'[i - 1].type = "handler"
           /\ \A i \in DOMAIN stack' :
                stack'[i].type = "call" => i \in DOMAIN stack /\ stack'[i] = stack[i]
           /\ events[1] \in EventMsg /\ Head(events) = events[1] /\ 1 \in DOMAIN events
           /\ \A i \in DOMAIN events' :
                i \in Nat \ {0} /\ i + 1 \in DOMAIN events /\ events'[i] = events[i + 1]
           /\ \A i \in DOMAIN events :
                i = 1 \/ (i - 1 \in DOMAIN events' /\ events'[i - 1] = events[i])
<1> DEFINE D == Len(stack)
<1>1. /\ events' \in Seq(EventMsg) /\ events[1] \in EventMsg /\ Head(events) = events[1]
      /\ Len(events) \in Nat /\ Len(events) > 0
      /\ DOMAIN events = 1 .. Len(events) /\ DOMAIN events' = 1 .. Len(events) - 1
      /\ \A i \in 1 .. Len(events) - 1 : events'[i] = events[i + 1]
      /\ \A i \in DOMAIN events :
           i = 1 \/ (i - 1 \in DOMAIN events' /\ events'[i - 1] = events[i])
  BY TailFacts DEF IInv, Queues
<1>2. /\ 1 \in DOMAIN events
      /\ \A i \in DOMAIN events' :
           i \in Nat \ {0} /\ i + 1 \in DOMAIN events /\ events'[i] = events[i + 1]
  BY <1>1
<1>3. /\ \A i, j \in DOMAIN events' :
           (events'[i].type = "plain" /\ events'[j].type = "plain"
              /\ events'[i].of = events'[j].of) => i = j
      /\ \A i \in DOMAIN requests, j \in DOMAIN events' :
           (requests[i].type = "plain" /\ events'[j].type = "plain")
              => requests[i].of # events'[j].of
      /\ \A i \in DOMAIN events' : events'[i].type = "plain" => events'[i].of \notin unsent
  BY <1>2 DEF IInv, OnePlace
<1>4. GivenBackOnce'
  BY <1>2 DEF IInv, GivenBackOnce
<1>5. D \in Nat /\ DOMAIN stack = 1 .. D
  BY QueueFacts DEF IInv
<1>6. CASE stack' = stack
  <2>1. Queues'
    BY <1>1, <1>6 DEF IInv, Queues
  <2>2. OnePlace'
    BY <1>2, <1>3, <1>6 DEF IInv, OnePlace
  <2>3. CallStack'
    BY <1>6 DEF IInv, CallStack
  <2>4. OpenCalls' = OpenCalls
    BY <1>6 DEF OpenCalls, InCall
  <2> QED
    BY <1>1, <1>2, <1>4, <1>6, <2>1, <2>2, <2>3, <2>4 DEF IInv, Control
<1>7. CASE stack' # stack
  <2>1. PICK r \in Requests \cup {Unasked} :
          /\ stack' = Append(stack, Handler(r))
          /\ r # Unasked => events[1].type = "plain" /\ events[1].of = r
    BY <1>7
  <2>2. /\ Handler(r) \in Frame /\ Handler(r).type = "handler" /\ Handler(r).of = r
        /\ Handler(r).waits = {}
    BY MessagesMade
  <2>3. /\ stack' \in Seq(Frame) /\ DOMAIN stack' = 1 .. D + 1 /\ Len(stack') = D + 1
        /\ \A i \in 1 .. D : stack'[i] = stack[i]
        /\ stack'[D + 1].type = "handler" /\ stack'[D + 1].of = r /\ stack'[D + 1].waits = {}
    BY <2>1, <2>2, AppendFacts DEF IInv, Queues
  <2>4. /\ \A i \in DOMAIN stack' : i \in DOMAIN stack \/ i = D + 1
        /\ \A i \in DOMAIN stack : i \in DOMAIN stack' /\ stack'[i] = stack[i]
    BY <1>5, <2>3
  <2>5. Queues'
    BY <1>1, <2>3 DEF IInv, Queues
  <2>6. OpenCalls' = OpenCalls
    BY <2>3, <2>4, OpenCallsByIndex
  <2>7. r # Unasked =>
          /\ r \notin unsent
          /\ \A j \in DOMAIN requests : requests[j].type = "plain" => requests[j].of # r
          /\ \A j \in DOMAIN events' : events'[j].type = "plain" => events'[j].of # r
          /\ \A j \in DOMAIN stack : stack[j].type = "handler" => stack[j].of # r
    <3> SUFFICES ASSUME r # Unasked
                 PROVE  /\ r \notin unsent
                        /\ \A j \in DOMAIN requests : requests[j].type = "plain" => requests[j].of # r
                        /\ \A j \in DOMAIN events' : events'[j].type = "plain" => events'[j].of # r
                        /\ \A j \in DOMAIN stack : stack[j].type = "handler" => stack[j].of # r
      OBVIOUS
    <3>1. events[1].type = "plain" /\ events[1].of = r
      BY <2>1
    <3>2. /\ r \notin unsent
          /\ \A j \in DOMAIN requests : requests[j].type = "plain" => requests[j].of # r
          /\ \A j \in DOMAIN stack : stack[j].type = "handler" => stack[j].of # r
      BY <1>2, <3>1 DEF IInv, OnePlace
    <3>3. ASSUME NEW j \in DOMAIN events', events'[j].type = "plain", events'[j].of = r
          PROVE  FALSE
      <4>1. j \in Nat \ {0} /\ j + 1 \in DOMAIN events /\ events'[j] = events[j + 1]
        BY <1>2
      <4>2. j + 1 = 1
        BY <1>2, <3>1, <3>3, <4>1 DEF IInv, OnePlace
      <4> QED
        BY <4>1, <4>2
    <3> QED
      BY <3>2, <3>3
  <2>8. OnePlace'
    <3>1. \A i, j \in DOMAIN stack' :
            (stack'[i].type = "handler" /\ stack'[j].type = "handler"
               /\ stack'[i].of = stack'[j].of) => i = j \/ stack'[i].of = Unasked
      BY <2>3, <2>4, <2>7 DEF IInv, OnePlace
    <3>2. ASSUME NEW i \in DOMAIN stack', stack'[i].type = "handler", stack'[i].of # Unasked
          PROVE  /\ stack'[i].of \notin unsent
                 /\ \A j \in DOMAIN requests : requests[j].type = "plain" => requests[j].of # stack'[i].of
                 /\ \A j \in DOMAIN events' : events'[j].type = "plain" => events'[j].of # stack'[i].of
      <4>1. CASE i \in DOMAIN stack
        BY <1>2, <2>4, <3>2, <4>1 DEF IInv, OnePlace
      <4>2. CASE i = D + 1
        BY <2>3, <2>7, <3>2, <4>2
      <4> QED
        BY <2>4, <4>1, <4>2
    <3>3. /\ \A i, j \in DOMAIN requests :
               (requests[i].type = "plain" /\ requests[j].type = "plain"
                  /\ requests[i].of = requests[j].of) => i = j
          /\ \A i \in DOMAIN requests : requests[i].type = "plain" => requests[i].of \notin unsent
      BY DEF IInv, OnePlace
    <3>4. requests' = requests /\ unsent' = unsent
      OBVIOUS
    <3> QED
      BY <1>3, <3>1, <3>2, <3>3, <3>4 DEF OnePlace
  <2>9. CallStack'
    <3>1. \A i, j \in DOMAIN stack' :
           (stack'[i].type = "call" /\ stack'[j].type = "call" /\ stack'[i].of = stack'[j].of) => i = j
      BY <2>3, <2>4 DEF IInv, CallStack
    <3>2. \A i \in DOMAIN stack' : stack'[i].type = "call" =>
             i < MaxDepth /\ stack'[i].waits \cap unsent = {}
      BY <2>3, <2>4 DEF IInv, CallStack
    <3>3. ASSUME NEW i \in DOMAIN stack', NEW k \in DOMAIN stack', stack'[i].type = "call",
                 stack'[k].type = "handler", stack'[k].of \in stack'[i].waits
          PROVE  i < k
      <4>1. i \in DOMAIN stack /\ stack'[i] = stack[i]
        BY <2>3, <2>4, <3>3
      <4>2. CASE k \in DOMAIN stack
        BY <2>4, <3>3, <4>1, <4>2 DEF IInv, CallStack
      <4>3. CASE k = D + 1
        BY <1>5, <4>1, <4>3
      <4> QED
        BY <2>4, <4>2, <4>3
    <3>4. unsent' = unsent
      OBVIOUS
    <3> QED
      BY <3>1, <3>2, <3>3, <3>4 DEF CallStack
  <2>10. D + 1 <= MaxDepth
    <3>1. CASE Awaiting
      <4>1. stack # << >> /\ stack[D].type = "call"
        BY <3>1 DEF Awaiting, Running, Top
      <4>2. D \in DOMAIN stack
        BY <1>5, <4>1, PopFacts DEF IInv
      <4> QED
        BY <1>5, <4>1, <4>2, RoundtripAssumption DEF IInv, CallStack
    <3>2. CASE ApplicationDispatches
      BY <1>5, <3>2, RoundtripAssumption DEF ApplicationDispatches
    <3> QED
      BY <3>1, <3>2
  <2>11. ASSUME NEW i \in DOMAIN stack', stack'[i].type = "call"
         PROVE  i \in DOMAIN stack /\ stack'[i] = stack[i]
    BY <2>3, <2>4, <2>11
  <2>12. ASSUME NEW i \in DOMAIN stack', stack'[i].type = "call", i > 1
         PROVE  stack'[i - 1].type = "handler"
    <3>1. i \in DOMAIN stack /\ stack'[i] = stack[i] /\ i - 1 \in DOMAIN stack
      BY <1>5, <2>11, <2>12
    <3> QED
      BY <2>4, <2>12, <3>1 DEF IInv, Control
  <2> QED
    BY <1>1, <1>2, <1>4, <2>3, <2>5, <2>6, <2>8, <2>9, <2>10, <2>11, <2>12
<1> QED
  BY <1>6, <1>7

(* What done tells a running call survives the loss of the first event.    *)
LEMMA ReadBehind ==
    ASSUME IInv, requests' = requests, done' = done,
           \A i \in DOMAIN stack' :
             stack'[i].type = "call" => i \in DOMAIN stack /\ stack'[i] = stack[i],
           \A i \in DOMAIN events' :
             i \in Nat \ {0} /\ i + 1 \in DOMAIN events /\ events'[i] = events[i + 1]
    PROVE  Behind'
<1> SUFFICES ASSUME NEW i \in DOMAIN stack', stack'[i].type = "call"
             PROVE  /\ \A j \in DOMAIN requests :
                         (requests[j].type = "sync" /\ requests[j].of = stack'[i].of) =>
                           \A k \in DOMAIN requests :
                             (requests[k].type = "plain" /\ requests[k].of \in stack'[i].waits) => k < j
                    /\ \A j \in DOMAIN events' :
                         (events'[j].type = "done" /\ events'[j].of = stack'[i].of) =>
                           /\ \A k \in DOMAIN requests :
                                requests[k].type = "plain" => requests[k].of \notin stack'[i].waits
                           /\ \A k \in DOMAIN events' :
                                (events'[k].type = "plain" /\ events'[k].of \in stack'[i].waits) => k < j
                    /\ stack'[i].of \in done =>
                         /\ \A k \in DOMAIN requests :
                              requests[k].type = "plain" => requests[k].of \notin stack'[i].waits
                         /\ \A k \in DOMAIN events' :
                              events'[k].type = "plain" => events'[k].of \notin stack'[i].waits
  BY DEF Behind
<1>1. i \in DOMAIN stack /\ stack'[i] = stack[i] /\ stack[i].type = "call"
  OBVIOUS
<1>2. \A j \in DOMAIN requests :
         (requests[j].type = "sync" /\ requests[j].of = stack'[i].of) =>
           \A k \in DOMAIN requests :
             (requests[k].type = "plain" /\ requests[k].of \in stack'[i].waits) => k < j
  BY <1>1 DEF IInv, Behind
<1>3. ASSUME NEW j \in DOMAIN events', events'[j].type = "done", events'[j].of = stack'[i].of
      PROVE  /\ \A k \in DOMAIN requests :
                  requests[k].type = "plain" => requests[k].of \notin stack'[i].waits
             /\ \A k \in DOMAIN events' :
                  (events'[k].type = "plain" /\ events'[k].of \in stack'[i].waits) => k < j
  <2>1. j \in Nat /\ j + 1 \in DOMAIN events /\ events'[j] = events[j + 1]
    OBVIOUS
  <2>2. /\ \A k \in DOMAIN requests :
             requests[k].type = "plain" => requests[k].of \notin stack[i].waits
        /\ \A k \in DOMAIN events :
             (events[k].type = "plain" /\ events[k].of \in stack[i].waits) => k < j + 1
    BY <1>1, <1>3, <2>1 DEF IInv, Behind
  <2>3. ASSUME NEW k \in DOMAIN events', events'[k].type = "plain",
               events'[k].of \in stack'[i].waits
        PROVE  k < j
    <3>1. k \in Nat /\ k + 1 \in DOMAIN events /\ events'[k] = events[k + 1]
      OBVIOUS
    <3>2. k + 1 < j + 1
      BY <1>1, <2>2, <2>3, <3>1
    <3> QED
      BY <2>1, <3>1, <3>2
  <2> QED
    BY <1>1, <2>2, <2>3
<1>4. stack'[i].of \in done =>
         /\ \A k \in DOMAIN requests :
              requests[k].type = "plain" => requests[k].of \notin stack'[i].waits
         /\ \A k \in DOMAIN events' :
              events'[k].type = "plain" => events'[k].of \notin stack'[i].waits
  BY <1>1 DEF IInv, Behind
<1> QED
  BY <1>2, <1>3, <1>4

(* An event or an error reaches its handler; the table stays as it is.     *)
LEMMA DispatchPlainIInv ==
    ASSUME IInv, Awaiting \/ ApplicationDispatches, events # << >>, events' = Tail(events),
           UNCHANGED <<unsent, requests, returned, alive>>,
           DispatchPlain(Head(events)) \/ DispatchError(Head(events))
    PROVE  IInv'
<1>1. events[1] \in EventMsg /\ Head(events) = events[1]
  BY TailFacts DEF IInv, Queues
<1>2. /\ UNCHANGED <<table, done>> /\ fatal' \in {fatal, TRUE}
      /\ events[1].type = "plain" \/ (events[1].type = "error" /\ fatal' = TRUE)
  BY <1>1 DEF DispatchPlain, DispatchError
<1>3. \E r \in Requests \cup {Unasked} :
        /\ stack' = Append(stack, Handler(r))
        /\ r # Unasked => events[1].type = "plain" /\ events[1].of = r
  BY <1>1, EventFacts DEF DispatchPlain, DispatchError, Enter
<1>4. /\ Queues' /\ OnePlace' /\ CallStack' /\ GivenBackOnce' /\ OpenCalls' = OpenCalls
      /\ Len(stack') <= MaxDepth
      /\ \A i \in DOMAIN stack' :
           (stack'[i].type = "call" /\ i > 1) => stack'[i - 1].type = "handler"
      /\ \A i \in DOMAIN stack' :
           stack'[i].type = "call" => i \in DOMAIN stack /\ stack'[i] = stack[i]
      /\ \A i \in DOMAIN events' :
           i \in Nat \ {0} /\ i + 1 \in DOMAIN events /\ events'[i] = events[i + 1]
      /\ \A i \in DOMAIN events :
           i = 1 \/ (i - 1 \in DOMAIN events' /\ events'[i - 1] = events[i])
  BY <1>3, ReadShape
<1>5. TableInv' /\ objects' = objects /\ zombie' = zombie
  BY <1>2, TableKept DEF IInv
<1>6. Control'
  BY <1>2, <1>4 DEF IInv, Control
<1>7. Behind'
  BY <1>2, <1>4, ReadBehind
<1>8. Routing'
  BY <1>4, <1>5 DEF IInv, Routing
<1>9. AbandonedIDsComeBack'
  <2>1. (alive' /\ ~fatal') => (alive /\ ~fatal /\ events[1].type = "plain")
    BY <1>2
  <2>2. \A m \in Content(events) : m \in Content(events') \/ m = events[1]
    BY <1>4 DEF Content
  <2> QED
    BY <1>5, <2>1, <2>2 DEF IInv, AbandonedIDsComeBack
<1> QED
  BY <1>4, <1>5, <1>6, <1>7, <1>8, <1>9 DEF IInv

(* done reaches the call that waits for it, or its zombie.                 *)
LEMMA DispatchDoneIInv ==
    ASSUME IInv, Awaiting \/ ApplicationDispatches, events # << >>, events' = Tail(events),
           UNCHANGED <<unsent, requests, returned, alive>>,
           DispatchDone(Head(events))
    PROVE  IInv'
<1> DEFINE e == events[1]
<1>1. e \in EventMsg /\ Head(events) = e
  BY TailFacts DEF IInv, Queues
<1>2. e.type = "done" /\ UNCHANGED <<table, stack>>
  BY <1>1 DEF DispatchDone
<1>3. /\ Queues' /\ OnePlace' /\ CallStack' /\ GivenBackOnce' /\ OpenCalls' = OpenCalls
      /\ Len(stack') <= MaxDepth /\ 1 \in DOMAIN events
      /\ \A i \in DOMAIN stack' :
           (stack'[i].type = "call" /\ i > 1) => stack'[i - 1].type = "handler"
      /\ \A i \in DOMAIN stack' :
           stack'[i].type = "call" => i \in DOMAIN stack /\ stack'[i] = stack[i]
      /\ \A i \in DOMAIN events' :
           i \in Nat \ {0} /\ i + 1 \in DOMAIN events /\ events'[i] = events[i + 1]
      /\ \A i \in DOMAIN events :
           i = 1 \/ (i - 1 \in DOMAIN events' /\ events'[i - 1] = events[i])
  BY <1>2, ReadShape
<1>4. /\ e.id \in DOMAIN objects /\ objects[e.id] = e.of
      /\ zombie[e.of] \/ e.of \in OpenCalls
  BY <1>2, <1>3 DEF IInv, Routing
<1>5. fatal' = fatal /\ (done' = done \/ (done' = done \cup {e.of} /\ e.of \in OpenCalls))
  BY <1>1, <1>4 DEF DispatchDone
<1>6. TableInv' /\ objects' = objects /\ zombie' = zombie
  BY <1>2, TableKept DEF IInv
<1>7. Control'
  BY <1>3, <1>5 DEF IInv, Control
<1>8. Behind'
  <2>1. CASE done' = done
    BY <1>3, <2>1, ReadBehind
  <2>2. CASE done' = done \cup {e.of}
    <3> SUFFICES ASSUME NEW i \in DOMAIN stack, stack[i].type = "call"
                 PROVE  /\ \A j \in DOMAIN requests :
                             (requests[j].type = "sync" /\ requests[j].of = stack[i].of) =>
                               \A k \in DOMAIN requests :
                                 (requests[k].type = "plain" /\ requests[k].of \in stack[i].waits) => k < j
                        /\ \A j \in DOMAIN events' :
                             (events'[j].type = "done" /\ events'[j].of = stack[i].of) =>
                               /\ \A k \in DOMAIN requests :
                                    requests[k].type = "plain" => requests[k].of \notin stack[i].waits
                               /\ \A k \in DOMAIN events' :
                                    (events'[k].type = "plain" /\ events'[k].of \in stack[i].waits) => k < j
                        /\ stack[i].of \in done \cup {e.of} =>
                             /\ \A k \in DOMAIN requests :
                                  requests[k].type = "plain" => requests[k].of \notin stack[i].waits
                             /\ \A k \in DOMAIN events' :
                                  events'[k].type = "plain" => events'[k].of \notin stack[i].waits
      BY <1>2, <2>2 DEF Behind
    <3>1. \A j \in DOMAIN requests :
             (requests[j].type = "sync" /\ requests[j].of = stack[i].of) =>
               \A k \in DOMAIN requests :
                 (requests[k].type = "plain" /\ requests[k].of \in stack[i].waits) => k < j
      BY DEF IInv, Behind
    <3>2. ASSUME NEW j \in DOMAIN events', events'[j].type = "done", events'[j].of = stack[i].of
          PROVE  /\ \A k \in DOMAIN requests :
                      requests[k].type = "plain" => requests[k].of \notin stack[i].waits
                 /\ \A k \in DOMAIN events' :
                      (events'[k].type = "plain" /\ events'[k].of \in stack[i].waits) => k < j
      <4>1. j \in Nat /\ j + 1 \in DOMAIN events /\ events'[j] = events[j + 1]
        BY <1>3
      <4>2. /\ \A k \in DOMAIN requests :
                 requests[k].type = "plain" => requests[k].of \notin stack[i].waits
            /\ \A k \in DOMAIN events :
                 (events[k].type = "plain" /\ events[k].of \in stack[i].waits) => k < j + 1
        BY <3>2, <4>1 DEF IInv, Behind
      <4>3. ASSUME NEW k \in DOMAIN events', events'[k].type = "plain",
                   events'[k].of \in stack[i].waits
            PROVE  k < j
        <5>1. k \in Nat /\ k + 1 \in DOMAIN events /\ events'[k] = events[k + 1]
          BY <1>3
        <5>2. k + 1 < j + 1
          BY <4>2, <4>3, <5>1
        <5> QED
          BY <4>1, <5>1, <5>2
      <4> QED
        BY <4>2, <4>3
    <3>3. ASSUME stack[i].of \in done
          PROVE  /\ \A k \in DOMAIN requests :
                      requests[k].type = "plain" => requests[k].of \notin stack[i].waits
                 /\ \A k \in DOMAIN events' :
                      events'[k].type = "plain" => events'[k].of \notin stack[i].waits
      BY <1>3, <3>3 DEF IInv, Behind
    <3>4. ASSUME stack[i].of = e.of
          PROVE  /\ \A k \in DOMAIN requests :
                      requests[k].type = "plain" => requests[k].of \notin stack[i].waits
                 /\ \A k \in DOMAIN events' :
                      events'[k].type = "plain" => events'[k].of \notin stack[i].waits
      <4>1. /\ \A k \in DOMAIN requests :
                 requests[k].type = "plain" => requests[k].of \notin stack[i].waits
            /\ \A k \in DOMAIN events :
                 (events[k].type = "plain" /\ events[k].of \in stack[i].waits) => k < 1
        BY <1>2, <1>3, <3>4 DEF IInv, Behind
      <4>2. ASSUME NEW k \in DOMAIN events', events'[k].type = "plain",
                   events'[k].of \in stack[i].waits
            PROVE  FALSE
        <5>1. k \in Nat \ {0} /\ k + 1 \in DOMAIN events /\ events'[k] = events[k + 1]
          BY <1>3
        <5>2. k + 1 < 1
          BY <4>1, <4>2, <5>1
        <5> QED
          BY <5>1, <5>2
      <4> QED
        BY <4>1, <4>2
    <3> QED
      BY <3>1, <3>2, <3>3, <3>4
  <2> QED
    BY <1>5, <2>1, <2>2
<1>9. Routing'
  BY <1>3, <1>6 DEF IInv, Routing
<1>10. AbandonedIDsComeBack'
  <2>1. \A m \in Content(events) : m \in Content(events') \/ m = e
    BY <1>3 DEF Content
  <2> QED
    BY <1>2, <1>5, <1>6, <2>1 DEF IInv, AbandonedIDsComeBack
<1> QED
  BY <1>3, <1>6, <1>7, <1>8, <1>9, <1>10 DEF IInv

(* delete_id forgets an ID that no other message in flight names.          *)
LEMMA DispatchDeleteIDIInv ==
    ASSUME IInv, Awaiting \/ ApplicationDispatches, events # << >>, events' = Tail(events),
           UNCHANGED <<unsent, requests, returned, alive>>,
           DispatchDeleteID(Head(events))
    PROVE  IInv'
<1> DEFINE e == events[1]
<1>1. e \in EventMsg /\ Head(events) = e
  BY TailFacts DEF IInv, Queues
<1>2. /\ e.type = "delete_id" /\ T!DeleteID(e.id) /\ UNCHANGED <<fatal, done>>
      /\ stack' = Append(stack, Handler(Unasked))
  BY <1>1 DEF DispatchDeleteID, Enter
<1>3. /\ Queues' /\ OnePlace' /\ CallStack' /\ GivenBackOnce' /\ OpenCalls' = OpenCalls
      /\ Len(stack') <= MaxDepth /\ 1 \in DOMAIN events
      /\ \A i \in DOMAIN stack' :
           (stack'[i].type = "call" /\ i > 1) => stack'[i - 1].type = "handler"
      /\ \A i \in DOMAIN stack' :
           stack'[i].type = "call" => i \in DOMAIN stack /\ stack'[i] = stack[i]
      /\ \A i \in DOMAIN events' :
           i \in Nat \ {0} /\ i + 1 \in DOMAIN events /\ events'[i] = events[i + 1]
      /\ \A i \in DOMAIN events :
           i = 1 \/ (i - 1 \in DOMAIN events' /\ events'[i - 1] = events[i])
  BY <1>2, ReadShape
<1>4. e.id \in DOMAIN objects /\ objects[e.id] = e.of /\ e.id \in CallbackIDs
  BY <1>1, <1>2, <1>3, EventFacts DEF IInv, Routing
<1>5. e.id \in T!IDs
  BY <1>4, RoundtripAssumption DEF CallbackIDs, T!IDs
<1>6. TableInv'
  BY <1>2, <1>5, DeleteIDTable DEF IInv
<1>7. /\ DOMAIN objects' = DOMAIN objects \ {e.id}
      /\ \A m \in DOMAIN objects' : objects'[m] = objects[m]
      /\ zombie' = zombie
  BY <1>2, <1>4, DeleteIDFacts DEF IInv
<1>8. Control'
  BY <1>2, <1>3 DEF IInv, Control
<1>9. Behind'
  BY <1>2, <1>3, ReadBehind
<1>10. \A j \in DOMAIN requests : requests[j].type = "sync" => requests[j].id # e.id
  BY <1>2, <1>3 DEF IInv, GivenBackOnce
<1>11. ASSUME NEW j \in DOMAIN events', events'[j].type \in {"done", "delete_id"}
       PROVE  events'[j].id # e.id
  <2>1. j \in Nat \ {0} /\ j + 1 \in DOMAIN events /\ events'[j] = events[j + 1]
    BY <1>3
  <2> SUFFICES ASSUME events[j + 1].id = e.id PROVE FALSE
    BY <2>1
  <2>2. CASE events[j + 1].type = "delete_id"
    <3>1. j + 1 = 1
      BY <1>2, <1>3, <2>1, <2>2 DEF IInv, GivenBackOnce
    <3> QED
      BY <2>1, <3>1
  <2>3. CASE events[j + 1].type = "done"
    <3>1. j + 1 < 1
      BY <1>2, <1>3, <2>1, <2>3 DEF IInv, GivenBackOnce
    <3> QED
      BY <2>1, <3>1
  <2> QED
    BY <1>11, <2>1, <2>2, <2>3
<1>12. Routing'
  <2>1. ASSUME NEW j \in DOMAIN requests, requests[j].type = "sync"
        PROVE  /\ requests[j].id \in DOMAIN objects' /\ objects'[requests[j].id] = requests[j].of
               /\ zombie'[requests[j].of] \/ requests[j].of \in OpenCalls'
    BY <1>3, <1>7, <1>10, <2>1 DEF IInv, Routing
  <2>2. ASSUME NEW j \in DOMAIN events', events'[j].type \in {"done", "delete_id"}
        PROVE  events'[j].id \in DOMAIN objects' /\ objects'[events'[j].id] = events'[j].of
    BY <1>3, <1>7, <1>11, <2>2 DEF IInv, Routing
  <2>3. ASSUME NEW j \in DOMAIN events', events'[j].type = "done"
        PROVE  zombie'[events'[j].of] \/ events'[j].of \in OpenCalls'
    BY <1>3, <1>7, <2>3 DEF IInv, Routing
  <2>4. requests' = requests
    OBVIOUS
  <2> QED
    BY <2>1, <2>2, <2>3, <2>4 DEF Routing
<1>13. AbandonedIDsComeBack'
  <2>1. \A m \in Content(events) : m \in Content(events') \/ m = e
    BY <1>3 DEF Content
  <2>2. ASSUME alive', ~fatal', NEW n \in DOMAIN objects' \ {T!DisplayID}
        PROVE  \E x \in Content(requests') \cup Content(events') :
                  x.type \in {"sync", "delete_id"} /\ x.id = n /\ x.of = objects'[n]
    <3>1. n \in DOMAIN objects \ {T!DisplayID} /\ n # e.id /\ objects'[n] = objects[n]
      BY <1>7, <2>2
    <3>2. PICK x \in Content(requests) \cup Content(events) :
                  x.type \in {"sync", "delete_id"} /\ x.id = n /\ x.of = objects[n]
      BY <1>2, <2>2, <3>1 DEF IInv, AbandonedIDsComeBack
    <3> QED
      BY <2>1, <3>1, <3>2
  <2> QED
    BY <2>2 DEF AbandonedIDsComeBack, T!DisplayID
<1> QED
  BY <1>3, <1>6, <1>8, <1>9, <1>12, <1>13 DEF IInv

LEMMA DispatchIInv ==
    ASSUME IInv, Dispatch
    PROVE  IInv'
<1>1. CASE ReadFails
  <2>1. /\ fatal' = TRUE
        /\ UNCHANGED <<table, unsent, requests, events, stack, done, returned, alive>>
    BY <1>1 DEF ReadFails
  <2> QED
    BY <2>1, QuietIInv DEF IInv, Control
<1>2. CASE ReadEvent
  <2>1. /\ Awaiting \/ ApplicationDispatches
        /\ events # << >> /\ events' = Tail(events)
        /\ UNCHANGED <<unsent, requests, returned, alive>>
        /\ \/ DispatchPlain(Head(events)) \/ DispatchError(Head(events))
           \/ DispatchDone(Head(events)) \/ DispatchDeleteID(Head(events))
    BY <1>2 DEF ReadEvent, Dispatch
  <2> QED
    BY <2>1, DispatchPlainIInv, DispatchDoneIInv, DispatchDeleteIDIInv
<1> QED
  BY <1>1, <1>2 DEF Dispatch

-----------------------------------------------------------------------------
(* The server.  A request leaves the head of its queue; an event that is   *)
(* neither done nor delete_id joins the other one.                         *)
LEMMA EventJoins ==
    ASSUME IInv, NEW m \in EventMsg, m.type \in {"plain", "error"}, events' = Append(events, m),
           UNCHANGED <<table, fatal, unsent, stack, done, returned>>, alive' \in BOOLEAN,
           alive' => alive,
           \A i \in DOMAIN requests' :
             i \in Nat \ {0} /\ \E k \in DOMAIN requests : requests'[i] = requests[k],
           requests' \in Seq(RequestMsg),
           \A i, j \in DOMAIN requests' :
             \E k, l \in DOMAIN requests :
                /\ requests'[i] = requests[k] /\ requests'[j] = requests[l]
                /\ (i < j <=> k < l) /\ (i = j <=> k = l),
           \A x \in Content(requests) : x \in Content(requests') \/ x.type = "plain",
           m.type = "plain" =>
             /\ m.of \notin unsent
             /\ \A i \in DOMAIN events : events[i].type = "plain" => events[i].of # m.of
             /\ \A i \in DOMAIN requests' : requests'[i].type = "plain" => requests'[i].of # m.of
             /\ \A i \in DOMAIN stack :
                  (stack[i].type = "handler" /\ stack[i].of # Unasked) => stack[i].of # m.of
             /\ \A i \in DOMAIN stack :
                  (stack[i].type = "call" /\ m.of \in stack[i].waits) =>
                     \E k \in DOMAIN requests : requests[k].type = "plain" /\ requests[k].of = m.of
    PROVE  IInv'
<1> DEFINE M == Len(events)
<1>1. /\ events' \in Seq(EventMsg) /\ M \in Nat /\ DOMAIN events = 1 .. M
      /\ DOMAIN events' = 1 .. M + 1
      /\ \A i \in 1 .. M : events'[i] = events[i]
      /\ events'[M + 1] = m
  BY AppendFacts DEF IInv, Queues
<1>2. /\ \A i \in DOMAIN events' : i \in DOMAIN events \/ i = M + 1
      /\ \A i \in DOMAIN events' : events'[i].type \in {"done", "delete_id"} =>
           i \in DOMAIN events /\ events'[i] = events[i]
      /\ \A i \in DOMAIN events : i < M + 1 /\ i \in DOMAIN events' /\ events'[i] = events[i]
  BY <1>1
<1>3. TableInv' /\ objects' = objects /\ zombie' = zombie
  BY TableKept DEF IInv
<1>4. OpenCalls' = OpenCalls
  BY DEF OpenCalls, InCall
<1>5. Queues' /\ Control'
  BY <1>1, <1>4 DEF IInv, Queues, Control
<1>6. \A i \in DOMAIN requests' : \E k \in DOMAIN requests : requests'[i] = requests[k]
  OBVIOUS
<1>7. OnePlace'
  <2>1. /\ \A i, j \in DOMAIN requests' :
             (requests'[i].type = "plain" /\ requests'[j].type = "plain"
                /\ requests'[i].of = requests'[j].of) => i = j
        /\ \A i \in DOMAIN requests' : requests'[i].type = "plain" => requests'[i].of \notin unsent
    BY DEF IInv, OnePlace
  <2>2. \A i, j \in DOMAIN events' :
          (events'[i].type = "plain" /\ events'[j].type = "plain"
             /\ events'[i].of = events'[j].of) => i = j
    BY <1>1, <1>2 DEF IInv, OnePlace
  <2>3. ASSUME NEW i \in DOMAIN requests', NEW j \in DOMAIN events',
               requests'[i].type = "plain", events'[j].type = "plain"
        PROVE  requests'[i].of # events'[j].of
    <3>1. CASE j \in DOMAIN events
      BY <1>2, <1>6, <2>3, <3>1 DEF IInv, OnePlace
    <3>2. CASE j = M + 1
      BY <1>1, <2>3, <3>2
    <3> QED
      BY <1>2, <3>1, <3>2
  <2>4. \A i \in DOMAIN events' : events'[i].type = "plain" => events'[i].of \notin unsent
    BY <1>1, <1>2 DEF IInv, OnePlace
  <2>5. ASSUME NEW i \in DOMAIN stack, stack[i].type = "handler", stack[i].of # Unasked
        PROVE  /\ stack[i].of \notin unsent
               /\ \A j \in DOMAIN requests' : requests'[j].type = "plain" => requests'[j].of # stack[i].of
               /\ \A j \in DOMAIN events' : events'[j].type = "plain" => events'[j].of # stack[i].of
    BY <1>1, <1>2, <1>6, <2>5 DEF IInv, OnePlace
  <2>6. /\ \A i, j \in DOMAIN stack :
             (stack[i].type = "handler" /\ stack[j].type = "handler"
                /\ stack[i].of = stack[j].of) => i = j \/ stack[i].of = Unasked
        /\ stack' = stack /\ unsent' = unsent
    BY DEF IInv, OnePlace
  <2> QED
    BY <2>1, <2>2, <2>3, <2>4, <2>5, <2>6 DEF OnePlace
<1>8. CallStack'
  BY DEF IInv, CallStack
<1>9. Behind'
  <2> SUFFICES ASSUME NEW i \in DOMAIN stack, stack[i].type = "call"
               PROVE  /\ \A j \in DOMAIN requests' :
                           (requests'[j].type = "sync" /\ requests'[j].of = stack[i].of) =>
                             \A k \in DOMAIN requests' :
                               (requests'[k].type = "plain" /\ requests'[k].of \in stack[i].waits) => k < j
                      /\ \A j \in DOMAIN events' :
                           (events'[j].type = "done" /\ events'[j].of = stack[i].of) =>
                             /\ \A k \in DOMAIN requests' :
                                  requests'[k].type = "plain" => requests'[k].of \notin stack[i].waits
                             /\ \A k \in DOMAIN events' :
                                  (events'[k].type = "plain" /\ events'[k].of \in stack[i].waits) => k < j
                      /\ stack[i].of \in done =>
                           /\ \A k \in DOMAIN requests' :
                                requests'[k].type = "plain" => requests'[k].of \notin stack[i].waits
                           /\ \A k \in DOMAIN events' :
                                events'[k].type = "plain" => events'[k].of \notin stack[i].waits
    BY DEF Behind
  <2>1. ASSUME NEW j \in DOMAIN requests', requests'[j].type = "sync",
               requests'[j].of = stack[i].of, NEW k \in DOMAIN requests',
               requests'[k].type = "plain", requests'[k].of \in stack[i].waits
        PROVE  k < j
    <3>1. PICK a, b \in DOMAIN requests :
                /\ requests'[k] = requests[a] /\ requests'[j] = requests[b]
                /\ (k < j <=> a < b) /\ (k = j <=> a = b)
      OBVIOUS
    <3>2. a < b
      BY <2>1, <3>1 DEF IInv, Behind
    <3> QED
      BY <3>1, <3>2
  <2>2. ASSUME NEW j \in DOMAIN events', events'[j].type = "done", events'[j].of = stack[i].of
        PROVE  /\ \A k \in DOMAIN requests' :
                    requests'[k].type = "plain" => requests'[k].of \notin stack[i].waits
               /\ \A k \in DOMAIN events' :
                    (events'[k].type = "plain" /\ events'[k].of \in stack[i].waits) => k < j
    <3>1. j \in DOMAIN events /\ events'[j] = events[j]
      BY <1>2, <2>2
    <3>2. /\ \A k \in DOMAIN requests :
               requests[k].type = "plain" => requests[k].of \notin stack[i].waits
          /\ \A k \in DOMAIN events :
               (events[k].type = "plain" /\ events[k].of \in stack[i].waits) => k < j
      BY <2>2, <3>1 DEF IInv, Behind
    <3>3. ~(m.type = "plain" /\ m.of \in stack[i].waits)
      BY <3>2
    <3> QED
      BY <1>1, <1>2, <1>6, <3>2, <3>3
  <2>3. ASSUME stack[i].of \in done
        PROVE  /\ \A k \in DOMAIN requests' :
                    requests'[k].type = "plain" => requests'[k].of \notin stack[i].waits
               /\ \A k \in DOMAIN events' :
                    events'[k].type = "plain" => events'[k].of \notin stack[i].waits
    <3>1. /\ \A k \in DOMAIN requests :
               requests[k].type = "plain" => requests[k].of \notin stack[i].waits
          /\ \A k \in DOMAIN events :
               events[k].type = "plain" => events[k].of \notin stack[i].waits
      BY <2>3 DEF IInv, Behind
    <3>2. ~(m.type = "plain" /\ m.of \in stack[i].waits)
      BY <3>1
    <3> QED
      BY <1>1, <1>2, <1>6, <3>1, <3>2
  <2> QED
    BY <2>1, <2>2, <2>3
<1>10. Routing'
  <2>1. \A j \in DOMAIN requests' : requests'[j].type = "sync" =>
          /\ requests'[j].id \in DOMAIN objects /\ objects[requests'[j].id] = requests'[j].of
          /\ zombie[requests'[j].of] \/ requests'[j].of \in OpenCalls
    BY <1>6 DEF IInv, Routing
  <2>2. \A j \in DOMAIN events' : events'[j].type \in {"done", "delete_id"} =>
          events'[j].id \in DOMAIN objects /\ objects[events'[j].id] = events'[j].of
    BY <1>2 DEF IInv, Routing
  <2>3. \A j \in DOMAIN events' : events'[j].type = "done" =>
          zombie[events'[j].of] \/ events'[j].of \in OpenCalls
    BY <1>2 DEF IInv, Routing
  <2> QED
    BY <1>3, <1>4, <2>1, <2>2, <2>3 DEF Routing
<1>11. GivenBackOnce'
  <2>1. \A i, j \in DOMAIN requests' :
          (requests'[i].type = "sync" /\ requests'[j].type = "sync"
             /\ requests'[i].id = requests'[j].id) => i = j
    BY DEF IInv, GivenBackOnce
  <2>2. \A i \in DOMAIN requests', j \in DOMAIN events' :
          (requests'[i].type = "sync" /\ events'[j].type \in {"done", "delete_id"})
             => requests'[i].id # events'[j].id
    BY <1>2, <1>6 DEF IInv, GivenBackOnce
  <2>3. /\ \A i, j \in DOMAIN events' :
             (events'[i].type = "delete_id" /\ events'[j].type = "delete_id"
                /\ events'[i].id = events'[j].id) => i = j
        /\ \A i, j \in DOMAIN events' :
             (events'[i].type = "done" /\ events'[j].type = "delete_id"
                /\ events'[i].id = events'[j].id) => i < j
    BY <1>2 DEF IInv, GivenBackOnce
  <2> QED
    BY <2>1, <2>2, <2>3 DEF GivenBackOnce
<1>12. AbandonedIDsComeBack'
  <2>1. \A x \in Content(requests) \cup Content(events) :
           x \in Content(requests') \cup Content(events') \/ x.type = "plain"
    BY <1>2 DEF Content
  <2>2. (alive' /\ ~fatal') => (alive /\ ~fatal)
    OBVIOUS
  <2> QED
    BY <1>3, <2>1, <2>2 DEF IInv, AbandonedIDsComeBack
<1> QED
  BY <1>3, <1>5, <1>7, <1>8, <1>9, <1>10, <1>11, <1>12 DEF IInv

LEMMA SendUnaskedIInv ==
    ASSUME IInv, SendUnasked
    PROVE  IInv'
<1> DEFINE m == Plain(Unasked)
<1>1. /\ alive /\ ~InFlight(events, Unasked) /\ events' = Append(events, m)
      /\ UNCHANGED <<table, fatal, unsent, requests, stack, done, returned, alive>>
  BY DEF SendUnasked
<1>2. m \in EventMsg /\ m.type = "plain" /\ m.of = Unasked
  BY MessagesMade
<1>3. /\ Unasked \notin unsent
      /\ \A i \in DOMAIN events : events[i].type = "plain" => events[i].of # Unasked
      /\ \A i \in DOMAIN requests : requests[i].type = "plain" => requests[i].of # Unasked
  <2>1. \A i \in DOMAIN requests : requests[i].type = "plain" => requests[i].of \in Requests
    BY QueueFacts, RequestFacts DEF IInv
  <2>2. \A i \in DOMAIN events : events[i].type = "plain" => events[i].of # Unasked
    BY <1>1, InFlightByIndex DEF IInv
  <2>3. unsent \subseteq Requests
    BY DEF IInv, Control
  <2> QED
    BY <2>1, <2>2, <2>3, RoundtripAssumption
<1>4. \A i \in DOMAIN stack : stack[i].type = "call" => Unasked \notin stack[i].waits
  <2>1. \A i \in DOMAIN stack : stack[i].type = "call" => stack[i].waits \subseteq Requests
    BY QueueFacts, FrameFacts DEF IInv
  <2> QED
    BY <2>1, RoundtripAssumption
<1>5. /\ requests' = requests /\ requests \in Seq(RequestMsg)
      /\ \A i \in DOMAIN requests : i \in Nat \ {0}
  <2>1. DOMAIN requests = 1 .. Len(requests) /\ Len(requests) \in Nat
    BY QueueFacts DEF IInv
  <2> QED
    BY <1>1, <2>1 DEF IInv, Queues
<1>6. alive' \in BOOLEAN /\ (alive' => alive)
  BY <1>1 DEF IInv, Control
<1> HIDE DEF m
<1> QED
  BY <1>1, <1>2, <1>3, <1>4, <1>5, <1>6, EventJoins

LEMMA QuitIInv ==
    ASSUME IInv, Quit
    PROVE  IInv'
<1>1. /\ alive' = FALSE
      /\ UNCHANGED <<table, fatal, unsent, requests, stack, done, returned>>
  BY DEF Quit
<1>2. CASE events' = Append(events, ErrorEvent)
  <2>1. ErrorEvent \in EventMsg /\ ErrorEvent.type = "error"
    BY MessagesMade
  <2>2. /\ requests' = requests /\ requests \in Seq(RequestMsg)
        /\ \A i \in DOMAIN requests : i \in Nat \ {0}
    <3>1. DOMAIN requests = 1 .. Len(requests) /\ Len(requests) \in Nat
      BY QueueFacts DEF IInv
    <3> QED
      BY <1>1, <3>1 DEF IInv, Queues
  <2> QED
    BY <1>1, <1>2, <2>1, <2>2, EventJoins
<1>3. CASE UNCHANGED events
  BY <1>1, <1>3, QuietIInv DEF IInv, Control
<1> QED
  BY <1>2, <1>3 DEF Quit

(* A request that is answered by nothing.                                  *)
LEMMA RequestDropped ==
    ASSUME IInv, requests # << >>, requests' = Tail(requests), requests[1].type = "plain",
           UNCHANGED <<table, fatal, unsent, events, stack, done, returned, alive>>
    PROVE  IInv'
<1>1. /\ requests' \in Seq(RequestMsg)
      /\ Len(requests) \in Nat /\ Len(requests) > 0
      /\ DOMAIN requests = 1 .. Len(requests) /\ DOMAIN requests' = 1 .. Len(requests) - 1
      /\ \A i \in 1 .. Len(requests) - 1 : requests'[i] = requests[i + 1]
      /\ \A i \in DOMAIN requests :
           i = 1 \/ (i - 1 \in DOMAIN requests' /\ requests'[i - 1] = requests[i])
  BY TailFacts DEF IInv, Queues
<1>2. \A i \in DOMAIN requests' :
         i \in Nat /\ i + 1 \in DOMAIN requests /\ requests'[i] = requests[i + 1]
  BY <1>1
<1>3. TableInv' /\ objects' = objects /\ zombie' = zombie
  BY TableKept DEF IInv
<1>4. OpenCalls' = OpenCalls
  BY DEF OpenCalls, InCall
<1>5. Queues' /\ Control' /\ CallStack'
  BY <1>1, <1>4 DEF IInv, Queues, Control, CallStack
<1>6. OnePlace'
  BY <1>2 DEF IInv, OnePlace
<1>7. Behind'
  <2> SUFFICES ASSUME NEW i \in DOMAIN stack, stack[i].type = "call"
               PROVE  /\ \A j \in DOMAIN requests' :
                           (requests'[j].type = "sync" /\ requests'[j].of = stack[i].of) =>
                             \A k \in DOMAIN requests' :
                               (requests'[k].type = "plain" /\ requests'[k].of \in stack[i].waits) => k < j
                      /\ \A j \in DOMAIN events :
                           (events[j].type = "done" /\ events[j].of = stack[i].of) =>
                             \A k \in DOMAIN requests' :
                               requests'[k].type = "plain" => requests'[k].of \notin stack[i].waits
                      /\ stack[i].of \in done =>
                           \A k \in DOMAIN requests' :
                             requests'[k].type = "plain" => requests'[k].of \notin stack[i].waits
    BY DEF IInv, Behind
  <2>1. ASSUME NEW j \in DOMAIN requests', requests'[j].type = "sync",
               requests'[j].of = stack[i].of, NEW k \in DOMAIN requests',
               requests'[k].type = "plain", requests'[k].of \in stack[i].waits
        PROVE  k < j
    <3>1. /\ j \in Nat /\ j + 1 \in DOMAIN requests /\ requests'[j] = requests[j + 1]
          /\ k \in Nat /\ k + 1 \in DOMAIN requests /\ requests'[k] = requests[k + 1]
      BY <1>2
    <3>2. k + 1 < j + 1
      BY <2>1, <3>1 DEF IInv, Behind
    <3> QED
      BY <3>1, <3>2
  <2> QED
    BY <1>2, <2>1 DEF IInv, Behind
<1>8. Routing'
  BY <1>2, <1>3, <1>4 DEF IInv, Routing
<1>9. GivenBackOnce'
  BY <1>2 DEF IInv, GivenBackOnce
<1>10. AbandonedIDsComeBack'
  <2>1. \A x \in Content(requests) : x \in Content(requests') \/ x.type = "plain"
    BY SMTT(60), <1>1 DEF Content
  <2> QED
    BY <1>3, <2>1 DEF IInv, AbandonedIDsComeBack
<1> QED
  BY <1>3, <1>5, <1>6, <1>7, <1>8, <1>9, <1>10 DEF IInv

(* A request that is answered by an event.                                 *)
LEMMA RequestAnswered ==
    ASSUME IInv, requests # << >>, requests' = Tail(requests), requests[1].type = "plain",
           events' = Append(events, requests[1]),
           UNCHANGED <<table, fatal, unsent, stack, done, returned, alive>>
    PROVE  IInv'
<1> DEFINE m == requests[1]
<1>1. /\ requests' \in Seq(RequestMsg)
      /\ Len(requests) \in Nat /\ Len(requests) > 0 /\ m \in RequestMsg
      /\ DOMAIN requests = 1 .. Len(requests) /\ DOMAIN requests' = 1 .. Len(requests) - 1
      /\ \A i \in 1 .. Len(requests) - 1 : requests'[i] = requests[i + 1]
      /\ \A i \in DOMAIN requests :
           i = 1 \/ (i - 1 \in DOMAIN requests' /\ requests'[i - 1] = requests[i])
  BY TailFacts DEF IInv, Queues
<1>2. /\ 1 \in DOMAIN requests
      /\ \A i \in DOMAIN requests' :
           i \in Nat \ {0} /\ i + 1 \in DOMAIN requests /\ requests'[i] = requests[i + 1]
  BY <1>1
<1>3. m \in EventMsg /\ m.type = "plain"
  BY <1>1, RequestFacts, MessagesMade
<1>4. /\ m.of \notin unsent
      /\ \A i \in DOMAIN events : events[i].type = "plain" => events[i].of # m.of
      /\ \A i \in DOMAIN stack :
           (stack[i].type = "handler" /\ stack[i].of # Unasked) => stack[i].of # m.of
  BY <1>2, <1>3 DEF IInv, OnePlace
<1>5. ASSUME NEW i \in DOMAIN requests', requests'[i].type = "plain", requests'[i].of = m.of
      PROVE  FALSE
  <2>1. i \in Nat \ {0} /\ i + 1 \in DOMAIN requests /\ requests'[i] = requests[i + 1]
    BY <1>2
  <2>2. i + 1 = 1
    BY <1>2, <1>3, <1>5, <2>1 DEF IInv, OnePlace
  <2> QED
    BY <2>1, <2>2
<1>6. \A x \in Content(requests) : x \in Content(requests') \/ x.type = "plain"
  <2>1. \A i \in DOMAIN requests :
           i = 1 \/ (i - 1 \in DOMAIN requests' /\ requests'[i - 1] = requests[i])
    BY <1>1
  <2> QED
    BY ZenonT(60), <2>1 DEF Content
<1>7. \A i \in DOMAIN requests' :
        i \in Nat \ {0} /\ \E k \in DOMAIN requests : requests'[i] = requests[k]
  BY <1>2
<1>8. ASSUME NEW i \in DOMAIN requests', NEW j \in DOMAIN requests'
      PROVE  \E k, l \in DOMAIN requests :
                /\ requests'[i] = requests[k] /\ requests'[j] = requests[l]
                /\ (i < j <=> k < l) /\ (i = j <=> k = l)
  <2>1. /\ i \in Nat /\ i + 1 \in DOMAIN requests /\ requests'[i] = requests[i + 1]
        /\ j \in Nat /\ j + 1 \in DOMAIN requests /\ requests'[j] = requests[j + 1]
    BY <1>2
  <2>2. (i < j <=> i + 1 < j + 1) /\ (i = j <=> i + 1 = j + 1)
    BY <2>1
  <2> QED
    BY <2>1, <2>2
<1>9. alive' \in BOOLEAN /\ (alive' => alive)
  BY DEF IInv, Control
<1>10. events' = Append(events, m)
  OBVIOUS
<1>11. \E k \in DOMAIN requests : requests[k].type = "plain" /\ requests[k].of = m.of
  BY <1>2, <1>3
<1> HIDE DEF m
<1> QED
  BY <1>1, <1>3, <1>4, <1>5, <1>6, <1>7, <1>8, <1>9, <1>10, <1>11, EventJoins

(* A sync: its done joins the events behind all the call waits for, and    *)
(* its delete_id behind its done.                                          *)
LEMMA SyncHandled ==
    ASSUME IInv, requests # << >>, requests' = Tail(requests), requests[1].type = "sync",
           events' = events \o <<Done(requests[1].id, requests[1].of),
                                 DeleteIDEvent(requests[1].id, requests[1].of)>>,
           UNCHANGED <<table, fatal, unsent, stack, done, returned, alive>>
    PROVE  IInv'
<1> DEFINE M == Len(events)
<1>1. /\ requests' \in Seq(RequestMsg)
      /\ Len(requests) \in Nat /\ Len(requests) > 0 /\ requests[1] \in RequestMsg
      /\ DOMAIN requests = 1 .. Len(requests) /\ DOMAIN requests' = 1 .. Len(requests) - 1
      /\ \A i \in 1 .. Len(requests) - 1 : requests'[i] = requests[i + 1]
      /\ \A i \in DOMAIN requests :
           i = 1 \/ (i - 1 \in DOMAIN requests' /\ requests'[i - 1] = requests[i])
  BY TailFacts DEF IInv, Queues
<1>2. /\ 1 \in DOMAIN requests
      /\ \A i \in DOMAIN requests' :
           i \in Nat \ {0} /\ i + 1 \in DOMAIN requests /\ requests'[i] = requests[i + 1]
  BY <1>1
<1>3. PICK n \in CallbackIDs, p \in Callbacks : requests[1].id = n /\ requests[1].of = p
  BY <1>1, RequestFacts
<1>4. /\ Done(n, p) \in EventMsg
      /\ Done(n, p).type = "done" /\ Done(n, p).id = n /\ Done(n, p).of = p
      /\ DeleteIDEvent(n, p) \in EventMsg
      /\ DeleteIDEvent(n, p).type = "delete_id" /\ DeleteIDEvent(n, p).id = n
      /\ DeleteIDEvent(n, p).of = p
  BY MessagesMade
<1>5. /\ events' \in Seq(EventMsg) /\ M \in Nat /\ DOMAIN events = 1 .. M
      /\ DOMAIN events' = 1 .. M + 2
      /\ \A i \in 1 .. M : events'[i] = events[i]
      /\ events'[M + 1] = Done(n, p)
      /\ events'[M + 2] = DeleteIDEvent(n, p)
  <2>1. ASSUME NEW S, NEW q \in Seq(S), NEW x \in S, NEW y \in S
        PROVE  /\ q \o <<x, y>> \in Seq(S) /\ Len(q) \in Nat /\ DOMAIN q = 1 .. Len(q)
               /\ DOMAIN (q \o <<x, y>>) = 1 .. Len(q) + 2
               /\ \A i \in 1 .. Len(q) : (q \o <<x, y>>)[i] = q[i]
               /\ (q \o <<x, y>>)[Len(q) + 1] = x
               /\ (q \o <<x, y>>)[Len(q) + 2] = y
    OBVIOUS
  <2>2. events' = events \o <<Done(n, p), DeleteIDEvent(n, p)>> /\ events \in Seq(EventMsg)
    BY <1>3 DEF IInv, Queues
  <2> QED
    BY <1>4, <2>1, <2>2
<1>6. /\ \A i \in DOMAIN events' : i \in DOMAIN events \/ i = M + 1 \/ i = M + 2
      /\ \A i \in DOMAIN events : i < M + 1 /\ i \in DOMAIN events' /\ events'[i] = events[i]
      /\ M + 1 \in DOMAIN events' /\ M + 2 \in DOMAIN events' /\ M + 1 < M + 2
  BY <1>5
<1>7. /\ \A i \in DOMAIN events' :
           events'[i].type = "plain" => i \in DOMAIN events /\ events'[i] = events[i]
      /\ \A i \in DOMAIN events' :
           events'[i].type = "done" => i = M + 1 \/ (i \in DOMAIN events /\ events'[i] = events[i])
      /\ \A i \in DOMAIN events' :
           events'[i].type = "delete_id" => i = M + 2 \/ (i \in DOMAIN events /\ events'[i] = events[i])
      /\ \A i \in DOMAIN events' :
           \/ i \in DOMAIN events /\ events'[i] = events[i]
           \/ i \in {M + 1, M + 2} /\ events'[i].id = n /\ events'[i].of = p
  BY <1>4, <1>5, <1>6
<1>8. TableInv' /\ objects' = objects /\ zombie' = zombie
  BY TableKept DEF IInv
<1>9. OpenCalls' = OpenCalls
  BY DEF OpenCalls, InCall
<1>10. Queues' /\ Control' /\ CallStack'
  BY <1>1, <1>5, <1>9 DEF IInv, Queues, Control, CallStack
<1>11. OnePlace'
  <2>1. \A i \in DOMAIN events' :
          events'[i].type = "plain" => i \in DOMAIN events /\ events'[i] = events[i]
    BY <1>7
  <2>2. /\ \A i, j \in DOMAIN requests' :
             (requests'[i].type = "plain" /\ requests'[j].type = "plain"
                /\ requests'[i].of = requests'[j].of) => i = j
        /\ \A i \in DOMAIN requests' : requests'[i].type = "plain" => requests'[i].of \notin unsent
    BY <1>2 DEF IInv, OnePlace
  <2>3. /\ \A i, j \in DOMAIN events' :
             (events'[i].type = "plain" /\ events'[j].type = "plain"
                /\ events'[i].of = events'[j].of) => i = j
        /\ \A i \in DOMAIN events' : events'[i].type = "plain" => events'[i].of \notin unsent
    BY SMTT(60), <2>1 DEF IInv, OnePlace
  <2>4. \A i \in DOMAIN requests', j \in DOMAIN events' :
          (requests'[i].type = "plain" /\ events'[j].type = "plain")
             => requests'[i].of # events'[j].of
    BY <1>2, <2>1 DEF IInv, OnePlace
  <2>5. /\ \A i, j \in DOMAIN stack :
             (stack[i].type = "handler" /\ stack[j].type = "handler"
                /\ stack[i].of = stack[j].of) => i = j \/ stack[i].of = Unasked
        /\ stack' = stack /\ unsent' = unsent
    BY DEF IInv, OnePlace
  <2>6. ASSUME NEW i \in DOMAIN stack, stack[i].type = "handler", stack[i].of # Unasked
        PROVE  /\ stack[i].of \notin unsent
               /\ \A j \in DOMAIN requests' : requests'[j].type = "plain" => requests'[j].of # stack[i].of
               /\ \A j \in DOMAIN events' : events'[j].type = "plain" => events'[j].of # stack[i].of
    BY <1>2, <2>1, <2>6 DEF IInv, OnePlace
  <2> QED
    BY ONLY <2>2, <2>3, <2>4, <2>5, <2>6 DEF OnePlace
<1>12. Behind'
  <2> SUFFICES ASSUME NEW i \in DOMAIN stack, stack[i].type = "call"
               PROVE  /\ \A j \in DOMAIN requests' :
                           (requests'[j].type = "sync" /\ requests'[j].of = stack[i].of) =>
                             \A k \in DOMAIN requests' :
                               (requests'[k].type = "plain" /\ requests'[k].of \in stack[i].waits) => k < j
                      /\ \A j \in DOMAIN events' :
                           (events'[j].type = "done" /\ events'[j].of = stack[i].of) =>
                             /\ \A k \in DOMAIN requests' :
                                  requests'[k].type = "plain" => requests'[k].of \notin stack[i].waits
                             /\ \A k \in DOMAIN events' :
                                  (events'[k].type = "plain" /\ events'[k].of \in stack[i].waits) => k < j
                      /\ stack[i].of \in done =>
                           /\ \A k \in DOMAIN requests' :
                                requests'[k].type = "plain" => requests'[k].of \notin stack[i].waits
                           /\ \A k \in DOMAIN events' :
                                events'[k].type = "plain" => events'[k].of \notin stack[i].waits
    BY SMTT(60) DEF Behind
  <2>1. ASSUME NEW j \in DOMAIN requests', requests'[j].type = "sync",
               requests'[j].of = stack[i].of, NEW k \in DOMAIN requests',
               requests'[k].type = "plain", requests'[k].of \in stack[i].waits
        PROVE  k < j
    <3>1. /\ j \in Nat /\ j + 1 \in DOMAIN requests /\ requests'[j] = requests[j + 1]
          /\ k \in Nat /\ k + 1 \in DOMAIN requests /\ requests'[k] = requests[k + 1]
      BY <1>2
    <3>2. k + 1 < j + 1
      BY <2>1, <3>1 DEF IInv, Behind
    <3> QED
      BY <3>1, <3>2
  <2>2. ASSUME NEW j \in DOMAIN events', events'[j].type = "done", events'[j].of = stack[i].of
        PROVE  /\ \A k \in DOMAIN requests' :
                    requests'[k].type = "plain" => requests'[k].of \notin stack[i].waits
               /\ \A k \in DOMAIN events' :
                    (events'[k].type = "plain" /\ events'[k].of \in stack[i].waits) => k < j
    <3>1. CASE j \in DOMAIN events /\ events'[j] = events[j]
      <4>1. /\ \A k \in DOMAIN requests :
                  requests[k].type = "plain" => requests[k].of \notin stack[i].waits
            /\ \A k \in DOMAIN events :
                  (events[k].type = "plain" /\ events[k].of \in stack[i].waits) => k < j
        BY <2>2, <3>1 DEF IInv, Behind
      <4>2. \A k \in DOMAIN requests' :
              \E l \in DOMAIN requests : requests'[k] = requests[l]
        BY <1>2
      <4>3. \A k \in DOMAIN requests' :
              requests'[k].type = "plain" => requests'[k].of \notin stack[i].waits
        BY <4>1, <4>2
      <4>4. \A k \in DOMAIN events' :
              events'[k].type = "plain" => k \in DOMAIN events /\ events'[k] = events[k]
        BY <1>7
      <4> QED
        BY <4>1, <4>3, <4>4
    <3>2. CASE j = M + 1
      <4>1. stack[i].of = p
        BY <1>4, <1>5, <2>2, <3>2
      <4>2. \A k \in DOMAIN requests :
               (requests[k].type = "plain" /\ requests[k].of \in stack[i].waits) => k < 1
        BY <1>2, <1>3, <4>1 DEF IInv, Behind
      <4>3. \A k \in DOMAIN requests' :
               requests'[k].type = "plain" => requests'[k].of \notin stack[i].waits
        <5> SUFFICES ASSUME NEW k \in DOMAIN requests', requests'[k].type = "plain",
                            requests'[k].of \in stack[i].waits
                     PROVE  FALSE
          OBVIOUS
        <5>1. k \in Nat \ {0} /\ k + 1 \in DOMAIN requests /\ requests'[k] = requests[k + 1]
          BY <1>2
        <5>2. k + 1 < 1
          BY <4>2, <5>1
        <5> QED
          BY <5>1, <5>2
      <4> QED
        BY <1>6, <1>7, <3>2, <4>3
    <3> QED
      BY <1>7, <2>2, <3>1, <3>2
  <2>3. ASSUME stack[i].of \in done
        PROVE  /\ \A k \in DOMAIN requests' :
                    requests'[k].type = "plain" => requests'[k].of \notin stack[i].waits
               /\ \A k \in DOMAIN events' :
                    events'[k].type = "plain" => events'[k].of \notin stack[i].waits
    BY <1>2, <1>7, <2>3 DEF IInv, Behind
  <2> QED
    BY <2>1, <2>2, <2>3
<1>13. /\ n \in DOMAIN objects /\ objects[n] = p /\ (zombie[p] \/ p \in OpenCalls)
  BY <1>2, <1>3 DEF IInv, Routing
<1>14. Routing'
  <2>1. \A j \in DOMAIN requests' : requests'[j].type = "sync" =>
          /\ requests'[j].id \in DOMAIN objects /\ objects[requests'[j].id] = requests'[j].of
          /\ zombie[requests'[j].of] \/ requests'[j].of \in OpenCalls
    BY <1>2 DEF IInv, Routing
  <2>2. \A j \in DOMAIN events' : events'[j].type \in {"done", "delete_id"} =>
          events'[j].id \in DOMAIN objects /\ objects[events'[j].id] = events'[j].of
    BY <1>7, <1>13 DEF IInv, Routing
  <2>3. \A j \in DOMAIN events' : events'[j].type = "done" =>
          zombie[events'[j].of] \/ events'[j].of \in OpenCalls
    BY <1>7, <1>13 DEF IInv, Routing
  <2> QED
    BY <1>8, <1>9, <2>1, <2>2, <2>3 DEF Routing
<1>15. /\ \A i \in DOMAIN requests' : requests'[i].type = "sync" => requests'[i].id # n
       /\ \A j \in DOMAIN events : events[j].type \in {"done", "delete_id"} => events[j].id # n
  <2>1. ASSUME NEW i \in DOMAIN requests', requests'[i].type = "sync", requests'[i].id = n
        PROVE  FALSE
    <3>1. i \in Nat \ {0} /\ i + 1 \in DOMAIN requests /\ requests'[i] = requests[i + 1]
      BY <1>2
    <3>2. i + 1 = 1
      BY <1>2, <1>3, <2>1, <3>1 DEF IInv, GivenBackOnce
    <3> QED
      BY <3>1, <3>2
  <2>2. \A j \in DOMAIN events : events[j].type \in {"done", "delete_id"} => events[j].id # n
    BY <1>2, <1>3 DEF IInv, GivenBackOnce
  <2> QED
    BY <2>1, <2>2
<1>16. GivenBackOnce'
  <2>1. \A i, j \in DOMAIN requests' :
          (requests'[i].type = "sync" /\ requests'[j].type = "sync"
             /\ requests'[i].id = requests'[j].id) => i = j
    BY <1>2 DEF IInv, GivenBackOnce
  <2>2. \A i \in DOMAIN requests', j \in DOMAIN events' :
          (requests'[i].type = "sync" /\ events'[j].type \in {"done", "delete_id"})
             => requests'[i].id # events'[j].id
    BY <1>2, <1>7, <1>15 DEF IInv, GivenBackOnce
  <2>3. \A i, j \in DOMAIN events' :
          (events'[i].type = "delete_id" /\ events'[j].type = "delete_id"
             /\ events'[i].id = events'[j].id) => i = j
    BY <1>4, <1>5, <1>7, <1>15 DEF IInv, GivenBackOnce
  <2>4. \A i, j \in DOMAIN events' :
          (events'[i].type = "done" /\ events'[j].type = "delete_id"
             /\ events'[i].id = events'[j].id) => i < j
    <3> SUFFICES ASSUME NEW i \in DOMAIN events', NEW j \in DOMAIN events',
                        events'[i].type = "done", events'[j].type = "delete_id",
                        events'[i].id = events'[j].id
                 PROVE  i < j
      OBVIOUS
    <3>1. CASE j = M + 2
      BY <1>5, <1>6, <1>7, <3>1
    <3>2. CASE j \in DOMAIN events /\ events'[j] = events[j]
      BY <1>4, <1>5, <1>7, <1>15, <3>2 DEF IInv, GivenBackOnce
    <3> QED
      BY <1>7, <3>1, <3>2
  <2> QED
    BY <2>1, <2>2, <2>3, <2>4 DEF GivenBackOnce
<1>17. AbandonedIDsComeBack'
  <2>1. /\ \A x \in Content(requests) : x \in Content(requests') \/ x = requests[1]
        /\ \A x \in Content(events) : x \in Content(events')
        /\ DeleteIDEvent(n, p) \in Content(events')
    <3>1. \A i \in DOMAIN requests :
             i = 1 \/ (i - 1 \in DOMAIN requests' /\ requests'[i - 1] = requests[i])
      BY <1>1
    <3>2. ASSUME NEW x \in Content(requests), x # requests[1]
          PROVE  x \in Content(requests')
      <4>1. PICK i \in DOMAIN requests : x = requests[i]
        BY DEF Content
      <4>2. i - 1 \in DOMAIN requests' /\ requests'[i - 1] = x
        BY <3>1, <3>2, <4>1
      <4> QED
        BY <4>2 DEF Content
    <3>3. \A x \in Content(events) : x \in Content(events')
      BY <1>6 DEF Content
    <3>4. DeleteIDEvent(n, p) \in Content(events')
      BY <1>5, <1>6 DEF Content
    <3> QED
      BY <3>2, <3>3, <3>4
  <2>2. ASSUME alive, ~fatal, NEW m \in DOMAIN objects \ {T!DisplayID}
        PROVE  \E x \in Content(requests') \cup Content(events') :
                  x.type \in {"sync", "delete_id"} /\ x.id = m /\ x.of = objects[m]
    <3>1. PICK x \in Content(requests) \cup Content(events) :
                  x.type \in {"sync", "delete_id"} /\ x.id = m /\ x.of = objects[m]
      BY <2>2 DEF IInv, AbandonedIDsComeBack
    <3>2. CASE x = requests[1]
      BY <1>3, <1>4, <2>1, <3>1, <3>2
    <3> QED
      BY <2>1, <3>1, <3>2
  <2>3. objects' = objects /\ alive' = alive /\ fatal' = fatal
    BY <1>8
  <2>4. ASSUME alive', ~fatal', NEW m \in DOMAIN objects' \ {T!DisplayID}
        PROVE  \E x \in Content(requests') \cup Content(events') :
                  x.type \in {"sync", "delete_id"} /\ x.id = m /\ x.of = objects'[m]
    BY ONLY <2>2, <2>3, <2>4
  <2> QED
    BY <2>4 DEF AbandonedIDsComeBack, T!DisplayID
<1> QED
  BY <1>8, <1>10, <1>11, <1>12, <1>14, <1>16, <1>17 DEF IInv

LEMMA HandleIInv ==
    ASSUME IInv, Handle
    PROVE  IInv'
<1>1. requests # << >> /\ requests' = Tail(requests)
      /\ UNCHANGED <<table, fatal, unsent, stack, done, returned, alive>>
  BY DEF Handle
<1>2. Head(requests) = requests[1]
  BY <1>1, TailFacts DEF IInv, Queues
<1>3. \/ requests[1].type = "sync"
         /\ events' = events \o <<Done(requests[1].id, requests[1].of),
                                  DeleteIDEvent(requests[1].id, requests[1].of)>>
      \/ requests[1].type = "plain" /\ events' = Append(events, requests[1])
      \/ requests[1].type = "plain" /\ UNCHANGED events
  BY <1>2 DEF Handle
<1> QED
  BY <1>1, <1>3, SyncHandled, RequestAnswered, RequestDropped

-----------------------------------------------------------------------------
LEMMA NextIInv ==
    ASSUME IInv, [Next]_vars
    PROVE  IInv'
<1>1. CASE UNCHANGED vars
  BY <1>1, QuietIInv DEF vars, IInv, Control
<1>2. ASSUME NEW r \in Requests, Issue(r) PROVE IInv'
  BY <1>2, IssueIInv
<1>3. ASSUME NEW p \in Callbacks, Begin(p) \/ BeginFails(p) PROVE IInv'
  BY <1>3, BeginIInv, BeginFailsIInv
<1>4. CASE WriteFails
  BY <1>4, QuietIInv DEF WriteFails, IInv, Control
<1>5. CASE Return \/ Deadline
  BY <1>5, LeaveIInv DEF Return, ReturnNil, ReturnError, Deadline
<1>6. CASE Dispatch
  BY <1>6, DispatchIInv
<1>7. CASE HandlerReturns \/ HandlerPanics
  BY <1>7, HandlerEndsIInv
<1>8. CASE Handle
  BY <1>8, HandleIInv
<1>9. CASE SendUnasked
  BY <1>9, SendUnaskedIInv
<1>10. CASE Quit
  BY <1>10, QuitIInv
<1> QED
  BY <1>1, <1>2, <1>3, <1>4, <1>5, <1>6, <1>7, <1>8, <1>9, <1>10 DEF Next

LEMMA Invariance == Spec => []IInv
<1>1. Init => IInv
  BY InitIInv
<1>2. IInv /\ [Next]_vars => IInv'
  BY NextIInv
<1> QED
  BY <1>1, <1>2, PTL DEF Spec

-----------------------------------------------------------------------------
(* Type correctness: whatever calls nest and whatever deadlines end, every *)
(* ID on the wire is one a callback can have, a call is made outside every *)
(* call or by a handler, and done is only ever set for a call that runs.   *)
THEOREM TypeCorrect == Spec => []TypeOK
<1>1. ASSUME IInv PROVE TypeOK
  <2>1. \A i \in DOMAIN stack : stack[i].type = "call" => stack[i].of \in Callbacks
    BY <1>1, QueueFacts, FrameFacts DEF IInv
  <2>2. CallbackIDs = T!ClientIDs \ {T!DisplayID}
    BY RoundtripAssumption DEF CallbackIDs, T!ClientIDs, T!DisplayID
  <2>3. \A i \in DOMAIN requests :
          requests[i].type \in {"sync", "done", "delete_id"} => requests[i].id \in CallbackIDs
    BY <1>1, QueueFacts, RequestFacts DEF IInv
  <2>4. \A i \in DOMAIN events :
          events[i].type \in {"sync", "done", "delete_id"} => events[i].id \in CallbackIDs
    BY <1>1, QueueFacts, EventFacts DEF IInv
  <2>5. \A m \in Content(requests) \cup Content(events) :
          m.type \in {"sync", "done", "delete_id"} => m.id \in T!ClientIDs \ {T!DisplayID}
    BY <2>2, <2>3, <2>4 DEF Content
  <2>6. /\ T!TypeOK /\ fatal \in BOOLEAN /\ alive \in BOOLEAN /\ unsent \subseteq Requests
        /\ done \subseteq {p \in Callbacks : InCall(p)}
        /\ returned \in {"none", "nil", "error"} /\ Len(stack) <= MaxDepth
        /\ \A i \in DOMAIN stack : (stack[i].type = "call" /\ i > 1) => stack[i - 1].type = "handler"
    BY <1>1 DEF IInv, TableInv, Control, OpenCalls
  <2> QED
    BY <2>1, <2>5, <2>6 DEF TypeOK
<1> QED
  BY <1>1, Invariance, PTL

(* A callback abandoned on a deadline does not cost its ID: while the      *)
(* connection works, every registered callback has its sync or its         *)
(* delete_id still to come.                                                *)
THEOREM AbandonedIDsAreOwed == Spec => []AbandonedIDsComeBack
<1>1. IInv => AbandonedIDsComeBack
  BY DEF IInv
<1> QED
  BY <1>1, Invariance, PTL

-----------------------------------------------------------------------------
(* Roundtrip implements Barrier.  Where a request is, and what a call      *)
(* waits for, by index.                                                    *)
InRequests(r) == \E i \in DOMAIN requests : requests[i].type = "plain" /\ requests[i].of = r
InEvents(r) == \E i \in DOMAIN events : events[i].type = "plain" /\ events[i].of = r
InHandlers(r) == \E i \in DOMAIN stack : stack[i].type = "handler" /\ stack[i].of = r
WaitsOf(s, p) == UNION {f.waits : f \in {g \in Content(s) : g.of = p}}

LEMMA PlacesByIndex ==
    ASSUME NEW r \in Requests
    PROVE  /\ \A q \in Seq(RequestMsg) :
                InFlight(q, r) <=> \E i \in DOMAIN q : q[i].type = "plain" /\ q[i].of = r
           /\ \A q \in Seq(EventMsg) :
                InFlight(q, r) <=> \E i \in DOMAIN q : q[i].type = "plain" /\ q[i].of = r
           /\ \A s \in Seq(Frame) :
                Handler(r) \in Content(s) <=>
                  \E i \in DOMAIN s : s[i].type = "handler" /\ s[i].of = r
<1> HIDE DEF RequestMsg, EventMsg, Frame
<1>1. /\ Plain(r).type = "plain" /\ Plain(r).of = r
      /\ Handler(r).type = "handler" /\ Handler(r).of = r
  BY DEF Plain, Handler
<1>2. ASSUME NEW q \in Seq(RequestMsg)
      PROVE  InFlight(q, r) <=> \E i \in DOMAIN q : q[i].type = "plain" /\ q[i].of = r
  <2>1. \A i \in DOMAIN q : q[i] \in RequestMsg
    OBVIOUS
  <2>2. \A i \in DOMAIN q : q[i].type = "plain" => q[i] = Plain(q[i].of)
    BY <2>1, RequestFacts
  <2> QED
    BY <1>1, <2>2 DEF InFlight, Content
<1>3. ASSUME NEW q \in Seq(EventMsg)
      PROVE  InFlight(q, r) <=> \E i \in DOMAIN q : q[i].type = "plain" /\ q[i].of = r
  <2>1. \A i \in DOMAIN q : q[i] \in EventMsg
    OBVIOUS
  <2>2. \A i \in DOMAIN q : q[i].type = "plain" => q[i] = Plain(q[i].of)
    BY <2>1, EventFacts
  <2> QED
    BY <1>1, <2>2 DEF InFlight, Content
<1>4. ASSUME NEW s \in Seq(Frame)
      PROVE  Handler(r) \in Content(s) <=>
               \E i \in DOMAIN s : s[i].type = "handler" /\ s[i].of = r
  <2>1. \A i \in DOMAIN s : s[i] \in Frame
    OBVIOUS
  <2>2. \A i \in DOMAIN s : s[i].type = "handler" => s[i] = Handler(s[i].of)
    BY <2>1, FrameFacts
  <2> QED
    BY <1>1, <2>2 DEF Content
<1> QED
  BY <1>2, <1>3, <1>4

LEMMA StageByIndex ==
    ASSUME Queues, Queues', NEW r \in Requests
    PROVE  /\ Stage(r) = IF r \in unsent THEN "unsent"
                         ELSE IF InRequests(r) THEN "sent"
                         ELSE IF InEvents(r) THEN "replied"
                         ELSE IF InHandlers(r) THEN "delivering"
                         ELSE "settled"
           /\ Stage(r)' = IF r \in unsent' THEN "unsent"
                          ELSE IF InRequests(r)' THEN "sent"
                          ELSE IF InEvents(r)' THEN "replied"
                          ELSE IF InHandlers(r)' THEN "delivering"
                          ELSE "settled"
<1>1. /\ InFlight(requests, r) <=> InRequests(r)
      /\ InFlight(events, r) <=> InEvents(r)
      /\ Handler(r) \in Content(stack) <=> InHandlers(r)
  BY PlacesByIndex DEF Queues, InRequests, InEvents, InHandlers
<1>2. /\ InFlight(requests', r) <=> InRequests(r)'
      /\ InFlight(events', r) <=> InEvents(r)'
      /\ Handler(r) \in Content(stack') <=> InHandlers(r)'
  BY PlacesByIndex DEF Queues, InRequests, InEvents, InHandlers
<1>3. /\ Stage(r) = IF r \in unsent THEN "unsent"
                    ELSE IF InFlight(requests, r) THEN "sent"
                    ELSE IF InFlight(events, r) THEN "replied"
                    ELSE IF Handler(r) \in Content(stack) THEN "delivering"
                    ELSE "settled"
      /\ Stage(r)' = IF r \in unsent' THEN "unsent"
                     ELSE IF InFlight(requests', r) THEN "sent"
                     ELSE IF InFlight(events', r) THEN "replied"
                     ELSE IF Handler(r) \in Content(stack') THEN "delivering"
                     ELSE "settled"
  BY DEF Stage, InFlight, Content
<1> QED
  BY <1>1, <1>2, <1>3

LEMMA WaitsByIndex ==
    ASSUME NEW s, NEW p
    PROVE  WaitsOf(s, p) = UNION {s[i].waits : i \in {j \in DOMAIN s : s[j].of = p}}
BY DEF WaitsOf, Content

(* Reading the steps of Barrier off the stages, the calls and their waits. *)
LEMMA AbstractKept ==
    ASSUME \A r \in Requests : Stage(r)' = Stage(r), OpenCalls' = OpenCalls,
           \A p \in Callbacks : WaitsOf(stack', p) = WaitsOf(stack, p)
    PROVE  /\ (fatal' = fatal /\ returned' = returned) => UNCHANGED B!vars
           /\ (fatal' = TRUE /\ returned' = returned) => B!Fail
           /\ (fatal' = TRUE /\ returned' = "error") => B!Refuse
<1>1. [r \in Requests |-> Stage(r)'] = [r \in Requests |-> Stage(r)]
  OBVIOUS
<1>2. {p \in Callbacks : InCall(p)}' = {p \in Callbacks : InCall(p)}
  BY DEF OpenCalls
<1>3. [p \in Callbacks |-> WaitsOf(stack', p)] = [p \in Callbacks |-> WaitsOf(stack, p)]
  OBVIOUS
<1>4. [p \in Callbacks |-> UNION {f.waits : f \in {g \in Content(stack) : g.of = p}}]'
        = [p \in Callbacks |-> UNION {f.waits : f \in {g \in Content(stack) : g.of = p}}]
  BY <1>3 DEF WaitsOf, Content
<1>5. [r \in Requests |-> Stage(r)]' = [r \in Requests |-> Stage(r)]
  BY <1>1
<1> QED
  BY <1>2, <1>4, <1>5, Zenon DEF B!vars, B!Fail, B!Refuse

LEMMA AbstractMove ==
    ASSUME NEW r \in Requests, NEW to, Stage(r)' = to,
           \A x \in Requests : x # r => Stage(x)' = Stage(x), OpenCalls' = OpenCalls,
           \A p \in Callbacks : WaitsOf(stack', p) = WaitsOf(stack, p), returned' = returned
    PROVE  B!Move(r, Stage(r), to)
<1>1. [x \in Requests |-> Stage(x)][r] = Stage(r)
  OBVIOUS
<1>2. [x \in Requests |-> Stage(x)']
        = [[x \in Requests |-> Stage(x)] EXCEPT ![r] = to]
  OBVIOUS
<1>3. {p \in Callbacks : InCall(p)}' = {p \in Callbacks : InCall(p)}
  BY DEF OpenCalls
<1>4. [p \in Callbacks |-> WaitsOf(stack', p)] = [p \in Callbacks |-> WaitsOf(stack, p)]
  OBVIOUS
<1>5. [p \in Callbacks |-> UNION {f.waits : f \in {g \in Content(stack) : g.of = p}}]'
        = [p \in Callbacks |-> UNION {f.waits : f \in {g \in Content(stack) : g.of = p}}]
  BY <1>4 DEF WaitsOf, Content
<1>6. [x \in Requests |-> Stage(x)]'
        = [[x \in Requests |-> Stage(x)] EXCEPT ![r] = to]
  BY <1>2
<1> QED
  BY <1>1, <1>3, <1>5, <1>6, Zenon DEF B!Move

(* A request is written.                                                   *)
LEMMA IssueMaps ==
    ASSUME IInv, IInv', NEW r \in Requests, Issue(r)
    PROVE  B!Send(r)
<1>1. /\ r \in unsent /\ unsent' = unsent \ {r} /\ requests' = Append(requests, Plain(r))
      /\ UNCHANGED <<table, fatal, events, stack, done, returned, alive>> /\ ~fatal
  BY DEF Issue
<1>2. Plain(r) \in RequestMsg /\ Plain(r).type = "plain" /\ Plain(r).of = r
  BY MessagesMade
<1>3. /\ Len(requests) \in Nat /\ DOMAIN requests = 1 .. Len(requests)
      /\ DOMAIN requests' = 1 .. Len(requests) + 1
      /\ \A i \in 1 .. Len(requests) : requests'[i] = requests[i]
      /\ requests'[Len(requests) + 1] = Plain(r)
  BY <1>1, <1>2, AppendFacts DEF IInv, Queues
<1>4. \A x \in Requests : InRequests(x)' <=> (InRequests(x) \/ x = r)
  BY <1>2, <1>3 DEF InRequests
<1>5. \A x \in Requests : (InEvents(x)' <=> InEvents(x)) /\ (InHandlers(x)' <=> InHandlers(x))
  BY <1>1 DEF InEvents, InHandlers
<1>6. Stage(r) = "unsent" /\ Stage(r)' = "sent"
  BY <1>1, <1>4, StageByIndex DEF IInv
<1>7. \A x \in Requests : x # r => Stage(x)' = Stage(x)
  BY <1>1, <1>4, <1>5, StageByIndex DEF IInv
<1>8. OpenCalls' = OpenCalls
  BY <1>1 DEF OpenCalls, InCall
<1>9. B!Move(r, "unsent", "sent")
  BY <1>1, <1>6, <1>7, <1>8, AbstractMove
<1> QED
  BY <1>1, <1>9 DEF B!Send

LEMMA WaitsAppend ==
    ASSUME NEW s \in Seq(Frame), NEW f \in Frame, NEW p
    PROVE  WaitsOf(Append(s, f), p) = WaitsOf(s, p) \cup (IF f.of = p THEN f.waits ELSE {})
<1> DEFINE t == Append(s, f)
<1> DEFINE D == Len(s)
<1>1. /\ D \in Nat /\ DOMAIN s = 1 .. D /\ DOMAIN t = 1 .. D + 1
      /\ \A i \in 1 .. D : t[i] = s[i]
      /\ t[D + 1] = f
  BY AppendFacts
<1>2. /\ \A i \in DOMAIN t : i \in DOMAIN s \/ i = D + 1
      /\ \A i \in DOMAIN s : i \in DOMAIN t /\ t[i] = s[i]
      /\ D + 1 \in DOMAIN t /\ t[D + 1] = f
  BY <1>1
<1> HIDE DEF t, D
<1>3. WaitsOf(t, p) = WaitsOf(s, p) \cup (IF f.of = p THEN f.waits ELSE {})
  BY <1>2, WaitsByIndex
<1> QED
  BY <1>3 DEF t

LEMMA WaitsFront ==
    ASSUME NEW s \in Seq(Frame), s # << >>, NEW p
    PROVE  WaitsOf(s, p) = WaitsOf(SubSeq(s, 1, Len(s) - 1), p)
                             \cup (IF s[Len(s)].of = p THEN s[Len(s)].waits ELSE {})
<1> DEFINE t == SubSeq(s, 1, Len(s) - 1)
<1> DEFINE D == Len(s)
<1>1. /\ D \in Nat /\ D > 0 /\ DOMAIN s = 1 .. D /\ DOMAIN t = 1 .. D - 1
      /\ \A i \in 1 .. D - 1 : t[i] = s[i]
  BY FrontFacts
<1>2. /\ \A i \in DOMAIN s : i \in DOMAIN t \/ i = D
      /\ \A i \in DOMAIN t : i \in DOMAIN s /\ t[i] = s[i]
      /\ D \in DOMAIN s
  BY <1>1
<1> HIDE DEF t, D
<1>3. WaitsOf(s, p) = WaitsOf(t, p) \cup (IF s[D].of = p THEN s[D].waits ELSE {})
  BY <1>2, WaitsByIndex
<1> QED
  BY <1>3 DEF t, D

(* A call begins: what Barrier calls outstanding is what the code has in   *)
(* flight.                                                                 *)
LEMMA BeginMaps ==
    ASSUME IInv, IInv', NEW p \in Callbacks, Begin(p)
    PROVE  B!Enter(p)
<1>1. /\ Unused(p) /\ requests' = Append(requests, Sync(pid'[p], p))
      /\ stack' = Append(stack, Call(p, Outstanding))
      /\ T!RegisterRecycled(p) \/ T!RegisterNew(p)
      /\ UNCHANGED <<fatal, unsent, events, done, returned, alive>>
  BY DEF Begin
<1>2. PICK n \in CallbackIDs : pid'[p] = n
  BY <1>1, RegisterFacts DEF IInv
<1>3. Sync(n, p) \in RequestMsg /\ Sync(n, p).type = "sync"
  BY MessagesMade
<1>4. /\ Call(p, Outstanding) \in Frame /\ Call(p, Outstanding).type = "call"
      /\ Call(p, Outstanding).of = p /\ Call(p, Outstanding).waits = Outstanding
  <2>1. Outstanding \in SUBSET Requests
    BY DEF Outstanding
  <2> QED
    BY <2>1, MessagesMade
<1>5. /\ Len(requests) \in Nat /\ DOMAIN requests = 1 .. Len(requests)
      /\ DOMAIN requests' = 1 .. Len(requests) + 1
      /\ \A i \in 1 .. Len(requests) : requests'[i] = requests[i]
      /\ requests'[Len(requests) + 1] = Sync(n, p)
  BY <1>1, <1>2, <1>3, AppendFacts DEF IInv, Queues
<1>6. /\ Len(stack) \in Nat /\ DOMAIN stack = 1 .. Len(stack)
      /\ DOMAIN stack' = 1 .. Len(stack) + 1
      /\ \A i \in 1 .. Len(stack) : stack'[i] = stack[i]
      /\ stack'[Len(stack) + 1] = Call(p, Outstanding)
  BY <1>1, <1>4, AppendFacts DEF IInv, Queues
<1>7. \A x \in Requests : InRequests(x)' <=> InRequests(x)
  BY <1>3, <1>5 DEF InRequests
<1>8. \A x \in Requests : InHandlers(x)' <=> InHandlers(x)
  BY <1>4, <1>6 DEF InHandlers
<1>9. \A x \in Requests : InEvents(x)' <=> InEvents(x)
  BY <1>1 DEF InEvents
<1>10. \A x \in Requests : Stage(x)' = Stage(x)
  BY <1>1, <1>7, <1>8, <1>9, StageByIndex DEF IInv
<1>11. p \notin OpenCalls
  BY <1>1 DEF Unused, OpenCalls
<1>12. OpenCalls' = OpenCalls \cup {p}
  BY <1>4, <1>6, OpenCallsByIndex
<1>13. \A q \in Callbacks :
         WaitsOf(stack', q) = WaitsOf(stack, q) \cup (IF p = q THEN Outstanding ELSE {})
  BY <1>1, <1>4, WaitsAppend DEF IInv, Queues
<1>14. WaitsOf(stack, p) = {}
  <2>1. \A i \in DOMAIN stack : stack[i].of = p => stack[i].type = "handler"
    BY <1>11, QueueFacts, FrameFacts, OpenCallsByIndex DEF IInv
  <2>2. \A i \in DOMAIN stack : stack[i].of = p => stack[i].waits = {}
    BY <2>1, QueueFacts, FrameFacts DEF IInv
  <2> QED
    BY <2>2, WaitsByIndex
<1>15. Outstanding = {r \in Requests : Stage(r) \in {"sent", "replied"}}
  <2>1. Outstanding = {r \in Requests : InRequests(r) \/ InEvents(r)}
    BY InFlightByIndex DEF Outstanding, InRequests, InEvents, IInv
  <2>2. \A r \in Requests : (InRequests(r) \/ InEvents(r)) => r \notin unsent
    BY DEF IInv, OnePlace, InRequests, InEvents
  <2>3. \A r \in Requests : Stage(r) \in {"sent", "replied"} <=> (InRequests(r) \/ InEvents(r))
    BY <2>2, StageByIndex DEF IInv
  <2> QED
    BY <2>1, <2>3
<1>16. B!Outstanding = Outstanding
  BY <1>15 DEF B!Outstanding
<1>17. [q \in Callbacks |-> WaitsOf(stack', q)]
          = [[q \in Callbacks |-> WaitsOf(stack, q)] EXCEPT ![p] = B!Outstanding]
  BY <1>13, <1>14, <1>16
<1>18. [q \in Callbacks |-> UNION {f.waits : f \in {g \in Content(stack) : g.of = q}}]'
          = [[q \in Callbacks |-> UNION {f.waits : f \in {g \in Content(stack) : g.of = q}}]
                EXCEPT ![p] = B!Outstanding]
  BY <1>17 DEF WaitsOf, Content
<1>19. [r \in Requests |-> Stage(r)]' = [r \in Requests |-> Stage(r)]
  BY <1>10
<1>20. /\ p \notin {q \in Callbacks : InCall(q)}
       /\ {q \in Callbacks : InCall(q)}' = {q \in Callbacks : InCall(q)} \cup {p}
  BY <1>11, <1>12 DEF OpenCalls
<1>21. fatal' = fatal /\ returned' = returned
  BY <1>1
<1> QED
  BY <1>18, <1>19, <1>20, <1>21, Zenon DEF B!Enter

LEMMA BeginFailsMaps ==
    ASSUME NEW p \in Callbacks, BeginFails(p)
    PROVE  B!Refuse
<1>1. /\ fatal' = TRUE /\ returned' = "error"
      /\ UNCHANGED <<unsent, requests, events, stack, done, alive>>
  BY DEF BeginFails
<1>2. \A r \in Requests : Stage(r)' = Stage(r)
  BY <1>1 DEF Stage, InFlight, Content
<1>3. OpenCalls' = OpenCalls
  BY <1>1 DEF OpenCalls, InCall
<1> QED
  BY <1>1, <1>2, <1>3, AbstractKept

(* A call returns.                                                         *)
LEMMA LeaveMaps ==
    ASSUME IInv, IInv', Running("call"), NEW result \in {"nil", "error"}, Leave(result)
    PROVE  \E p \in Callbacks : p = Top.of /\ B!Leave(p, result)
<1> DEFINE D == Len(stack)
<1>0. PICK p : p = Top.of
  OBVIOUS
<1>1. /\ stack # << >> /\ Top.type = "call" /\ stack' = Pop /\ returned' = result
      /\ UNCHANGED <<fatal, unsent, requests, events, alive>>
  BY DEF Leave, Running
<1>2. /\ D \in Nat /\ D > 0 /\ DOMAIN stack = 1 .. D /\ Top \in Frame
      /\ DOMAIN stack' = 1 .. D - 1
      /\ \A i \in 1 .. D - 1 : stack'[i] = stack[i]
  BY <1>1, PopFacts DEF IInv
<1>3. p \in Callbacks
  BY <1>0, <1>1, <1>2, FrameFacts
<1>4. /\ \A i \in DOMAIN stack : i \in DOMAIN stack' \/ i = D
      /\ \A i \in DOMAIN stack' : i \in DOMAIN stack /\ stack'[i] = stack[i]
      /\ D \in DOMAIN stack /\ D \notin DOMAIN stack'
      /\ stack[D].type = "call" /\ stack[D].of = p
  BY <1>0, <1>1, <1>2 DEF Top
<1>5. \A i \in DOMAIN stack' : stack'[i].type = "call" => stack'[i].of # p
  BY <1>4 DEF IInv, CallStack
<1>6. OpenCalls' = OpenCalls \ {p} /\ p \in OpenCalls
  BY <1>3, <1>4, <1>5, OpenCallsByIndex
<1>7. \A x \in Requests : InHandlers(x)' <=> InHandlers(x)
  BY <1>4 DEF InHandlers
<1>8. \A x \in Requests : (InRequests(x)' <=> InRequests(x)) /\ (InEvents(x)' <=> InEvents(x))
  BY <1>1 DEF InRequests, InEvents
<1>9. \A x \in Requests : Stage(x)' = Stage(x)
  BY <1>1, <1>7, <1>8, StageByIndex DEF IInv
<1>10. WaitsOf(stack', p) = {}
  <2>1. \A i \in DOMAIN stack' : stack'[i] \in Frame
    BY <1>4, QueueFacts DEF IInv
  <2>2. \A i \in DOMAIN stack' : stack'[i].of = p => stack'[i].waits = {}
    BY <1>5, <2>1, FrameFacts
  <2> QED
    BY <2>2, WaitsByIndex
<1>11. \A q \in Callbacks : q # p => WaitsOf(stack', q) = WaitsOf(stack, q)
  <2>1. \A q \in Callbacks :
          WaitsOf(stack, q) = WaitsOf(stack', q) \cup (IF p = q THEN stack[D].waits ELSE {})
    BY <1>0, <1>1, WaitsFront DEF IInv, Queues, Pop, Top
  <2> QED
    BY <2>1
<1>12. [q \in Callbacks |-> WaitsOf(stack', q)]
          = [[q \in Callbacks |-> WaitsOf(stack, q)] EXCEPT ![p] = {}]
  BY <1>3, <1>10, <1>11
<1>13. [q \in Callbacks |-> UNION {f.waits : f \in {g \in Content(stack) : g.of = q}}]'
          = [[q \in Callbacks |-> UNION {f.waits : f \in {g \in Content(stack) : g.of = q}}]
                EXCEPT ![p] = {}]
  BY <1>12 DEF WaitsOf, Content
<1>14. [r \in Requests |-> Stage(r)]' = [r \in Requests |-> Stage(r)]
  BY <1>9
<1>15. /\ p \in {q \in Callbacks : InCall(q)}
       /\ {q \in Callbacks : InCall(q)}' = {q \in Callbacks : InCall(q)} \ {p}
  BY <1>6 DEF OpenCalls
<1>16. fatal' = fatal /\ returned' = result
  BY <1>1
<1>17. B!Leave(p, result)
  BY <1>13, <1>14, <1>15, <1>16, Zenon DEF B!Leave
<1> QED
  BY <1>0, <1>3, <1>17

(* The heart of it: a call that returns nil has its done behind it, so     *)
(* nothing it waits for is in flight; and every handler of what it waits   *)
(* for ran above it, where nothing runs any more.                          *)
LEMMA ReturnNilMaps ==
    ASSUME IInv, IInv', ReturnNil
    PROVE  \E c \in Callbacks : B!Pass(c)
<1> DEFINE D == Len(stack)
<1>1. Running("call") /\ ~fatal /\ Top.of \in done /\ Leave("nil")
  BY DEF ReturnNil, Finished
<1>2. PICK p \in Callbacks : p = Top.of /\ B!Leave(p, "nil")
  BY <1>1, LeaveMaps
<1>3. /\ D \in Nat /\ DOMAIN stack = 1 .. D /\ D \in DOMAIN stack
      /\ stack[D].type = "call" /\ stack[D].of = p
  <2>1. stack # << >> /\ Top.type = "call"
    BY <1>1 DEF Running
  <2>2. D \in Nat /\ D > 0 /\ DOMAIN stack = 1 .. D
    BY <2>1, PopFacts DEF IInv
  <2> QED
    BY <1>2, <2>1, <2>2 DEF Top
<1>4. ASSUME NEW r \in WaitsOf(stack, p)
      PROVE  r \in Requests /\ Stage(r) = "settled"
  <2>1. PICK i \in DOMAIN stack : stack[i].of = p /\ r \in stack[i].waits
    BY <1>4, WaitsByIndex
  <2>2. stack[i].type = "call" /\ r \in Requests
    BY <2>1, QueueFacts, FrameFacts DEF IInv
  <2>3. i = D
    BY <1>3, <2>1, <2>2 DEF IInv, CallStack
  <2>4. r \notin unsent
    BY <2>1, <2>2 DEF IInv, CallStack
  <2>5. ~InRequests(r) /\ ~InEvents(r)
    BY <1>1, <1>2, <2>1, <2>2 DEF IInv, Behind, InRequests, InEvents
  <2>6. ~InHandlers(r)
    <3> SUFFICES ASSUME NEW k \in DOMAIN stack, stack[k].type = "handler", stack[k].of = r
                 PROVE  FALSE
      BY DEF InHandlers
    <3>1. D < k
      BY <2>1, <2>2, <2>3 DEF IInv, CallStack
    <3> QED
      BY <1>3, <3>1
  <2> QED
    BY <2>2, <2>4, <2>5, <2>6, StageByIndex DEF IInv
<1>5. \A r \in [q \in Callbacks |-> WaitsOf(stack, q)][p] :
        [x \in Requests |-> Stage(x)][r] = "settled"
  BY <1>2, <1>4
<1>6. B!Pass(p)
  BY <1>1, <1>2, <1>5 DEF B!Pass, WaitsOf
<1> QED
  BY <1>2, <1>6

(* An event is dispatched.                                                 *)
LEMMA ReadEventMaps ==
    ASSUME IInv, IInv', ~fatal, ReadEvent
    PROVE  (\E r \in Requests : B!Deliver(r)) \/ B!Fail \/ UNCHANGED B!vars
<1>1. /\ events # << >> /\ events' = Tail(events)
      /\ UNCHANGED <<unsent, requests, returned, alive>>
  BY DEF ReadEvent
<1>2. PICK e \in EventMsg : e = events[1] /\ e = Head(events)
  BY <1>1, TailFacts DEF IInv, Queues
<1>3. /\ Len(events) \in Nat /\ Len(events) > 0
      /\ DOMAIN events = 1 .. Len(events) /\ DOMAIN events' = 1 .. Len(events) - 1
      /\ \A i \in 1 .. Len(events) - 1 : events'[i] = events[i + 1]
      /\ \A i \in DOMAIN events :
           i = 1 \/ (i - 1 \in DOMAIN events' /\ events'[i - 1] = events[i])
  BY <1>1, TailFacts DEF IInv, Queues
<1>4. /\ 1 \in DOMAIN events
      /\ \A i \in DOMAIN events' :
           i \in Nat \ {0} /\ i + 1 \in DOMAIN events /\ events'[i] = events[i + 1]
  BY <1>3
<1>5. \A x \in Requests : InRequests(x)' <=> InRequests(x)
  BY <1>1 DEF InRequests
<1>6. ASSUME NEW r \in Requests \cup {Unasked}, stack' = Append(stack, Handler(r))
      PROVE  /\ \A x \in Requests : InHandlers(x)' <=> (InHandlers(x) \/ x = r)
             /\ OpenCalls' = OpenCalls
             /\ \A p \in Callbacks : WaitsOf(stack', p) = WaitsOf(stack, p)
  <2>1. /\ Handler(r) \in Frame /\ Handler(r).type = "handler" /\ Handler(r).of = r
        /\ Handler(r).waits = {}
    BY MessagesMade
  <2>2. /\ Len(stack) \in Nat /\ DOMAIN stack = 1 .. Len(stack)
        /\ DOMAIN stack' = 1 .. Len(stack) + 1
        /\ \A i \in 1 .. Len(stack) : stack'[i] = stack[i]
        /\ stack'[Len(stack) + 1] = Handler(r)
    BY <1>6, <2>1, AppendFacts DEF IInv, Queues
  <2>3. \A x \in Requests : InHandlers(x)' <=> (InHandlers(x) \/ x = r)
    BY <2>1, <2>2 DEF InHandlers
  <2>4. OpenCalls' = OpenCalls
    BY <2>1, <2>2, OpenCallsByIndex
  <2>5. \A p \in Callbacks : WaitsOf(stack', p) = WaitsOf(stack, p)
    <3>1. stack \in Seq(Frame)
      BY DEF IInv, Queues
    <3>2. ASSUME NEW p \in Callbacks
          PROVE  WaitsOf(stack', p)
                   = WaitsOf(stack, p) \cup (IF Handler(r).of = p THEN Handler(r).waits ELSE {})
      BY ZenonT(60), <1>6, <2>1, <3>1, WaitsAppend
    <3> QED
      BY <2>1, <3>2
  <2> QED
    BY <2>3, <2>4, <2>5
<1>7. CASE e.type = "plain" /\ e.of \in Requests
  <2>1. PICK r \in Requests : r = e.of
    BY <1>7
  <2>2. DispatchPlain(e)
    BY <1>2, <1>7 DEF ReadEvent, DispatchPlain, DispatchDone, DispatchDeleteID, DispatchError
  <2>3. stack' = Append(stack, Handler(r)) /\ fatal' = fatal
    BY <2>1, <2>2 DEF DispatchPlain, Enter
  <2>4. /\ r \notin unsent /\ ~InRequests(r) /\ InEvents(r)
    BY <1>2, <1>4, <1>7, <2>1 DEF IInv, OnePlace, InRequests, InEvents
  <2>5. ~InEvents(r)'
    <3> SUFFICES ASSUME NEW i \in DOMAIN events', events'[i].type = "plain", events'[i].of = r
                 PROVE  FALSE
      BY DEF InEvents
    <3>1. i \in Nat \ {0} /\ i + 1 \in DOMAIN events /\ events'[i] = events[i + 1]
      BY <1>4
    <3>2. i + 1 = 1
      BY <1>2, <1>4, <1>7, <2>1, <3>1 DEF IInv, OnePlace
    <3> QED
      BY <3>1, <3>2
  <2>6. \A x \in Requests : x # r => (InEvents(x)' <=> InEvents(x))
    BY ZenonT(60), <1>2, <1>3, <1>4, <2>1 DEF InEvents
  <2>7. /\ \A x \in Requests : InHandlers(x)' <=> (InHandlers(x) \/ x = r)
        /\ OpenCalls' = OpenCalls
        /\ \A p \in Callbacks : WaitsOf(stack', p) = WaitsOf(stack, p)
    BY <1>6, <2>3
  <2>8. Stage(r) = "replied" /\ Stage(r)' = "delivering"
    BY <1>1, <1>5, <2>4, <2>5, <2>7, StageByIndex DEF IInv
  <2>9. \A x \in Requests : x # r => Stage(x)' = Stage(x)
    BY <1>1, <1>5, <2>6, <2>7, StageByIndex DEF IInv
  <2>10. B!Move(r, "replied", "delivering")
    BY <1>1, <2>7, <2>8, <2>9, AbstractMove
  <2>11. B!Deliver(r)
    BY <2>3, <2>10 DEF B!Deliver
  <2> QED
    BY <2>11
<1>8. CASE ~(e.type = "plain" /\ e.of \in Requests)
  <2>1. \A x \in Requests : InEvents(x)' <=> InEvents(x)
    BY <1>2, <1>3, <1>4, <1>8 DEF InEvents
  <2>2. \/ stack' = Append(stack, Handler(Unasked)) /\ fatal' \in {fatal, TRUE}
        \/ stack' = stack /\ fatal' \in {fatal, TRUE}
    <3>1. e.type = "plain" => e.of = Unasked
      BY <1>8, EventFacts
    <3> QED
      BY <1>2, <3>1
         DEF ReadEvent, DispatchPlain, DispatchDone, DispatchDeleteID, DispatchError, Enter
  <2>3. /\ \A x \in Requests : InHandlers(x)' <=> InHandlers(x)
        /\ OpenCalls' = OpenCalls
        /\ \A p \in Callbacks : WaitsOf(stack', p) = WaitsOf(stack, p)
    <3>1. CASE stack' = Append(stack, Handler(Unasked))
      BY <1>6, <3>1, RoundtripAssumption
    <3>2. CASE stack' = stack
      BY <3>2 DEF InHandlers, OpenCalls, InCall
    <3> QED
      BY <2>2, <3>1, <3>2
  <2>4. \A x \in Requests : Stage(x)' = Stage(x)
    BY <1>1, <1>5, <2>1, <2>3, StageByIndex DEF IInv
  <2>5. fatal' = fatal \/ fatal' = TRUE
    BY <2>2
  <2> QED
    BY <1>1, <2>3, <2>4, <2>5, AbstractKept
<1> QED
  BY <1>7, <1>8

LEMMA FailureMaps ==
    ASSUME WriteFails \/ ReadFails
    PROVE  B!Fail
<1>1. fatal' = TRUE /\ UNCHANGED <<unsent, requests, events, stack, returned>>
  BY DEF WriteFails, ReadFails
<1>2. \A r \in Requests : Stage(r)' = Stage(r)
  BY <1>1 DEF Stage, InFlight, Content
<1>3. OpenCalls' = OpenCalls
  BY <1>1 DEF OpenCalls, InCall
<1> QED
  BY <1>1, <1>2, <1>3, AbstractKept

(* A handler ends.                                                         *)
LEMMA HandlerEndsMaps ==
    ASSUME IInv, IInv', HandlerReturns \/ HandlerPanics
    PROVE  (\E r \in Requests : B!Settle(r)) \/ B!Fail \/ UNCHANGED B!vars
<1> DEFINE D == Len(stack)
<1>1. /\ stack # << >> /\ Top.type = "handler" /\ stack' = Pop
      /\ UNCHANGED <<table, unsent, requests, events, done, returned, alive>>
      /\ fatal' = fatal \/ fatal' = TRUE
  BY DEF HandlerReturns, HandlerPanics, Running
<1>2. /\ D \in Nat /\ D > 0 /\ DOMAIN stack = 1 .. D /\ Top \in Frame
      /\ DOMAIN stack' = 1 .. D - 1 /\ \A i \in 1 .. D - 1 : stack'[i] = stack[i]
  BY <1>1, PopFacts DEF IInv
<1>3. PICK r \in Requests \cup {Unasked} : Top.of = r /\ Top.waits = {}
  BY <1>1, <1>2, FrameFacts
<1>4. /\ \A i \in DOMAIN stack' : i \in DOMAIN stack /\ stack'[i] = stack[i]
      /\ \A i \in DOMAIN stack : i \in DOMAIN stack' \/ i = D
      /\ D \in DOMAIN stack /\ D \notin DOMAIN stack'
      /\ stack[D].type = "handler" /\ stack[D].of = r
  BY <1>1, <1>2, <1>3 DEF Top
<1>5. OpenCalls' = OpenCalls
  BY <1>4, OpenCallsByIndex
<1>6. \A p \in Callbacks : WaitsOf(stack', p) = WaitsOf(stack, p)
  <2>1. stack \in Seq(Frame)
    BY DEF IInv, Queues
  <2>2. ASSUME NEW p \in Callbacks
        PROVE  WaitsOf(stack, p) = WaitsOf(Pop, p) \cup (IF Top.of = p THEN Top.waits ELSE {})
    BY <1>1, <2>1, WaitsFront DEF Pop, Top
  <2> QED
    BY <1>1, <1>3, <2>2
<1>7. \A x \in Requests : (InRequests(x)' <=> InRequests(x)) /\ (InEvents(x)' <=> InEvents(x))
  BY <1>1 DEF InRequests, InEvents
<1>8. \A x \in Requests : x # r => (InHandlers(x)' <=> InHandlers(x))
  BY <1>4 DEF InHandlers
<1>9. \A x \in Requests : x # r => Stage(x)' = Stage(x)
  BY <1>1, <1>7, <1>8, StageByIndex DEF IInv
<1>10. CASE r = Unasked
  BY <1>1, <1>5, <1>6, <1>9, <1>10, AbstractKept, RoundtripAssumption
<1>11. CASE r \in Requests
  <2>1. r # Unasked
    BY <1>11, RoundtripAssumption
  <2>2. InHandlers(r) /\ r \notin unsent /\ ~InRequests(r) /\ ~InEvents(r)
    BY <1>4, <2>1 DEF IInv, OnePlace, InHandlers, InRequests, InEvents
  <2>3. ~InHandlers(r)'
    BY <1>4, <2>1 DEF IInv, OnePlace, InHandlers
  <2>4. Stage(r) = "delivering" /\ Stage(r)' = "settled"
    BY <1>1, <1>7, <1>11, <2>2, <2>3, StageByIndex DEF IInv
  <2>5. B!Move(r, "delivering", "settled")
    BY <1>1, <1>5, <1>6, <1>9, <1>11, <2>4, AbstractMove
  <2>6. B!Settle(r)
    BY <1>1, <2>5 DEF B!Settle
  <2> QED
    BY <1>11, <2>6
<1> QED
  BY <1>10, <1>11

(* The server answers a request, or does something Barrier does not see.   *)
LEMMA HandleMaps ==
    ASSUME IInv, IInv', Handle
    PROVE  (\E r \in Requests : B!Answer(r)) \/ UNCHANGED B!vars
<1>1. /\ requests # << >> /\ requests' = Tail(requests)
      /\ UNCHANGED <<table, fatal, unsent, stack, done, returned, alive>>
  BY DEF Handle
<1>2. PICK m \in RequestMsg : m = requests[1] /\ m = Head(requests)
  BY <1>1, TailFacts DEF IInv, Queues
<1>3. /\ Len(requests) \in Nat /\ Len(requests) > 0
      /\ DOMAIN requests = 1 .. Len(requests) /\ DOMAIN requests' = 1 .. Len(requests) - 1
      /\ \A i \in 1 .. Len(requests) - 1 : requests'[i] = requests[i + 1]
      /\ \A i \in DOMAIN requests :
           i = 1 \/ (i - 1 \in DOMAIN requests' /\ requests'[i - 1] = requests[i])
  BY <1>1, TailFacts DEF IInv, Queues
<1>4. /\ 1 \in DOMAIN requests
      /\ \A i \in DOMAIN requests' :
           i \in Nat \ {0} /\ i + 1 \in DOMAIN requests /\ requests'[i] = requests[i + 1]
  BY <1>3
<1>5. /\ \A x \in Requests : InHandlers(x)' <=> InHandlers(x)
      /\ OpenCalls' = OpenCalls
      /\ \A p \in Callbacks : WaitsOf(stack', p) = WaitsOf(stack, p)
  BY <1>1 DEF InHandlers, OpenCalls, InCall
<1>6. Len(events) \in Nat /\ DOMAIN events = 1 .. Len(events)
  BY QueueFacts DEF IInv
<1>7. CASE m.type = "sync"
  <2>1. \A x \in Requests : InRequests(x)' <=> InRequests(x)
    BY <1>2, <1>3, <1>4, <1>7 DEF InRequests
  <2>2. PICK n \in CallbackIDs, p \in Callbacks : m.id = n /\ m.of = p
    BY <1>7, RequestFacts
  <2>3. /\ Done(n, p) \in EventMsg /\ Done(n, p).type = "done"
        /\ DeleteIDEvent(n, p) \in EventMsg /\ DeleteIDEvent(n, p).type = "delete_id"
    BY MessagesMade
  <2>4. events' = events \o <<Done(n, p), DeleteIDEvent(n, p)>> /\ events \in Seq(EventMsg)
    BY <1>2, <1>7, <2>2 DEF Handle, IInv, Queues
  <2>5. ASSUME NEW S, NEW q \in Seq(S), NEW x \in S, NEW y \in S
        PROVE  /\ DOMAIN (q \o <<x, y>>) = 1 .. Len(q) + 2
               /\ \A i \in 1 .. Len(q) : (q \o <<x, y>>)[i] = q[i]
               /\ (q \o <<x, y>>)[Len(q) + 1] = x
               /\ (q \o <<x, y>>)[Len(q) + 2] = y
    OBVIOUS
  <2>6. /\ DOMAIN events' = 1 .. Len(events) + 2
        /\ \A i \in 1 .. Len(events) : events'[i] = events[i]
        /\ events'[Len(events) + 1] = Done(n, p)
        /\ events'[Len(events) + 2] = DeleteIDEvent(n, p)
    BY <2>3, <2>4, <2>5
  <2>7. /\ \A i \in DOMAIN events' : events'[i].type = "plain" =>
             i \in DOMAIN events /\ events'[i] = events[i]
        /\ \A i \in DOMAIN events : i \in DOMAIN events' /\ events'[i] = events[i]
    BY <1>6, <2>3, <2>6
  <2>8. \A x \in Requests : InEvents(x)' <=> InEvents(x)
    BY <2>7 DEF InEvents
  <2>9. \A x \in Requests : Stage(x)' = Stage(x)
    BY <1>1, <1>5, <2>1, <2>8, StageByIndex DEF IInv
  <2> QED
    BY <1>1, <1>5, <2>9, AbstractKept
<1>8. CASE m.type = "plain"
  <2>1. PICK r \in Requests : m.of = r /\ m = Plain(r)
    BY <1>8, RequestFacts
  <2>2. r \notin unsent /\ InRequests(r) /\ ~InEvents(r) /\ ~InHandlers(r)
    BY <1>2, <1>4, <1>8, <2>1, RoundtripAssumption
       DEF IInv, OnePlace, InRequests, InEvents, InHandlers
  <2>3. ~InRequests(r)'
    <3> SUFFICES ASSUME NEW i \in DOMAIN requests', requests'[i].type = "plain",
                        requests'[i].of = r
                 PROVE  FALSE
      BY DEF InRequests
    <3>1. i \in Nat \ {0} /\ i + 1 \in DOMAIN requests /\ requests'[i] = requests[i + 1]
      BY <1>4
    <3>2. i + 1 = 1
      BY <1>2, <1>4, <1>8, <2>1, <3>1 DEF IInv, OnePlace
    <3> QED
      BY <3>1, <3>2
  <2>4. \A x \in Requests : x # r => (InRequests(x)' <=> InRequests(x))
    BY <1>2, <1>3, <1>4, <2>1 DEF InRequests
  <2>5. \/ events' = Append(events, m)
        \/ events' = events
    BY <1>2, <1>8 DEF Handle
  <2>6. /\ \A x \in Requests : x # r => (InEvents(x)' <=> InEvents(x))
        /\ InEvents(r)' \/ ~InEvents(r)'
    <3>1. CASE events' = events
      BY <3>1 DEF InEvents
    <3>2. CASE events' = Append(events, m)
      <4>1. m \in EventMsg
        BY <2>1, MessagesMade
      <4>2. /\ DOMAIN events' = 1 .. Len(events) + 1
            /\ \A i \in 1 .. Len(events) : events'[i] = events[i]
            /\ events'[Len(events) + 1] = m
        BY <3>2, <4>1, AppendFacts DEF IInv, Queues
      <4> QED
        BY <1>6, <2>1, <4>2 DEF InEvents
    <3> QED
      BY <2>5, <3>1, <3>2
  <2>7. \A x \in Requests : x # r => Stage(x)' = Stage(x)
    BY <1>1, <1>5, <2>4, <2>6, StageByIndex DEF IInv
  <2>8. Stage(r) = "sent" /\ (Stage(r)' = "replied" \/ Stage(r)' = "settled")
    BY <1>1, <1>5, <2>2, <2>3, StageByIndex DEF IInv
  <2>9. B!Move(r, "sent", "replied") \/ B!Move(r, "sent", "settled")
    BY <1>1, <1>5, <2>7, <2>8, AbstractMove
  <2>10. B!Answer(r)
    BY <1>1, <2>9 DEF B!Answer
  <2> QED
    BY <2>10
<1> QED
  BY <1>7, <1>8, RequestFacts

LEMMA ServerTalksMaps ==
    ASSUME IInv, IInv', SendUnasked \/ Quit
    PROVE  UNCHANGED B!vars
<1>1. /\ UNCHANGED <<table, fatal, unsent, requests, stack, done, returned>>
      /\ events' = Append(events, Plain(Unasked)) \/ events' = Append(events, ErrorEvent)
           \/ events' = events
  BY DEF SendUnasked, Quit
<1>2. /\ Plain(Unasked) \in EventMsg /\ Plain(Unasked).of = Unasked
      /\ ErrorEvent \in EventMsg /\ ErrorEvent.type = "error"
  BY MessagesMade
<1>3. \A x \in Requests : InEvents(x)' <=> InEvents(x)
  <2>1. ASSUME NEW m \in EventMsg, events' = Append(events, m),
               m.of = Unasked \/ m.type = "error", NEW x \in Requests
        PROVE  InEvents(x)' <=> InEvents(x)
    <3>1. /\ Len(events) \in Nat /\ DOMAIN events = 1 .. Len(events)
          /\ DOMAIN events' = 1 .. Len(events) + 1
          /\ \A i \in 1 .. Len(events) : events'[i] = events[i]
          /\ events'[Len(events) + 1] = m
      BY <2>1, AppendFacts DEF IInv, Queues
    <3>2. ~(m.type = "plain" /\ m.of = x)
      BY <2>1, RoundtripAssumption
    <3> QED
      BY <3>1, <3>2 DEF InEvents
  <2>2. CASE events' = events
    BY <2>2 DEF InEvents
  <2> QED
    BY <1>1, <1>2, <2>1, <2>2
<1>4. /\ \A x \in Requests : InHandlers(x)' <=> InHandlers(x)
      /\ \A x \in Requests : InRequests(x)' <=> InRequests(x)
      /\ OpenCalls' = OpenCalls
      /\ \A p \in Callbacks : WaitsOf(stack', p) = WaitsOf(stack, p)
  BY <1>1 DEF InHandlers, InRequests, OpenCalls, InCall
<1>5. \A x \in Requests : Stage(x)' = Stage(x)
  BY <1>1, <1>3, <1>4, StageByIndex DEF IInv
<1> QED
  BY <1>1, <1>4, <1>5, AbstractKept

(* Roundtrip is the barrier its comments claim, for any requests, any      *)
(* callbacks, any range of IDs and any depth of nested calls: every        *)
(* behaviour of the callbacks, queues and call stack is one of Barrier.    *)
THEOREM RoundtripIsABarrier == Spec => ImplementsBarrier
<1>1. ASSUME Init PROVE B!Init
  <2>1. /\ stack = << >> /\ unsent = Requests /\ fatal = FALSE /\ returned = "none"
        /\ DOMAIN stack = {} /\ Content(stack) = {}
    BY <1>1 DEF Init, Content
  <2>2. [r \in Requests |-> Stage(r)] = [r \in Requests |-> "unsent"]
    BY <2>1 DEF Stage
  <2>3. {p \in Callbacks : InCall(p)} = {}
    BY <2>1 DEF InCall
  <2>4. \A p \in Callbacks : UNION {f.waits : f \in {g \in Content(stack) : g.of = p}} = {}
    BY <2>1
  <2> QED
    BY <2>1, <2>2, <2>3, <2>4 DEF B!Init
<1>2. ASSUME IInv, IInv', [Next]_vars PROVE [B!Next]_(B!vars)
  <2>1. CASE UNCHANGED vars
    <3>1. \A r \in Requests : Stage(r)' = Stage(r)
      BY <2>1 DEF vars, Stage, InFlight, Content
    <3>2. OpenCalls' = OpenCalls
      BY <2>1 DEF vars, OpenCalls, InCall
    <3>3. stack' = stack /\ fatal' = fatal /\ returned' = returned
      BY <2>1 DEF vars
    <3> QED
      BY <3>1, <3>2, <3>3, AbstractKept
  <2>2. ASSUME NEW r \in Requests, Issue(r) PROVE B!Next
    BY <1>2, <2>2, IssueMaps DEF B!Next
  <2>3. ASSUME NEW p \in Callbacks, Begin(p) PROVE B!Next
    BY <1>2, <2>3, BeginMaps DEF B!Next
  <2>4. ASSUME NEW p \in Callbacks, BeginFails(p) PROVE B!Next
    BY <2>4, BeginFailsMaps DEF B!Next
  <2>5. CASE WriteFails
    BY <2>5, FailureMaps DEF B!Next
  <2>6. CASE ReturnNil
    BY <1>2, <2>6, ReturnNilMaps DEF B!Next
  <2>7. CASE ReturnError \/ Deadline
    <3>1. Running("call") /\ Leave("error")
      BY <2>7 DEF ReturnError, Deadline
    <3>2. PICK c \in Callbacks : B!Leave(c, "error")
      BY <1>2, <3>1, LeaveMaps
    <3> QED
      BY <3>2 DEF B!Next, B!GiveUp
  <2>8. CASE Dispatch
    <3>1. CASE ReadFails
      BY <3>1, FailureMaps DEF B!Next
    <3>2. CASE ReadEvent
      <4>1. ~fatal
        BY <2>8 DEF Dispatch, Awaiting, ApplicationDispatches
      <4> QED
        BY <1>2, <3>2, <4>1, ReadEventMaps DEF B!Next
    <3> QED
      BY <2>8, <3>1, <3>2 DEF Dispatch
  <2>9. CASE HandlerReturns \/ HandlerPanics
    BY <1>2, <2>9, HandlerEndsMaps DEF B!Next
  <2>10. CASE Handle
    BY <1>2, <2>10, HandleMaps DEF B!Next
  <2>11. CASE SendUnasked \/ Quit
    BY <1>2, <2>11, ServerTalksMaps
  <2> QED
    BY <1>2, <2>1, <2>2, <2>3, <2>4, <2>5, <2>6, <2>7, <2>8, <2>9, <2>10, <2>11 DEF Next, Return
<1> QED
  BY <1>1, <1>2, Invariance, PTL DEF Spec, ImplementsBarrier, B!Spec
=============================================================================
