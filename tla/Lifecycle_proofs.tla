-------------------------- MODULE Lifecycle_proofs --------------------------
(***************************************************************************)
(* Client and server never disagree about an ID: proofs about Lifecycle    *)
(* for any objects, any ID range and any depth of the queues.              *)
(*                                                                         *)
(* The object table's part of the argument is ObjectTable_proofs'.         *)
(***************************************************************************)
EXTENDS Lifecycle, TLAPS

TP == INSTANCE ObjectTable_proofs

-----------------------------------------------------------------------------
(* The invariant that holds whatever the server sends.                     *)

TableInv == T!TypeOK /\ T!FreeListSound /\ T!CounterCoversClientIDs /\ T!IdentityAgrees

ObjectIDs == 2 .. FirstServerID - 1     \* the IDs Register hands out

RequestMsg ==
    [op : {"new"}, id : ObjectIDs, object : Proxies]
      \cup [op : {"destroy"}, id : T!IDs, object : Proxies]
EventMsg ==
    [type : {"plain", "done", "error"}, id : T!IDs, object : Proxies,
     argID : T!IDs \cup {NoID}, arg : Proxies]
      \cup [type : {"introduce", "delete_id"}, id : T!IDs, object : Proxies,
            argID : T!IDs, arg : Proxies]

Structure ==
    /\ fatal \in BOOLEAN /\ rejected \in BOOLEAN
    /\ kind \in [Proxies -> Kinds]
    /\ unbound \subseteq Proxies
    /\ requests \in Seq(RequestMsg)
    /\ events \in Seq(EventMsg)
    /\ DOMAIN resources \subseteq T!IDs
    /\ \A n \in DOMAIN resources : resources[n] \in Proxies
    /\ served \in T!ClientIDs

(* An object the server introduces is nobody's until the client has read   *)
(* the event, and what waits for its bind keeps a client ID.               *)
Newcomers ==
    /\ \A p \in unbound : pid[p] \in ObjectIDs
    /\ \A i \in DOMAIN events :
         events[i].type = "introduce" => events[i].arg \notin T!Registered \cup unbound
    /\ \A i, j \in DOMAIN events :
         (events[i].type = "introduce" /\ events[j].type = "introduce"
            /\ events[i].arg = events[j].arg) => i = j

AInv == TableInv /\ Structure /\ Newcomers

-----------------------------------------------------------------------------
(* The invariant of two conforming peers, until the connection fails.  A   *)
(* refused constructor (Oversize) breaks some of it: its ID is never       *)
(* announced, so the server may reject a later request.                    *)

(* What the client finds at ID n when it comes to event i of queue q, from *)
(* a table o: what an earlier event introduces there, or what is there now *)
(* when no earlier event is about n.                                       *)
About(e, n) == e.type \in {"introduce", "delete_id"} /\ e.argID = n
Introduced(q, i, n, p) ==
    \E j \in DOMAIN q : j < i /\ q[j].type = "introduce" /\ q[j].argID = n /\ q[j].arg = p
Untouched(q, i, n) == \A j \in DOMAIN q : j < i => ~About(q[j], n)
Finds(q, o, i, n, p) ==
    \/ Introduced(q, i, n, p)
    \/ n \in DOMAIN o /\ o[n] = p /\ Untouched(q, i, n)

(* An ID whose announcement may have been refused.                         *)
Refusable(n) == Oversize /\ n < FirstServerID

Announces(q, n) == \E i \in DOMAIN q : q[i].op = "new" /\ q[i].id = n
Acknowledges(q, n) == \E i \in DOMAIN q : q[i].type = "delete_id" /\ q[i].argID = n

Quiet ==
    /\ ~fatal
    /\ rejected => Oversize
    /\ \A i \in DOMAIN events :
         events[i].type = "error" =>
            rejected /\ events[i].id = T!DisplayID /\ events[i].object = Display

Anchored ==
    /\ kind[Display] = "display"
    /\ T!DisplayID \in DOMAIN objects /\ objects[T!DisplayID] = Display
    /\ T!DisplayID \in DOMAIN resources /\ resources[T!DisplayID] = Display

(* The senders of the events, the objects they name and the objects the    *)
(* server has are where the client will look for them.                     *)
Senders == \A i \in DOMAIN events : Finds(events, objects, i, events[i].id, events[i].object)
NamedObjects ==
    \A i \in DOMAIN events :
       (events[i].type = "plain" /\ events[i].argID # NoID)
          => Finds(events, objects, i, events[i].argID, events[i].arg)
ServerView ==
    \A n \in DOMAIN resources :
       /\ resources[n] \notin unbound
       /\ Finds(events, objects, Len(events) + 1, n, resources[n])

(* Messages about an ID, by type.                                          *)
Introductions ==
    \A i \in DOMAIN events : events[i].type = "introduce" =>
       LET n == events[i].argID IN
         /\ n \in T!ServerIDs
         /\ n \in DOMAIN resources /\ resources[n] = events[i].arg
         /\ n \in DOMAIN objects => zombie[objects[n]]
Deletions ==
    \A i \in DOMAIN events : events[i].type = "delete_id" =>
       LET n == events[i].argID IN
         /\ events[i].id = T!DisplayID
         /\ n \in ObjectIDs /\ n \in DOMAIN objects \ DOMAIN resources
         /\ objects[n] \notin unbound
         /\ zombie[objects[n]] \/ ~HasDestructor(objects[n])
         /\ \A j \in DOMAIN requests : requests[j].id # n
News ==
    \A i \in DOMAIN requests : requests[i].op = "new" =>
       LET n == requests[i].id IN
         /\ n \in DOMAIN objects \ DOMAIN resources
         /\ objects[n] = requests[i].object
         /\ objects[n] \notin unbound
Destructions ==
    \A i \in DOMAIN requests : requests[i].op = "destroy" =>
       LET n == requests[i].id IN
         /\ n \in DOMAIN objects /\ objects[n] = requests[i].object
         /\ objects[n] \notin unbound
         /\ zombie[objects[n]] /\ HasDestructor(objects[n])
         /\ \/ Refusable(n) \/ n \in DOMAIN resources
            \/ \E j \in DOMAIN requests :
                  j < i /\ requests[j].op = "new" /\ requests[j].id = n
         /\ \A j \in DOMAIN events :
              events[j].type = "introduce" => events[j].argID # n

(* No two messages of a kind are about the same ID.                        *)
OncePerID ==
    /\ \A i, j \in DOMAIN events :
         (/\ events[i].type = events[j].type
          /\ events[i].type \in {"introduce", "delete_id"}
          /\ events[i].argID = events[j].argID) => i = j
    /\ \A i, j \in DOMAIN requests :
         (requests[i].op = requests[j].op /\ requests[i].id = requests[j].id) => i = j

(* Every client ID in the table is waiting for its bind, on its way to the *)
(* server, there, or on its way back, unless the request that announced it *)
(* was refused; every live server ID is there.                             *)
Settled ==
    /\ \A p \in unbound : pid[p] \in DOMAIN objects /\ objects[pid[p]] = p
    /\ \A n \in DOMAIN objects :
         (n < FirstServerID /\ objects[n] \notin unbound)
            => \/ n \in DOMAIN resources \/ Announces(requests, n)
               \/ Acknowledges(events, n) \/ Oversize
    /\ \A n \in DOMAIN objects :
         (n >= FirstServerID /\ ~zombie[objects[n]])
            => n \in DOMAIN resources /\ resources[n] = objects[n]
    /\ \A n \in DOMAIN resources :
         n >= FirstServerID => kind[resources[n]] \in {"offer", "pad"}

(* Without refusals, the IDs the server has not seen yet will come in      *)
(* ascending order and without gaps.                                       *)
Order ==
    /\ \A n \in served + 1 .. currentID :
         n \in DOMAIN objects /\ (objects[n] \in unbound \/ Announces(requests, n))
    /\ \A i, j \in DOMAIN requests :
         (/\ requests[i].op = "new" /\ requests[i].id > served
          /\ requests[j].op = "new" /\ requests[j].id > served /\ i < j)
            => requests[i].id < requests[j].id
    /\ \A i \in DOMAIN requests, q \in unbound :
         (requests[i].op = "new" /\ requests[i].id > served /\ pid[q] > served)
            => requests[i].id < pid[q]

BInv == /\ Quiet /\ Anchored /\ Senders /\ NamedObjects /\ ServerView
        /\ Introductions /\ Deletions /\ News /\ Destructions /\ OncePerID
        /\ Settled /\ (Oversize \/ Order)

-----------------------------------------------------------------------------
(* The object table: ObjectTable_proofs' results in this module's terms.   *)
LEMMA TableAssumption == TP!ObjectTableAssumption
BY LifecycleAssumption DEF TP!ObjectTableAssumption

LEMMA TableInvIsTheirs ==
    (TableInv <=> TP!IInv) /\ (TableInv' <=> TP!IInv')
BY DEF TableInv, TP!IInv, T!TypeOK, TP!TypeOK, T!FreeListSound, TP!FreeListSound,
       T!CounterCoversClientIDs, TP!CounterCoversClientIDs, T!IdentityAgrees, TP!IdentityAgrees,
       T!Live, TP!Live, T!IDs, TP!IDs, T!ClientIDs, TP!ClientIDs, T!DisplayID, TP!DisplayID

LEMMA InitTable == T!Init => TableInv
<1> SUFFICES ASSUME T!Init PROVE TableInv
  OBVIOUS
<1>1. TP!Init
  BY DEF T!Init, TP!Init, T!DisplayID, TP!DisplayID
<1>2. TP!IInv
  BY <1>1, TableAssumption, TP!InitIInv, Zenon
<1> QED
  BY <1>2, TableInvIsTheirs

LEMMA TableKept ==
    ASSUME TableInv, UNCHANGED table
    PROVE  /\ TableInv' /\ T!Registered' = T!Registered
           /\ objects' = objects /\ zombie' = zombie /\ pid' = pid /\ currentID' = currentID
           /\ freeIDs' = freeIDs
<1>1. TP!IInv /\ UNCHANGED TP!vars
  BY TableInvIsTheirs DEF table, TP!vars
<1>2. TP!IInv'
  BY <1>1, TableAssumption, TP!NextIInv, Zenon
<1> QED
  BY <1>2, TableInvIsTheirs DEF table, T!Registered

LEMMA RegisterTable ==
    ASSUME TableInv, NEW p \in Proxies, T!RegisterRecycled(p) \/ T!RegisterNew(p)
    PROVE  TableInv'
<1>1. TP!IInv
  BY TableInvIsTheirs
<1>2. CASE T!RegisterRecycled(p)
  <2>1. TP!RegisterRecycled(p)
    BY <1>2 DEF T!RegisterRecycled, TP!RegisterRecycled, T!TopUsable, TP!TopUsable,
                T!Bind, TP!Bind, T!Bound, TP!Bound, T!Live, TP!Live, T!Registered, TP!Registered
  <2>2. TP!IInv'
    BY <1>1, <2>1, TableAssumption, TP!RegisterRecycledIInv, Zenon
  <2> QED
    BY <2>2, TableInvIsTheirs
<1>3. CASE T!RegisterNew(p)
  <2>1. TP!RegisterNew(p)
    BY <1>3 DEF T!RegisterNew, TP!RegisterNew, T!NoneUsable, TP!NoneUsable,
                T!Bind, TP!Bind, T!Bound, TP!Bound, T!Live, TP!Live, T!Registered, TP!Registered
  <2>2. TP!IInv'
    BY <1>1, <2>1, TableAssumption, TP!RegisterNewIInv, Zenon
  <2> QED
    BY <2>2, TableInvIsTheirs
<1> QED
  BY <1>2, <1>3

LEMMA RegisterWithIDTable ==
    ASSUME TableInv, NEW p \in Proxies, NEW n \in T!IDs, T!RegisterWithID(p, n)
    PROVE  TableInv'
<1>1. TP!IInv /\ n \in TP!IDs
  BY TableInvIsTheirs DEF T!IDs, TP!IDs
<1>2. TP!RegisterWithID(p, n)
  BY DEF T!RegisterWithID, TP!RegisterWithID, T!Acceptable, TP!Acceptable, T!Bind, TP!Bind,
         T!Bound, TP!Bound, T!Live, TP!Live, T!Registered, TP!Registered,
         T!ServerIDs, TP!ServerIDs
<1>3. TP!IInv'
  BY <1>1, <1>2, TableAssumption, TP!RegisterWithIDIInv, Zenon
<1> QED
  BY <1>3, TableInvIsTheirs

LEMMA MarkZombieTable ==
    ASSUME TableInv, NEW p \in Proxies, T!MarkZombie(p)
    PROVE  TableInv'
<1>1. TP!IInv /\ TP!MarkZombie(p)
  BY TableInvIsTheirs DEF T!MarkZombie, TP!MarkZombie
<1>2. TP!IInv'
  BY <1>1, TableAssumption, TP!MarkZombieIInv, Zenon
<1> QED
  BY <1>2, TableInvIsTheirs

LEMMA DeleteIDTable ==
    ASSUME TableInv, NEW n \in T!IDs, T!DeleteID(n)
    PROVE  TableInv'
<1>1. TP!IInv /\ TP!DeleteID(n) /\ n \in TP!IDs
  BY TableInvIsTheirs
     DEF T!DeleteID, TP!DeleteID, T!Without, TP!Without, T!Live, TP!Live,
         T!Recyclable, TP!Recyclable, T!IDs, TP!IDs, T!DisplayID, TP!DisplayID
<1>2. TP!IInv'
  BY <1>1, TableAssumption, TP!DeleteIDIInv, Zenon
<1> QED
  BY <1>2, TableInvIsTheirs

(* What a binding of p at n changes.                                       *)
LEMMA BoundFacts ==
    ASSUME TableInv, NEW p \in Proxies, NEW n, p \notin T!Registered,
           objects' = T!Bound(n, p), pid' = [pid EXCEPT ![p] = n]
    PROVE  /\ DOMAIN objects' = DOMAIN objects \cup {n}
           /\ objects'[n] = p
           /\ \A m \in DOMAIN objects : m # n => objects'[m] = objects[m]
           /\ pid'[p] = n /\ \A q \in Proxies : q # p => pid'[q] = pid[q]
           /\ T!Registered' \subseteq T!Registered \cup {p}
<1>1. /\ DOMAIN objects' = DOMAIN objects \cup {n}
      /\ objects'[n] = p
      /\ \A m \in DOMAIN objects : m # n => objects'[m] = objects[m]
  BY DEF T!Bound
<1>2. pid'[p] = n /\ \A q \in Proxies : q # p => pid'[q] = pid[q]
  BY DEF TableInv, T!TypeOK
<1>3. T!Registered' \subseteq T!Registered \cup {p}
  BY <1>1 DEF T!Registered
<1> QED
  BY <1>1, <1>2, <1>3

(* RegisterZombie is RegisterWithID but for the mark.                      *)
LEMMA RegisterZombieTable ==
    ASSUME TableInv, NEW p \in Proxies, NEW n \in T!IDs, p \notin T!Registered,
           RegisterZombie(p, n)
    PROVE  TableInv'
<1>1. CASE T!Acceptable(n)
  <2>1. /\ objects' = T!Bound(n, p) /\ pid' = [pid EXCEPT ![p] = n]
        /\ zombie' = [zombie EXCEPT ![p] = TRUE] /\ outcome' = "ok"
        /\ freeIDs' = freeIDs /\ currentID' = currentID
        /\ n \in T!ServerIDs
    BY <1>1 DEF RegisterZombie, T!Acceptable
  <2>2. /\ DOMAIN objects' = DOMAIN objects \cup {n}
        /\ objects'[n] = p
        /\ \A m \in DOMAIN objects : m # n => objects'[m] = objects[m]
        /\ pid'[p] = n /\ \A q \in Proxies : q # p => pid'[q] = pid[q]
    BY ZenonT(60), <2>1, BoundFacts
  <2>3. T!TypeOK'
    <3>1. /\ DOMAIN objects' \subseteq T!IDs
          /\ \A m \in DOMAIN objects' : objects'[m] \in Proxies
      BY <2>2 DEF TableInv, T!TypeOK
    <3>2. objects' = [m \in DOMAIN objects' |-> objects'[m]]
      BY <2>1, <2>2 DEF T!Bound
    <3>3. pid' \in [Proxies -> 0 .. MaxID] /\ zombie' \in [Proxies -> BOOLEAN]
      BY <2>1 DEF TableInv, T!TypeOK, T!IDs
    <3>4. freeIDs' \in Seq(T!ClientIDs) /\ currentID' \in T!ClientIDs /\ outcome' \in {"ok", "panic"}
      BY <2>1 DEF TableInv, T!TypeOK
    <3> QED
      BY <3>1, <3>2, <3>3, <3>4, Zenon DEF T!TypeOK
  <2>4. T!FreeListSound'
    <3>1. \A i \in 1 .. Len(freeIDs) : freeIDs[i] # n
      <4>1. \A i \in 1 .. Len(freeIDs) : freeIDs[i] \in T!ClientIDs
        BY DEF TableInv, T!TypeOK
      <4> QED
        BY <2>1, <4>1, LifecycleAssumption DEF T!ServerIDs, T!ClientIDs
    <3> QED
      BY <2>1, <2>2, <3>1 DEF TableInv, T!FreeListSound, T!Live
  <2>5. T!CounterCoversClientIDs'
    BY <2>1, <2>2, LifecycleAssumption DEF TableInv, T!CounterCoversClientIDs, T!ServerIDs
  <2>6. T!IdentityAgrees'
    <3> SUFFICES ASSUME NEW m \in DOMAIN objects' PROVE pid'[objects'[m]] = m
      BY DEF T!IdentityAgrees
    <3>1. CASE m = n
      BY <2>2, <3>1
    <3>2. CASE m # n
      <4>1. m \in DOMAIN objects /\ objects'[m] = objects[m] /\ objects[m] # p /\ objects[m] \in Proxies
        BY <2>2, <3>2 DEF TableInv, T!TypeOK, T!Registered
      <4> QED
        BY <2>2, <4>1 DEF TableInv, T!IdentityAgrees
    <3> QED
      BY <3>1, <3>2
  <2> QED
    BY <2>3, <2>4, <2>5, <2>6 DEF TableInv
<1>2. CASE ~T!Acceptable(n)
  BY <1>2, TableKept DEF RegisterZombie, SetFatal
<1> QED
  BY <1>1, <1>2

(* The ID Register takes is nobody's; it is the next one, or one that was  *)
(* given back.                                                             *)
LEMMA RegisterFacts ==
    ASSUME TableInv, NEW p \in Proxies, T!RegisterRecycled(p) \/ T!RegisterNew(p)
    PROVE  /\ TableInv' /\ p \notin T!Registered
           /\ T!Registered' \subseteq T!Registered \cup {p}
           /\ pid'[p] \in ObjectIDs /\ pid'[p] \notin DOMAIN objects
           /\ DOMAIN objects' = DOMAIN objects \cup {pid'[p]}
           /\ objects'[pid'[p]] = p /\ \A m \in DOMAIN objects : objects'[m] = objects[m]
           /\ \A q \in Proxies : q # p => pid'[q] = pid[q]
           /\ \A q \in Proxies : q # p => zombie'[q] = zombie[q]
           /\ \/ currentID' = currentID /\ \E i \in 1 .. Len(freeIDs) : pid'[p] = freeIDs[i]
              \/ currentID' = pid'[p] /\ currentID < pid'[p]
                 /\ \A m \in currentID + 1 .. pid'[p] - 1 : m \in DOMAIN objects
<1>1. TableInv' /\ p \notin T!Registered
  BY RegisterTable DEF T!RegisterRecycled, T!RegisterNew
<1>2. \E n \in ObjectIDs :
        /\ n \notin DOMAIN objects /\ T!Bind(p, n)
        /\ \/ currentID' = currentID /\ \E i \in 1 .. Len(freeIDs) : n = freeIDs[i]
           \/ currentID' = n /\ currentID < n /\ \A m \in currentID + 1 .. n - 1 : m \in DOMAIN objects
  <2>1. CASE T!RegisterRecycled(p)
    <3>1. PICK i \in 1 .. Len(freeIDs) : T!TopUsable(i) /\ T!Bind(p, freeIDs[i])
      BY <2>1 DEF T!RegisterRecycled
    <3>2. freeIDs[i] \in ObjectIDs
      BY LifecycleAssumption
         DEF TableInv, T!FreeListSound, T!TypeOK, T!ClientIDs, T!DisplayID, ObjectIDs
    <3>3. currentID' = currentID
      BY <2>1 DEF T!RegisterRecycled
    <3> QED
      BY <3>1, <3>2, <3>3 DEF T!TopUsable, T!Live
  <2>2. CASE T!RegisterNew(p)
    <3>1. PICK n \in currentID + 1 .. FirstServerID - 1 :
            /\ ~T!Live(n) /\ T!Bind(p, n) /\ currentID' = n
            /\ \A m \in currentID + 1 .. n - 1 : T!Live(m)
      BY <2>2 DEF T!RegisterNew
    <3>2. n \in ObjectIDs /\ currentID < n
      BY <3>1, LifecycleAssumption DEF TableInv, T!TypeOK, T!ClientIDs, ObjectIDs
    <3> QED
      BY <3>1, <3>2 DEF T!Live
  <2> QED
    BY <2>1, <2>2
<1>3. PICK n \in ObjectIDs :
        /\ n \notin DOMAIN objects /\ T!Bind(p, n)
        /\ \/ currentID' = currentID /\ \E i \in 1 .. Len(freeIDs) : n = freeIDs[i]
           \/ currentID' = n /\ currentID < n /\ \A m \in currentID + 1 .. n - 1 : m \in DOMAIN objects
  BY <1>2
<1>4. objects' = T!Bound(n, p) /\ pid' = [pid EXCEPT ![p] = n] /\ zombie' = [zombie EXCEPT ![p] = FALSE]
  BY <1>3 DEF T!Bind
<1>5. /\ DOMAIN objects' = DOMAIN objects \cup {n}
      /\ objects'[n] = p
      /\ \A m \in DOMAIN objects : m # n => objects'[m] = objects[m]
      /\ pid'[p] = n /\ \A q \in Proxies : q # p => pid'[q] = pid[q]
      /\ T!Registered' \subseteq T!Registered \cup {p}
  BY <1>1, <1>4, BoundFacts
<1>6. \A q \in Proxies : q # p => zombie'[q] = zombie[q]
  BY <1>4 DEF TableInv, T!TypeOK
<1> QED
  BY <1>1, <1>3, <1>5, <1>6

LEMMA DeleteIDFacts ==
    ASSUME TableInv, NEW n \in T!IDs, T!DeleteID(n)
    PROVE  /\ TableInv'
           /\ DOMAIN objects' = DOMAIN objects \ {n}
           /\ \A m \in DOMAIN objects' : objects'[m] = objects[m]
           /\ T!Registered' \subseteq T!Registered
           /\ zombie' = zombie /\ pid' = pid /\ currentID' = currentID
<1>1. /\ DOMAIN objects' = DOMAIN objects \ {n}
      /\ \A m \in DOMAIN objects' : objects'[m] = objects[m]
      /\ zombie' = zombie /\ pid' = pid /\ currentID' = currentID
  BY DEF T!DeleteID, T!Without, T!Live
<1>2. T!Registered' \subseteq T!Registered
  BY <1>1 DEF T!Registered
<1> QED
  BY <1>1, <1>2, DeleteIDTable

-----------------------------------------------------------------------------
(* Queues, element by element.                                             *)
LEMMA AppendFacts ==
    ASSUME NEW S, NEW q \in Seq(S), NEW x \in S
    PROVE  /\ Append(q, x) \in Seq(S)
           /\ Len(q) \in Nat /\ DOMAIN q = 1 .. Len(q)
           /\ Len(Append(q, x)) = Len(q) + 1
           /\ DOMAIN Append(q, x) = 1 .. Len(q) + 1
           /\ \A i \in DOMAIN q : Append(q, x)[i] = q[i]
           /\ Append(q, x)[Len(q) + 1] = x
OBVIOUS

LEMMA TailFacts ==
    ASSUME NEW S, NEW q \in Seq(S), q # << >>
    PROVE  /\ Tail(q) \in Seq(S)
           /\ Len(q) \in Nat /\ Len(q) > 0 /\ DOMAIN q = 1 .. Len(q) /\ 1 \in DOMAIN q
           /\ Head(q) = q[1] /\ q[1] \in S
           /\ Len(Tail(q)) = Len(q) - 1
           /\ DOMAIN Tail(q) = 1 .. Len(q) - 1
           /\ \A i \in DOMAIN Tail(q) : i + 1 \in DOMAIN q /\ Tail(q)[i] = q[i + 1]
           /\ \A i \in DOMAIN q : i = 1 \/ (i - 1 \in DOMAIN Tail(q) /\ Tail(q)[i - 1] = q[i])
OBVIOUS

LEMMA ConcatFacts ==
    ASSUME NEW S, NEW q \in Seq(S), NEW r \in Seq(S)
    PROVE  /\ q \o r \in Seq(S)
           /\ Len(q) \in Nat /\ DOMAIN q = 1 .. Len(q)
           /\ Len(r) \in Nat /\ DOMAIN r = 1 .. Len(r)
           /\ Len(q \o r) = Len(q) + Len(r)
           /\ DOMAIN (q \o r) = 1 .. Len(q) + Len(r)
           /\ \A i \in DOMAIN q : (q \o r)[i] = q[i]
           /\ \A i \in DOMAIN r : (q \o r)[Len(q) + i] = r[i]
OBVIOUS

LEMMA OneTwo ==
    ASSUME NEW S
    PROVE  /\ << >> \in Seq(S) /\ Len(<< >>) = 0 /\ DOMAIN << >> = {}
           /\ \A x \in S : <<x>> \in Seq(S) /\ Len(<<x>>) = 1 /\ DOMAIN <<x>> = 1 .. 1 /\ <<x>>[1] = x
           /\ \A x, y \in S : /\ <<x, y>> \in Seq(S) /\ Len(<<x, y>>) = 2
                              /\ DOMAIN <<x, y>> = 1 .. 2
                              /\ <<x, y>>[1] = x /\ <<x, y>>[2] = y
<1>1. << >> \in Seq(S) /\ Len(<< >>) = 0 /\ DOMAIN << >> = {}
  OBVIOUS
<1>2. ASSUME NEW x \in S
      PROVE  <<x>> \in Seq(S) /\ Len(<<x>>) = 1 /\ DOMAIN <<x>> = 1 .. 1 /\ <<x>>[1] = x
  OBVIOUS
<1>3. ASSUME NEW x \in S, NEW y \in S
      PROVE  /\ <<x, y>> \in Seq(S) /\ Len(<<x, y>>) = 2 /\ DOMAIN <<x, y>> = 1 .. 2
             /\ <<x, y>>[1] = x /\ <<x, y>>[2] = y
  OBVIOUS
<1> QED
  BY <1>1, <1>2, <1>3

(* Messages, field by field.                                               *)
LEMMA EventFacts ==
    ASSUME NEW e \in EventMsg
    PROVE  /\ e.id \in T!IDs /\ e.object \in Proxies /\ e.arg \in Proxies
           /\ e.argID \in T!IDs \cup {NoID}
           /\ e.type \in {"plain", "done", "error", "introduce", "delete_id"}
           /\ e.type \in {"introduce", "delete_id"} => e.argID \in T!IDs
BY DEF EventMsg

LEMMA RequestFacts ==
    ASSUME NEW m \in RequestMsg
    PROVE  /\ m.id \in T!IDs /\ m.object \in Proxies
           /\ m.op \in {"new", "destroy"}
           /\ m.op = "new" => m.id \in ObjectIDs
BY LifecycleAssumption DEF RequestMsg, ObjectIDs, T!IDs

LEMMA EventsMade ==
    /\ \A n \in T!IDs, p \in Proxies, a \in T!IDs \cup {NoID}, q \in Proxies :
         /\ Event("plain", n, p, a, q) \in EventMsg
         /\ Event("done", n, p, a, q) \in EventMsg
         /\ Event("error", n, p, a, q) \in EventMsg
         /\ a # NoID => Event("introduce", n, p, a, q) \in EventMsg
    /\ \A n \in T!IDs : DeleteIDEvent(n) \in EventMsg
    /\ \A t, n, p, a, q :
         /\ Event(t, n, p, a, q).type = t /\ Event(t, n, p, a, q).id = n
         /\ Event(t, n, p, a, q).object = p /\ Event(t, n, p, a, q).argID = a
         /\ Event(t, n, p, a, q).arg = q
    /\ \A n : /\ DeleteIDEvent(n).type = "delete_id" /\ DeleteIDEvent(n).id = T!DisplayID
              /\ DeleteIDEvent(n).object = Display /\ DeleteIDEvent(n).argID = n
<1>1. T!DisplayID \in T!IDs /\ Display \in Proxies
  BY LifecycleAssumption DEF T!IDs, T!DisplayID
<1>2. \A n \in T!IDs, p \in Proxies, a \in T!IDs \cup {NoID}, q \in Proxies :
         /\ Event("plain", n, p, a, q) \in EventMsg
         /\ Event("done", n, p, a, q) \in EventMsg
         /\ Event("error", n, p, a, q) \in EventMsg
         /\ a # NoID => Event("introduce", n, p, a, q) \in EventMsg
  BY DEF Event, EventMsg
<1>3. \A n \in T!IDs : DeleteIDEvent(n) \in EventMsg
  BY <1>1 DEF Event, EventMsg, DeleteIDEvent
<1>4. \A t, n, p, a, q :
         /\ Event(t, n, p, a, q).type = t /\ Event(t, n, p, a, q).id = n
         /\ Event(t, n, p, a, q).object = p /\ Event(t, n, p, a, q).argID = a
         /\ Event(t, n, p, a, q).arg = q
  BY DEF Event
<1> QED
  BY <1>2, <1>3, <1>4 DEF DeleteIDEvent

LEMMA RequestsMade ==
    /\ \A n \in ObjectIDs, p \in Proxies : Request("new", n, p) \in RequestMsg
    /\ \A n \in T!IDs, p \in Proxies : Request("destroy", n, p) \in RequestMsg
    /\ \A o, n, p : /\ Request(o, n, p).op = o /\ Request(o, n, p).id = n
                    /\ Request(o, n, p).object = p
BY DEF Request, RequestMsg

(* An object nobody uses is in none of the places an object can be.        *)
LEMMA UnusedFacts ==
    ASSUME NEW p \in Unused
    PROVE  /\ p \in Proxies /\ p # Display /\ p \notin T!Registered \cup unbound
           /\ \A n \in DOMAIN objects : objects[n] # p
           /\ \A n \in DOMAIN resources : resources[n] # p
           /\ \A i \in DOMAIN requests : requests[i].object # p
           /\ \A i \in DOMAIN events : events[i].object # p /\ events[i].arg # p
BY DEF Unused, InUse, Messages, T!Registered

LEMMA RegisteredIDs ==
    ASSUME TableInv
    PROVE  /\ \A n \in DOMAIN objects : objects[n] \in T!Registered /\ objects[n] \in Proxies
                                        /\ pid[objects[n]] = n /\ n \in T!IDs
           /\ \A p \in T!Registered : p \in Proxies /\ pid[p] \in DOMAIN objects /\ objects[pid[p]] = p
                                      /\ pid[p] \in T!IDs
BY DEF TableInv, T!TypeOK, T!IdentityAgrees, T!Registered

-----------------------------------------------------------------------------
(* The first invariant, action by action.                                  *)
LEMMA InitAInv == Init => AInv
<1> SUFFICES ASSUME Init PROVE AInv
  OBVIOUS
<1>1. TableInv
  BY InitTable DEF Init
<1>2. Structure
  <2>1. requests \in Seq(RequestMsg) /\ events \in Seq(EventMsg)
    BY DEF Init
  <2>2. kind \in [Proxies -> Kinds]
    BY DEF Init, Kinds
  <2>3. 1 \in T!IDs /\ 1 \in T!ClientIDs
    BY LifecycleAssumption DEF T!IDs, T!ClientIDs
  <2>4. /\ DOMAIN resources = {1} /\ resources[1] = Display /\ Display \in Proxies /\ served = 1
        /\ fatal = FALSE /\ rejected = FALSE /\ unbound = {}
    BY LifecycleAssumption DEF Init, T!DisplayID
  <2> QED
    BY <2>1, <2>2, <2>3, <2>4, Zenon DEF Structure
<1>3. Newcomers
  BY DEF Init, Newcomers
<1> QED
  BY <1>1, <1>2, <1>3 DEF AInv

(* Create, CreateRefused and Construct.                                    *)
LEMMA RegisterAInv ==
    ASSUME AInv, NEW p \in Unused, NEW k \in Kinds,
           T!RegisterRecycled(p) \/ T!RegisterNew(p),
           kind' = [kind EXCEPT ![p] = k],
           unbound' = unbound \/ unbound' = unbound \cup {p},
           requests' = requests \/ requests' = Append(requests, Request("new", pid'[p], p)),
           UNCHANGED <<fatal, events, server>>
    PROVE  AInv'
<1>1. /\ p \in Proxies /\ p \notin T!Registered \cup unbound
      /\ \A i \in DOMAIN events : events[i].arg # p
  BY UnusedFacts
<1>2. /\ TableInv' /\ T!Registered' \subseteq T!Registered \cup {p}
      /\ pid'[p] \in ObjectIDs /\ \A q \in Proxies : q # p => pid'[q] = pid[q]
  BY <1>1, RegisterFacts DEF AInv
<1>3. Structure'
  <2>1. requests' \in Seq(RequestMsg)
    BY SMTT(60), <1>1, <1>2, RequestsMade, AppendFacts DEF AInv, Structure
  <2>2. kind' \in [Proxies -> Kinds] /\ unbound' \subseteq Proxies
    BY <1>1 DEF AInv, Structure
  <2> QED
    BY <2>1, <2>2 DEF AInv, Structure, server
<1>4. Newcomers'
  <2>1. \A q \in unbound' : pid'[q] \in ObjectIDs
    BY <1>1, <1>2 DEF AInv, Newcomers, Structure
  <2>2. events' = events
    OBVIOUS
  <2>3. \A i \in DOMAIN events :
          events[i].type = "introduce" => events[i].arg \notin T!Registered' \cup unbound'
    BY <1>1, <1>2 DEF AInv, Newcomers
  <2> QED
    BY <2>1, <2>2, <2>3 DEF AInv, Newcomers
<1> QED
  BY <1>2, <1>3, <1>4 DEF AInv

(* Steps that leave the table's bindings alone and write or read requests. *)
LEMMA KeepAInv ==
    ASSUME AInv, TableInv', T!Registered' \subseteq T!Registered, pid' = pid,
           fatal' \in BOOLEAN, rejected' \in BOOLEAN, kind' \in [Proxies -> Kinds],
           unbound' \subseteq unbound, requests' \in Seq(RequestMsg),
           events' \in Seq(EventMsg), NEW d \in {0, 1},
           \A i \in DOMAIN events' : events'[i].type # "introduce"
                                     \/ (i + d \in DOMAIN events /\ events'[i] = events[i + d]),
           DOMAIN resources' \subseteq T!IDs,
           \A n \in DOMAIN resources' : resources'[n] \in Proxies,
           served' \in T!ClientIDs
    PROVE  AInv'
<1>1. Structure'
  BY DEF AInv, Structure
<1>2. Newcomers'
  <2>1. \A q \in unbound' : pid'[q] \in ObjectIDs
    BY DEF AInv, Newcomers
  <2>2. \A i \in DOMAIN events' : events'[i].type = "introduce" =>
            events'[i].arg \notin T!Registered' \cup unbound'
    BY DEF AInv, Newcomers
  <2>3. ASSUME NEW i \in DOMAIN events', NEW j \in DOMAIN events',
               events'[i].type = "introduce", events'[j].type = "introduce",
               events'[i].arg = events'[j].arg
        PROVE  i = j
    <3>1. /\ i + d \in DOMAIN events /\ events'[i] = events[i + d]
          /\ j + d \in DOMAIN events /\ events'[j] = events[j + d]
      BY <2>3
    <3>2. i + d = j + d
      BY <2>3, <3>1 DEF AInv, Newcomers
    <3>3. i \in Nat /\ j \in Nat
      OBVIOUS
    <3> QED
      BY <3>2, <3>3
  <2> QED
    BY <2>1, <2>2, <2>3 DEF Newcomers
<1> QED
  BY <1>1, <1>2 DEF AInv

(* The same without a word from the server.                                *)
LEMMA SilentAInv ==
    ASSUME AInv, TableInv', T!Registered' \subseteq T!Registered, pid' = pid,
           unbound' \subseteq unbound, requests' \in Seq(RequestMsg),
           UNCHANGED <<fatal, kind, events, server>>
    PROVE  AInv'
<1>1. \A i \in DOMAIN events : i + 0 = i
  BY DEF AInv, Structure
<1> QED
  BY <1>1, KeepAInv DEF AInv, Structure, server

LEMMA BindAInv ==
    ASSUME AInv, NEW p \in Proxies, Bind(p) PROVE AInv'
<1>1. TableInv' /\ T!Registered' = T!Registered /\ pid' = pid
  BY TableKept DEF Bind, AInv
<1>2. pid[p] \in ObjectIDs
  BY DEF Bind, AInv, Newcomers
<1>3. requests' \in Seq(RequestMsg)
  BY <1>2, RequestsMade, AppendFacts DEF Bind, Write, AInv, Structure
<1> QED
  BY <1>1, <1>3, SilentAInv DEF Bind

LEMMA DestroyAInv ==
    ASSUME AInv, NEW p \in Proxies, Destroy(p) PROVE AInv'
<1>1. TableInv' /\ T!Registered' = T!Registered /\ pid' = pid
  BY MarkZombieTable DEF Destroy, AInv, T!MarkZombie, T!Registered
<1>2. pid[p] \in T!IDs
  BY RegisteredIDs DEF Destroy, AInv
<1>3. requests' \in Seq(RequestMsg)
  BY SMTT(60), <1>2, RequestsMade, AppendFacts DEF Destroy, Write, AInv, Structure
<1> QED
  BY <1>1, <1>3, SilentAInv DEF Destroy

(* An event that is read, and introduces nothing into the table.           *)
LEMMA ReadAInv ==
    ASSUME AInv, events # << >>, events' = Tail(events),
           TableInv', T!Registered' \subseteq T!Registered, pid' = pid, fatal' \in BOOLEAN,
           UNCHANGED <<kind, unbound, requests, server>>
    PROVE  AInv'
<1>1. events \in Seq(EventMsg)
  BY DEF AInv, Structure
<1>2. /\ events' \in Seq(EventMsg)
      /\ \A i \in DOMAIN events' : i + 1 \in DOMAIN events /\ events'[i] = events[i + 1]
  BY <1>1, TailFacts
<1> QED
  BY <1>2, KeepAInv DEF AInv, Structure, server

(* An introduction that is read: its object is registered at its ID.       *)
LEMMA ReadNewcomerAInv ==
    ASSUME AInv, events # << >>, events' = Tail(events), Head(events).type = "introduce",
           TableInv', T!Registered' \subseteq T!Registered \cup {Head(events).arg},
           \A q \in Proxies : q # Head(events).arg => pid'[q] = pid[q],
           fatal' \in BOOLEAN, UNCHANGED <<kind, unbound, requests, server>>
    PROVE  AInv'
<1> DEFINE a == Head(events).arg
<1>1. events \in Seq(EventMsg)
  BY DEF AInv, Structure
<1>2. /\ events' \in Seq(EventMsg)
      /\ Head(events) = events[1] /\ 1 \in DOMAIN events
      /\ \A i \in DOMAIN events' : i + 1 \in DOMAIN events /\ events'[i] = events[i + 1]
      /\ \A i \in DOMAIN events' : i \in Nat \ {0}
  BY <1>1, TailFacts
<1>3. Structure'
  BY <1>2 DEF AInv, Structure, server
<1>4. Newcomers'
  <2>1. a \notin unbound
    BY <1>2 DEF AInv, Newcomers
  <2>2. \A q \in unbound' : pid'[q] \in ObjectIDs
    BY <2>1 DEF AInv, Newcomers, Structure
  <2>3. ASSUME NEW i \in DOMAIN events', events'[i].type = "introduce"
        PROVE  events'[i].arg \notin T!Registered' \cup unbound'
    <3>1. i + 1 \in DOMAIN events /\ events'[i] = events[i + 1] /\ i + 1 # 1
      BY <1>2
    <3>2. events'[i].arg # a
      BY <1>2, <2>3, <3>1 DEF AInv, Newcomers
    <3>3. events'[i].arg \notin T!Registered \cup unbound
      BY <2>3, <3>1 DEF AInv, Newcomers
    <3> QED
      BY <3>2, <3>3
  <2>4. ASSUME NEW i \in DOMAIN events', NEW j \in DOMAIN events',
               events'[i].type = "introduce", events'[j].type = "introduce",
               events'[i].arg = events'[j].arg
        PROVE  i = j
    <3>1. /\ i + 1 \in DOMAIN events /\ events'[i] = events[i + 1] /\ i \in Nat
          /\ j + 1 \in DOMAIN events /\ events'[j] = events[j + 1] /\ j \in Nat
      BY <1>2
    <3>2. i + 1 = j + 1
      BY <2>4, <3>1 DEF AInv, Newcomers
    <3> QED
      BY <3>1, <3>2
  <2> QED
    BY <2>2, <2>3, <2>4 DEF Newcomers
<1> QED
  BY <1>3, <1>4 DEF AInv

LEMMA DispatchAInv == ASSUME AInv, Dispatch PROVE AInv'
<1> DEFINE e == Head(events)
<1>1. /\ events # << >> /\ events' = Tail(events) /\ ~fatal
      /\ UNCHANGED <<kind, unbound, requests, server>>
  BY DEF Dispatch
<1>0. (fatal' = fatal \/ fatal' = TRUE) => fatal' \in BOOLEAN
  BY DEF AInv, Structure
<1>2. e \in EventMsg /\ e = events[1] /\ 1 \in DOMAIN events
  BY <1>1, TailFacts DEF AInv, Structure
<1>3. e.type = "introduce" => e.argID \in T!IDs /\ e.arg \notin T!Registered /\ e.arg \in Proxies
  BY <1>2, EventFacts DEF AInv, Newcomers
<1>4. ASSUME UNCHANGED table, fatal' \in BOOLEAN PROVE AInv'
  <2>1. TableInv' /\ T!Registered' = T!Registered /\ pid' = pid
    BY <1>4, TableKept DEF AInv
  <2> QED
    BY <1>1, <1>4, <2>1, ReadAInv
<1>5. CASE DispatchUnknownSender(e) \/ DispatchError(e) \/ DispatchMisread(e) \/ DispatchPlain(e)
  <2>1. UNCHANGED table /\ (fatal' = fatal \/ fatal' = TRUE)
    <3>1. CASE DispatchUnknownSender(e) \/ DispatchError(e)
      BY <3>1, Zenon DEF DispatchUnknownSender, DispatchError, SetFatal
    <3>2. CASE DispatchMisread(e)
      <4>1. UNCHANGED <<table, fatal>> \/ SetFatal
        BY <3>2 DEF DispatchMisread
      <4> QED
        BY <4>1 DEF SetFatal
    <3>3. CASE DispatchPlain(e)
      BY <3>3 DEF DispatchPlain
    <3> QED
      BY <1>5, <3>1, <3>2, <3>3
  <2> QED
    BY <1>0, <1>4, <2>1
<1>6. CASE DispatchZombie(e)
  <2>1. CASE ~(e.type = "introduce" /\ kind[objects[e.id]] = kind[e.object])
    <3>1. UNCHANGED table /\ fatal' = fatal
      BY <1>6, <2>1 DEF DispatchZombie
    <3> QED
      BY <1>0, <1>4, <3>1
  <2>2. CASE e.type = "introduce" /\ kind[objects[e.id]] = kind[e.object]
    <3>1. RegisterZombie(e.arg, e.argID)
      BY <1>6, <2>2 DEF DispatchZombie
    <3>2. TableInv'
      BY <1>3, <2>2, <3>1, RegisterZombieTable DEF AInv
    <3>3. CASE ~T!Acceptable(e.argID)
      <4>1. UNCHANGED table /\ fatal' = TRUE
        BY <3>1, <3>3 DEF RegisterZombie, SetFatal
      <4> QED
        BY <1>0, <1>4, <4>1
    <3>4. CASE T!Acceptable(e.argID)
      <4>1. objects' = T!Bound(e.argID, e.arg) /\ pid' = [pid EXCEPT ![e.arg] = e.argID] /\ fatal' = fatal
        BY <3>1, <3>4 DEF RegisterZombie
      <4>2. /\ \A q \in Proxies : q # e.arg => pid'[q] = pid[q]
            /\ T!Registered' \subseteq T!Registered \cup {e.arg}
        BY <1>3, <2>2, <4>1, BoundFacts DEF AInv
      <4> QED
        BY <1>0, <1>1, <2>2, <3>2, <4>1, <4>2, ReadNewcomerAInv
    <3> QED
      BY <3>3, <3>4
  <2> QED
    BY <2>1, <2>2
<1>7. CASE DispatchDeleteID(e)
  <2>1. T!DeleteID(e.argID) /\ fatal' = fatal /\ e.argID \in T!IDs
    BY <1>2, <1>7, EventFacts DEF DispatchDeleteID
  <2>2. TableInv' /\ T!Registered' \subseteq T!Registered /\ pid' = pid
    BY <2>1, DeleteIDFacts DEF AInv
  <2> QED
    BY <1>0, <1>1, <2>1, <2>2, ReadAInv
<1>8. CASE DispatchIntroduction(e)
  <2>1. CASE UNCHANGED <<table, fatal>>
    BY <1>0, <1>4, <2>1
  <2>2. CASE T!RegisterWithID(e.arg, e.argID) /\ fatal' = (outcome' = "panic")
    <3>1. TableInv' /\ e.type = "introduce"
      BY <1>3, <1>8, <2>2, RegisterWithIDTable DEF AInv, DispatchIntroduction
    <3>2. CASE T!Acceptable(e.argID) /\ T!Bind(e.arg, e.argID)
      <4>1. objects' = T!Bound(e.argID, e.arg) /\ pid' = [pid EXCEPT ![e.arg] = e.argID]
        BY <3>2 DEF T!Bind
      <4>2. /\ \A q \in Proxies : q # e.arg => pid'[q] = pid[q]
            /\ T!Registered' \subseteq T!Registered \cup {e.arg}
        BY <1>3, <3>1, <4>1, BoundFacts DEF AInv
      <4>3. fatal' \in BOOLEAN
        BY <2>2
      <4> QED
        BY <1>1, <3>1, <4>2, <4>3, ReadNewcomerAInv
    <3>3. CASE UNCHANGED <<objects, pid, zombie>>
      <4>1. T!Registered' = T!Registered
        BY <3>3 DEF T!Registered
      <4>2. fatal' \in BOOLEAN
        BY <2>2
      <4> QED
        BY <1>1, <3>1, <3>3, <4>1, <4>2, ReadAInv
    <3> QED
      BY <2>2, <3>2, <3>3 DEF T!RegisterWithID
  <2> QED
    BY <1>8, <2>1, <2>2 DEF DispatchIntroduction
<1> QED
  BY <1>5, <1>6, <1>7, <1>8 DEF Dispatch

(* What the server does to its own state; it may post other events.        *)
LEMMA ServerAInv ==
    ASSUME AInv, UNCHANGED <<table, fatal, kind, unbound>>,
           requests' \in Seq(RequestMsg), NEW es \in Seq(EventMsg), events' = events \o es,
           \A i \in DOMAIN es : es[i].type # "introduce", rejected' \in BOOLEAN,
           DOMAIN resources' \subseteq T!IDs,
           \A n \in DOMAIN resources' : resources'[n] \in Proxies,
           served' \in T!ClientIDs
    PROVE  AInv'
<1>1. TableInv' /\ T!Registered' = T!Registered /\ pid' = pid
  BY TableKept DEF AInv
<1>2. events' \in Seq(EventMsg)
  BY ConcatFacts DEF AInv, Structure
<1>3. ASSUME NEW i \in DOMAIN events'
      PROVE  events'[i].type # "introduce" \/ (i + 0 \in DOMAIN events /\ events'[i] = events[i + 0])
  <2>1. events \in Seq(EventMsg)
    BY DEF AInv, Structure
  <2>2. i \in DOMAIN events \/ i - Len(events) \in DOMAIN es
    BY <2>1, ConcatFacts
  <2>3. CASE i \in DOMAIN events
    <3>1. events'[i] = events[i] /\ i + 0 = i
      BY <2>1, <2>3, ConcatFacts
    <3> QED
      BY <2>3, <3>1
  <2>4. CASE i - Len(events) \in DOMAIN es
    <3>1. Len(events) + (i - Len(events)) = i
      BY <2>1, ConcatFacts
    <3>2. events'[i] = es[i - Len(events)]
      BY <2>1, <2>4, <3>1, ConcatFacts
    <3> QED
      BY <2>4, <3>2
  <2> QED
    BY <2>2, <2>3, <2>4
<1> QED
  BY <1>1, <1>2, <1>3, KeepAInv DEF AInv, Structure

LEMMA HandleAInv == ASSUME AInv, Handle PROVE AInv'
<1> DEFINE m == Head(requests)
<1>1. /\ requests # << >> /\ requests' = Tail(requests) /\ ~rejected
      /\ UNCHANGED <<table, fatal, kind, unbound>>
      /\ HandleNew(m) \/ HandleDestroy(m)
  BY DEF Handle
<1>2. requests' \in Seq(RequestMsg) /\ m \in RequestMsg
  BY <1>1, TailFacts DEF AInv, Structure
<1>3. /\ m.id \in T!IDs /\ m.object \in Proxies /\ (m.op = "new" => m.id \in ObjectIDs)
  BY <1>2, RequestFacts
<1>4. rejected \in BOOLEAN
  BY DEF AInv, Structure
<1>5. \E es \in Seq(EventMsg) :
        /\ events' = events \o es /\ \A i \in DOMAIN es : es[i].type # "introduce"
        /\ rejected' = rejected \/ rejected' = TRUE
  <2>1. T!DisplayID \in T!IDs /\ Display \in Proxies
    BY LifecycleAssumption DEF T!IDs, T!DisplayID
  <2>2. CASE Reject
    <3> DEFINE x == Event("error", T!DisplayID, Display, NoID, Display)
    <3>1. x \in EventMsg /\ x.type = "error"
      BY <2>1, EventsMade
    <3>2. events' = events \o <<x>> /\ rejected' = TRUE
      BY <2>2 DEF Reject, Post
    <3>3. <<x>> \in Seq(EventMsg) /\ \A i \in DOMAIN <<x>> : <<x>>[i].type # "introduce"
      BY <3>1, OneTwo
    <3> QED
      BY <3>2, <3>3
  <2>3. CASE events' = events \o << >> /\ rejected' = rejected
    BY <2>3, OneTwo
  <2>4. CASE events' = events \o <<DeleteIDEvent(m.id)>> /\ rejected' = rejected
    <3>1. DeleteIDEvent(m.id) \in EventMsg /\ DeleteIDEvent(m.id).type = "delete_id"
      BY <1>3, EventsMade
    <3>2. /\ <<DeleteIDEvent(m.id)>> \in Seq(EventMsg)
          /\ \A i \in DOMAIN <<DeleteIDEvent(m.id)>> :
               <<DeleteIDEvent(m.id)>>[i].type # "introduce"
      BY <3>1, OneTwo
    <3> QED
      BY <2>4, <3>2
  <2>5. events \o << >> = events
    BY DEF AInv, Structure
  <2>6. CASE HandleNew(m)
    BY <2>2, <2>3, <2>5, <2>6 DEF HandleNew
  <2>7. CASE HandleDestroy(m)
    BY <2>2, <2>3, <2>4, <2>7 DEF HandleDestroy, Post
  <2> QED
    BY <1>1, <2>6, <2>7
<1>6. /\ DOMAIN resources' \subseteq T!IDs
      /\ \A n \in DOMAIN resources' : resources'[n] \in Proxies
      /\ served' \in T!ClientIDs
  <2>1. /\ DOMAIN resources \subseteq T!IDs
        /\ \A n \in DOMAIN resources : resources[n] \in Proxies
        /\ served \in T!ClientIDs
    BY DEF AInv, Structure
  <2>2. CASE resources' = resources /\ served' = served
    BY <2>1, <2>2
  <2>3. CASE /\ m.op = "new" /\ Install(m.id, m.object)
             /\ served' = IF m.id > served THEN m.id ELSE served
    <3>1. m.id \in T!ClientIDs
      BY <1>3, <2>3 DEF ObjectIDs, T!ClientIDs
    <3> QED
      BY <1>3, <2>1, <2>3, <3>1 DEF Install
  <2>4. CASE Remove(m.id) /\ served' = served
    BY <2>1, <2>4 DEF Remove
  <2>5. CASE HandleNew(m)
    BY <2>2, <2>3, <2>5, Zenon DEF HandleNew, Reject
  <2>6. CASE HandleDestroy(m)
    BY <2>2, <2>4, <2>6, Zenon DEF HandleDestroy, Reject
  <2> QED
    BY <1>1, <2>5, <2>6
<1>7. rejected' \in BOOLEAN
  BY <1>4, <1>5
<1>8. PICK es \in Seq(EventMsg) :
        events' = events \o es /\ \A i \in DOMAIN es : es[i].type # "introduce"
  BY <1>5
<1> QED
  BY <1>1, <1>2, <1>6, <1>7, <1>8, ServerAInv

LEMMA FinishCallbackAInv ==
    ASSUME AInv, NEW n \in DOMAIN resources, FinishCallback(n) PROVE AInv'
<1> DEFINE x == Event("done", n, resources[n], NoID, Display)
<1>1. n \in T!IDs /\ resources[n] \in Proxies /\ Display \in Proxies
  BY LifecycleAssumption DEF AInv, Structure
<1>2. /\ x \in EventMsg /\ x.type = "done"
      /\ DeleteIDEvent(n) \in EventMsg /\ DeleteIDEvent(n).type = "delete_id"
  BY <1>1, EventsMade
<1>3. <<x, DeleteIDEvent(n)>> \in Seq(EventMsg)
  BY <1>2, OneTwo
<1>4. \A i \in DOMAIN <<x, DeleteIDEvent(n)>> : <<x, DeleteIDEvent(n)>>[i].type # "introduce"
  BY <1>2, OneTwo
<1>5. events' = events \o <<x, DeleteIDEvent(n)>>
  BY DEF FinishCallback, Post
<1>6. /\ DOMAIN resources' \subseteq T!IDs
      /\ \A l \in DOMAIN resources' : resources'[l] \in Proxies
  BY DEF FinishCallback, Remove, AInv, Structure
<1>7. /\ UNCHANGED <<table, fatal, kind, unbound, requests, served, rejected>>
      /\ requests \in Seq(RequestMsg) /\ served \in T!ClientIDs /\ rejected \in BOOLEAN
  BY DEF FinishCallback, AInv, Structure
<1> QED
  BY <1>3, <1>4, <1>5, <1>6, <1>7, ServerAInv

(* One more event, of a kind that introduces nothing.                      *)
LEMMA PostOneAInv ==
    ASSUME AInv, UNCHANGED <<table, fatal, kind, unbound, requests, server>>,
           NEW x \in EventMsg, x.type # "introduce", Post(<<x>>)
    PROVE  AInv'
<1>1. <<x>> \in Seq(EventMsg) /\ \A i \in DOMAIN <<x>> : <<x>>[i].type # "introduce"
  BY OneTwo
<1>2. events' = events \o <<x>>
  BY DEF Post
<1>3. /\ requests' \in Seq(RequestMsg) /\ rejected' \in BOOLEAN /\ served' \in T!ClientIDs
      /\ DOMAIN resources' \subseteq T!IDs
      /\ \A l \in DOMAIN resources' : resources'[l] \in Proxies
  BY DEF AInv, Structure, server
<1> QED
  BY <1>1, <1>2, <1>3, ServerAInv

LEMMA SendEventAInv ==
    ASSUME AInv, NEW n \in DOMAIN resources, SendEvent(n) PROVE AInv'
<1>1. /\ n \in T!IDs /\ resources[n] \in Proxies /\ Display \in Proxies
      /\ \A a \in DOMAIN resources : a \in T!IDs \cup {NoID} /\ resources[a] \in Proxies
      /\ NoID \in T!IDs \cup {NoID}
  BY LifecycleAssumption DEF AInv, Structure
<1>2. UNCHANGED <<table, fatal, kind, unbound, requests, server>>
  BY DEF SendEvent
<1>3. CASE Post(<<Event("plain", n, resources[n], NoID, Display)>>)
  <2> DEFINE x == Event("plain", n, resources[n], NoID, Display)
  <2>1. x \in EventMsg /\ x.type # "introduce"
    BY <1>1, EventsMade
  <2> QED
    BY <1>2, <1>3, <2>1, PostOneAInv
<1>4. ASSUME NEW a \in DOMAIN resources, Post(<<Event("plain", n, resources[n], a, resources[a])>>)
      PROVE  AInv'
  <2> DEFINE x == Event("plain", n, resources[n], a, resources[a])
  <2>1. x \in EventMsg /\ x.type # "introduce"
    <3>1. x.type = "plain" /\ resources[a] \in Proxies /\ a \in T!IDs \cup {NoID}
      BY <1>1, EventsMade
    <3> QED
      BY <1>1, <3>1, EventsMade
  <2> QED
    BY <1>2, <1>4, <2>1, PostOneAInv
<1> QED
  BY <1>3, <1>4 DEF SendEvent

(* One more event, introducing an object nobody uses.                      *)
LEMMA PostIntroductionAInv ==
    ASSUME AInv, NEW n \in DOMAIN resources, NEW a \in T!IDs, NEW p \in Unused, NEW k \in Kinds,
           kind' = [kind EXCEPT ![p] = k],
           Post(<<Event("introduce", n, resources[n], a, p)>>),
           UNCHANGED <<table, fatal, unbound, requests, rejected, served>>,
           resources' = resources \/ Install(a, p)
    PROVE  AInv'
<1> DEFINE x == Event("introduce", n, resources[n], a, p)
<1>1. /\ n \in T!IDs /\ resources[n] \in Proxies /\ a # NoID
      /\ p \in Proxies /\ p \notin T!Registered \cup unbound
      /\ \A i \in DOMAIN events : events[i].arg # p
  BY UnusedFacts DEF AInv, Structure, NoID, T!IDs
<1>2. x \in EventMsg /\ x.type = "introduce" /\ x.arg = p
  BY <1>1, EventsMade
<1>3. events \in Seq(EventMsg) /\ <<x>> \in Seq(EventMsg) /\ Len(<<x>>) = 1 /\ <<x>>[1] = x /\ 1 \in DOMAIN <<x>>
  BY <1>2, OneTwo DEF AInv, Structure
<1>4. /\ events' \in Seq(EventMsg) /\ DOMAIN events' = 1 .. Len(events) + 1
      /\ DOMAIN events = 1 .. Len(events) /\ Len(events) \in Nat
      /\ \A i \in DOMAIN events : events'[i] = events[i]
      /\ events'[Len(events) + 1] = x
  <2>1. events' = events \o <<x>>
    BY DEF Post
  <2> QED
    BY <1>3, <2>1, ConcatFacts
<1>5. TableInv' /\ T!Registered' = T!Registered /\ pid' = pid
  BY TableKept DEF AInv
<1>6. Structure'
  <2>1. /\ DOMAIN resources' \subseteq T!IDs
        /\ \A l \in DOMAIN resources' : resources'[l] \in Proxies
    BY <1>1 DEF Install, AInv, Structure
  <2>2. kind' \in [Proxies -> Kinds]
    BY DEF AInv, Structure
  <2> QED
    BY <1>4, <2>1, <2>2 DEF AInv, Structure
<1>7. Newcomers'
  <2>1. \A i \in DOMAIN events' : i \in DOMAIN events \/ i = Len(events) + 1
    BY <1>4
  <2>2. Len(events) + 1 \in DOMAIN events' /\ Len(events) + 1 \notin DOMAIN events
    BY <1>4
  <2> QED
    BY <1>1, <1>2, <1>4, <1>5, <2>1, <2>2 DEF AInv, Newcomers
<1> QED
  BY <1>5, <1>6, <1>7 DEF AInv

LEMMA SendRogueAInv == ASSUME AInv, SendRogue PROVE AInv'
<1>1. UNCHANGED <<table, fatal, unbound, requests, server>>
  BY DEF SendRogue
<1>2. T!DisplayID \in T!IDs /\ Display \in Proxies /\ NoID \in T!IDs \cup {NoID}
  BY LifecycleAssumption DEF T!IDs, T!DisplayID
<1>3. ASSUME kind' = kind, NEW n \in T!IDs, Post(<<DeleteIDEvent(n)>>) PROVE AInv'
  BY <1>1, <1>3, EventsMade, PostOneAInv
<1>4. ASSUME kind' = kind, NEW n \in T!IDs, Post(<<Event("plain", n, Display, NoID, Display)>>)
      PROVE  AInv'
  BY <1>1, <1>2, <1>4, EventsMade, PostOneAInv
<1>5. ASSUME NEW n \in DOMAIN resources, NEW a \in T!IDs, NEW p \in Unused, NEW k \in Introducible,
             kind' = [kind EXCEPT ![p] = k], Post(<<Event("introduce", n, resources[n], a, p)>>)
      PROVE  AInv'
  <2>1. k \in Kinds
    BY LifecycleAssumption DEF Kinds
  <2>2. UNCHANGED <<table, fatal, unbound, requests, rejected, served>> /\ resources' = resources
    BY <1>1 DEF server
  <2> QED
    BY <1>5, <2>1, <2>2, PostIntroductionAInv
<1> QED
  BY <1>3, <1>4, <1>5 DEF SendRogue

LEMMA NextAInv == AInv /\ [Next]_vars => AInv'
<1> SUFFICES ASSUME AInv, [Next]_vars PROVE AInv'
  OBVIOUS
<1>1. ASSUME NEW p \in Proxies, NEW k \in Creatable, Create(p, k) \/ CreateRefused(p, k) \/ Construct(p, k)
      PROVE  AInv'
  <2>1. /\ k \in Kinds /\ p \in Unused
        /\ T!RegisterRecycled(p) \/ T!RegisterNew(p)
        /\ kind' = [kind EXCEPT ![p] = k]
        /\ unbound' = unbound \/ unbound' = unbound \cup {p}
        /\ requests' = requests \/ requests' = Append(requests, Request("new", pid'[p], p))
        /\ UNCHANGED <<fatal, events, server>>
    <3>1. k \in Kinds
      BY LifecycleAssumption
    <3>2. CASE Create(p, k)
      BY <3>1, <3>2 DEF Create, Write
    <3>3. CASE CreateRefused(p, k)
      BY <3>1, <3>3 DEF CreateRefused
    <3>4. CASE Construct(p, k)
      BY <3>1, <3>4 DEF Construct
    <3> QED
      BY <1>1, <3>2, <3>3, <3>4
  <2> QED
    BY <2>1, RegisterAInv
<1>2. ASSUME NEW p \in Proxies, Bind(p) \/ Destroy(p) PROVE AInv'
  BY <1>2, BindAInv, DestroyAInv
<1>3. CASE Dispatch
  BY <1>3, DispatchAInv
<1>4. CASE Handle
  BY <1>4, HandleAInv
<1>5. ASSUME NEW n \in DOMAIN resources, FinishCallback(n) \/ SendEvent(n) PROVE AInv'
  BY <1>5, FinishCallbackAInv, SendEventAInv
<1>6. ASSUME NEW n \in DOMAIN resources, NEW a \in T!ServerIDs, NEW p \in Proxies,
             NEW k \in Introducible, Introduce(n, a, p, k)
      PROVE  AInv'
  <2>1. a \in T!IDs /\ k \in Kinds
    BY LifecycleAssumption DEF T!ServerIDs, T!IDs, Kinds
  <2> QED
    BY <1>6, <2>1, PostIntroductionAInv DEF Introduce
<1>7. CASE SendRogue
  BY <1>7, SendRogueAInv
<1>8. CASE UNCHANGED vars
  <2>1. TableInv' /\ T!Registered' = T!Registered /\ pid' = pid
    BY <1>8, TableKept DEF vars, AInv
  <2>2. requests' \in Seq(RequestMsg)
    BY <1>8 DEF vars, AInv, Structure
  <2> QED
    BY <1>8, <2>1, <2>2, SilentAInv DEF vars
<1> QED
  BY <1>1, <1>2, <1>3, <1>4, <1>5, <1>6, <1>7, <1>8 DEF Next, Application, Server

(* Whatever the server sends, and whatever the application does.           *)
THEOREM Safety == Spec => []AInv
<1>1. Init => AInv
  BY InitAInv
<1>2. AInv /\ [Next]_vars => AInv'
  BY NextAInv
<1> QED
  BY <1>1, <1>2, PTL DEF Spec

(* Every variable keeps its type: the table that of ObjectTable, the       *)
(* messages IDs of 32 bits, the server's map and counter theirs.           *)
THEOREM TypeCorrect == Spec => []TypeOK
<1>1. AInv => TypeOK
  <2> SUFFICES ASSUME AInv PROVE TypeOK
    OBVIOUS
  <2>1. \A m \in Messages(requests) : m.id \in T!ClientIDs \cup T!ServerIDs
    <3>1. \A i \in DOMAIN requests : requests[i] \in RequestMsg
      BY DEF AInv, Structure
    <3>2. \A i \in DOMAIN requests : requests[i].id \in T!IDs
      BY <3>1, RequestFacts
    <3>3. T!IDs \subseteq T!ClientIDs \cup T!ServerIDs
      BY LifecycleAssumption DEF T!IDs, T!ClientIDs, T!ServerIDs
    <3> QED
      BY <3>2, <3>3 DEF Messages
  <2>2. \A e \in Messages(events) : e.id \in T!IDs /\ e.argID \in T!IDs \cup {NoID}
    <3>1. \A i \in DOMAIN events : events[i] \in EventMsg
      BY DEF AInv, Structure
    <3> QED
      BY <3>1, EventFacts DEF Messages
  <2> QED
    BY <2>1, <2>2 DEF AInv, TableInv, Structure, TypeOK
<1> QED
  BY <1>1, Safety, PTL

(* No step takes an ID from a live object to give it to another: neither   *)
(* Register, nor the dispatch or absorption of any event of any server.    *)
LEMMA StepKeepsLiveIDs ==
    ASSUME AInv, [Next]_vars PROVE [T!ReplacesOnlyZombies]_(T!vars)
<1> USE DEF T!ReplacesOnlyZombies
<1>1. ASSUME UNCHANGED objects PROVE T!ReplacesOnlyZombies
  BY <1>1
<1>2. ASSUME UNCHANGED table PROVE UNCHANGED T!vars
  BY <1>2 DEF table, T!vars
<1>3. ASSUME NEW p \in Proxies, T!RegisterRecycled(p) \/ T!RegisterNew(p) PROVE T!ReplacesOnlyZombies
  BY <1>3, RegisterFacts DEF AInv
<1>4. ASSUME NEW p \in Proxies, NEW n, T!Acceptable(n), objects' = T!Bound(n, p)
      PROVE  T!ReplacesOnlyZombies
  BY <1>4 DEF T!Acceptable, T!Bound, T!Live
<1>5. CASE Dispatch
  <2> DEFINE e == Head(events)
  <2>1. e \in EventMsg
    BY <1>5, TailFacts DEF Dispatch, AInv, Structure
  <2>2. e.arg \in Proxies
    BY <2>1, EventFacts
  <2>3. CASE DispatchUnknownSender(e) \/ DispatchError(e) \/ DispatchMisread(e) \/ DispatchPlain(e)
    BY <1>2, <2>3 DEF DispatchUnknownSender, DispatchError, DispatchMisread, DispatchPlain, SetFatal
  <2>4. CASE DispatchZombie(e)
    BY <1>2, <1>4, <2>2, <2>4 DEF DispatchZombie, RegisterZombie, SetFatal
  <2>5. CASE DispatchDeleteID(e)
    BY <2>5 DEF DispatchDeleteID, T!DeleteID, T!Without
  <2>6. CASE DispatchIntroduction(e)
    BY <1>1, <1>2, <1>4, <2>2, <2>6 DEF DispatchIntroduction, T!RegisterWithID, T!Bind
  <2> QED
    BY <1>5, <2>3, <2>4, <2>5, <2>6 DEF Dispatch
<1>6. CASE Application
  BY <1>1, <1>2, <1>3, <1>6
     DEF Application, Create, CreateRefused, Construct, Bind, Destroy, T!MarkZombie
<1>7. CASE Server
  BY <1>2, <1>7 DEF Server, Handle, FinishCallback, SendEvent, Introduce, SendRogue
<1>8. CASE UNCHANGED vars
  BY <1>2, <1>8 DEF vars
<1> QED
  BY <1>5, <1>6, <1>7, <1>8 DEF Next

THEOREM LiveObjectsAreNotReplaced == Spec => LiveObjectsKeepTheirIDs
<1>1. AInv /\ [Next]_vars => [T!ReplacesOnlyZombies]_(T!vars)
  BY StepKeepsLiveIDs
<1> QED
  BY <1>1, Safety, PTL DEF Spec, LiveObjectsKeepTheirIDs, T!OnlyZombiesReplaced

LEMMA StepAfterFatal ==
    ASSUME AInv, Next, fatal
    PROVE  fatal' /\ Len(requests') <= Len(requests) /\ Len(events') >= Len(events)
<1>1. requests \in Seq(RequestMsg) /\ events \in Seq(EventMsg)
  BY DEF AInv, Structure
<1>2. Len(requests) \in Nat /\ Len(events) \in Nat
  BY <1>1
<1>3. ASSUME NEW es, Post(es), es = << >> \/ \E x, y : es = <<x>> \/ es = <<x, y>>
      PROVE  Len(events') >= Len(events)
  BY <1>1, <1>3 DEF Post
<1>4. CASE Application
  <2>1. UNCHANGED <<fatal, requests, events>>
    <3>1. ASSUME NEW p, NEW k, Create(p, k) \/ CreateRefused(p, k) \/ Construct(p, k)
          PROVE  UNCHANGED <<fatal, requests, events>>
      BY <3>1 DEF Create, CreateRefused, Construct, Write
    <3>2. ASSUME NEW p, Bind(p) PROVE UNCHANGED <<fatal, requests, events>>
      BY <3>2 DEF Bind, Write
    <3>3. ASSUME NEW p, Destroy(p) PROVE UNCHANGED <<fatal, requests, events>>
      BY <3>3 DEF Destroy, Write
    <3> QED
      BY <1>4, <3>1, <3>2, <3>3 DEF Application
  <2> QED
    BY <1>2, <2>1
<1>5. CASE Handle
  <2>1. Len(requests') <= Len(requests)
    BY <1>1, <1>5 DEF Handle
  <2>2. CASE UNCHANGED events
    BY <1>2, <1>5, <2>1, <2>2 DEF Handle
  <2>3. ASSUME NEW x, Post(<<x>>) PROVE Len(events') >= Len(events)
    BY <1>3, <2>3
  <2>4. CASE HandleNew(Head(requests))
    BY <1>2, <1>5, <2>1, <2>3, <2>4 DEF Handle, HandleNew, Reject
  <2>5. CASE HandleDestroy(Head(requests))
    BY <1>2, <1>3, <1>5, <2>1, <2>3, <2>5 DEF Handle, HandleDestroy, Reject
  <2> QED
    BY <1>5, <2>4, <2>5 DEF Handle
<1>6. CASE SendRogue
  <2>1. UNCHANGED <<fatal, requests>> /\ \E x : Post(<<x>>)
    BY <1>6 DEF SendRogue
  <2> QED
    BY <1>2, <1>3, <2>1
<1>7. ASSUME NEW n \in DOMAIN resources, FinishCallback(n) \/ SendEvent(n)
      PROVE  /\ fatal' /\ Len(requests') <= Len(requests)
             /\ Len(events') >= Len(events)
  <2>1. UNCHANGED <<fatal, requests>>
    BY <1>7 DEF FinishCallback, SendEvent
  <2>2. CASE FinishCallback(n)
    <3>1. \E x, y : Post(<<x, y>>)
      BY <2>2 DEF FinishCallback
    <3> QED
      BY <1>2, <1>3, <2>1, <3>1
  <2>3. CASE SendEvent(n)
    <3>1. \E x : Post(<<x>>)
      BY <2>3 DEF SendEvent
    <3> QED
      BY <1>2, <1>3, <2>1, <3>1
  <2> QED
    BY <1>7, <2>2, <2>3
<1>8. ASSUME NEW n \in DOMAIN resources, NEW a, NEW p, NEW k, Introduce(n, a, p, k)
      PROVE  /\ fatal' /\ Len(requests') <= Len(requests)
             /\ Len(events') >= Len(events)
  BY <1>2, <1>3, <1>8 DEF Introduce
<1> QED
  BY <1>4, <1>5, <1>6, <1>7, <1>8 DEF Next, Server, Dispatch

(* A failed connection stays failed: no request is written and no event    *)
(* read, whatever the server still sends.                                  *)
THEOREM FailureIsFinal == Spec => FatalIsFinal
<1>1. ASSUME AInv, [Next]_vars
      PROVE  [fatal => /\ fatal' /\ Len(requests') <= Len(requests)
                       /\ Len(events') >= Len(events)]_vars
  BY <1>1, StepAfterFatal
<1> QED
  BY <1>1, Safety, PTL DEF Spec, FatalIsFinal

-----------------------------------------------------------------------------
(* What the client finds, as the queue and the table move.                 *)
LEMMA FindsKept ==
    ASSUME NEW q, NEW r, NEW o, NEW u, NEW i, NEW k, NEW n, NEW p,
           \A j \in DOMAIN q : j < i => (j \in DOMAIN r /\ j < k /\ r[j] = q[j]),
           \A j \in DOMAIN r : j < k =>
               ((j \in DOMAIN q /\ j < i /\ r[j] = q[j]) \/ ~About(r[j], n)),
           n \in DOMAIN o => (n \in DOMAIN u /\ u[n] = o[n]),
           Finds(q, o, i, n, p)
    PROVE  Finds(r, u, k, n, p)
<1>1. CASE Introduced(q, i, n, p)
  <2>1. Introduced(r, k, n, p)
    BY <1>1 DEF Introduced
  <2> QED
    BY <2>1 DEF Finds
<1>2. CASE n \in DOMAIN o /\ o[n] = p /\ Untouched(q, i, n)
  <2>1. n \in DOMAIN u /\ u[n] = p
    BY <1>2
  <2>2. Untouched(r, k, n)
    BY <1>2 DEF Untouched
  <2> QED
    BY <2>1, <2>2 DEF Finds
<1> QED
  BY <1>1, <1>2 DEF Finds

(* ... and as the first event is read.                                     *)
LEMMA FindsNext ==
    ASSUME NEW S, NEW q \in Seq(S), q # << >>, NEW o, NEW u,
           NEW i \in Nat, NEW n, NEW p,
           (~About(q[1], n) /\ n \in DOMAIN o) => (n \in DOMAIN u /\ u[n] = o[n]),
           (About(q[1], n) /\ q[1].type = "introduce" /\ q[1].arg = p) =>
               (n \in DOMAIN u /\ u[n] = p /\ \A j \in DOMAIN q : About(q[j], n) => j = 1),
           Finds(q, o, i + 1, n, p), i # 0
    PROVE  Finds(Tail(q), u, i, n, p)
<1>1. /\ 1 \in DOMAIN q
      /\ \A j \in DOMAIN Tail(q) : j + 1 \in DOMAIN q /\ Tail(q)[j] = q[j + 1] /\ j \in Nat \ {0}
      /\ \A j \in DOMAIN q : j = 1 \/ (j - 1 \in DOMAIN Tail(q) /\ Tail(q)[j - 1] = q[j] /\ j \in Nat)
  BY TailFacts
<1>2. CASE Introduced(q, i + 1, n, p)
  <2>1. PICK j \in DOMAIN q : /\ j < i + 1 /\ q[j].type = "introduce"
                              /\ q[j].argID = n /\ q[j].arg = p
    BY <1>2 DEF Introduced
  <2>2. CASE j = 1
    <3>1. About(q[1], n)
      BY <2>1, <2>2 DEF About
    <3>2. n \in DOMAIN u /\ u[n] = p /\ \A l \in DOMAIN q : About(q[l], n) => l = 1
      BY <2>1, <2>2, <3>1
    <3>3. ASSUME NEW l \in DOMAIN Tail(q), About(Tail(q)[l], n) PROVE FALSE
      <4>1. l + 1 \in DOMAIN q /\ About(q[l + 1], n) /\ l \in Nat \ {0}
        BY <1>1, <3>3
      <4>2. l + 1 = 1
        BY <3>2, <4>1
      <4> QED
        BY <4>1, <4>2
    <3> QED
      BY <3>2, <3>3 DEF Finds, Untouched
  <2>3. CASE j # 1
    <3>1. j - 1 \in DOMAIN Tail(q) /\ Tail(q)[j - 1] = q[j] /\ j \in Nat
      BY <1>1, <2>3
    <3>2. j - 1 < i
      BY <2>1, <3>1
    <3> QED
      BY <2>1, <3>1, <3>2 DEF Finds, Introduced
  <2> QED
    BY <2>2, <2>3
<1>3. CASE n \in DOMAIN o /\ o[n] = p /\ Untouched(q, i + 1, n)
  <2>1. ~About(q[1], n)
    <3>1. 1 < i + 1
      OBVIOUS
    <3> QED
      BY <1>1, <1>3, <3>1 DEF Untouched
  <2>2. n \in DOMAIN u /\ u[n] = p
    BY <1>3, <2>1
  <2>3. ASSUME NEW j \in DOMAIN Tail(q), j < i PROVE ~About(Tail(q)[j], n)
    <3>1. j + 1 \in DOMAIN q /\ Tail(q)[j] = q[j + 1] /\ j \in Nat
      BY <1>1
    <3>2. j + 1 < i + 1
      BY <2>3, <3>1
    <3> QED
      BY <1>3, <3>1, <3>2 DEF Untouched
  <2> QED
    BY <2>2, <2>3 DEF Finds, Untouched
<1> QED
  BY <1>2, <1>3 DEF Finds

(* Nothing is ahead of the first event.                                    *)
LEMMA FindsFirst ==
    ASSUME NEW S, NEW q \in Seq(S), NEW o, NEW n, NEW p, Finds(q, o, 1, n, p)
    PROVE  n \in DOMAIN o /\ o[n] = p
<1>1. \A j \in DOMAIN q : ~(j < 1)
  OBVIOUS
<1> QED
  BY <1>1 DEF Finds, Introduced

-----------------------------------------------------------------------------
(* What the second invariant says of an ID.                                *)
Conforming == AInv /\ BInv

LEMMA IDFacts ==
    /\ ObjectIDs \cap T!ServerIDs = {} /\ ObjectIDs \subseteq T!IDs /\ ObjectIDs \subseteq Nat
    /\ T!IDs = T!ClientIDs \cup T!ServerIDs /\ T!ClientIDs \cap T!ServerIDs = {}
    /\ T!IDs \subseteq Nat /\ FirstServerID \in Nat
    /\ T!DisplayID \in T!ClientIDs /\ T!DisplayID \notin ObjectIDs
    /\ T!ClientIDs = ObjectIDs \cup {T!DisplayID}
    /\ \A n \in T!IDs : n \in T!ClientIDs <=> n < FirstServerID
    /\ \A n \in T!IDs : n \in T!ServerIDs <=> n >= FirstServerID
    /\ NoID \notin T!IDs
BY LifecycleAssumption DEF T!IDs, T!ClientIDs, T!ServerIDs, T!DisplayID, ObjectIDs, NoID

(* A client ID the server has in use is in the table, for the same object, *)
(* and no message says otherwise.                                          *)
LEMMA ClientResource ==
    ASSUME Conforming, NEW n \in DOMAIN resources, n \notin T!ServerIDs
    PROVE  /\ n \in DOMAIN objects /\ objects[n] = resources[n]
           /\ \A j \in DOMAIN events : ~About(events[j], n)
<1>1. Finds(events, objects, Len(events) + 1, n, resources[n])
  BY DEF Conforming, BInv, ServerView
<1>2. ~Introduced(events, Len(events) + 1, n, resources[n])
  BY DEF Introduced, Conforming, BInv, Introductions
<1>3. n \in DOMAIN objects /\ objects[n] = resources[n] /\ Untouched(events, Len(events) + 1, n)
  BY <1>1, <1>2 DEF Finds
<1>4. events \in Seq(EventMsg)
  BY DEF Conforming, AInv, Structure
<1>5. \A j \in DOMAIN events : j < Len(events) + 1
  BY <1>4
<1> QED
  BY <1>3, <1>5 DEF Untouched

(* An ID the client has free is free everywhere.                           *)
LEMMA FreeID ==
    ASSUME Conforming, NEW n \in ObjectIDs, n \notin DOMAIN objects
    PROVE  /\ n \notin DOMAIN resources
           /\ \A i \in DOMAIN requests : requests[i].id # n
           /\ \A i \in DOMAIN events : ~About(events[i], n)
<1>1. n \notin T!ServerIDs
  BY IDFacts
<1>2. n \notin DOMAIN resources
  BY <1>1, ClientResource
<1>3. \A i \in DOMAIN requests : requests[i].op \in {"new", "destroy"}
  <2>1. \A i \in DOMAIN requests : requests[i] \in RequestMsg
    BY DEF Conforming, AInv, Structure
  <2> QED
    BY <2>1, RequestFacts
<1>4. \A i \in DOMAIN requests : requests[i].id # n
  BY <1>3 DEF Conforming, BInv, News, Destructions
<1>5. \A i \in DOMAIN events : ~About(events[i], n)
  BY <1>1 DEF Conforming, BInv, Introductions, Deletions, About
<1> QED
  BY <1>2, <1>4, <1>5

(* An object that waits for its bind is known to the client alone.         *)
LEMMA UnboundID ==
    ASSUME Conforming, NEW p \in unbound
    PROVE  /\ pid[p] \in ObjectIDs /\ pid[p] \in DOMAIN objects /\ objects[pid[p]] = p
           /\ pid[p] \notin DOMAIN resources
           /\ \A i \in DOMAIN requests : requests[i].id # pid[p]
           /\ \A i \in DOMAIN events : ~About(events[i], pid[p])
<1>1. pid[p] \in ObjectIDs /\ pid[p] \in DOMAIN objects /\ objects[pid[p]] = p
  BY DEF Conforming, AInv, Newcomers, BInv, Settled
<1>2. pid[p] \notin T!ServerIDs
  BY <1>1, IDFacts
<1>3. pid[p] \notin DOMAIN resources
  BY <1>1, <1>2, ClientResource DEF Conforming, BInv, ServerView
<1>4. \A i \in DOMAIN requests : requests[i].op \in {"new", "destroy"}
  <2>1. \A i \in DOMAIN requests : requests[i] \in RequestMsg
    BY DEF Conforming, AInv, Structure
  <2> QED
    BY <2>1, RequestFacts
<1>5. \A i \in DOMAIN requests : requests[i].id # pid[p]
  BY <1>1, <1>4 DEF Conforming, BInv, News, Destructions
<1>6. \A i \in DOMAIN events : ~About(events[i], pid[p])
  BY <1>1, <1>2 DEF Conforming, BInv, Introductions, Deletions, About
<1> QED
  BY <1>1, <1>3, <1>5, <1>6

(* The ID Register takes is one the server has seen before, or the next.   *)
LEMMA RegisteredOrder ==
    ASSUME Conforming, ~Oversize, NEW p \in Proxies, T!RegisterRecycled(p) \/ T!RegisterNew(p)
    PROVE  /\ currentID \in Nat /\ served \in Nat /\ pid'[p] \in Nat
           /\ \/ currentID' = currentID /\ pid'[p] <= served
              \/ currentID' = currentID + 1 /\ pid'[p] = currentID + 1
<1> DEFINE n == pid'[p]
<1>1. TableInv
  BY DEF Conforming, AInv
<1>2. /\ n \in ObjectIDs /\ n \notin DOMAIN objects
      /\ \/ currentID' = currentID /\ \E i \in 1 .. Len(freeIDs) : n = freeIDs[i]
         \/ currentID' = n /\ currentID < n
            /\ \A m \in currentID + 1 .. n - 1 : m \in DOMAIN objects
  BY <1>1, RegisterFacts
<1>3. currentID \in Nat /\ served \in Nat /\ n \in Nat /\ n < FirstServerID
  <2>1. currentID \in T!ClientIDs /\ served \in T!ClientIDs
    BY DEF Conforming, AInv, TableInv, Structure, T!TypeOK
  <2> QED
    BY <1>2, <2>1, LifecycleAssumption DEF ObjectIDs, T!ClientIDs
<1>4. CASE currentID' = currentID /\ \E i \in 1 .. Len(freeIDs) : n = freeIDs[i]
  <2>1. n \notin DOMAIN objects /\ n \in 2 .. currentID
    BY <1>4, <1>2 DEF Conforming, AInv, TableInv, T!FreeListSound, T!Live, T!DisplayID
  <2>2. n \notin served + 1 .. currentID
    BY <2>1 DEF Conforming, BInv, Order
  <2> QED
    BY <1>3, <1>4, <2>1, <2>2
<1>5. CASE /\ currentID' = n /\ currentID < n
           /\ \A m \in currentID + 1 .. n - 1 : m \in DOMAIN objects
  <2>1. SUFFICES ASSUME n # currentID + 1 PROVE FALSE
    BY <1>3, <1>5
  <2>2. currentID + 1 \in currentID + 1 .. n - 1
    BY <1>3, <1>5, <2>1
  <2>3. currentID + 1 \in DOMAIN objects
    BY <1>5, <2>2
  <2>5. currentID + 1 < FirstServerID
    BY <1>3, <2>2, LifecycleAssumption
  <2>6. currentID + 1 <= currentID
    BY <2>3, <2>5 DEF Conforming, AInv, TableInv, T!CounterCoversClientIDs
  <2> QED
    BY <1>3, <2>6
<1> QED
  BY <1>3, <1>4, <1>5, <1>2

-----------------------------------------------------------------------------
(* Create and Construct: what a registration leaves as it was.             *)
LEMMA RegisterKeeps ==
    ASSUME Conforming, NEW p \in Unused, NEW k \in Creatable,
           T!RegisterRecycled(p) \/ T!RegisterNew(p),
           kind' = [kind EXCEPT ![p] = k], unbound' \subseteq unbound \cup {p},
           UNCHANGED <<fatal, events, server>>
    PROVE  /\ Quiet' /\ Anchored' /\ Senders' /\ NamedObjects' /\ ServerView' /\ Introductions'
           /\ \A q \in Proxies : q # p => kind'[q] = kind[q]
           /\ \A n \in DOMAIN objects : objects[n] # p /\ objects[n] \in Proxies
<1>1. /\ p \in Proxies /\ p # Display /\ p \notin T!Registered \cup unbound
      /\ \A n \in DOMAIN objects : objects[n] # p
      /\ \A n \in DOMAIN resources : resources[n] # p
  BY UnusedFacts
<1>2. /\ pid'[p] \in ObjectIDs /\ pid'[p] \notin DOMAIN objects
      /\ DOMAIN objects' = DOMAIN objects \cup {pid'[p]}
      /\ \A m \in DOMAIN objects : objects'[m] = objects[m]
      /\ \A q \in Proxies : q # p => zombie'[q] = zombie[q]
  BY <1>1, RegisterFacts DEF Conforming, AInv
<1>3. /\ \A n \in DOMAIN objects : objects[n] \in Proxies
      /\ \A q \in Proxies : q # p => kind'[q] = kind[q]
      /\ events' = events /\ resources' = resources /\ fatal' = fatal /\ rejected' = rejected
  BY RegisteredIDs DEF Conforming, AInv, Structure, server
<1>4. \A i, n, q : Finds(events, objects, i, n, q) => Finds(events, objects', i, n, q)
  BY <1>2, FindsKept
<1>5. Quiet'
  BY <1>3 DEF Conforming, BInv, Quiet
<1>6. Anchored'
  BY <1>1, <1>2, <1>3, LifecycleAssumption DEF Conforming, BInv, Anchored
<1>7. Senders' /\ NamedObjects'
  BY <1>3, <1>4 DEF Conforming, BInv, Senders, NamedObjects
<1>8. ServerView'
  BY <1>1, <1>3, <1>4 DEF Conforming, BInv, ServerView
<1>9. Introductions'
  BY <1>1, <1>2, <1>3, IDFacts DEF Conforming, BInv, Introductions
<1> QED
  BY <1>1, <1>3, <1>5, <1>6, <1>7, <1>8, <1>9

(* A request queued behind the others.                                     *)
LEMMA AppendedRequest ==
    ASSUME Conforming, NEW r \in RequestMsg, requests' = Append(requests, r)
    PROVE  /\ Len(requests) \in Nat /\ DOMAIN requests = 1 .. Len(requests)
           /\ DOMAIN requests' = 1 .. Len(requests) + 1
           /\ \A i \in DOMAIN requests : i \in DOMAIN requests' /\ requests'[i] = requests[i]
           /\ requests'[Len(requests) + 1] = r /\ Len(requests) + 1 \in DOMAIN requests'
           /\ \A i \in DOMAIN requests' : i \in DOMAIN requests \/ i = Len(requests) + 1
           /\ \A i \in DOMAIN requests : i < Len(requests) + 1 /\ i \in Nat
<1>1. requests \in Seq(RequestMsg)
  BY DEF Conforming, AInv, Structure
<1>2. /\ Len(requests) \in Nat /\ DOMAIN requests = 1 .. Len(requests)
      /\ DOMAIN requests' = 1 .. Len(requests) + 1
      /\ \A i \in DOMAIN requests : requests'[i] = requests[i]
      /\ requests'[Len(requests) + 1] = r
  BY <1>1, AppendFacts
<1> QED
  BY <1>2

LEMMA CreateBInv ==
    ASSUME Conforming, NEW p \in Proxies, NEW k \in Creatable, Create(p, k) PROVE BInv'
<1> DEFINE n == pid'[p]
<1> DEFINE r == Request("new", n, p)
<1> DEFINE L == Len(requests)
<1>1. /\ p \in Unused /\ (T!RegisterRecycled(p) \/ T!RegisterNew(p))
      /\ \A q \in unbound : n <= pid[q]
      /\ kind' = [kind EXCEPT ![p] = k] /\ unbound' = unbound
      /\ UNCHANGED <<fatal, events, server>>
      /\ requests' = Append(requests, r)
  BY DEF Create, InOrder, Write, Conforming, BInv, Quiet
<1>2. /\ p \notin unbound
      /\ n \in ObjectIDs /\ n \notin DOMAIN objects
      /\ DOMAIN objects' = DOMAIN objects \cup {n} /\ objects'[n] = p
      /\ \A m \in DOMAIN objects : objects'[m] = objects[m]
      /\ \A q \in Proxies : q # p => zombie'[q] = zombie[q] /\ pid'[q] = pid[q]
  BY <1>1, UnusedFacts, RegisterFacts DEF Conforming, AInv
<1>3. /\ Quiet' /\ Anchored' /\ Senders' /\ NamedObjects' /\ ServerView' /\ Introductions'
      /\ \A q \in Proxies : q # p => kind'[q] = kind[q]
      /\ \A m \in DOMAIN objects : objects[m] # p /\ objects[m] \in Proxies
  BY <1>1, RegisterKeeps
<1>4. r \in RequestMsg /\ r.op = "new" /\ r.id = n /\ r.object = p
  BY <1>2, RequestsMade
<1>5. /\ L \in Nat /\ DOMAIN requests = 1 .. L
      /\ \A i \in DOMAIN requests : i \in DOMAIN requests' /\ requests'[i] = requests[i]
      /\ requests'[L + 1] = r /\ L + 1 \in DOMAIN requests'
      /\ \A i \in DOMAIN requests' : i \in DOMAIN requests \/ i = L + 1
      /\ \A i \in DOMAIN requests : i < L + 1 /\ i \in Nat
  BY <1>1, <1>4, AppendedRequest
<1>6. /\ n \notin DOMAIN resources
      /\ \A i \in DOMAIN requests : requests[i].id # n
      /\ \A i \in DOMAIN events : ~About(events[i], n)
  BY <1>2, FreeID
<1>7. events' = events /\ resources' = resources /\ served' = served /\ unbound' = unbound
  BY <1>1 DEF server
<1> HIDE DEF L, r
<1>8. \A m : Announces(requests, m) => Announces(requests', m)
  BY <1>5 DEF Announces
<1>9. Announces(requests', n)
  BY <1>4, <1>5 DEF Announces
<1> HIDE DEF n
<1>10. Deletions'
  BY <1>2, <1>3, <1>4, <1>5, <1>6, <1>7 DEF Conforming, BInv, Deletions, HasDestructor, About
<1>11. News'
  BY <1>2, <1>3, <1>4, <1>5, <1>6, <1>7 DEF Conforming, BInv, News
<1>12. Destructions'
  <2> SUFFICES ASSUME NEW i \in DOMAIN requests', requests'[i].op = "destroy"
               PROVE  LET m == requests'[i].id IN
                        /\ m \in DOMAIN objects' /\ objects'[m] = requests'[i].object
                        /\ objects'[m] \notin unbound'
                        /\ zombie'[objects'[m]]
                        /\ kind'[objects'[m]] \in {"surface", "device", "offer", "pad"}
                        /\ Refusable(m) \/ m \in DOMAIN resources'
                             \/ \E j \in DOMAIN requests' :
                                   j < i /\ requests'[j].op = "new" /\ requests'[j].id = m
                        /\ \A j \in DOMAIN events' :
                             events'[j].type = "introduce" => events'[j].argID # m
    BY DEF Destructions, HasDestructor
  <2>1. i \in DOMAIN requests /\ requests'[i] = requests[i]
    BY <1>4, <1>5
  <2>2. /\ requests[i].id \in DOMAIN objects /\ objects[requests[i].id] = requests[i].object
        /\ objects[requests[i].id] \notin unbound
        /\ zombie[objects[requests[i].id]] /\ HasDestructor(objects[requests[i].id])
        /\ Refusable(requests[i].id) \/ requests[i].id \in DOMAIN resources
             \/ \E j \in DOMAIN requests :
                   j < i /\ requests[j].op = "new" /\ requests[j].id = requests[i].id
        /\ \A j \in DOMAIN events :
             events[j].type = "introduce" => events[j].argID # requests[i].id
    BY <2>1 DEF Conforming, BInv, Destructions
  <2> QED
    BY <1>2, <1>3, <1>5, <1>7, <2>1, <2>2 DEF HasDestructor
<1>13. OncePerID'
  BY <1>4, <1>5, <1>6, <1>7 DEF Conforming, BInv, OncePerID
<1>14. Settled'
  <2>1. \A q \in unbound' : pid'[q] \in DOMAIN objects' /\ objects'[pid'[q]] = q
    <3> SUFFICES ASSUME NEW q \in unbound PROVE pid'[q] \in DOMAIN objects' /\ objects'[pid'[q]] = q
      BY <1>7
    <3>1. q # p /\ q \in Proxies /\ pid[q] \in DOMAIN objects /\ objects[pid[q]] = q
      BY <1>2 DEF Conforming, AInv, Structure, BInv, Settled
    <3> QED
      BY <1>2, <3>1
  <2>2. ASSUME NEW m \in DOMAIN objects', m < FirstServerID, objects'[m] \notin unbound'
        PROVE  m \in DOMAIN resources' \/ Announces(requests', m) \/ Acknowledges(events', m) \/ Oversize
    BY <1>2, <1>7, <1>8, <1>9, <2>2 DEF Conforming, BInv, Settled
  <2>3. ASSUME NEW m \in DOMAIN objects', m >= FirstServerID, ~zombie'[objects'[m]]
        PROVE  m \in DOMAIN resources' /\ resources'[m] = objects'[m]
    <3>1. m # n /\ m \in DOMAIN objects
      BY <1>2, <2>3, IDFacts
    <3> QED
      BY <1>2, <1>3, <1>7, <2>3, <3>1 DEF Conforming, BInv, Settled
  <2>4. \A m \in DOMAIN resources' : m >= FirstServerID => kind'[resources'[m]] \in {"offer", "pad"}
    BY <1>1, <1>3, <1>7, UnusedFacts DEF Conforming, AInv, Structure, BInv, Settled
  <2> QED
    BY <2>1, <2>2, <2>3, <2>4 DEF Settled
<1>15. Oversize \/ Order'
  <2> SUFFICES ASSUME ~Oversize PROVE Order'
    OBVIOUS
  <2>1. /\ currentID \in Nat /\ served \in Nat /\ n \in Nat
        /\ \/ currentID' = currentID /\ n <= served
           \/ currentID' = currentID + 1 /\ n = currentID + 1
    BY <1>1, RegisteredOrder DEF n
  <2>2. ASSUME NEW m \in served' + 1 .. currentID'
        PROVE  m \in DOMAIN objects' /\ (objects'[m] \in unbound' \/ Announces(requests', m))
    <3>1. m \in served + 1 .. currentID \/ m = n
      BY <1>7, <2>1
    <3> QED
      BY <1>2, <1>7, <1>8, <1>9, <3>1 DEF Conforming, BInv, Order
  <2>3. \A i \in DOMAIN requests : requests[i].op = "new" => requests[i].id <= currentID
    <3> SUFFICES ASSUME NEW i \in DOMAIN requests, requests[i].op = "new"
                 PROVE  requests[i].id <= currentID
      OBVIOUS
    <3>1. requests[i] \in RequestMsg
      BY DEF Conforming, AInv, Structure
    <3>2. requests[i].id \in ObjectIDs
      BY <3>1, RequestFacts
    <3>3. requests[i].id < FirstServerID
      BY <3>2, LifecycleAssumption DEF ObjectIDs
    <3>4. requests[i].id \in DOMAIN objects
      BY DEF Conforming, BInv, News
    <3> QED
      BY <3>3, <3>4 DEF Conforming, AInv, TableInv, T!CounterCoversClientIDs
  <2>4. ASSUME NEW i \in DOMAIN requests', NEW j \in DOMAIN requests',
               requests'[i].op = "new", requests'[i].id > served',
               requests'[j].op = "new", requests'[j].id > served', i < j
        PROVE  requests'[i].id < requests'[j].id
    <3>1. CASE j \in DOMAIN requests
      <4>1. i \in DOMAIN requests
        BY <1>5, <2>4, <3>1
      <4> QED
        BY <1>5, <1>7, <2>4, <3>1, <4>1 DEF Conforming, BInv, Order
    <3>2. CASE j = L + 1
      <4>1. i \in DOMAIN requests /\ requests'[i] = requests[i]
        BY <1>5, <2>4, <3>2
      <4>2. requests'[j].id = n /\ n > served
        BY <1>4, <1>5, <1>7, <2>4, <3>2
      <4>3. requests[i].id <= currentID /\ n = currentID + 1
        BY <2>1, <2>3, <2>4, <4>1, <4>2
      <4>4. requests[i].id \in Nat
        <5>1. requests[i] \in RequestMsg
          BY <4>1 DEF Conforming, AInv, Structure
        <5> QED
          BY <5>1, RequestFacts, IDFacts
      <4> QED
        BY <2>1, <4>1, <4>2, <4>3, <4>4
    <3> QED
      BY <1>5, <3>1, <3>2
  <2>5. ASSUME NEW i \in DOMAIN requests', NEW q \in unbound',
               requests'[i].op = "new", requests'[i].id > served', pid'[q] > served'
        PROVE  requests'[i].id < pid'[q]
    <3>1. q \in unbound /\ q # p /\ q \in Proxies /\ pid'[q] = pid[q]
      BY <1>2, <1>7 DEF Conforming, AInv, Structure
    <3>2. CASE i \in DOMAIN requests
      BY <1>5, <1>7, <2>5, <3>1, <3>2 DEF Conforming, BInv, Order
    <3>3. CASE i = L + 1
      <4>1. requests'[i].id = n /\ n <= pid[q]
        BY <1>1, <1>4, <1>5, <3>1, <3>3 DEF n
      <4>2. pid[q] \in DOMAIN objects /\ pid[q] \in Nat
        BY <3>1, UnboundID, IDFacts
      <4>3. n # pid[q]
        BY <1>2, <4>2
      <4> QED
        BY <2>1, <3>1, <4>1, <4>2, <4>3
    <3> QED
      BY <1>5, <3>2, <3>3
  <2> QED
    BY <2>2, <2>4, <2>5 DEF Order
<1> QED
  BY <1>3, <1>10, <1>11, <1>12, <1>13, <1>14, <1>15 DEF BInv

LEMMA ConstructBInv ==
    ASSUME Conforming, NEW p \in Proxies, NEW k \in Creatable, Construct(p, k) PROVE BInv'
<1> DEFINE n == pid'[p]
<1>1. /\ p \in Unused /\ (T!RegisterRecycled(p) \/ T!RegisterNew(p))
      /\ kind' = [kind EXCEPT ![p] = k] /\ unbound' = unbound \cup {p}
      /\ UNCHANGED <<fatal, requests, events, server>>
  BY DEF Construct
<1>2. /\ p \notin unbound
      /\ n \in ObjectIDs /\ n \notin DOMAIN objects
      /\ DOMAIN objects' = DOMAIN objects \cup {n} /\ objects'[n] = p
      /\ \A m \in DOMAIN objects : objects'[m] = objects[m]
      /\ \A q \in Proxies : q # p => zombie'[q] = zombie[q] /\ pid'[q] = pid[q]
  BY <1>1, UnusedFacts, RegisterFacts DEF Conforming, AInv
<1>3. /\ Quiet' /\ Anchored' /\ Senders' /\ NamedObjects' /\ ServerView' /\ Introductions'
      /\ \A q \in Proxies : q # p => kind'[q] = kind[q]
      /\ \A m \in DOMAIN objects : objects[m] # p /\ objects[m] \in Proxies
  BY <1>1, RegisterKeeps
<1>4. /\ n \notin DOMAIN resources
      /\ \A i \in DOMAIN requests : requests[i].id # n
      /\ \A i \in DOMAIN events : ~About(events[i], n)
  BY <1>2, FreeID
<1>5. events' = events /\ requests' = requests /\ resources' = resources /\ served' = served
      /\ unbound' = unbound \cup {p}
  BY <1>1 DEF server
<1> HIDE DEF n
<1>6. Deletions'
  BY <1>2, <1>3, <1>4, <1>5 DEF Conforming, BInv, Deletions, HasDestructor, About
<1>7. News'
  BY <1>2, <1>3, <1>4, <1>5 DEF Conforming, BInv, News
<1>8. Destructions'
  BY <1>2, <1>3, <1>4, <1>5 DEF Conforming, BInv, Destructions, HasDestructor
<1>9. OncePerID'
  BY <1>5 DEF Conforming, BInv, OncePerID
<1>10. Settled'
  <2>1. \A q \in unbound' : pid'[q] \in DOMAIN objects' /\ objects'[pid'[q]] = q
    <3>1. pid'[p] \in DOMAIN objects' /\ objects'[pid'[p]] = p
      BY <1>2 DEF n
    <3>2. ASSUME NEW q \in unbound PROVE pid'[q] \in DOMAIN objects' /\ objects'[pid'[q]] = q
      <4>1. q # p /\ q \in Proxies /\ pid[q] \in DOMAIN objects /\ objects[pid[q]] = q
        BY <1>2 DEF Conforming, AInv, Structure, BInv, Settled
      <4> QED
        BY <1>2, <4>1
    <3> QED
      BY <1>5, <3>1, <3>2
  <2>2. ASSUME NEW m \in DOMAIN objects', m < FirstServerID, objects'[m] \notin unbound'
        PROVE  m \in DOMAIN resources' \/ Announces(requests', m) \/ Acknowledges(events', m) \/ Oversize
    BY <1>2, <1>5, <2>2 DEF Conforming, BInv, Settled
  <2>3. ASSUME NEW m \in DOMAIN objects', m >= FirstServerID, ~zombie'[objects'[m]]
        PROVE  m \in DOMAIN resources' /\ resources'[m] = objects'[m]
    <3>1. m # n /\ m \in DOMAIN objects
      BY <1>2, <2>3, IDFacts
    <3> QED
      BY <1>2, <1>3, <1>5, <2>3, <3>1 DEF Conforming, BInv, Settled
  <2>4. \A m \in DOMAIN resources' : m >= FirstServerID => kind'[resources'[m]] \in {"offer", "pad"}
    BY <1>1, <1>3, <1>5, UnusedFacts DEF Conforming, AInv, Structure, BInv, Settled
  <2> QED
    BY <2>1, <2>2, <2>3, <2>4 DEF Settled
<1>11. Oversize \/ Order'
  <2> SUFFICES ASSUME ~Oversize PROVE Order'
    OBVIOUS
  <2>1. /\ currentID \in Nat /\ served \in Nat /\ n \in Nat
        /\ \/ currentID' = currentID /\ n <= served
           \/ currentID' = currentID + 1 /\ n = currentID + 1
    BY <1>1, RegisteredOrder DEF n
  <2>2. ASSUME NEW m \in served' + 1 .. currentID'
        PROVE  m \in DOMAIN objects' /\ (objects'[m] \in unbound' \/ Announces(requests', m))
    <3>1. m \in served + 1 .. currentID \/ m = n
      BY <1>5, <2>1
    <3> QED
      BY <1>2, <1>5, <3>1 DEF Conforming, BInv, Order
  <2>3. ASSUME NEW i \in DOMAIN requests, requests[i].op = "new"
        PROVE  requests[i].id <= currentID /\ requests[i].id \in Nat
    <3>1. requests[i] \in RequestMsg
      BY DEF Conforming, AInv, Structure
    <3>2. requests[i].id \in ObjectIDs
      BY <2>3, <3>1, RequestFacts
    <3>3. requests[i].id < FirstServerID /\ requests[i].id \in Nat
      BY <3>2, LifecycleAssumption DEF ObjectIDs
    <3>4. requests[i].id \in DOMAIN objects
      BY <2>3 DEF Conforming, BInv, News
    <3> QED
      BY <3>3, <3>4 DEF Conforming, AInv, TableInv, T!CounterCoversClientIDs
  <2>4. ASSUME NEW i \in DOMAIN requests, NEW q \in unbound',
               requests[i].op = "new", requests[i].id > served, pid'[q] > served
        PROVE  requests[i].id < pid'[q]
    <3>1. CASE q = p
      <4>1. n = currentID + 1
        BY <2>1, <2>4, <3>1 DEF n
      <4> QED
        BY <2>1, <2>3, <2>4, <3>1, <4>1 DEF n
    <3>2. CASE q # p
      <4>1. q \in unbound /\ q \in Proxies /\ pid'[q] = pid[q]
        BY <1>2, <1>5, <3>2 DEF Conforming, AInv, Structure
      <4> QED
        BY <2>4, <4>1 DEF Conforming, BInv, Order
    <3> QED
      BY <3>1, <3>2
  <2> QED
    BY <1>5, <2>2, <2>4 DEF Conforming, BInv, Order
<1> QED
  BY <1>3, <1>6, <1>7, <1>8, <1>9, <1>10, <1>11 DEF BInv

(* CreateRefused: registered, and the server is not told.                  *)
LEMMA RefusedBInv ==
    ASSUME Conforming, NEW p \in Proxies, NEW k \in Creatable, CreateRefused(p, k) PROVE BInv'
<1> DEFINE n == pid'[p]
<1>1. /\ Oversize
      /\ p \in Unused /\ (T!RegisterRecycled(p) \/ T!RegisterNew(p))
      /\ kind' = [kind EXCEPT ![p] = k] /\ unbound' = unbound
      /\ UNCHANGED <<fatal, requests, events, server>>
  BY DEF CreateRefused
<1>2. /\ p \notin unbound
      /\ n \in ObjectIDs /\ n \notin DOMAIN objects
      /\ DOMAIN objects' = DOMAIN objects \cup {n} /\ objects'[n] = p
      /\ \A m \in DOMAIN objects : objects'[m] = objects[m]
      /\ \A q \in Proxies : q # p => zombie'[q] = zombie[q] /\ pid'[q] = pid[q]
  BY <1>1, UnusedFacts, RegisterFacts DEF Conforming, AInv
<1>3. /\ Quiet' /\ Anchored' /\ Senders' /\ NamedObjects' /\ ServerView' /\ Introductions'
      /\ \A q \in Proxies : q # p => kind'[q] = kind[q]
      /\ \A m \in DOMAIN objects : objects[m] # p /\ objects[m] \in Proxies
  BY <1>1, RegisterKeeps
<1>4. /\ n \notin DOMAIN resources
      /\ \A i \in DOMAIN requests : requests[i].id # n
      /\ \A i \in DOMAIN events : ~About(events[i], n)
  BY <1>2, FreeID
<1>5. events' = events /\ requests' = requests /\ resources' = resources /\ served' = served
  BY <1>1 DEF server
<1> HIDE DEF n
<1>6. Deletions'
  BY <1>1, <1>2, <1>3, <1>4, <1>5 DEF Conforming, BInv, Deletions, HasDestructor, About
<1>7. News'
  BY <1>1, <1>2, <1>3, <1>4, <1>5 DEF Conforming, BInv, News
<1>8. Destructions'
  BY <1>1, <1>2, <1>3, <1>4, <1>5 DEF Conforming, BInv, Destructions, HasDestructor
<1>9. OncePerID'
  BY <1>5 DEF Conforming, BInv, OncePerID
<1>10. Settled'
  <2>1. ASSUME NEW q \in unbound' PROVE pid'[q] \in DOMAIN objects' /\ objects'[pid'[q]] = q
    <3>1. q # p /\ q \in Proxies /\ pid[q] \in DOMAIN objects /\ objects[pid[q]] = q
      BY <1>1, <1>2 DEF Conforming, AInv, Structure, BInv, Settled
    <3> QED
      BY <1>2, <3>1
  <2>2. ASSUME NEW m \in DOMAIN objects', m >= FirstServerID, ~zombie'[objects'[m]]
        PROVE  m \in DOMAIN resources' /\ resources'[m] = objects'[m]
    <3>1. m # n /\ m \in DOMAIN objects
      BY <1>2, <2>2, IDFacts
    <3> QED
      BY <1>2, <1>3, <1>5, <2>2, <3>1 DEF Conforming, BInv, Settled
  <2>3. \A m \in DOMAIN resources' : m >= FirstServerID => kind'[resources'[m]] \in {"offer", "pad"}
    BY <1>1, <1>3, <1>5, UnusedFacts DEF Conforming, AInv, Structure, BInv, Settled
  <2> QED
    BY <1>1, <2>1, <2>2, <2>3 DEF Settled
<1> QED
  BY <1>1, <1>3, <1>6, <1>7, <1>8, <1>9, <1>10 DEF BInv

LEMMA BindBInv ==
    ASSUME Conforming, NEW p \in Proxies, Bind(p) PROVE BInv'
<1> DEFINE n == pid[p]
<1> DEFINE r == Request("new", n, p)
<1> DEFINE L == Len(requests)
<1>1. /\ p \in unbound /\ unbound' = unbound \ {p}
      /\ \A q \in unbound : n <= pid[q]
      /\ UNCHANGED <<table, fatal, kind, events, server>>
      /\ requests' = Append(requests, r)
  BY DEF Bind, InOrder, Write, Conforming, BInv, Quiet
<1>2. /\ objects' = objects /\ zombie' = zombie /\ pid' = pid /\ currentID' = currentID
      /\ fatal' = fatal /\ kind' = kind /\ events' = events
      /\ resources' = resources /\ served' = served /\ rejected' = rejected
  BY <1>1 DEF table, server
<1>3. /\ n \in ObjectIDs /\ n \in DOMAIN objects /\ objects[n] = p
      /\ n \notin DOMAIN resources
      /\ \A i \in DOMAIN requests : requests[i].id # n
      /\ \A i \in DOMAIN events : ~About(events[i], n)
  BY <1>1, UnboundID
<1>4. r \in RequestMsg /\ r.op = "new" /\ r.id = n /\ r.object = p
  BY <1>3, RequestsMade
<1>5. /\ L \in Nat /\ DOMAIN requests = 1 .. L
      /\ \A i \in DOMAIN requests : i \in DOMAIN requests' /\ requests'[i] = requests[i]
      /\ requests'[L + 1] = r /\ L + 1 \in DOMAIN requests'
      /\ \A i \in DOMAIN requests' : i \in DOMAIN requests \/ i = L + 1
      /\ \A i \in DOMAIN requests : i < L + 1 /\ i \in Nat
  BY <1>1, <1>4, AppendedRequest
<1> HIDE DEF L, r
<1>6. \A m : Announces(requests, m) => Announces(requests', m)
  BY <1>5 DEF Announces
<1>7. Announces(requests', n)
  BY <1>4, <1>5 DEF Announces
<1>8. \A m \in DOMAIN objects : objects[m] \in unbound' => objects[m] \in unbound
  BY <1>1
<1>9. \A m \in DOMAIN objects : objects[m] \notin unbound' => m = n \/ objects[m] \notin unbound
  BY <1>1, RegisteredIDs DEF Conforming, AInv
<1> HIDE DEF n
<1>10. Quiet' /\ Anchored' /\ Senders' /\ NamedObjects' /\ Introductions'
  BY <1>2 DEF Conforming, BInv, Quiet, Anchored, Senders, NamedObjects, Introductions
<1>11. ServerView'
  BY <1>1, <1>2 DEF Conforming, BInv, ServerView
<1>12. Deletions'
  BY <1>1, <1>2, <1>3, <1>4, <1>5 DEF Conforming, BInv, Deletions, HasDestructor, About
<1>13. News'
  BY <1>1, <1>2, <1>3, <1>4, <1>5 DEF Conforming, BInv, News
<1>14. Destructions'
  <2> SUFFICES ASSUME NEW i \in DOMAIN requests', requests'[i].op = "destroy"
               PROVE  LET m == requests'[i].id IN
                        /\ m \in DOMAIN objects /\ objects[m] = requests'[i].object
                        /\ objects[m] \notin unbound'
                        /\ zombie[objects[m]] /\ HasDestructor(objects[m])
                        /\ Refusable(m) \/ m \in DOMAIN resources
                             \/ \E j \in DOMAIN requests' :
                                   j < i /\ requests'[j].op = "new" /\ requests'[j].id = m
                        /\ \A j \in DOMAIN events :
                             events[j].type = "introduce" => events[j].argID # m
    BY <1>2 DEF Destructions, HasDestructor
  <2>1. i \in DOMAIN requests /\ requests'[i] = requests[i]
    BY <1>4, <1>5
  <2>2. /\ requests[i].id \in DOMAIN objects /\ objects[requests[i].id] = requests[i].object
        /\ objects[requests[i].id] \notin unbound
        /\ zombie[objects[requests[i].id]] /\ HasDestructor(objects[requests[i].id])
        /\ Refusable(requests[i].id) \/ requests[i].id \in DOMAIN resources
             \/ \E j \in DOMAIN requests :
                   j < i /\ requests[j].op = "new" /\ requests[j].id = requests[i].id
        /\ \A j \in DOMAIN events :
             events[j].type = "introduce" => events[j].argID # requests[i].id
    BY <2>1 DEF Conforming, BInv, Destructions
  <2> QED
    BY <1>1, <1>5, <2>1, <2>2
<1>15. OncePerID'
  BY <1>2, <1>3, <1>4, <1>5 DEF Conforming, BInv, OncePerID
<1>16. Settled'
  BY <1>1, <1>2, <1>6, <1>7, <1>9 DEF Conforming, BInv, Settled
<1>17. Oversize \/ Order'
  <2> SUFFICES ASSUME ~Oversize PROVE Order'
    OBVIOUS
  <2>1. served \in Nat /\ n \in Nat
    BY <1>3, IDFacts DEF Conforming, AInv, Structure
  <2>2. ASSUME NEW m \in served + 1 .. currentID
        PROVE  m \in DOMAIN objects /\ (objects[m] \in unbound' \/ Announces(requests', m))
    <3>1. m \in DOMAIN objects /\ (objects[m] \in unbound \/ Announces(requests, m))
      BY DEF Conforming, BInv, Order
    <3> QED
      BY <1>6, <1>7, <1>9, <3>1
  <2>3. ASSUME NEW i \in DOMAIN requests', NEW j \in DOMAIN requests',
               requests'[i].op = "new", requests'[i].id > served,
               requests'[j].op = "new", requests'[j].id > served, i < j
        PROVE  requests'[i].id < requests'[j].id
    <3>1. CASE j \in DOMAIN requests
      <4>1. i \in DOMAIN requests
        BY <1>5, <2>3, <3>1
      <4> QED
        BY <1>5, <2>3, <3>1, <4>1 DEF Conforming, BInv, Order
    <3>2. CASE j = L + 1
      <4>1. i \in DOMAIN requests /\ requests'[i] = requests[i]
        BY <1>5, <2>3, <3>2
      <4>2. requests'[j].id = n /\ n > served
        BY <1>4, <1>5, <2>3, <3>2
      <4> QED
        BY <1>1, <2>3, <4>1, <4>2 DEF Conforming, BInv, Order, n
    <3> QED
      BY <1>5, <3>1, <3>2
  <2>4. ASSUME NEW i \in DOMAIN requests', NEW q \in unbound',
               requests'[i].op = "new", requests'[i].id > served, pid[q] > served
        PROVE  requests'[i].id < pid[q]
    <3>1. q \in unbound /\ q # p
      BY <1>1
    <3>2. CASE i \in DOMAIN requests
      BY <1>5, <2>4, <3>1, <3>2 DEF Conforming, BInv, Order
    <3>3. CASE i = L + 1
      <4>1. requests'[i].id = n /\ n <= pid[q]
        BY <1>1, <1>4, <1>5, <3>1, <3>3 DEF n
      <4>2. pid[q] \in DOMAIN objects /\ pid[q] \in Nat /\ objects[pid[q]] = q
        BY <3>1, UnboundID, IDFacts
      <4>3. n # pid[q]
        BY <1>3, <3>1, <4>2
      <4> QED
        BY <2>1, <4>1, <4>2, <4>3
    <3> QED
      BY <1>5, <3>2, <3>3
  <2> QED
    BY <1>2, <2>2, <2>3, <2>4 DEF Order
<1> QED
  BY <1>10, <1>11, <1>12, <1>13, <1>14, <1>15, <1>16, <1>17 DEF BInv

LEMMA DestroyBInv ==
    ASSUME Conforming, NEW p \in Proxies, Destroy(p) PROVE BInv'
<1> DEFINE n == pid[p]
<1> DEFINE r == Request("destroy", n, p)
<1> DEFINE L == Len(requests)
<1>1. /\ p \in T!Registered \ unbound /\ ~zombie[p]
      /\ zombie' = [zombie EXCEPT ![p] = TRUE]
      /\ objects' = objects /\ pid' = pid /\ currentID' = currentID
      /\ fatal' = fatal /\ kind' = kind /\ events' = events /\ unbound' = unbound
      /\ resources' = resources /\ served' = served /\ rejected' = rejected
      /\ HasDestructor(p) => requests' = Append(requests, r)
      /\ ~HasDestructor(p) => requests' = requests
  BY DEF Destroy, Write, T!MarkZombie, server, Conforming, BInv, Quiet
<1>2. /\ zombie'[p] /\ \A q \in Proxies : zombie[q] => zombie'[q]
      /\ \A m \in DOMAIN objects : zombie[objects[m]] => zombie'[objects[m]]
  BY <1>1 DEF Conforming, AInv, TableInv, T!TypeOK
<1>3. n \in DOMAIN objects /\ objects[n] = p /\ n \in T!IDs
  BY <1>1, RegisteredIDs DEF Conforming, AInv
<1>4. r \in RequestMsg /\ r.op = "destroy" /\ r.id = n /\ r.object = p
  BY <1>3, RequestsMade
<1> DEFINE Sent == HasDestructor(p)
<1>5. \A i \in DOMAIN requests : i \in DOMAIN requests' /\ requests'[i] = requests[i]
  BY <1>1, <1>4, AppendedRequest
<1>6. \A i \in DOMAIN requests' : i \in DOMAIN requests
           \/ (Sent /\ i = L + 1 /\ requests'[i] = r /\ \A j \in DOMAIN requests : j < i)
  BY <1>1, <1>4, AppendedRequest
<1> HIDE DEF L, r
<1>7. \A m : Announces(requests, m) => Announces(requests', m)
  BY <1>5 DEF Announces
<1>8. Sent => /\ \A i \in DOMAIN requests : requests[i].op = "destroy" => requests[i].id # n
              /\ \A i \in DOMAIN events : ~About(events[i], n)
  BY <1>1, <1>3 DEF Conforming, BInv, Destructions, Introductions, Deletions, About
<1>9. Sent => Refusable(n) \/ n \in DOMAIN resources \/ Announces(requests, n)
  <2>1. n < FirstServerID \/ n >= FirstServerID
    BY <1>3, IDFacts
  <2>2. CASE n < FirstServerID
    <3>1. Oversize \/ n \in DOMAIN resources \/ Announces(requests, n) \/ Acknowledges(events, n)
      BY <1>1, <1>3, <2>2 DEF Conforming, BInv, Settled
    <3>2. Sent => ~Acknowledges(events, n)
      BY <1>8 DEF Acknowledges, About
    <3> QED
      BY <2>2, <3>1, <3>2 DEF Refusable
  <2>3. CASE n >= FirstServerID
    BY <1>1, <1>3, <2>3 DEF Conforming, BInv, Settled
  <2> QED
    BY <2>1, <2>2, <2>3
<1> HIDE DEF n, Sent
<1>10. Quiet' /\ Anchored' /\ Senders' /\ NamedObjects' /\ ServerView'
  BY <1>1 DEF Conforming, BInv, Quiet, Anchored, Senders, NamedObjects, ServerView
<1>11. Introductions'
  BY <1>1, <1>2 DEF Conforming, BInv, Introductions
<1>12. Deletions'
  <2> SUFFICES ASSUME NEW i \in DOMAIN events, events[i].type = "delete_id"
               PROVE  LET m == events[i].argID IN
                        /\ events[i].id = T!DisplayID
                        /\ m \in ObjectIDs /\ m \in DOMAIN objects \ DOMAIN resources
                        /\ objects[m] \notin unbound
                        /\ zombie'[objects[m]] \/ ~HasDestructor(objects[m])
                        /\ \A j \in DOMAIN requests' : requests'[j].id # m
    BY <1>1 DEF Deletions, HasDestructor
  <2>1. LET m == events[i].argID IN
          /\ events[i].id = T!DisplayID
          /\ m \in ObjectIDs /\ m \in DOMAIN objects \ DOMAIN resources
          /\ objects[m] \notin unbound
          /\ zombie[objects[m]] \/ ~HasDestructor(objects[m])
          /\ \A j \in DOMAIN requests : requests[j].id # m
    BY DEF Conforming, BInv, Deletions
  <2>2. Sent => events[i].argID # n
    BY <1>8 DEF About
  <2> QED
    BY <1>2, <1>4, <1>5, <1>6, <2>1, <2>2
<1>13. News'
  <2>1. \A i \in DOMAIN requests' : requests'[i].op = "new" =>
           i \in DOMAIN requests /\ requests'[i] = requests[i]
    BY <1>4, <1>5, <1>6
  <2> QED
    BY <1>1, <2>1 DEF Conforming, BInv, News
<1>14. Destructions'
  <2> SUFFICES ASSUME NEW i \in DOMAIN requests', requests'[i].op = "destroy"
               PROVE  LET m == requests'[i].id IN
                        /\ m \in DOMAIN objects /\ objects[m] = requests'[i].object
                        /\ objects[m] \notin unbound
                        /\ zombie'[objects[m]] /\ HasDestructor(objects[m])
                        /\ Refusable(m) \/ m \in DOMAIN resources
                             \/ \E j \in DOMAIN requests' :
                                   j < i /\ requests'[j].op = "new" /\ requests'[j].id = m
                        /\ \A j \in DOMAIN events :
                             events[j].type = "introduce" => events[j].argID # m
    BY <1>1 DEF Destructions, HasDestructor
  <2>1. CASE i \in DOMAIN requests
    <3>1. /\ requests[i].id \in DOMAIN objects /\ objects[requests[i].id] = requests[i].object
          /\ objects[requests[i].id] \notin unbound
          /\ zombie[objects[requests[i].id]] /\ HasDestructor(objects[requests[i].id])
          /\ Refusable(requests[i].id) \/ requests[i].id \in DOMAIN resources
               \/ \E j \in DOMAIN requests :
                     j < i /\ requests[j].op = "new" /\ requests[j].id = requests[i].id
          /\ \A j \in DOMAIN events :
               events[j].type = "introduce" => events[j].argID # requests[i].id
      BY <1>5, <2>1 DEF Conforming, BInv, Destructions
    <3> QED
      BY <1>2, <1>5, <2>1, <3>1
  <2>2. CASE Sent /\ requests'[i] = r /\ \A j \in DOMAIN requests : j < i
    <3>1. \/ Refusable(n) \/ n \in DOMAIN resources
          \/ \E j \in DOMAIN requests' :
                  j < i /\ requests'[j].op = "new" /\ requests'[j].id = n
      BY <1>5, <1>9, <2>2 DEF Announces
    <3>2. \A j \in DOMAIN events : events[j].type = "introduce" => events[j].argID # n
      BY <1>8, <2>2 DEF About
    <3>3. requests'[i].id = n /\ requests'[i].object = p
      BY <1>4, <2>2
    <3> QED
      BY <1>1, <1>2, <1>3, <2>2, <3>1, <3>2, <3>3 DEF Sent
  <2> QED
    BY <1>6, <2>1, <2>2
<1>15. OncePerID'
  <2>1. \A i, j \in DOMAIN requests' :
          (requests'[i].op = requests'[j].op /\ requests'[i].id = requests'[j].id) => i = j
    BY <1>4, <1>5, <1>6, <1>8 DEF Conforming, BInv, OncePerID
  <2> QED
    BY <1>1, <2>1 DEF Conforming, BInv, OncePerID
<1>16. Settled'
  BY <1>1, <1>2, <1>7 DEF Conforming, BInv, Settled
<1>17. Oversize \/ Order'
  <2> SUFFICES ASSUME ~Oversize PROVE Order'
    OBVIOUS
  <2>1. \A i \in DOMAIN requests' : requests'[i].op = "new" =>
           i \in DOMAIN requests /\ requests'[i] = requests[i]
    BY <1>4, <1>5, <1>6
  <2> QED
    BY <1>1, <1>7, <2>1 DEF Conforming, BInv, Order
<1> QED
  BY <1>10, <1>11, <1>12, <1>13, <1>14, <1>15, <1>16, <1>17 DEF BInv

-----------------------------------------------------------------------------
(* The server reads a request.                                             *)
LEMMA ReadRequest ==
    ASSUME Conforming, requests # << >>, requests' = Tail(requests)
    PROVE  /\ 1 \in DOMAIN requests /\ Head(requests) = requests[1] /\ requests[1] \in RequestMsg
           /\ requests[1].id \in T!IDs /\ requests[1].object \in Proxies
           /\ \A i \in DOMAIN requests' : /\ i \in Nat \ {0} /\ i + 1 \in DOMAIN requests
                                          /\ requests'[i] = requests[i + 1]
           /\ \A i \in DOMAIN requests : i \in Nat \ {0} /\
                (i = 1 \/ (i - 1 \in DOMAIN requests' /\ requests'[i - 1] = requests[i]))
           /\ \A m : m # requests[1].id => (Announces(requests, m) => Announces(requests', m))
<1>1. requests \in Seq(RequestMsg)
  BY DEF Conforming, AInv, Structure
<1>2. /\ 1 \in DOMAIN requests /\ Head(requests) = requests[1] /\ requests[1] \in RequestMsg
      /\ \A i \in DOMAIN requests' : /\ i \in Nat \ {0} /\ i + 1 \in DOMAIN requests
                                     /\ requests'[i] = requests[i + 1]
      /\ \A i \in DOMAIN requests : i \in Nat \ {0} /\
           (i = 1 \/ (i - 1 \in DOMAIN requests' /\ requests'[i - 1] = requests[i]))
  BY <1>1, TailFacts
<1>3. requests[1].id \in T!IDs /\ requests[1].object \in Proxies
  BY <1>2, RequestFacts
<1>4. ASSUME NEW m, m # requests[1].id, Announces(requests, m) PROVE Announces(requests', m)
  <2>1. PICK i \in DOMAIN requests : requests[i].op = "new" /\ requests[i].id = m
    BY <1>4 DEF Announces
  <2>2. i - 1 \in DOMAIN requests' /\ requests'[i - 1] = requests[i]
    BY <1>2, <1>4, <2>1
  <2> QED
    BY <2>1, <2>2 DEF Announces
<1> QED
  BY <1>2, <1>3, <1>4

(* The ID of a new object is free, and, without refusals, one the server   *)
(* has seen before or the next.                                            *)
LEMMA NewID ==
    ASSUME Conforming, 1 \in DOMAIN requests, requests[1].op = "new"
    PROVE  /\ requests[1].id \notin DOMAIN resources
           /\ Oversize \/ requests[1].id <= served + 1
<1> DEFINE n == requests[1].id
<1>1. /\ n \in DOMAIN objects \ DOMAIN resources
      /\ objects[n] = requests[1].object /\ objects[n] \notin unbound
  BY DEF Conforming, BInv, News
<1>2. n \in ObjectIDs
  <2>1. requests[1] \in RequestMsg
    BY DEF Conforming, AInv, Structure
  <2> QED
    BY <2>1, RequestFacts
<1>3. n \in Nat /\ n < FirstServerID /\ served \in Nat /\ currentID \in Nat
  <2>1. currentID \in T!ClientIDs /\ served \in T!ClientIDs
    BY DEF Conforming, AInv, TableInv, Structure, T!TypeOK
  <2> QED
    BY <1>2, <2>1, LifecycleAssumption DEF ObjectIDs, T!ClientIDs
<1>4. n <= currentID
  BY <1>1, <1>3 DEF Conforming, AInv, TableInv, T!CounterCoversClientIDs
<1>5. ASSUME n > served + 1, ~Oversize PROVE FALSE
  <2>1. served + 1 \in served + 1 .. currentID
    BY <1>3, <1>4, <1>5
  <2>2. served + 1 \in DOMAIN objects
          /\ (objects[served + 1] \in unbound \/ Announces(requests, served + 1))
    BY <1>5, <2>1 DEF Conforming, BInv, Order
  <2>3. CASE Announces(requests, served + 1)
    <3>1. PICK j \in DOMAIN requests : requests[j].op = "new" /\ requests[j].id = served + 1
      BY <2>3 DEF Announces
    <3>2. j \in Nat \ {0} /\ j # 1
      <4>1. requests \in Seq(RequestMsg)
        BY DEF Conforming, AInv, Structure
      <4>2. j \in Nat \ {0}
        BY <4>1
      <4>3. n # served + 1
        BY <1>3, <1>5
      <4> QED
        BY <3>1, <4>2, <4>3
    <3>3. 1 < j /\ n > served /\ requests[j].id > served
      BY <1>3, <1>5, <3>1, <3>2
    <3>4. n < requests[j].id
      BY <1>5, <3>1, <3>3 DEF Conforming, BInv, Order
    <3> QED
      BY <1>3, <1>5, <3>1, <3>4
  <2>4. CASE objects[served + 1] \in unbound
    <3>1. pid[objects[served + 1]] = served + 1
      BY <2>2 DEF Conforming, AInv, TableInv, T!IdentityAgrees
    <3>2. n > served /\ served + 1 > served
      BY <1>3, <1>5
    <3>3. n < pid[objects[served + 1]]
      BY <1>5, <2>4, <3>1, <3>2 DEF Conforming, BInv, Order
    <3> QED
      BY <1>3, <1>5, <3>1, <3>3
  <2> QED
    BY <2>2, <2>3, <2>4
<1> QED
  BY <1>1, <1>3, <1>5

LEMMA HandleNewBInv ==
    ASSUME Conforming, Handle, Head(requests).op = "new", ~rejected' PROVE BInv'
<1> DEFINE n == requests[1].id
<1>1. /\ requests # << >> /\ requests' = Tail(requests)
      /\ UNCHANGED <<table, fatal, kind, unbound>>
      /\ HandleNew(Head(requests))
  BY DEF Handle, HandleDestroy
<1>2. /\ 1 \in DOMAIN requests /\ Head(requests) = requests[1]
      /\ n \in T!IDs /\ requests[1].object \in Proxies
      /\ \A i \in DOMAIN requests' : /\ i \in Nat \ {0} /\ i + 1 \in DOMAIN requests
                                     /\ requests'[i] = requests[i + 1]
      /\ \A i \in DOMAIN requests : i \in Nat \ {0} /\
           (i = 1 \/ (i - 1 \in DOMAIN requests' /\ requests'[i - 1] = requests[i]))
      /\ \A m : m # n => (Announces(requests, m) => Announces(requests', m))
  BY <1>1, ReadRequest
<1>3. requests[1].op = "new" /\ n \notin DOMAIN resources /\ ~(n > served + 1)
  BY <1>1, <1>2 DEF HandleNew, Occupied, Reject
<1>4. /\ n \in DOMAIN objects /\ objects[n] = requests[1].object /\ objects[n] \notin unbound
      /\ n \in ObjectIDs /\ n \notin T!ServerIDs /\ n # T!DisplayID
  <2>1. requests[1] \in RequestMsg
    BY <1>2 DEF Conforming, AInv, Structure
  <2>2. n \in ObjectIDs
    BY <1>3, <2>1, RequestFacts
  <2> QED
    BY <1>2, <1>3, <2>2, IDFacts DEF Conforming, BInv, News
<1>5. n \in Nat /\ served \in Nat /\ currentID \in Nat
  BY <1>4, IDFacts DEF Conforming, AInv, Structure, TableInv, T!TypeOK
<1>6. /\ Install(n, objects[n])
      /\ served' = IF n > served THEN n ELSE served
      /\ events' = events /\ rejected' = rejected
  BY <1>1, <1>2, <1>3, <1>4 DEF HandleNew, Occupied
<1>7. /\ DOMAIN resources' = DOMAIN resources \cup {n} /\ resources'[n] = objects[n]
      /\ \A m \in DOMAIN resources : resources'[m] = resources[m]
  BY <1>3, <1>6 DEF Install
<1>8. /\ objects' = objects /\ zombie' = zombie /\ pid' = pid /\ currentID' = currentID
      /\ fatal' = fatal /\ kind' = kind /\ unbound' = unbound
  BY <1>1 DEF table
<1>9. \A j \in DOMAIN events : ~About(events[j], n)
  BY <1>2, <1>4 DEF Conforming, BInv, Introductions, Deletions, About
<1>10. served' \in Nat /\ served' >= served /\ n <= served'
  BY <1>3, <1>5, <1>6
<1>11. ASSUME NEW i \in DOMAIN requests', NEW j \in DOMAIN requests'
       PROVE  (i + 1 = j + 1 => i = j) /\ (i < j => i + 1 < j + 1)
  BY <1>2
<1> HIDE DEF n
<1>12. Quiet' /\ Anchored' /\ Senders' /\ NamedObjects'
  BY <1>6, <1>7, <1>8 DEF Conforming, BInv, Quiet, Anchored, Senders, NamedObjects
<1>13. ServerView'
  <2>1. Finds(events, objects, Len(events) + 1, n, objects[n])
    BY <1>4, <1>9 DEF Finds, Untouched
  <2> QED
    BY <1>4, <1>6, <1>7, <1>8, <2>1 DEF Conforming, BInv, ServerView
<1>14. Introductions'
  BY <1>6, <1>7, <1>8 DEF Conforming, BInv, Introductions
<1>15. Deletions'
  <2>1. \A i \in DOMAIN events : events[i].type = "delete_id" => events[i].argID # n
    BY <1>9 DEF About
  <2> QED
    BY <1>2, <1>6, <1>7, <1>8, <2>1 DEF Conforming, BInv, Deletions, HasDestructor
<1>16. \A i \in DOMAIN requests' : requests'[i].op = "new" => requests'[i].id # n
  <2> SUFFICES ASSUME NEW i \in DOMAIN requests', requests'[i].op = "new", requests'[i].id = n
               PROVE  FALSE
    OBVIOUS
  <2>1. i + 1 \in DOMAIN requests /\ requests[i + 1].op = requests[1].op
          /\ requests[i + 1].id = requests[1].id
    BY <1>2, <1>3 DEF n
  <2>2. i + 1 = 1
    BY <1>2, <2>1 DEF Conforming, BInv, OncePerID
  <2> QED
    BY <1>2, <2>2
<1>17. News'
  BY <1>2, <1>7, <1>8, <1>16 DEF Conforming, BInv, News
<1>18. Destructions'
  <2> SUFFICES ASSUME NEW i \in DOMAIN requests', requests'[i].op = "destroy"
               PROVE  LET m == requests'[i].id IN
                        /\ m \in DOMAIN objects /\ objects[m] = requests'[i].object
                        /\ objects[m] \notin unbound
                        /\ zombie[objects[m]] /\ HasDestructor(objects[m])
                        /\ Refusable(m) \/ m \in DOMAIN resources'
                             \/ \E j \in DOMAIN requests' :
                                   j < i /\ requests'[j].op = "new" /\ requests'[j].id = m
                        /\ \A j \in DOMAIN events :
                             events[j].type = "introduce" => events[j].argID # m
    BY <1>6, <1>8 DEF Destructions, HasDestructor
  <2> DEFINE m == requests'[i].id
  <2>1. i + 1 \in DOMAIN requests /\ requests'[i] = requests[i + 1] /\ i \in Nat
    BY <1>2
  <2>2. /\ m \in DOMAIN objects /\ objects[m] = requests'[i].object
        /\ objects[m] \notin unbound
        /\ zombie[objects[m]] /\ HasDestructor(objects[m])
        /\ Refusable(m) \/ m \in DOMAIN resources
             \/ \E j \in DOMAIN requests :
                   j < i + 1 /\ requests[j].op = "new" /\ requests[j].id = m
        /\ \A j \in DOMAIN events :
             events[j].type = "introduce" => events[j].argID # m
    BY <2>1 DEF Conforming, BInv, Destructions
  <2> HIDE DEF m
  <2>3. ASSUME NEW j \in DOMAIN requests, j < i + 1, requests[j].op = "new", requests[j].id = m
        PROVE  m \in DOMAIN resources'
                 \/ \E l \in DOMAIN requests' :
                       l < i /\ requests'[l].op = "new" /\ requests'[l].id = m
    <3>1. CASE j = 1
      BY <1>7, <2>3, <3>1 DEF n
    <3>2. CASE j # 1
      <4>1. j - 1 \in DOMAIN requests' /\ requests'[j - 1] = requests[j] /\ j \in Nat
        BY <1>2, <3>2
      <4>2. j - 1 < i
        BY <2>1, <2>3, <4>1
      <4> QED
        BY <2>3, <4>1, <4>2
    <3> QED
      BY <3>1, <3>2
  <2> QED
    BY <1>7, <2>2, <2>3 DEF m
<1>19. OncePerID'
  <2>1. \A i, j \in DOMAIN requests' :
          (requests'[i].op = requests'[j].op /\ requests'[i].id = requests'[j].id) => i = j
    BY <1>2, <1>11 DEF Conforming, BInv, OncePerID
  <2> QED
    BY <1>6, <2>1 DEF Conforming, BInv, OncePerID
<1>20. Settled'
  <2>1. \A m \in DOMAIN resources' : m >= FirstServerID => kind[resources'[m]] \in {"offer", "pad"}
    <3>1. ~(n >= FirstServerID)
      BY <1>2, <1>4, IDFacts DEF n
    <3> QED
      BY <1>7, <3>1 DEF Conforming, BInv, Settled
  <2>2. \A m \in DOMAIN objects :
         (m < FirstServerID /\ objects[m] \notin unbound)
            => m \in DOMAIN resources' \/ Announces(requests', m) \/ Acknowledges(events, m) \/ Oversize
    BY <1>2, <1>7 DEF Conforming, BInv, Settled, n
  <2>3. \A m \in DOMAIN objects :
         (m >= FirstServerID /\ ~zombie[objects[m]])
            => m \in DOMAIN resources' /\ resources'[m] = objects[m]
    BY <1>7 DEF Conforming, BInv, Settled
  <2>4. \A p \in unbound : pid[p] \in DOMAIN objects /\ objects[pid[p]] = p
    BY DEF Conforming, BInv, Settled
  <2> QED
    BY <1>6, <1>8, <2>1, <2>2, <2>3, <2>4 DEF Settled
<1>21. Oversize \/ Order'
  <2> SUFFICES ASSUME ~Oversize PROVE Order'
    OBVIOUS
  <2> DEFINE c == served'
  <2>0. c \in Nat /\ c >= served /\ n <= c /\ n \in Nat /\ served \in Nat /\ currentID \in Nat
    BY <1>5, <1>10
  <2> HIDE DEF c
  <2>1. ASSUME NEW m \in c + 1 .. currentID
        PROVE  m \in DOMAIN objects /\ (objects[m] \in unbound \/ Announces(requests', m))
    <3>1. m \in served + 1 .. currentID /\ m # n
      BY <2>0
    <3> QED
      BY <1>2, <3>1 DEF Conforming, BInv, Order, n
  <2>2. \A m \in Nat : m > served' => m > served
    BY <1>5, <1>10
  <2>3. \A i \in DOMAIN requests' : requests'[i].id \in Nat
    <3>1. \A i \in DOMAIN requests : requests[i] \in RequestMsg
      BY DEF Conforming, AInv, Structure
    <3> QED
      BY <1>2, <3>1, RequestFacts, IDFacts
  <2>4. \A q \in unbound : pid[q] \in Nat
    BY UnboundID, IDFacts
  <2>5. \A i \in DOMAIN requests', q \in unbound :
          (requests'[i].op = "new" /\ requests'[i].id > served' /\ pid[q] > served')
             => requests'[i].id < pid[q]
    BY <1>2, <2>2, <2>3, <2>4 DEF Conforming, BInv, Order
  <2>6. ASSUME NEW i \in DOMAIN requests', NEW j \in DOMAIN requests',
               requests'[i].op = "new", requests'[i].id > served',
               requests'[j].op = "new", requests'[j].id > served', i < j
        PROVE  requests'[i].id < requests'[j].id
    <3>1. /\ i + 1 \in DOMAIN requests /\ requests'[i] = requests[i + 1]
          /\ j + 1 \in DOMAIN requests /\ requests'[j] = requests[j + 1]
          /\ i + 1 < j + 1
      BY <1>2, <1>11, <2>6
    <3>2. requests'[i].id > served /\ requests'[j].id > served
      BY <2>2, <2>3, <2>6
    <3> QED
      BY <2>6, <3>1, <3>2 DEF Conforming, BInv, Order
  <2> QED
    BY <1>8, <2>1, <2>5, <2>6 DEF Order, c
<1> QED
  BY <1>12, <1>13, <1>14, <1>15, <1>17, <1>18, <1>19, <1>20, <1>21 DEF BInv

(* Events posted behind the others.                                        *)
LEMMA PostedEvents ==
    ASSUME Conforming, NEW es \in Seq(EventMsg), Post(es)
    PROVE  /\ events' \in Seq(EventMsg) /\ Len(events) \in Nat
           /\ \A i \in DOMAIN events : i \in DOMAIN events' /\ events'[i] = events[i] /\ i \in Nat
           /\ \A i \in DOMAIN events' :
                i \in DOMAIN events
                  \/ \E k \in DOMAIN es : k \in Nat \ {0} /\ i = Len(events) + k /\ events'[i] = es[k]
           /\ \A k \in DOMAIN es : Len(events) + k \in DOMAIN events' /\ events'[Len(events) + k] = es[k]
           /\ \A i, n, p : i \in DOMAIN events /\ Finds(events, objects, i, n, p)
                              => Finds(events', objects, i, n, p)
           /\ \A i, n, p :
                (/\ i \in DOMAIN events' \cup {Len(events') + 1} /\ i \notin DOMAIN events
                 /\ Finds(events, objects, Len(events) + 1, n, p)
                 /\ \A k \in DOMAIN es : ~About(es[k], n))
                    => Finds(events', objects, i, n, p)
           /\ \A n : Acknowledges(events, n) => Acknowledges(events', n)
<1>1. events \in Seq(EventMsg) /\ events' = events \o es
  BY DEF Conforming, AInv, Structure, Post
<1>2. /\ events' \in Seq(EventMsg)
      /\ Len(events) \in Nat /\ DOMAIN events = 1 .. Len(events)
      /\ Len(es) \in Nat /\ DOMAIN es = 1 .. Len(es)
      /\ Len(events') = Len(events) + Len(es)
      /\ DOMAIN events' = 1 .. Len(events) + Len(es)
      /\ \A i \in DOMAIN events : events'[i] = events[i]
      /\ \A k \in DOMAIN es : events'[Len(events) + k] = es[k]
  BY <1>1, ConcatFacts
<1>3. \A i \in DOMAIN events : i \in DOMAIN events' /\ events'[i] = events[i] /\ i \in Nat
  BY <1>2
<1>4. \A k \in DOMAIN es : Len(events) + k \in DOMAIN events' /\ events'[Len(events) + k] = es[k]
  BY <1>2
<1>5. ASSUME NEW i \in DOMAIN events', i \notin DOMAIN events
      PROVE  \E k \in DOMAIN es : k \in Nat \ {0} /\ i = Len(events) + k /\ events'[i] = es[k]
  <2>1. i - Len(events) \in DOMAIN es /\ i - Len(events) \in Nat \ {0}
          /\ i = Len(events) + (i - Len(events))
    BY <1>2, <1>5
  <2> QED
    BY <1>2, <2>1
<1>6. ASSUME NEW i \in DOMAIN events, NEW n, NEW p, Finds(events, objects, i, n, p)
      PROVE  Finds(events', objects, i, n, p)
  <2>1. \A j \in DOMAIN events' : j < i => j \in DOMAIN events /\ events'[j] = events[j]
    BY <1>2
  <2> QED
    BY <1>3, <1>6, <2>1, FindsKept
<1>7. ASSUME NEW i \in DOMAIN events' \cup {Len(events') + 1}, i \notin DOMAIN events,
             NEW n, NEW p, Finds(events, objects, Len(events) + 1, n, p),
             \A k \in DOMAIN es : ~About(es[k], n)
      PROVE  Finds(events', objects, i, n, p)
  <2>1. \A j \in DOMAIN events : j < i /\ j < Len(events) + 1
    BY <1>2, <1>7
  <2>2. \A j \in DOMAIN events' : j \in DOMAIN events \/ ~About(events'[j], n)
    BY <1>5, <1>7
  <2> QED
    BY <1>3, <1>7, <2>1, <2>2, FindsKept
<1>8. \A n : Acknowledges(events, n) => Acknowledges(events', n)
  BY <1>3 DEF Acknowledges
<1> QED
  BY <1>2, <1>3, <1>4, <1>5, <1>6, <1>7, <1>8

(* Nothing comes to the display's ID.                                      *)
LEMMA DisplayFound ==
    ASSUME Conforming PROVE Finds(events, objects, Len(events) + 1, T!DisplayID, Display)
<1>1. \A j \in DOMAIN events : ~About(events[j], T!DisplayID)
  BY IDFacts DEF Conforming, BInv, Introductions, Deletions, About
<1> QED
  BY <1>1 DEF Finds, Untouched, Conforming, BInv, Anchored

LEMMA HandleDestroyBInv ==
    ASSUME Conforming, Handle, Head(requests).op = "destroy", ~rejected' PROVE BInv'
<1> DEFINE n == requests[1].id
<1> DEFINE x == DeleteIDEvent(n)
<1> DEFINE Client == n < FirstServerID
<1> DEFINE es == IF Client THEN <<x>> ELSE << >>
<1> DEFINE L == Len(events)
<1>1. /\ requests # << >> /\ requests' = Tail(requests)
      /\ UNCHANGED <<table, fatal, kind, unbound>>
      /\ HandleDestroy(Head(requests))
  BY DEF Handle, HandleNew
<1>2. /\ 1 \in DOMAIN requests /\ Head(requests) = requests[1]
      /\ n \in T!IDs /\ requests[1].object \in Proxies
      /\ \A i \in DOMAIN requests' : /\ i \in Nat \ {0} /\ i + 1 \in DOMAIN requests
                                     /\ requests'[i] = requests[i + 1]
      /\ \A i \in DOMAIN requests : i \in Nat \ {0} /\
           (i = 1 \/ (i - 1 \in DOMAIN requests' /\ requests'[i - 1] = requests[i]))
      /\ \A m : m # n => (Announces(requests, m) => Announces(requests', m))
  BY <1>1, ReadRequest
<1>3. /\ n \in DOMAIN objects /\ objects[n] \notin unbound
      /\ zombie[objects[n]] /\ HasDestructor(objects[n])
      /\ n \in DOMAIN resources
      /\ \A j \in DOMAIN events : events[j].type = "introduce" => events[j].argID # n
  <2>1. n \in DOMAIN resources
    BY <1>1, <1>2 DEF HandleDestroy, Occupied, Reject
  <2> QED
    BY <1>1, <1>2, <2>1 DEF Conforming, BInv, Destructions
<1>4. n # T!DisplayID /\ (Client => n \in ObjectIDs)
  BY <1>2, <1>3, IDFacts DEF Conforming, BInv, Anchored, HasDestructor
<1>5. /\ Remove(n) /\ Post(es)
      /\ served' = served /\ rejected' = rejected
  BY <1>1, <1>2, <1>3 DEF HandleDestroy, Occupied
<1>6. DOMAIN resources' = DOMAIN resources \ {n}
      /\ \A m \in DOMAIN resources' : resources'[m] = resources[m]
  BY <1>5 DEF Remove
<1>7. /\ objects' = objects /\ zombie' = zombie /\ pid' = pid /\ currentID' = currentID
      /\ fatal' = fatal /\ kind' = kind /\ unbound' = unbound
  BY <1>1 DEF table
<1>8. /\ x \in EventMsg /\ x.type = "delete_id" /\ x.id = T!DisplayID
      /\ x.object = Display /\ x.argID = n
  BY <1>2, EventsMade
<1> HIDE DEF x
<1>9. /\ es \in Seq(EventMsg) /\ \A k \in DOMAIN es : Client /\ k = 1 /\ es[k] = x
      /\ Client => 1 \in DOMAIN es
  BY <1>8, OneTwo
<1>10. /\ \A i \in DOMAIN events : i \in DOMAIN events' /\ events'[i] = events[i]
       /\ \A i \in DOMAIN events' :
            i \in DOMAIN events \/ (Client /\ i = L + 1 /\ events'[i] = x /\ i \notin DOMAIN events)
       /\ Client => L + 1 \in DOMAIN events' /\ events'[L + 1] = x
       /\ L \in Nat
  <2>1. L + 1 \notin DOMAIN events /\ L \in Nat
    BY DEF Conforming, AInv, Structure
  <2>2. /\ \A i \in DOMAIN events : i \in DOMAIN events' /\ events'[i] = events[i]
        /\ \A i \in DOMAIN events' :
             i \in DOMAIN events
               \/ \E k \in DOMAIN es : k \in Nat \ {0} /\ i = Len(events) + k /\ events'[i] = es[k]
        /\ \A k \in DOMAIN es : Len(events) + k \in DOMAIN events' /\ events'[Len(events) + k] = es[k]
    BY <1>5, <1>9, PostedEvents
  <2>3. Client => 1 \in DOMAIN es /\ es[1] = x
    BY <1>9
  <2> HIDE DEF es, Client
  <2> QED
    BY <1>9, <2>1, <2>2, <2>3
<1>11. /\ \A i, m, p : i \in DOMAIN events /\ Finds(events, objects, i, m, p)
                          => Finds(events', objects, i, m, p)
       /\ \A i, m, p :
            (/\ i \in DOMAIN events' \cup {Len(events') + 1} /\ i \notin DOMAIN events
             /\ Finds(events, objects, Len(events) + 1, m, p)
             /\ \A k \in DOMAIN es : ~About(es[k], m))
                => Finds(events', objects, i, m, p)
       /\ \A m : Acknowledges(events, m) => Acknowledges(events', m)
  BY <1>5, <1>9, PostedEvents
<1>12. \A m : m # n => \A k \in DOMAIN es : ~About(es[k], m)
  BY <1>8, <1>9 DEF About
<1>13. \A i \in DOMAIN requests' : requests'[i].id # n
  <2> SUFFICES ASSUME NEW i \in DOMAIN requests', requests'[i].id = n PROVE FALSE
    OBVIOUS
  <2>1. i + 1 \in DOMAIN requests /\ requests[i + 1].id = n /\ i \in Nat \ {0}
    BY <1>2
  <2>2. requests[i + 1].op # "new"
    BY <1>3, <2>1 DEF Conforming, BInv, News
  <2>3. requests[i + 1].op = "destroy"
    <3>1. requests[i + 1] \in RequestMsg
      BY <2>1 DEF Conforming, AInv, Structure
    <3> QED
      BY <2>2, <3>1, RequestFacts
  <2>4. i + 1 = 1
    BY <1>1, <1>2, <2>1, <2>3 DEF Conforming, BInv, OncePerID
  <2> QED
    BY <2>1, <2>4
<1>14. \A i \in DOMAIN events : ~(events[i].type = "delete_id" /\ events[i].argID = n)
  BY <1>3 DEF Conforming, BInv, Deletions
<1>15. \A i, j \in DOMAIN requests' : (i + 1 = j + 1 => i = j) /\ (i < j => i + 1 < j + 1)
  BY <1>2
<1>16. Len(events') + 1 \notin DOMAIN events
  <2>1. events' \in Seq(EventMsg)
    BY <1>5, <1>9, PostedEvents
  <2>2. Len(events') + 1 \notin DOMAIN events'
    BY <2>1
  <2> QED
    BY <1>10, <2>2
<1> HIDE DEF n, es, Client, L
<1>17. Quiet' /\ Anchored'
  <2>1. \A i \in DOMAIN events' :
          events'[i].type = "error" => i \in DOMAIN events /\ events'[i] = events[i]
    BY <1>8, <1>10
  <2> QED
    BY <1>4, <1>5, <1>6, <1>7, <2>1 DEF Conforming, BInv, Quiet, Anchored
<1>18. Senders'
  <2> SUFFICES ASSUME NEW i \in DOMAIN events'
               PROVE  Finds(events', objects, i, events'[i].id, events'[i].object)
    BY <1>7 DEF Senders
  <2>1. CASE i \in DOMAIN events
    BY <1>10, <1>11, <2>1 DEF Conforming, BInv, Senders
  <2>2. CASE events'[i] = x /\ i \notin DOMAIN events
    BY <1>4, <1>8, <1>11, <1>12, <2>2, DisplayFound
  <2> QED
    BY <1>10, <2>1, <2>2
<1>19. NamedObjects'
  BY <1>7, <1>8, <1>10, <1>11 DEF Conforming, BInv, NamedObjects
<1>20. ServerView'
  BY <1>6, <1>7, <1>11, <1>12, <1>16 DEF Conforming, BInv, ServerView
<1>21. Introductions'
  BY <1>3, <1>6, <1>7, <1>8, <1>10 DEF Conforming, BInv, Introductions
<1>22. Deletions'
  <2> SUFFICES ASSUME NEW i \in DOMAIN events', events'[i].type = "delete_id"
               PROVE  LET m == events'[i].argID IN
                        /\ events'[i].id = T!DisplayID
                        /\ m \in ObjectIDs /\ m \in DOMAIN objects \ DOMAIN resources'
                        /\ objects[m] \notin unbound
                        /\ zombie[objects[m]] \/ ~HasDestructor(objects[m])
                        /\ \A j \in DOMAIN requests' : requests'[j].id # m
    BY <1>7 DEF Deletions, HasDestructor
  <2>1. CASE i \in DOMAIN events
    <3>1. events[i].type = "delete_id" /\ events'[i] = events[i]
      BY <1>10, <2>1
    <3>2. LET m == events[i].argID IN
            /\ events[i].id = T!DisplayID
            /\ m \in ObjectIDs /\ m \in DOMAIN objects \ DOMAIN resources
            /\ objects[m] \notin unbound
            /\ zombie[objects[m]] \/ ~HasDestructor(objects[m])
            /\ \A j \in DOMAIN requests : requests[j].id # m
      BY <2>1, <3>1 DEF Conforming, BInv, Deletions
    <3> QED
      BY <1>2, <1>6, <3>1, <3>2
  <2>2. CASE events'[i] = x /\ Client
    BY <1>3, <1>4, <1>6, <1>8, <1>13, <2>2
  <2> QED
    BY <1>10, <2>1, <2>2
<1>23. News'
  BY <1>2, <1>6, <1>7 DEF Conforming, BInv, News
<1>24. Destructions'
  <2> SUFFICES ASSUME NEW i \in DOMAIN requests', requests'[i].op = "destroy"
               PROVE  LET m == requests'[i].id IN
                        /\ m \in DOMAIN objects /\ objects[m] = requests'[i].object
                        /\ objects[m] \notin unbound
                        /\ zombie[objects[m]] /\ HasDestructor(objects[m])
                        /\ Refusable(m) \/ m \in DOMAIN resources'
                             \/ \E j \in DOMAIN requests' :
                                   j < i /\ requests'[j].op = "new" /\ requests'[j].id = m
                        /\ \A j \in DOMAIN events' :
                             events'[j].type = "introduce" => events'[j].argID # m
    BY <1>7 DEF Destructions, HasDestructor
  <2> DEFINE m == requests'[i].id
  <2>1. i + 1 \in DOMAIN requests /\ requests'[i] = requests[i + 1] /\ i \in Nat
    BY <1>2
  <2>2. /\ m \in DOMAIN objects /\ objects[m] = requests'[i].object
        /\ objects[m] \notin unbound
        /\ zombie[objects[m]] /\ HasDestructor(objects[m])
        /\ Refusable(m) \/ m \in DOMAIN resources
             \/ \E j \in DOMAIN requests :
                   j < i + 1 /\ requests[j].op = "new" /\ requests[j].id = m
        /\ \A j \in DOMAIN events :
             events[j].type = "introduce" => events[j].argID # m
    BY <2>1 DEF Conforming, BInv, Destructions
  <2>3. m # n
    BY <1>13
  <2> HIDE DEF m
  <2>4. ASSUME NEW j \in DOMAIN requests, j < i + 1, requests[j].op = "new", requests[j].id = m
        PROVE  \E l \in DOMAIN requests' :
                       l < i /\ requests'[l].op = "new" /\ requests'[l].id = m
    <3>1. j # 1
      BY <2>3, <2>4 DEF n
    <3>2. j - 1 \in DOMAIN requests' /\ requests'[j - 1] = requests[j] /\ j \in Nat
      BY <1>2, <3>1
    <3>3. j - 1 < i
      BY <2>1, <2>4, <3>2
    <3> QED
      BY <2>4, <3>2, <3>3
  <2>5. \A j \in DOMAIN events' : events'[j].type = "introduce" => events'[j].argID # m
    BY <1>8, <1>10, <2>2
  <2> QED
    BY <1>6, <2>2, <2>3, <2>4, <2>5 DEF m
<1>25. OncePerID'
  <2>1. \A i, j \in DOMAIN requests' :
          (requests'[i].op = requests'[j].op /\ requests'[i].id = requests'[j].id) => i = j
    BY <1>2, <1>15 DEF Conforming, BInv, OncePerID
  <2>2. \A i, j \in DOMAIN events' :
         (/\ events'[i].type = events'[j].type
          /\ events'[i].type \in {"introduce", "delete_id"}
          /\ events'[i].argID = events'[j].argID) => i = j
    BY <1>8, <1>10, <1>14 DEF Conforming, BInv, OncePerID
  <2> QED
    BY <2>1, <2>2 DEF OncePerID
<1>26. Settled'
  <2>1. \A p \in unbound : pid[p] \in DOMAIN objects /\ objects[pid[p]] = p
    BY DEF Conforming, BInv, Settled
  <2>2. Client => Acknowledges(events', n)
    BY <1>8, <1>10 DEF Acknowledges
  <2>3. \A m \in DOMAIN objects :
         (m < FirstServerID /\ objects[m] \notin unbound)
            => m \in DOMAIN resources' \/ Announces(requests', m) \/ Acknowledges(events', m) \/ Oversize
    BY <1>2, <1>6, <1>11, <2>2 DEF Conforming, BInv, Settled, n, Client
  <2>4. \A m \in DOMAIN objects :
         (m >= FirstServerID /\ ~zombie[objects[m]])
            => m \in DOMAIN resources' /\ resources'[m] = objects[m]
    BY <1>3, <1>6 DEF Conforming, BInv, Settled
  <2>5. \A m \in DOMAIN resources' : m >= FirstServerID => kind[resources'[m]] \in {"offer", "pad"}
    BY <1>6 DEF Conforming, BInv, Settled
  <2> QED
    BY <1>7, <2>1, <2>3, <2>4, <2>5 DEF Settled
<1>27. Oversize \/ Order'
  <2> SUFFICES ASSUME ~Oversize PROVE Order'
    OBVIOUS
  <2>1. ASSUME NEW m \in served + 1 .. currentID
        PROVE  m \in DOMAIN objects /\ (objects[m] \in unbound \/ Announces(requests', m))
    <3>1. m \in DOMAIN objects /\ (objects[m] \in unbound \/ Announces(requests, m))
      BY DEF Conforming, BInv, Order
    <3>2. ~Announces(requests, n)
      BY <1>3 DEF Announces, Conforming, BInv, News
    <3> QED
      BY <1>2, <3>1, <3>2 DEF n
  <2>2. \A i \in DOMAIN requests', q \in unbound :
          (requests'[i].op = "new" /\ requests'[i].id > served /\ pid[q] > served)
             => requests'[i].id < pid[q]
    BY <1>2 DEF Conforming, BInv, Order
  <2>3. \A i, j \in DOMAIN requests' :
          (/\ requests'[i].op = "new" /\ requests'[i].id > served
           /\ requests'[j].op = "new" /\ requests'[j].id > served /\ i < j)
             => requests'[i].id < requests'[j].id
    BY <1>2, <1>15 DEF Conforming, BInv, Order
  <2> QED
    BY <1>5, <1>7, <2>1, <2>2, <2>3 DEF Order
<1> QED
  BY <1>17, <1>18, <1>19, <1>20, <1>21, <1>22, <1>23, <1>24, <1>25, <1>26, <1>27 DEF BInv

(* A callback is done and its ID goes back.                                *)
LEMMA FinishCallbackBInv ==
    ASSUME Conforming, NEW n \in DOMAIN resources, FinishCallback(n) PROVE BInv'
<1> DEFINE d == Event("done", n, resources[n], NoID, Display)
<1> DEFINE x == DeleteIDEvent(n)
<1> DEFINE es == <<d, x>>
<1> DEFINE L == Len(events)
<1>1. /\ objects' = objects /\ zombie' = zombie /\ pid' = pid /\ currentID' = currentID
      /\ fatal' = fatal /\ kind' = kind /\ unbound' = unbound /\ requests' = requests
      /\ served' = served /\ rejected' = rejected
      /\ Remove(n) /\ Post(es) /\ kind[resources[n]] = "callback"
  BY DEF FinishCallback, table
<1>2. n \in T!IDs /\ resources[n] \in Proxies /\ Display \in Proxies
  BY LifecycleAssumption DEF Conforming, AInv, Structure
<1>3. n \in ObjectIDs /\ n \notin T!ServerIDs /\ n # T!DisplayID
  <2>1. ~(n >= FirstServerID)
    BY <1>1 DEF Conforming, BInv, Settled
  <2>2. n # T!DisplayID
    BY <1>1 DEF Conforming, BInv, Anchored
  <2> QED
    BY <1>2, <2>1, <2>2, IDFacts
<1>4. /\ n \in DOMAIN objects /\ objects[n] = resources[n] /\ objects[n] \notin unbound
      /\ \A j \in DOMAIN events : ~About(events[j], n)
      /\ ~HasDestructor(objects[n])
  BY <1>1, <1>3, ClientResource DEF Conforming, BInv, ServerView, HasDestructor
<1>5. \A i \in DOMAIN requests : requests[i].id # n
  <2>1. \A i \in DOMAIN requests : requests[i].op \in {"new", "destroy"}
    <3>1. \A i \in DOMAIN requests : requests[i] \in RequestMsg
      BY DEF Conforming, AInv, Structure
    <3> QED
      BY <3>1, RequestFacts
  <2> QED
    BY <1>4, <2>1 DEF Conforming, BInv, News, Destructions
<1>6. DOMAIN resources' = DOMAIN resources \ {n}
      /\ \A m \in DOMAIN resources' : resources'[m] = resources[m]
  BY <1>1 DEF Remove
<1>7. /\ d \in EventMsg /\ d.type = "done" /\ d.id = n /\ d.object = objects[n]
      /\ x \in EventMsg /\ x.type = "delete_id" /\ x.id = T!DisplayID
      /\ x.object = Display /\ x.argID = n
  BY <1>2, <1>4, EventsMade
<1> HIDE DEF d, x
<1>8. /\ es \in Seq(EventMsg) /\ DOMAIN es = 1 .. 2 /\ es[1] = d /\ es[2] = x
      /\ \A k \in DOMAIN es : (k = 1 /\ es[k] = d) \/ (k = 2 /\ es[k] = x)
  BY <1>7, OneTwo
<1> HIDE DEF es
<1>9. /\ \A i \in DOMAIN events : i \in DOMAIN events' /\ events'[i] = events[i]
      /\ \A i \in DOMAIN events' :
           \/ i \in DOMAIN events
           \/ i \notin DOMAIN events /\ i = L + 1 /\ events'[i] = d
           \/ i \notin DOMAIN events /\ i = L + 2 /\ events'[i] = x
      /\ L + 2 \in DOMAIN events' /\ events'[L + 2] = x
      /\ \A i \in DOMAIN events' : i < L + 1 => i \in DOMAIN events
  <2>1. /\ \A i \in DOMAIN events : i \in DOMAIN events' /\ events'[i] = events[i]
        /\ \A i \in DOMAIN events' :
             i \in DOMAIN events
               \/ \E k \in DOMAIN es : k \in Nat \ {0} /\ i = Len(events) + k /\ events'[i] = es[k]
        /\ \A k \in DOMAIN es : Len(events) + k \in DOMAIN events' /\ events'[Len(events) + k] = es[k]
    BY <1>1, <1>8, PostedEvents
  <2>2. L \in Nat /\ L + 1 \notin DOMAIN events /\ L + 2 \notin DOMAIN events
    BY DEF Conforming, AInv, Structure
  <2>3. 1 \in DOMAIN es /\ 2 \in DOMAIN es
    BY <1>8
  <2>4. \A k \in Nat \ {0} : ~(L + k < L + 1)
    BY <2>2
  <2> QED
    BY <1>8, <2>1, <2>2, <2>3, <2>4
<1>10. /\ \A i, m, p : i \in DOMAIN events /\ Finds(events, objects, i, m, p)
                          => Finds(events', objects, i, m, p)
       /\ \A i, m, p :
            (/\ i \in DOMAIN events' \cup {Len(events') + 1} /\ i \notin DOMAIN events
             /\ Finds(events, objects, Len(events) + 1, m, p)
             /\ \A k \in DOMAIN es : ~About(es[k], m))
                => Finds(events', objects, i, m, p)
       /\ \A m : Acknowledges(events, m) => Acknowledges(events', m)
  BY <1>1, <1>8, PostedEvents
<1>11. \A m : m # n => \A k \in DOMAIN es : ~About(es[k], m)
  BY <1>7, <1>8 DEF About
<1>12. Len(events') + 1 \notin DOMAIN events
  <2>1. events' \in Seq(EventMsg)
    BY <1>1, <1>8, PostedEvents
  <2>2. Len(events') + 1 \notin DOMAIN events'
    BY <2>1
  <2> QED
    BY <1>9, <2>2
<1> HIDE DEF L
<1>13. Quiet' /\ Anchored'
  <2>1. \A i \in DOMAIN events' :
          events'[i].type = "error" => i \in DOMAIN events /\ events'[i] = events[i]
    BY <1>7, <1>9
  <2> QED
    BY <1>1, <1>3, <1>6, <2>1 DEF Conforming, BInv, Quiet, Anchored
<1>14. Senders'
  <2> SUFFICES ASSUME NEW i \in DOMAIN events'
               PROVE  Finds(events', objects, i, events'[i].id, events'[i].object)
    BY <1>1 DEF Senders
  <2>1. CASE i \in DOMAIN events
    BY <1>9, <1>10, <2>1 DEF Conforming, BInv, Senders
  <2>2. CASE events'[i] = x /\ i \notin DOMAIN events
    BY <1>3, <1>7, <1>10, <1>11, <2>2, DisplayFound
  <2>3. CASE events'[i] = d /\ i = L + 1
    <3>1. Untouched(events', i, n)
      BY <1>4, <1>9, <2>3 DEF Untouched
    <3> QED
      BY <1>4, <1>7, <2>3, <3>1 DEF Finds
  <2> QED
    BY <1>9, <2>1, <2>2, <2>3
<1>15. NamedObjects'
  BY <1>1, <1>7, <1>9, <1>10 DEF Conforming, BInv, NamedObjects
<1>16. ServerView'
  BY <1>1, <1>6, <1>10, <1>11, <1>12 DEF Conforming, BInv, ServerView
<1>17. Introductions'
  BY <1>1, <1>3, <1>6, <1>7, <1>9 DEF Conforming, BInv, Introductions
<1>18. Deletions'
  <2> SUFFICES ASSUME NEW i \in DOMAIN events', events'[i].type = "delete_id"
               PROVE  LET m == events'[i].argID IN
                        /\ events'[i].id = T!DisplayID
                        /\ m \in ObjectIDs /\ m \in DOMAIN objects \ DOMAIN resources'
                        /\ objects[m] \notin unbound
                        /\ zombie[objects[m]] \/ ~HasDestructor(objects[m])
                        /\ \A j \in DOMAIN requests : requests[j].id # m
    BY <1>1 DEF Deletions, HasDestructor
  <2>1. CASE i \in DOMAIN events
    <3>1. events[i].type = "delete_id" /\ events'[i] = events[i]
      BY <1>9, <2>1
    <3>2. LET m == events[i].argID IN
            /\ events[i].id = T!DisplayID
            /\ m \in ObjectIDs /\ m \in DOMAIN objects \ DOMAIN resources
            /\ objects[m] \notin unbound
            /\ zombie[objects[m]] \/ ~HasDestructor(objects[m])
            /\ \A j \in DOMAIN requests : requests[j].id # m
      BY <2>1, <3>1 DEF Conforming, BInv, Deletions
    <3> QED
      BY <1>6, <3>1, <3>2
  <2>2. CASE events'[i] = x
    BY <1>3, <1>4, <1>5, <1>6, <1>7, <2>2
  <2> QED
    BY <1>7, <1>9, <2>1, <2>2
<1>19. News'
  BY <1>1, <1>6 DEF Conforming, BInv, News
<1>20. Destructions'
  <2> SUFFICES ASSUME NEW i \in DOMAIN requests, requests[i].op = "destroy"
               PROVE  LET m == requests[i].id IN
                        /\ m \in DOMAIN objects /\ objects[m] = requests[i].object
                        /\ objects[m] \notin unbound
                        /\ zombie[objects[m]] /\ HasDestructor(objects[m])
                        /\ Refusable(m) \/ m \in DOMAIN resources'
                             \/ \E j \in DOMAIN requests :
                                   j < i /\ requests[j].op = "new" /\ requests[j].id = m
                        /\ \A j \in DOMAIN events' :
                             events'[j].type = "introduce" => events'[j].argID # m
    BY <1>1 DEF Destructions, HasDestructor
  <2>1. /\ requests[i].id \in DOMAIN objects /\ objects[requests[i].id] = requests[i].object
        /\ objects[requests[i].id] \notin unbound
        /\ zombie[objects[requests[i].id]] /\ HasDestructor(objects[requests[i].id])
        /\ Refusable(requests[i].id) \/ requests[i].id \in DOMAIN resources
             \/ \E j \in DOMAIN requests :
                   j < i /\ requests[j].op = "new" /\ requests[j].id = requests[i].id
        /\ \A j \in DOMAIN events :
             events[j].type = "introduce" => events[j].argID # requests[i].id
    BY DEF Conforming, BInv, Destructions
  <2>2. \A j \in DOMAIN events' : events'[j].type = "introduce" => events'[j].argID # requests[i].id
    BY <1>7, <1>9, <2>1
  <2> QED
    BY <1>5, <1>6, <2>1, <2>2
<1>21. OncePerID'
  <2>1. \A i \in DOMAIN events : ~(events[i].type = "delete_id" /\ events[i].argID = n)
    BY <1>4 DEF About
  <2>2. \A i, j \in DOMAIN events' :
         (/\ events'[i].type = events'[j].type
          /\ events'[i].type \in {"introduce", "delete_id"}
          /\ events'[i].argID = events'[j].argID) => i = j
    BY <1>7, <1>9, <2>1 DEF Conforming, BInv, OncePerID
  <2> QED
    BY <1>1, <2>2 DEF Conforming, BInv, OncePerID
<1>22. Settled'
  <2>1. \A p \in unbound : pid[p] \in DOMAIN objects /\ objects[pid[p]] = p
    BY DEF Conforming, BInv, Settled
  <2>2. Acknowledges(events', n)
    BY <1>7, <1>9 DEF Acknowledges
  <2>3. \A m \in DOMAIN objects :
         (m < FirstServerID /\ objects[m] \notin unbound)
            => m \in DOMAIN resources' \/ Announces(requests, m) \/ Acknowledges(events', m) \/ Oversize
    BY <1>6, <1>10, <2>2 DEF Conforming, BInv, Settled
  <2>4. \A m \in DOMAIN objects :
         (m >= FirstServerID /\ ~zombie[objects[m]])
            => m \in DOMAIN resources' /\ resources'[m] = objects[m]
    <3>1. ~(n >= FirstServerID)
      BY <1>2, <1>3, IDFacts
    <3> QED
      BY <1>6, <3>1 DEF Conforming, BInv, Settled
  <2>5. \A m \in DOMAIN resources' : m >= FirstServerID => kind[resources'[m]] \in {"offer", "pad"}
    BY <1>6 DEF Conforming, BInv, Settled
  <2> QED
    BY <1>1, <2>1, <2>3, <2>4, <2>5 DEF Settled
<1>23. Oversize \/ Order'
  BY <1>1 DEF Conforming, BInv, Order
<1> QED
  BY <1>13, <1>14, <1>15, <1>16, <1>17, <1>18, <1>19, <1>20, <1>21, <1>22, <1>23 DEF BInv

(* One more event behind the others.                                       *)
LEMMA PostedOne ==
    ASSUME Conforming, NEW x \in EventMsg, Post(<<x>>)
    PROVE  /\ \A i \in DOMAIN events : i \in DOMAIN events' /\ events'[i] = events[i]
           /\ \A i \in DOMAIN events' :
                i \in DOMAIN events
                  \/ (i \notin DOMAIN events /\ i = Len(events) + 1 /\ events'[i] = x)
           /\ Len(events) + 1 \in DOMAIN events' /\ events'[Len(events) + 1] = x
           /\ Len(events) + 1 < Len(events') + 1
           /\ Len(events') + 1 \notin DOMAIN events
           /\ \A i, n, p : i \in DOMAIN events /\ Finds(events, objects, i, n, p)
                              => Finds(events', objects, i, n, p)
           /\ \A n, p : Finds(events, objects, Len(events) + 1, n, p)
                           => Finds(events', objects, Len(events) + 1, n, p)
           /\ \A n, p : Finds(events, objects, Len(events) + 1, n, p) /\ ~About(x, n)
                           => Finds(events', objects, Len(events') + 1, n, p)
           /\ \A n : Acknowledges(events, n) => Acknowledges(events', n)
<1> DEFINE es == <<x>>
<1> DEFINE L == Len(events)
<1>1. es \in Seq(EventMsg) /\ DOMAIN es = 1 .. 1 /\ es[1] = x
  BY OneTwo
<1>2. /\ 1 \in DOMAIN es /\ \A k \in DOMAIN es : k = 1 /\ es[k] = x
  BY <1>1
<1>3. events \in Seq(EventMsg) /\ events' = events \o es
  BY DEF Post, Conforming, AInv, Structure
<1>4. /\ L \in Nat /\ L + 1 \notin DOMAIN events /\ Len(events') = L + 1
      /\ Len(events') + 1 \notin DOMAIN events
      /\ \A j \in DOMAIN events' : j < L + 1 => j \in DOMAIN events
      /\ \A j \in DOMAIN events : j < L + 1
  BY <1>1, <1>3, ConcatFacts
<1> HIDE DEF es
<1>5. /\ \A i \in DOMAIN events : i \in DOMAIN events' /\ events'[i] = events[i]
      /\ \A i \in DOMAIN events' :
           i \in DOMAIN events
             \/ \E k \in DOMAIN es : k \in Nat \ {0} /\ i = Len(events) + k /\ events'[i] = es[k]
      /\ \A k \in DOMAIN es : Len(events) + k \in DOMAIN events' /\ events'[Len(events) + k] = es[k]
      /\ \A i, n, p : i \in DOMAIN events /\ Finds(events, objects, i, n, p)
                         => Finds(events', objects, i, n, p)
      /\ \A i, n, p :
           (/\ i \in DOMAIN events' \cup {Len(events') + 1} /\ i \notin DOMAIN events
            /\ Finds(events, objects, Len(events) + 1, n, p)
            /\ \A k \in DOMAIN es : ~About(es[k], n))
               => Finds(events', objects, i, n, p)
      /\ \A n : Acknowledges(events, n) => Acknowledges(events', n)
  BY <1>1, PostedEvents DEF es
<1>6. \A i \in DOMAIN events' :
         i \in DOMAIN events
           \/ (i \notin DOMAIN events /\ i = Len(events) + 1 /\ events'[i] = x)
  BY <1>2, <1>4, <1>5
<1>7. Len(events) + 1 \in DOMAIN events' /\ events'[Len(events) + 1] = x
  BY <1>2, <1>5
<1>8. ASSUME NEW n, NEW p, Finds(events, objects, L + 1, n, p)
      PROVE  Finds(events', objects, L + 1, n, p)
  BY <1>4, <1>5, <1>8, FindsKept
<1>9. ASSUME NEW n, NEW p, Finds(events, objects, L + 1, n, p), ~About(x, n)
      PROVE  Finds(events', objects, Len(events') + 1, n, p)
  BY <1>2, <1>4, <1>5, <1>9
<1>10. L + 1 < Len(events') + 1
  BY <1>4
<1> QED
  BY <1>4, <1>5, <1>6, <1>7, <1>8, <1>9, <1>10

(* The server refuses a request: only what a refused constructor did not   *)
(* announce can be the reason.                                             *)
LEMMA RejectBInv ==
    ASSUME Conforming, Handle, rejected' PROVE BInv'
<1> DEFINE n == requests[1].id
<1> DEFINE x == Event("error", T!DisplayID, Display, NoID, Display)
<1>1. /\ requests # << >> /\ requests' = Tail(requests) /\ ~rejected
      /\ UNCHANGED <<table, fatal, kind, unbound>>
      /\ HandleNew(Head(requests)) \/ HandleDestroy(Head(requests))
  BY DEF Handle, Conforming, AInv, Structure
<1>2. /\ 1 \in DOMAIN requests /\ Head(requests) = requests[1]
      /\ requests[1] \in RequestMsg
      /\ \A i \in DOMAIN requests' : /\ i \in Nat \ {0} /\ i + 1 \in DOMAIN requests
                                     /\ requests'[i] = requests[i + 1]
      /\ \A i \in DOMAIN requests : i \in Nat \ {0} /\
           (i = 1 \/ (i - 1 \in DOMAIN requests' /\ requests'[i - 1] = requests[i]))
  BY <1>1, ReadRequest
<1>3. \/ requests[1].op = "new" /\ (n \in DOMAIN resources \/ n > served + 1) /\ Reject
      \/ requests[1].op = "destroy" /\ n \notin DOMAIN resources /\ Reject
  BY <1>1, <1>2 DEF HandleNew, HandleDestroy, Occupied
<1>4. Oversize /\ (requests[1].op = "new" => n < FirstServerID)
  <2>1. CASE requests[1].op = "new"
    <3>1. Oversize \/ n <= served + 1
      BY <1>2, <2>1, NewID
    <3>2. n \notin DOMAIN resources
      BY <1>2, <2>1, NewID
    <3>3. n \in ObjectIDs
      BY <1>2, <2>1, RequestFacts
    <3>4. n \in Nat /\ served \in Nat /\ n < FirstServerID
      BY <3>3, LifecycleAssumption DEF Conforming, AInv, Structure, T!ClientIDs, ObjectIDs
    <3> QED
      BY <1>3, <2>1, <3>1, <3>2, <3>4
  <2>2. CASE requests[1].op = "destroy"
    <3>1. n \notin DOMAIN resources
      BY <1>3, <2>2
    <3>2. \A j \in DOMAIN requests : ~(j < 1)
      BY <1>2
    <3>3. Refusable(n)
      BY <1>2, <2>2, <3>1, <3>2 DEF Conforming, BInv, Destructions
    <3> QED
      BY <2>2, <3>3 DEF Refusable
  <2> QED
    BY <1>3, <2>1, <2>2
<1>5. Post(<<x>>) /\ resources' = resources /\ served' = served
  BY <1>3 DEF Reject
<1>6. /\ objects' = objects /\ zombie' = zombie /\ pid' = pid /\ currentID' = currentID
      /\ fatal' = fatal /\ kind' = kind /\ unbound' = unbound
  BY <1>1 DEF table
<1>7. x \in EventMsg
  BY IDFacts, EventsMade, LifecycleAssumption
<1>8. x.type = "error" /\ x.id = T!DisplayID /\ x.object = Display
  BY EventsMade
<1> HIDE DEF x
<1>9. /\ \A i \in DOMAIN events : i \in DOMAIN events' /\ events'[i] = events[i]
      /\ \A i \in DOMAIN events' :
           i \in DOMAIN events
             \/ (i \notin DOMAIN events /\ i = Len(events) + 1 /\ events'[i] = x)
      /\ \A i, m, p : i \in DOMAIN events /\ Finds(events, objects, i, m, p)
                         => Finds(events', objects, i, m, p)
      /\ \A m, p : Finds(events, objects, Len(events) + 1, m, p)
                      => Finds(events', objects, Len(events) + 1, m, p)
      /\ \A m, p : Finds(events, objects, Len(events) + 1, m, p) /\ ~About(x, m)
                      => Finds(events', objects, Len(events') + 1, m, p)
      /\ \A m : Acknowledges(events, m) => Acknowledges(events', m)
  BY <1>5, <1>7, PostedOne
<1>10. \A m : ~About(x, m)
  BY <1>8 DEF About
<1>11. \A i \in DOMAIN events' : events'[i].type \in {"introduce", "delete_id", "plain"} =>
          i \in DOMAIN events /\ events'[i] = events[i]
  BY <1>8, <1>9
<1>12. \A i, j \in DOMAIN requests' : (i + 1 = j + 1 => i = j) /\ (i < j => i + 1 < j + 1)
  BY <1>2
<1> HIDE DEF n
<1>13. Quiet'
  <2>1. \A i \in DOMAIN events' :
          events'[i].type = "error" => events'[i].id = T!DisplayID /\ events'[i].object = Display
    BY <1>8, <1>9 DEF Conforming, BInv, Quiet
  <2> QED
    BY <1>4, <1>6, <2>1 DEF Conforming, BInv, Quiet
<1>14. Anchored'
  BY <1>5, <1>6 DEF Conforming, BInv, Anchored
<1>15. Senders'
  BY <1>6, <1>8, <1>9, DisplayFound DEF Conforming, BInv, Senders
<1>16. NamedObjects'
  BY <1>6, <1>9, <1>11 DEF Conforming, BInv, NamedObjects
<1>17. ServerView'
  BY <1>5, <1>6, <1>9, <1>10 DEF Conforming, BInv, ServerView
<1>18. Introductions'
  BY <1>5, <1>6, <1>11 DEF Conforming, BInv, Introductions
<1>19. Deletions'
  BY <1>2, <1>5, <1>6, <1>11 DEF Conforming, BInv, Deletions, HasDestructor
<1>20. News'
  BY <1>2, <1>5, <1>6 DEF Conforming, BInv, News
<1>21. Destructions'
  <2> SUFFICES ASSUME NEW i \in DOMAIN requests', requests'[i].op = "destroy"
               PROVE  LET m == requests'[i].id IN
                        /\ m \in DOMAIN objects /\ objects[m] = requests'[i].object
                        /\ objects[m] \notin unbound
                        /\ zombie[objects[m]] /\ HasDestructor(objects[m])
                        /\ Refusable(m) \/ m \in DOMAIN resources
                             \/ \E j \in DOMAIN requests' :
                                   j < i /\ requests'[j].op = "new" /\ requests'[j].id = m
                        /\ \A j \in DOMAIN events' :
                             events'[j].type = "introduce" => events'[j].argID # m
    BY <1>5, <1>6 DEF Destructions, HasDestructor
  <2> DEFINE m == requests'[i].id
  <2>1. i + 1 \in DOMAIN requests /\ requests'[i] = requests[i + 1] /\ i \in Nat
    BY <1>2
  <2>2. /\ m \in DOMAIN objects /\ objects[m] = requests'[i].object
        /\ objects[m] \notin unbound
        /\ zombie[objects[m]] /\ HasDestructor(objects[m])
        /\ Refusable(m) \/ m \in DOMAIN resources
             \/ \E j \in DOMAIN requests :
                   j < i + 1 /\ requests[j].op = "new" /\ requests[j].id = m
        /\ \A j \in DOMAIN events :
             events[j].type = "introduce" => events[j].argID # m
    BY <2>1 DEF Conforming, BInv, Destructions
  <2> HIDE DEF m
  <2>3. ASSUME NEW j \in DOMAIN requests, j < i + 1, requests[j].op = "new", requests[j].id = m
        PROVE  Refusable(m) \/ \E l \in DOMAIN requests' :
                       l < i /\ requests'[l].op = "new" /\ requests'[l].id = m
    <3>1. CASE j = 1
      BY <1>4, <2>3, <3>1 DEF Refusable, n
    <3>2. CASE j # 1
      <4>1. j - 1 \in DOMAIN requests' /\ requests'[j - 1] = requests[j] /\ j \in Nat
        BY <1>2, <3>2
      <4>2. j - 1 < i
        BY <2>1, <2>3, <4>1
      <4> QED
        BY <2>3, <4>1, <4>2
    <3> QED
      BY <3>1, <3>2
  <2>4. \A j \in DOMAIN events' : events'[j].type = "introduce" => events'[j].argID # m
    BY <1>11, <2>2
  <2> QED
    BY <2>2, <2>3, <2>4 DEF m
<1>22. OncePerID'
  <2>1. \A i, j \in DOMAIN requests' :
          (requests'[i].op = requests'[j].op /\ requests'[i].id = requests'[j].id) => i = j
    BY <1>2, <1>12 DEF Conforming, BInv, OncePerID
  <2>2. \A i, j \in DOMAIN events' :
         (/\ events'[i].type = events'[j].type
          /\ events'[i].type \in {"introduce", "delete_id"}
          /\ events'[i].argID = events'[j].argID) => i = j
    BY <1>11 DEF Conforming, BInv, OncePerID
  <2> QED
    BY <2>1, <2>2 DEF OncePerID
<1>23. Settled'
  BY <1>4, <1>5, <1>6 DEF Conforming, BInv, Settled
<1> QED
  BY <1>4, <1>13, <1>14, <1>15, <1>16, <1>17, <1>18, <1>19, <1>20, <1>21, <1>22, <1>23 DEF BInv

LEMMA SendEventBInv ==
    ASSUME Conforming, NEW n \in DOMAIN resources, SendEvent(n) PROVE BInv'
<1>1. /\ objects' = objects /\ zombie' = zombie /\ pid' = pid /\ currentID' = currentID
      /\ fatal' = fatal /\ kind' = kind /\ unbound' = unbound /\ requests' = requests
      /\ served' = served /\ rejected' = rejected /\ resources' = resources
  BY DEF SendEvent, table, server
<1>2. /\ n \in T!IDs /\ resources[n] \in Proxies /\ Display \in Proxies
      /\ \A a \in DOMAIN resources : a \in T!IDs \cup {NoID} /\ resources[a] \in Proxies
      /\ NoID \in T!IDs \cup {NoID}
  BY LifecycleAssumption DEF Conforming, AInv, Structure
<1>3. PICK x \in EventMsg :
        /\ Post(<<x>>) /\ x.type = "plain" /\ x.id = n /\ x.object = resources[n]
        /\ x.argID = NoID \/ (x.argID \in DOMAIN resources /\ x.arg = resources[x.argID])
  <2>1. CASE Post(<<Event("plain", n, resources[n], NoID, Display)>>)
    <3> DEFINE y == Event("plain", n, resources[n], NoID, Display)
    <3>1. y \in EventMsg
      BY <1>2, EventsMade
    <3>2. y.type = "plain" /\ y.id = n /\ y.object = resources[n] /\ y.argID = NoID
      BY EventsMade
    <3> HIDE DEF y
    <3> QED
      BY <2>1, <3>1, <3>2 DEF y
  <2>2. ASSUME NEW a \in DOMAIN resources, Post(<<Event("plain", n, resources[n], a, resources[a])>>)
        PROVE  \E x \in EventMsg :
                 /\ Post(<<x>>) /\ x.type = "plain" /\ x.id = n /\ x.object = resources[n]
                 /\ x.argID = NoID \/ (x.argID \in DOMAIN resources /\ x.arg = resources[x.argID])
    <3> DEFINE y == Event("plain", n, resources[n], a, resources[a])
    <3>1. y \in EventMsg
      BY <1>2, EventsMade
    <3>2. /\ y.type = "plain" /\ y.id = n /\ y.object = resources[n]
          /\ y.argID = a /\ y.arg = resources[a]
      BY EventsMade
    <3> HIDE DEF y
    <3> QED
      BY <2>2, <3>1, <3>2 DEF y
  <2> QED
    BY <2>1, <2>2 DEF SendEvent
<1>4. /\ \A i \in DOMAIN events : i \in DOMAIN events' /\ events'[i] = events[i]
      /\ \A i \in DOMAIN events' :
           i \in DOMAIN events
             \/ (i \notin DOMAIN events /\ i = Len(events) + 1 /\ events'[i] = x)
      /\ Len(events') + 1 \notin DOMAIN events
      /\ \A i, m, p : i \in DOMAIN events /\ Finds(events, objects, i, m, p)
                         => Finds(events', objects, i, m, p)
      /\ \A m, p : Finds(events, objects, Len(events) + 1, m, p)
                      => Finds(events', objects, Len(events) + 1, m, p)
      /\ \A m, p : Finds(events, objects, Len(events) + 1, m, p) /\ ~About(x, m)
                      => Finds(events', objects, Len(events') + 1, m, p)
      /\ \A m : Acknowledges(events, m) => Acknowledges(events', m)
  BY <1>3, PostedOne
<1>5. \A m : ~About(x, m)
  BY <1>3 DEF About
<1>6. \A m \in DOMAIN resources : Finds(events, objects, Len(events) + 1, m, resources[m])
  BY DEF Conforming, BInv, ServerView
<1>7. \A i \in DOMAIN events' : events'[i].type \in {"introduce", "delete_id", "error"} =>
         i \in DOMAIN events /\ events'[i] = events[i]
  BY <1>3, <1>4
<1>8. Quiet' /\ Anchored'
  BY <1>1, <1>7 DEF Conforming, BInv, Quiet, Anchored
<1>9. Senders'
  BY <1>1, <1>3, <1>4, <1>6 DEF Conforming, BInv, Senders
<1>10. NamedObjects'
  BY <1>1, <1>3, <1>4, <1>6 DEF Conforming, BInv, NamedObjects
<1>11. ServerView'
  BY <1>1, <1>4, <1>5 DEF Conforming, BInv, ServerView
<1>12. Introductions' /\ Deletions'
  BY <1>1, <1>7 DEF Conforming, BInv, Introductions, Deletions, HasDestructor
<1>13. News' /\ Destructions'
  BY <1>1, <1>7 DEF Conforming, BInv, News, Destructions, HasDestructor
<1>14. OncePerID'
  BY <1>1, <1>7 DEF Conforming, BInv, OncePerID
<1>15. Settled' /\ (Oversize \/ Order')
  BY <1>1, <1>4 DEF Conforming, BInv, Settled, Order
<1> QED
  BY <1>8, <1>9, <1>10, <1>11, <1>12, <1>13, <1>14, <1>15 DEF BInv

(* A new object of the server's: nobody is at its ID but a zombie.         *)
LEMMA IntroduceBInv ==
    ASSUME Conforming, NEW n \in DOMAIN resources, NEW a \in T!ServerIDs, NEW p \in Proxies,
           NEW k \in Introducible, Introduce(n, a, p, k)
    PROVE  BInv'
<1> DEFINE x == Event("introduce", n, resources[n], a, p)
<1>1. /\ objects' = objects /\ zombie' = zombie /\ pid' = pid /\ currentID' = currentID
      /\ fatal' = fatal /\ unbound' = unbound /\ requests' = requests
      /\ served' = served /\ rejected' = rejected
      /\ a \notin DOMAIN resources /\ Install(a, p) /\ kind' = [kind EXCEPT ![p] = k]
      /\ Post(<<x>>) /\ p \in Unused
  BY DEF Introduce, Occupied, table
<1>2. /\ p # Display /\ p \notin T!Registered \cup unbound
      /\ \A m \in DOMAIN objects : objects[m] # p /\ objects[m] \in Proxies
      /\ \A m \in DOMAIN resources : resources[m] # p /\ resources[m] \in Proxies
  BY <1>1, UnusedFacts, RegisteredIDs DEF Conforming, AInv, Structure
<1>3. /\ kind'[p] = k /\ k \in {"offer", "pad"} /\ \A q \in Proxies : q # p => kind'[q] = kind[q]
  BY <1>1, LifecycleAssumption DEF Conforming, AInv, Structure
<1>4. /\ DOMAIN resources' = DOMAIN resources \cup {a} /\ resources'[a] = p
      /\ \A m \in DOMAIN resources : resources'[m] = resources[m]
  BY <1>1 DEF Install
<1>5. a \in T!IDs /\ a # NoID /\ a \notin ObjectIDs /\ a >= FirstServerID
  BY IDFacts
<1>6. /\ x \in EventMsg /\ x.type = "introduce" /\ x.id = n /\ x.object = resources[n]
      /\ x.argID = a /\ x.arg = p
  <2>1. n \in T!IDs
    BY DEF Conforming, AInv, Structure
  <2> QED
    BY <1>2, <1>5, <2>1, EventsMade
<1>7. a \in DOMAIN objects => zombie[objects[a]]
  BY <1>1, <1>5 DEF Conforming, BInv, Settled
<1> HIDE DEF x
<1>8. /\ \A i \in DOMAIN events : i \in DOMAIN events' /\ events'[i] = events[i]
      /\ \A i \in DOMAIN events' :
           i \in DOMAIN events
             \/ (i \notin DOMAIN events /\ i = Len(events) + 1 /\ events'[i] = x)
      /\ Len(events) + 1 \in DOMAIN events' /\ events'[Len(events) + 1] = x
      /\ Len(events) + 1 < Len(events') + 1
      /\ \A i, m, q : i \in DOMAIN events /\ Finds(events, objects, i, m, q)
                         => Finds(events', objects, i, m, q)
      /\ \A m, q : Finds(events, objects, Len(events) + 1, m, q)
                      => Finds(events', objects, Len(events) + 1, m, q)
      /\ \A m, q : Finds(events, objects, Len(events) + 1, m, q) /\ ~About(x, m)
                      => Finds(events', objects, Len(events') + 1, m, q)
      /\ \A m : Acknowledges(events, m) => Acknowledges(events', m)
  BY <1>1, <1>6, PostedOne
<1>9. \A m : m # a => ~About(x, m)
  BY <1>6 DEF About
<1>10. \A m \in DOMAIN resources : Finds(events, objects, Len(events) + 1, m, resources[m])
  BY DEF Conforming, BInv, ServerView
<1>11. \A m \in DOMAIN objects : kind'[objects[m]] = kind[objects[m]]
  BY <1>2, <1>3
<1>12. Quiet' /\ Anchored'
  <2>1. \A i \in DOMAIN events' :
          events'[i].type = "error" => i \in DOMAIN events /\ events'[i] = events[i]
    BY <1>6, <1>8
  <2>2. kind'[Display] = kind[Display]
    BY <1>2, <1>3, LifecycleAssumption
  <2> QED
    BY <1>1, <1>4, <2>1, <2>2 DEF Conforming, BInv, Quiet, Anchored
<1>13. Senders'
  BY <1>1, <1>6, <1>8, <1>10 DEF Conforming, BInv, Senders
<1>14. NamedObjects'
  BY <1>1, <1>6, <1>8 DEF Conforming, BInv, NamedObjects
<1>15. ServerView'
  <2>1. Finds(events', objects, Len(events') + 1, a, p)
    BY <1>6, <1>8 DEF Finds, Introduced
  <2>2. \A m \in DOMAIN resources : Finds(events', objects, Len(events') + 1, m, resources[m])
    BY <1>1, <1>8, <1>9, <1>10
  <2> QED
    BY <1>1, <1>2, <1>4, <2>1, <2>2 DEF Conforming, BInv, ServerView
<1>16. Introductions'
  BY <1>1, <1>4, <1>6, <1>7, <1>8 DEF Conforming, BInv, Introductions
<1>17. Deletions'
  <2>1. \A i \in DOMAIN events' : events'[i].type = "delete_id" =>
           i \in DOMAIN events /\ events'[i] = events[i]
    BY <1>6, <1>8
  <2> QED
    BY <1>1, <1>4, <1>5, <1>11, <2>1 DEF Conforming, BInv, Deletions, HasDestructor
<1>18. \A i \in DOMAIN requests : requests[i].op = "new" => requests[i].id # a
  <2>1. \A i \in DOMAIN requests : requests[i] \in RequestMsg
    BY DEF Conforming, AInv, Structure
  <2> QED
    BY <1>5, <2>1, RequestFacts
<1>19. News'
  BY <1>1, <1>4, <1>18 DEF Conforming, BInv, News
<1>20. Destructions'
  <2> SUFFICES ASSUME NEW i \in DOMAIN requests, requests[i].op = "destroy"
               PROVE  LET m == requests[i].id IN
                        /\ m \in DOMAIN objects /\ objects[m] = requests[i].object
                        /\ objects[m] \notin unbound
                        /\ zombie[objects[m]]
                        /\ kind'[objects[m]] \in {"surface", "device", "offer", "pad"}
                        /\ Refusable(m) \/ m \in DOMAIN resources'
                             \/ \E j \in DOMAIN requests :
                                   j < i /\ requests[j].op = "new" /\ requests[j].id = m
                        /\ \A j \in DOMAIN events' :
                             events'[j].type = "introduce" => events'[j].argID # m
    BY <1>1 DEF Destructions, HasDestructor
  <2>1. /\ requests[i].id \in DOMAIN objects /\ objects[requests[i].id] = requests[i].object
        /\ objects[requests[i].id] \notin unbound
        /\ zombie[objects[requests[i].id]] /\ HasDestructor(objects[requests[i].id])
        /\ Refusable(requests[i].id) \/ requests[i].id \in DOMAIN resources
             \/ \E j \in DOMAIN requests :
                   j < i /\ requests[j].op = "new" /\ requests[j].id = requests[i].id
        /\ \A j \in DOMAIN events :
             events[j].type = "introduce" => events[j].argID # requests[i].id
    BY DEF Conforming, BInv, Destructions
  <2>2. requests[i].id # a
    BY <1>1, <1>5, <1>18, <2>1, LifecycleAssumption DEF Refusable, T!ServerIDs
  <2>3. \A j \in DOMAIN events' : events'[j].type = "introduce" => events'[j].argID # requests[i].id
    BY <1>6, <1>8, <2>1, <2>2
  <2>4. kind'[objects[requests[i].id]] \in {"surface", "device", "offer", "pad"}
    BY <1>11, <2>1 DEF HasDestructor
  <2> QED
    BY <1>4, <2>1, <2>3, <2>4
<1>21. OncePerID'
  <2>1. \A i \in DOMAIN events : ~(events[i].type = "introduce" /\ events[i].argID = a)
    BY <1>1 DEF Conforming, BInv, Introductions
  <2>2. \A i, j \in DOMAIN events' :
         (/\ events'[i].type = events'[j].type
          /\ events'[i].type \in {"introduce", "delete_id"}
          /\ events'[i].argID = events'[j].argID) => i = j
    BY <1>6, <1>8, <2>1 DEF Conforming, BInv, OncePerID
  <2> QED
    BY <1>1, <2>2 DEF Conforming, BInv, OncePerID
<1>22. Settled'
  <2>1. \A q \in unbound : pid[q] \in DOMAIN objects /\ objects[pid[q]] = q
    BY DEF Conforming, BInv, Settled
  <2>2. \A m \in DOMAIN objects :
         (m < FirstServerID /\ objects[m] \notin unbound)
            => m \in DOMAIN resources' \/ Announces(requests, m) \/ Acknowledges(events', m) \/ Oversize
    BY <1>4, <1>8 DEF Conforming, BInv, Settled
  <2>3. \A m \in DOMAIN objects :
         (m >= FirstServerID /\ ~zombie[objects[m]])
            => m \in DOMAIN resources' /\ resources'[m] = objects[m]
    BY <1>4 DEF Conforming, BInv, Settled
  <2>4. \A m \in DOMAIN resources' : m >= FirstServerID => kind'[resources'[m]] \in {"offer", "pad"}
    BY <1>2, <1>3, <1>4 DEF Conforming, BInv, Settled
  <2> QED
    BY <1>1, <2>1, <2>2, <2>3, <2>4 DEF Settled
<1>23. Oversize \/ Order'
  BY <1>1 DEF Conforming, BInv, Order
<1> QED
  BY <1>12, <1>13, <1>14, <1>15, <1>16, <1>17, <1>19, <1>20, <1>21, <1>22, <1>23 DEF BInv

-----------------------------------------------------------------------------
(* The client reads an event.                                              *)
LEMMA ReadEventBInv ==
    ASSUME Conforming, events # << >>, events' = Tail(events),
           UNCHANGED <<fatal, kind, unbound, requests, server, currentID>>,
           \A m \in DOMAIN objects : ~About(events[1], m) =>
              m \in DOMAIN objects' /\ objects'[m] = objects[m],
           \A m \in DOMAIN objects' : ~About(events[1], m) => m \in DOMAIN objects,
           events[1].type = "introduce" =>
              events[1].argID \in DOMAIN objects' /\ objects'[events[1].argID] = events[1].arg,
           events[1].type = "delete_id" => events[1].argID \notin DOMAIN objects',
           \A q \in Proxies : ~(events[1].type = "introduce" /\ q = events[1].arg) =>
              zombie'[q] = zombie[q] /\ pid'[q] = pid[q]
    PROVE  BInv'
<1> DEFINE e == events[1]
<1>1. /\ events \in Seq(EventMsg) /\ 1 \in DOMAIN events
      /\ fatal' = fatal /\ kind' = kind /\ unbound' = unbound /\ requests' = requests
      /\ resources' = resources /\ served' = served /\ rejected' = rejected
      /\ currentID' = currentID
  <2>1. events \in Seq(EventMsg)
    BY DEF Conforming, AInv, Structure
  <2> QED
    BY <2>1, TailFacts DEF server
<1>2. /\ \A i \in DOMAIN events' : /\ i + 1 \in DOMAIN events /\ events'[i] = events[i + 1]
                                   /\ i \in Nat \ {0} /\ i + 1 # 1
      /\ \A i \in DOMAIN events :
           i = 1 \/ (i - 1 \in DOMAIN events' /\ events'[i - 1] = events[i])
      /\ Len(events') \in Nat /\ Len(events) = Len(events') + 1
  BY <1>1, TailFacts
<1>3. /\ \A i, j \in DOMAIN events' : i + 1 = j + 1 => i = j
      /\ Len(events') + 1 \in Nat \ {0} /\ Len(events) + 1 = Len(events') + 1 + 1
  BY <1>2
<1>4. /\ e.type = "introduce" =>
           /\ e.argID \in T!ServerIDs /\ e.argID \in DOMAIN resources
           /\ resources[e.argID] = e.arg /\ e.arg \notin T!Registered /\ e.arg \notin unbound
      /\ e.type = "delete_id" =>
           /\ e.argID \in ObjectIDs /\ \A j \in DOMAIN requests : requests[j].id # e.argID
  BY <1>1 DEF Conforming, AInv, Newcomers, BInv, Introductions, Deletions
<1>5. \A m : About(e, m) => m # T!DisplayID /\ m \in T!ServerIDs \cup ObjectIDs
  BY <1>4, IDFacts DEF About
<1>6. \A j \in DOMAIN events : e.type = "introduce" /\ About(events[j], e.argID) => j = 1
  <2> SUFFICES ASSUME NEW j \in DOMAIN events, e.type = "introduce", About(events[j], e.argID)
               PROVE  j = 1
    OBVIOUS
  <2>1. events[j].type # "delete_id"
    BY <1>4, IDFacts DEF About, Conforming, BInv, Deletions
  <2>2. events[j].type = "introduce" /\ events[j].argID = e.argID
    BY <2>1 DEF About
  <2> QED
    BY <1>1, <2>2 DEF Conforming, BInv, OncePerID
<1>7. ASSUME NEW i \in Nat \ {0}, NEW m, NEW p, Finds(events, objects, i + 1, m, p)
      PROVE  Finds(events', objects', i, m, p)
  <2>1. (~About(events[1], m) /\ m \in DOMAIN objects) =>
            m \in DOMAIN objects' /\ objects'[m] = objects[m]
    OBVIOUS
  <2>2. (About(events[1], m) /\ events[1].type = "introduce" /\ events[1].arg = p) =>
            (m \in DOMAIN objects' /\ objects'[m] = p
               /\ \A j \in DOMAIN events : About(events[j], m) => j = 1)
    BY <1>6 DEF About
  <2> QED
    BY <1>1, <1>7, <2>1, <2>2, FindsNext
<1>8. \A i \in DOMAIN events' : About(e, events'[i].argID) =>
         events'[i].type \notin {"introduce", "delete_id"}
  <2> SUFFICES ASSUME NEW i \in DOMAIN events', About(e, events'[i].argID),
                      events'[i].type \in {"introduce", "delete_id"}
               PROVE  FALSE
    OBVIOUS
  <2>1. i + 1 \in DOMAIN events /\ events'[i] = events[i + 1] /\ i + 1 # 1
    BY <1>2
  <2>2. events[i + 1].type = e.type
    BY <1>4, <2>1, IDFacts DEF About, Conforming, BInv, Introductions, Deletions
  <2> QED
    BY <1>1, <2>1, <2>2 DEF About, Conforming, BInv, OncePerID
<1>9. \A i \in DOMAIN requests : ~About(e, requests[i].id)
  <2>1. \A i \in DOMAIN requests : requests[i].op \in {"new", "destroy"}
    <3>1. \A i \in DOMAIN requests : requests[i] \in RequestMsg
      BY DEF Conforming, AInv, Structure
    <3> QED
      BY <3>1, RequestFacts
  <2> QED
    BY <1>1, <1>4, <2>1 DEF About, Conforming, BInv, News, Destructions
<1>10. \A m \in DOMAIN objects :
          objects[m] \in Proxies /\ ~(e.type = "introduce" /\ objects[m] = e.arg)
            /\ zombie'[objects[m]] = zombie[objects[m]]
  BY <1>4, RegisteredIDs DEF Conforming, AInv
<1>11. \A p \in unbound : ~About(e, pid[p]) /\ pid'[p] = pid[p]
  <2>1. unbound \subseteq Proxies
    BY DEF Conforming, AInv, Structure
  <2> QED
    BY <1>1, <1>4, <2>1, UnboundID
<1>12. \A m : Announces(requests, m) => ~About(e, m)
  BY <1>9 DEF Announces
<1>13. \A m : Acknowledges(events, m) /\ ~About(e, m) => Acknowledges(events', m)
  BY <1>2 DEF Acknowledges, About
<1>14. Quiet' /\ Anchored'
  BY <1>1, <1>2, <1>5 DEF Conforming, BInv, Quiet, Anchored
<1>15. Senders' /\ NamedObjects'
  BY <1>2, <1>7 DEF Conforming, BInv, Senders, NamedObjects
<1>16. ServerView'
  BY <1>1, <1>3, <1>7 DEF Conforming, BInv, ServerView
<1>17. Introductions'
  <2> SUFFICES ASSUME NEW i \in DOMAIN events', events'[i].type = "introduce"
               PROVE  LET m == events'[i].argID IN
                        /\ m \in T!ServerIDs
                        /\ m \in DOMAIN resources /\ resources[m] = events'[i].arg
                        /\ m \in DOMAIN objects' => zombie'[objects'[m]]
    BY <1>1 DEF Introductions
  <2> DEFINE m == events'[i].argID
  <2>1. i + 1 \in DOMAIN events /\ events'[i] = events[i + 1]
    BY <1>2
  <2>2. /\ m \in T!ServerIDs /\ m \in DOMAIN resources /\ resources[m] = events'[i].arg
        /\ m \in DOMAIN objects => zombie[objects[m]]
    BY <2>1 DEF Conforming, BInv, Introductions
  <2>3. ~About(e, m)
    BY <1>8
  <2> QED
    BY <1>10, <2>2, <2>3
<1>18. Deletions'
  <2> SUFFICES ASSUME NEW i \in DOMAIN events', events'[i].type = "delete_id"
               PROVE  LET m == events'[i].argID IN
                        /\ events'[i].id = T!DisplayID
                        /\ m \in ObjectIDs /\ m \in DOMAIN objects' \ DOMAIN resources
                        /\ objects'[m] \notin unbound
                        /\ zombie'[objects'[m]] \/ ~HasDestructor(objects'[m])
                        /\ \A j \in DOMAIN requests : requests[j].id # m
    BY <1>1 DEF Deletions, HasDestructor
  <2> DEFINE m == events'[i].argID
  <2>1. i + 1 \in DOMAIN events /\ events'[i] = events[i + 1]
    BY <1>2
  <2>2. /\ events'[i].id = T!DisplayID
        /\ m \in ObjectIDs /\ m \in DOMAIN objects \ DOMAIN resources
        /\ objects[m] \notin unbound
        /\ zombie[objects[m]] \/ ~HasDestructor(objects[m])
        /\ \A j \in DOMAIN requests : requests[j].id # m
    BY <2>1 DEF Conforming, BInv, Deletions
  <2>3. ~About(e, m)
    BY <1>8
  <2>4. m \in DOMAIN objects' /\ objects'[m] = objects[m] /\ zombie'[objects'[m]] = zombie[objects[m]]
    BY <1>10, <2>2, <2>3
  <2> HIDE DEF m
  <2> QED
    BY <2>2, <2>4 DEF m
<1>19. News'
  BY <1>1, <1>9 DEF Conforming, BInv, News
<1>20. Destructions'
  <2> SUFFICES ASSUME NEW i \in DOMAIN requests, requests[i].op = "destroy"
               PROVE  LET m == requests[i].id IN
                        /\ m \in DOMAIN objects' /\ objects'[m] = requests[i].object
                        /\ objects'[m] \notin unbound
                        /\ zombie'[objects'[m]] /\ HasDestructor(objects'[m])
                        /\ Refusable(m) \/ m \in DOMAIN resources
                             \/ \E j \in DOMAIN requests :
                                   j < i /\ requests[j].op = "new" /\ requests[j].id = m
                        /\ \A j \in DOMAIN events' :
                             events'[j].type = "introduce" => events'[j].argID # m
    BY <1>1 DEF Destructions, HasDestructor
  <2>1. /\ requests[i].id \in DOMAIN objects /\ objects[requests[i].id] = requests[i].object
        /\ objects[requests[i].id] \notin unbound
        /\ zombie[objects[requests[i].id]] /\ HasDestructor(objects[requests[i].id])
        /\ Refusable(requests[i].id) \/ requests[i].id \in DOMAIN resources
             \/ \E j \in DOMAIN requests :
                   j < i /\ requests[j].op = "new" /\ requests[j].id = requests[i].id
        /\ \A j \in DOMAIN events :
             events[j].type = "introduce" => events[j].argID # requests[i].id
    BY DEF Conforming, BInv, Destructions
  <2>2. /\ requests[i].id \in DOMAIN objects' /\ objects'[requests[i].id] = objects[requests[i].id]
        /\ zombie'[objects'[requests[i].id]] = zombie[objects[requests[i].id]]
    BY <1>9, <1>10, <2>1
  <2>3. \A j \in DOMAIN events' : events'[j].type = "introduce" => events'[j].argID # requests[i].id
    BY <1>2, <2>1
  <2> QED
    BY <2>1, <2>2, <2>3
<1>21. OncePerID'
  BY <1>1, <1>2, <1>3 DEF Conforming, BInv, OncePerID
<1>22. Settled'
  <2>1. \A p \in unbound : pid'[p] \in DOMAIN objects' /\ objects'[pid'[p]] = p
    BY <1>11 DEF Conforming, BInv, Settled
  <2>2. ASSUME NEW m \in DOMAIN objects', m < FirstServerID, objects'[m] \notin unbound
        PROVE  m \in DOMAIN resources \/ Announces(requests, m) \/ Acknowledges(events', m) \/ Oversize
    <3>1. ~About(e, m)
      <4>1. ~(e.type = "introduce" /\ e.argID = m)
        BY <1>4, <2>2, IDFacts DEF T!ServerIDs
      <4> QED
        BY <4>1 DEF About
    <3>2. m \in DOMAIN objects /\ objects'[m] = objects[m]
      BY <3>1
    <3> QED
      BY <1>13, <2>2, <3>1, <3>2 DEF Conforming, BInv, Settled
  <2>3. ASSUME NEW m \in DOMAIN objects', m >= FirstServerID, ~zombie'[objects'[m]]
        PROVE  m \in DOMAIN resources /\ resources[m] = objects'[m]
    <3>1. CASE About(e, m)
      <4>1. e.type = "introduce" /\ m = e.argID
        BY <3>1 DEF About
      <4> QED
        BY <1>4, <4>1
    <3>2. CASE ~About(e, m)
      <4>1. m \in DOMAIN objects /\ objects'[m] = objects[m] /\ ~zombie[objects[m]]
        BY <1>10, <2>3, <3>2
      <4> QED
        BY <2>3, <4>1 DEF Conforming, BInv, Settled
    <3> QED
      BY <3>1, <3>2
  <2>4. \A m \in DOMAIN resources : m >= FirstServerID => kind[resources[m]] \in {"offer", "pad"}
    BY DEF Conforming, BInv, Settled
  <2> QED
    BY <1>1, <2>1, <2>2, <2>3, <2>4 DEF Settled
<1>23. Oversize \/ Order'
  <2> SUFFICES ASSUME ~Oversize PROVE Order'
    OBVIOUS
  <2>1. ASSUME NEW m \in served + 1 .. currentID
        PROVE  m \in DOMAIN objects' /\ (objects'[m] \in unbound \/ Announces(requests, m))
    <3>1. m \in DOMAIN objects /\ (objects[m] \in unbound \/ Announces(requests, m))
      BY DEF Conforming, BInv, Order
    <3>2. ~About(e, m)
      <4>1. pid[objects[m]] = m
        BY <3>1, RegisteredIDs DEF Conforming, AInv
      <4> QED
        BY <1>11, <1>12, <3>1, <4>1
    <3> QED
      BY <3>1, <3>2
  <2>2. \A i \in DOMAIN requests, q \in unbound :
          (requests[i].op = "new" /\ requests[i].id > served /\ pid'[q] > served)
             => requests[i].id < pid'[q]
    BY <1>11 DEF Conforming, BInv, Order
  <2> QED
    BY <1>1, <2>1, <2>2 DEF Conforming, BInv, Order
<1> QED
  BY <1>14, <1>15, <1>16, <1>17, <1>18, <1>19, <1>20, <1>21, <1>22, <1>23 DEF BInv

(* The sender is where the event says, so the event is read for what it    *)
(* is.                                                                     *)
LEMMA FirstEvent ==
    ASSUME Conforming, events # << >>
    PROVE  /\ 1 \in DOMAIN events /\ Head(events) = events[1] /\ events[1] \in EventMsg
           /\ events[1].id \in DOMAIN objects /\ objects[events[1].id] = events[1].object
           /\ (events[1].type = "plain" /\ events[1].argID # NoID) =>
                events[1].argID \in DOMAIN objects /\ objects[events[1].argID] = events[1].arg
<1>1. events \in Seq(EventMsg)
  BY DEF Conforming, AInv, Structure
<1>2. 1 \in DOMAIN events /\ Head(events) = events[1] /\ events[1] \in EventMsg
  BY <1>1, TailFacts
<1>3. Finds(events, objects, 1, events[1].id, events[1].object)
  BY <1>2 DEF Conforming, BInv, Senders
<1>4. (events[1].type = "plain" /\ events[1].argID # NoID) =>
          Finds(events, objects, 1, events[1].argID, events[1].arg)
  BY <1>2 DEF Conforming, BInv, NamedObjects
<1> QED
  BY <1>1, <1>2, <1>3, <1>4, FindsFirst

(* Only a refused constructor makes the server send display.error.         *)
LEMMA DispatchErrorFails ==
    ASSUME Conforming, Dispatch, events[1].type = "error"
    PROVE  Oversize /\ fatal' /\ rejected
<1> DEFINE e == events[1]
<1>1. events # << >>
  BY DEF Dispatch
<1>2. 1 \in DOMAIN events /\ Head(events) = e /\ e.id \in DOMAIN objects
        /\ objects[e.id] = e.object
  BY <1>1, FirstEvent
<1>3. Oversize /\ rejected /\ e.object = Display /\ ~Absorbs(objects[e.id])
  BY <1>2 DEF Conforming, BInv, Quiet, Anchored, Absorbs
<1>4. DispatchError(e)
  <2>1. DispatchUnknownSender(e) \/ DispatchZombie(e) \/ DispatchDeleteID(e) \/ DispatchError(e)
          \/ DispatchIntroduction(e) \/ DispatchPlain(e) \/ DispatchMisread(e)
    BY <1>2 DEF Dispatch
  <2> QED
    BY <1>2, <1>3, <2>1
       DEF DispatchUnknownSender, DispatchZombie, DispatchDeleteID, DispatchIntroduction,
           DispatchPlain, DispatchMisread
<1> QED
  BY <1>3, <1>4 DEF DispatchError, SetFatal

LEMMA DispatchBInv ==
    ASSUME Conforming, Dispatch, events[1].type # "error" PROVE BInv'
<1> DEFINE e == events[1]
<1>1. /\ events # << >> /\ events' = Tail(events)
      /\ UNCHANGED <<kind, unbound, requests, server>>
  BY DEF Dispatch
<1>2. /\ 1 \in DOMAIN events /\ Head(events) = e /\ e \in EventMsg
      /\ e.id \in DOMAIN objects /\ objects[e.id] = e.object
  BY <1>1, FirstEvent
<1>3. /\ kind[objects[e.id]] = kind[e.object] /\ e.type # "error"
      /\ e.type = "delete_id" => ~Absorbs(objects[e.id])
  <2>1. e.type # "error"
    OBVIOUS
  <2>2. ASSUME e.type = "delete_id" PROVE ~Absorbs(objects[e.id])
    <3>1. e.id = T!DisplayID
      BY <1>2, <2>2 DEF Conforming, BInv, Deletions
    <3> QED
      BY <3>1 DEF Absorbs, Conforming, BInv, Anchored
  <2> QED
    BY <1>2, <2>1, <2>2
<1>4. e.type = "introduce" =>
        /\ e.argID \in T!ServerIDs /\ T!Acceptable(e.argID) /\ ~Adopts(e.argID, kind[e.arg])
        /\ e.arg \in Proxies /\ e.arg \notin T!Registered
  BY <1>2, EventFacts
     DEF T!Acceptable, T!Live, Adopts, Resolves, Conforming, AInv, Newcomers, BInv, Introductions
<1>5. \/ e.type \in {"plain", "done"} /\ UNCHANGED <<table, fatal>>
      \/ e.type = "delete_id" /\ T!DeleteID(e.argID) /\ UNCHANGED fatal
      \/ /\ e.type = "introduce" /\ objects' = T!Bound(e.argID, e.arg)
         /\ pid' = [pid EXCEPT ![e.arg] = e.argID]
         /\ \E b \in BOOLEAN : zombie' = [zombie EXCEPT ![e.arg] = b]
         /\ UNCHANGED <<currentID, fatal>>
  <2>1. CASE DispatchUnknownSender(e)
    BY <1>2, <2>1 DEF DispatchUnknownSender
  <2>2. CASE DispatchZombie(e)
    <3>1. CASE e.type = "introduce"
      <4>1. RegisterZombie(e.arg, e.argID)
        BY <1>3, <2>2, <3>1 DEF DispatchZombie
      <4> QED
        BY <1>4, <3>1, <4>1 DEF RegisterZombie
    <3>2. CASE e.type # "introduce"
      <4>1. UNCHANGED <<table, fatal>> /\ e.type # "delete_id"
        BY <1>3, <2>2, <3>2 DEF DispatchZombie
      <4>2. e.type \in {"plain", "done"}
        BY <1>2, <1>3, <3>2, <4>1, EventFacts
      <4> QED
        BY <4>1, <4>2
    <3> QED
      BY <3>1, <3>2
  <2>3. CASE DispatchDeleteID(e)
    BY <2>3 DEF DispatchDeleteID
  <2>4. CASE DispatchError(e)
    BY <1>3, <2>4 DEF DispatchError
  <2>5. CASE DispatchIntroduction(e)
    <3>1. e.type = "introduce" /\ T!RegisterWithID(e.arg, e.argID) /\ fatal' = (outcome' = "panic")
      BY <1>4, <2>5 DEF DispatchIntroduction
    <3>2. T!Bind(e.arg, e.argID) /\ UNCHANGED currentID
      BY <1>4, <3>1 DEF T!RegisterWithID
    <3>3. fatal' = FALSE /\ fatal = FALSE
      BY <3>1, <3>2 DEF T!Bind, Conforming, AInv, Structure, BInv, Quiet
    <3> QED
      BY <3>1, <3>2, <3>3 DEF T!Bind
  <2>6. CASE DispatchPlain(e)
    BY <2>6 DEF DispatchPlain
  <2>7. CASE DispatchMisread(e)
    BY <1>3, <2>7 DEF DispatchMisread
  <2> QED
    BY <1>2, <2>1, <2>2, <2>3, <2>4, <2>5, <2>6, <2>7 DEF Dispatch
<1>6. TableInv
  BY DEF Conforming, AInv
<1>7. CASE e.type \in {"plain", "done"} /\ UNCHANGED <<table, fatal>>
  <2>1. objects' = objects /\ zombie' = zombie /\ pid' = pid /\ currentID' = currentID
    BY <1>7 DEF table
  <2> QED
    BY <1>1, <1>7, <2>1, ReadEventBInv
<1>8. CASE e.type = "delete_id" /\ T!DeleteID(e.argID) /\ UNCHANGED fatal
  <2>1. e.argID \in T!IDs
    BY <1>2, <1>8, EventFacts
  <2>2. /\ DOMAIN objects' = DOMAIN objects \ {e.argID}
        /\ \A m \in DOMAIN objects' : objects'[m] = objects[m]
        /\ zombie' = zombie /\ pid' = pid /\ currentID' = currentID
    BY <1>6, <1>8, <2>1, DeleteIDFacts
  <2>3. About(e, e.argID)
    BY <1>8 DEF About
  <2>4. \A m \in DOMAIN objects : ~About(e, m) => m \in DOMAIN objects' /\ objects'[m] = objects[m]
    BY <2>2, <2>3
  <2> QED
    BY <1>1, <1>8, <2>2, <2>4, ReadEventBInv
<1>9. CASE /\ e.type = "introduce" /\ objects' = T!Bound(e.argID, e.arg)
           /\ pid' = [pid EXCEPT ![e.arg] = e.argID]
           /\ \E b \in BOOLEAN : zombie' = [zombie EXCEPT ![e.arg] = b]
           /\ UNCHANGED <<currentID, fatal>>
  <2>1. /\ DOMAIN objects' = DOMAIN objects \cup {e.argID}
        /\ objects'[e.argID] = e.arg
        /\ \A m \in DOMAIN objects : m # e.argID => objects'[m] = objects[m]
        /\ \A q \in Proxies : q # e.arg => pid'[q] = pid[q]
    <3>1. /\ e.arg \in Proxies /\ e.arg \notin T!Registered
          /\ objects' = T!Bound(e.argID, e.arg) /\ pid' = [pid EXCEPT ![e.arg] = e.argID]
      BY <1>4, <1>9
    <3> HIDE DEF e
    <3> QED
      BY ZenonT(60), <1>6, <3>1, BoundFacts
  <2>2. \A q \in Proxies : q # e.arg => zombie'[q] = zombie[q]
    BY <1>6, <1>9 DEF TableInv, T!TypeOK
  <2>3. About(e, e.argID)
    BY <1>9 DEF About
  <2>4. /\ \A m \in DOMAIN objects : ~About(e, m) => m \in DOMAIN objects' /\ objects'[m] = objects[m]
        /\ \A m \in DOMAIN objects' : ~About(e, m) => m \in DOMAIN objects
    BY <2>1, <2>3
  <2> QED
    BY <1>1, <1>9, <2>1, <2>2, <2>4, ReadEventBInv
<1> QED
  BY <1>5, <1>7, <1>8, <1>9

-----------------------------------------------------------------------------
LEMMA InitBInv == Init => BInv
<1> SUFFICES ASSUME Init PROVE BInv
  OBVIOUS
<1>1. /\ fatal = FALSE /\ rejected = FALSE /\ unbound = {} /\ requests = << >> /\ events = << >>
      /\ DOMAIN resources = {1} /\ resources[1] = Display /\ served = 1
      /\ kind[Display] = "display"
  BY LifecycleAssumption DEF Init, T!DisplayID
<1>2. /\ DOMAIN objects = {1} /\ objects[1] = Display /\ currentID = 1
  BY DEF Init, T!Init, T!DisplayID
<1>3. DOMAIN requests = {} /\ DOMAIN events = {}
  BY <1>1
<1>4. Quiet /\ Senders /\ NamedObjects /\ Introductions /\ Deletions /\ News
        /\ Destructions /\ OncePerID
  BY <1>1, <1>3
     DEF Quiet, Senders, NamedObjects, Introductions, Deletions, News, Destructions, OncePerID
<1>5. Anchored
  BY <1>1, <1>2 DEF Anchored, T!DisplayID
<1>6. ServerView
  BY <1>1, <1>2, <1>3 DEF ServerView, Finds, Untouched
<1>7. Settled
  <2>1. ~(1 >= FirstServerID)
    BY LifecycleAssumption
  <2> QED
    BY <1>1, <1>2, <2>1 DEF Settled
<1>8. Order
  <2>1. served + 1 .. currentID = {}
    BY <1>1, <1>2
  <2> QED
    BY <1>1, <1>3, <2>1 DEF Order
<1> QED
  BY <1>4, <1>5, <1>6, <1>7, <1>8 DEF BInv

(* Until the connection fails the peers agree, and it fails only when a    *)
(* constructor was refused and the server then rejected a request.         *)
Peers == AInv /\ (BInv \/ (Oversize /\ fatal /\ rejected))

LEMMA RejectionIsFinal == ASSUME [Next]_vars, rejected PROVE rejected'
<1>1. ASSUME NEW p, NEW k, Create(p, k) \/ CreateRefused(p, k) \/ Construct(p, k)
      PROVE  rejected'
  BY <1>1 DEF Create, CreateRefused, Construct, server
<1>2. ASSUME NEW p, Bind(p) \/ Destroy(p) PROVE rejected'
  BY <1>2 DEF Bind, Destroy, server
<1>3. CASE Dispatch \/ SendRogue
  BY <1>3 DEF Dispatch, SendRogue, server
<1>4. CASE UNCHANGED vars
  BY <1>4 DEF vars, server
<1> QED
  BY <1>1, <1>2, <1>3, <1>4 DEF Next, Application, Server, Handle

LEMMA NextPeers ==
    ASSUME ~Rogue, Peers, [Next]_vars PROVE Peers'
<1>1. AInv'
  BY NextAInv DEF Peers
<1>2. CASE Oversize /\ fatal /\ rejected
  <2>1. fatal' /\ rejected'
    BY <1>2, StepAfterFatal, RejectionIsFinal DEF Peers, vars
  <2> QED
    BY <1>1, <1>2, <2>1 DEF Peers
<1>3. CASE BInv
  <2>0. Conforming
    BY <1>3 DEF Peers, Conforming
  <2>1. ASSUME NEW p \in Proxies, NEW k \in Creatable,
               Create(p, k) \/ CreateRefused(p, k) \/ Construct(p, k)
        PROVE  BInv'
    BY <2>0, <2>1, CreateBInv, ConstructBInv, RefusedBInv
  <2>2. ASSUME NEW p \in Proxies, Bind(p) \/ Destroy(p) PROVE BInv'
    BY <2>0, <2>2, BindBInv, DestroyBInv
  <2>3. ASSUME Dispatch PROVE BInv' \/ (Oversize /\ fatal' /\ rejected')
    <3>1. rejected' = rejected
      BY <2>3 DEF Dispatch, server
    <3> QED
      BY <2>0, <2>3, <3>1, DispatchBInv, DispatchErrorFails
  <2>4. ASSUME Handle PROVE BInv'
    <3>1. Head(requests).op = "new" \/ Head(requests).op = "destroy"
      BY <2>4 DEF Handle, HandleNew, HandleDestroy
    <3> QED
      BY <2>0, <2>4, <3>1, HandleNewBInv, HandleDestroyBInv, RejectBInv
  <2>5. ASSUME NEW n \in DOMAIN resources, FinishCallback(n) \/ SendEvent(n) PROVE BInv'
    BY <2>0, <2>5, FinishCallbackBInv, SendEventBInv
  <2>6. ASSUME NEW n \in DOMAIN resources, NEW a \in T!ServerIDs, NEW p \in Proxies,
               NEW k \in Introducible, Introduce(n, a, p, k)
        PROVE  BInv'
    BY <2>0, <2>6, IntroduceBInv
  <2>7. ASSUME UNCHANGED vars PROVE BInv'
    BY <1>3, <2>7
       DEF BInv, Quiet, Anchored, Senders, NamedObjects, ServerView, Introductions, Deletions,
           News, Destructions, OncePerID, Settled, Order, HasDestructor, vars, table, server
  <2> QED
    BY <1>1, <2>1, <2>2, <2>3, <2>4, <2>5, <2>6, <2>7 DEF Next, Application, Server, SendRogue, Peers
<1> QED
  BY <1>2, <1>3 DEF Peers

(* With a libwayland server, the table, the server's map and everything in *)
(* flight between them tell one story until the connection fails: what     *)
(* Context.Register, MarkZombie and DeleteID do to the table never         *)
(* contradicts a message under way.  Only a constructor whose request      *)
(* WriteMsg refused makes it fail at all.                                  *)
THEOREM PeersAgree == ASSUME ~Rogue PROVE Spec => []Peers
<1>1. Init => Peers
  BY InitAInv, InitBInv DEF Peers
<1>2. Peers /\ [Next]_vars => Peers'
  BY NextPeers
<1> QED
  BY <1>1, <1>2, PTL DEF Spec

(* The same two never fail each other: the server refuses no request       *)
(* WriteMsg wrote, and no event Dispatch reads sets the fatal error.       *)
THEOREM PeersNeverFail == ASSUME ~Rogue, ~Oversize PROVE Spec => []ConformingPeersNeverFail
<1>1. Peers => ConformingPeersNeverFail
  BY DEF Peers, BInv, Quiet, ConformingPeersNeverFail
<1> QED
  BY <1>1, PeersAgree, PTL

(* A constructor whose request WriteMsg refused is never undone, and still *)
(* the client does not fail of itself: the connection ends only by the     *)
(* server's display.error, whatever was absorbed, recycled or adopted      *)
(* before.                                                                 *)
THEOREM OnlyRejectionsFail == ASSUME ~Rogue PROVE Spec => [](fatal => rejected)
<1>1. Peers => (fatal => rejected)
  BY DEF Peers, BInv, Quiet
<1> QED
  BY <1>1, PeersAgree, PTL

(* GetProxy finds, at the sender ID of the next event, the object the      *)
(* server sent it from, however often the ID has been recycled and         *)
(* whatever constructors were refused.                                     *)
THEOREM SendersAreFound == ASSUME ~Rogue PROVE Spec => []EventFindsItsObject
<1>1. Peers => EventFindsItsObject
  BY FirstEvent DEF EventFindsItsObject, Peers, Conforming
<1> QED
  BY <1>1, PeersAgree, PTL

(* An object argument the decoders resolve is the object the server meant. *)
THEOREM ArgumentsAreFound == ASSUME ~Rogue PROVE Spec => []ArgumentNeverStrays
<1>1. Peers => ArgumentNeverStrays
  BY FirstEvent DEF ArgumentNeverStrays, Peers, Conforming
<1> QED
  BY <1>1, PeersAgree, PTL

(* With nothing in flight, Context's table and the server's map agree.     *)
THEOREM TablesAgreeAtRest == ASSUME ~Rogue, ~Oversize PROVE Spec => []AgreementAtRest
<1>1. ASSUME Conforming PROVE AgreementAtRest
  <2> DEFINE announced == {n \in DOMAIN objects : objects[n] \notin unbound}
  <2> SUFFICES ASSUME requests = << >>, events = << >>
               PROVE  /\ announced \cap T!ClientIDs = DOMAIN resources \cap T!ClientIDs
                      /\ \A n \in DOMAIN resources : n \in announced /\ objects[n] = resources[n]
                      /\ \A n \in announced : ~zombie[objects[n]] => n \in DOMAIN resources
    BY Zenon DEF AgreementAtRest
  <2>1. /\ \A n : ~Announces(requests, n) /\ ~Acknowledges(events, n)
        /\ Len(events) + 1 = 1
    BY DEF Announces, Acknowledges
  <2>2. \A n \in DOMAIN resources : n \in announced /\ objects[n] = resources[n]
    <3>1. ASSUME NEW n \in DOMAIN resources PROVE n \in announced /\ objects[n] = resources[n]
      <4>1. resources[n] \notin unbound /\ Finds(events, objects, 1, n, resources[n])
        BY <1>1, <2>1 DEF Conforming, BInv, ServerView
      <4>2. events \in Seq(EventMsg)
        BY <1>1 DEF Conforming, AInv, Structure
      <4>3. n \in DOMAIN objects /\ objects[n] = resources[n]
        BY <4>1, <4>2, FindsFirst
      <4> QED
        BY <4>1, <4>3
    <3> QED
      BY <3>1
  <2>3. \A n \in announced : n < FirstServerID => n \in DOMAIN resources
    BY <1>1, <2>1 DEF Conforming, BInv, Settled
  <2>4. \A n \in announced : n \in T!IDs
    BY <1>1, RegisteredIDs DEF Conforming, AInv
  <2>5. \A n \in announced : n \in T!ClientIDs => n \in DOMAIN resources
    BY <2>3, <2>4, IDFacts
  <2>6. \A n \in announced : ~zombie[objects[n]] => n \in DOMAIN resources
    <3>1. \A n \in announced : n >= FirstServerID /\ ~zombie[objects[n]] => n \in DOMAIN resources
      BY <1>1 DEF Conforming, BInv, Settled
    <3> QED
      BY <2>4, <2>5, <3>1, IDFacts
  <2> QED
    BY <2>2, <2>5, <2>6
<1>2. Peers => Conforming
  BY DEF Peers, Conforming
<1> QED
  BY <1>1, <1>2, PeersAgree, PTL

-----------------------------------------------------------------------------
(* The composition keeps the promise the table makes on its own, although  *)
(* its steps are not all the table's: AbsorbNewIDs registers and marks in  *)
(* one.                                                                    *)
AbsorbsInServerRange ==
    \E n \in T!ServerIDs, p \in Proxies :
        objects' = T!Bound(n, p) /\ UNCHANGED <<freeIDs, currentID>>

LEMMA TableSteps ==
    ASSUME TableInv
    PROVE  /\ \A p \in Proxies :
                 T!RegisterRecycled(p) \/ T!RegisterNew(p) \/ T!MarkZombie(p) => TP!Next
           /\ \A n \in T!IDs : T!DeleteID(n) => TP!Next
           /\ \A n \in T!IDs, p \in Proxies : T!RegisterWithID(p, n) => TP!Next
<1>1. ASSUME NEW p \in Proxies, T!RegisterRecycled(p) PROVE TP!Next
  <2>1. TP!RegisterRecycled(p)
    BY <1>1 DEF T!RegisterRecycled, TP!RegisterRecycled, T!TopUsable, TP!TopUsable,
                T!Bind, TP!Bind, T!Bound, TP!Bound, T!Live, TP!Live, T!Registered, TP!Registered
  <2> QED
    BY <2>1 DEF TP!Next, TP!Register
<1>2. ASSUME NEW p \in Proxies, T!RegisterNew(p) PROVE TP!Next
  <2>1. TP!RegisterNew(p)
    BY <1>2 DEF T!RegisterNew, TP!RegisterNew, T!NoneUsable, TP!NoneUsable,
                T!Bind, TP!Bind, T!Bound, TP!Bound, T!Live, TP!Live, T!Registered, TP!Registered
  <2> QED
    BY <2>1 DEF TP!Next, TP!Register
<1>3. ASSUME NEW p \in Proxies, T!MarkZombie(p) PROVE TP!Next
  <2>1. TP!MarkZombie(p)
    BY <1>3 DEF T!MarkZombie, TP!MarkZombie
  <2> QED
    BY <2>1 DEF TP!Next
<1>4. ASSUME NEW n \in T!IDs, T!DeleteID(n) PROVE TP!Next
  <2>1. TP!DeleteID(n) /\ n \in TP!IDs
    BY <1>4 DEF T!DeleteID, TP!DeleteID, T!Without, TP!Without, T!Live, TP!Live,
                T!Recyclable, TP!Recyclable, T!IDs, TP!IDs, T!DisplayID, TP!DisplayID
  <2> QED
    BY <2>1 DEF TP!Next
<1>5. ASSUME NEW n \in T!IDs, NEW p \in Proxies, T!RegisterWithID(p, n) PROVE TP!Next
  <2>1. TP!RegisterWithID(p, n) /\ n \in TP!IDs
    BY <1>5 DEF T!RegisterWithID, TP!RegisterWithID, T!Acceptable, TP!Acceptable,
                T!Bind, TP!Bind, T!Bound, TP!Bound, T!Live, TP!Live, T!Registered, TP!Registered,
                T!ServerIDs, TP!ServerIDs, T!IDs, TP!IDs
  <2> QED
    BY <2>1 DEF TP!Next
<1> QED
  BY <1>1, <1>2, <1>3, <1>4, <1>5

(* What a step of the connection does to its object table.                 *)
LEMMA StepOnTable ==
    ASSUME AInv, [Next]_vars
    PROVE  TP!Next \/ UNCHANGED table \/ AbsorbsInServerRange
<1>1. TableInv
  BY DEF AInv
<1>2. CASE Dispatch
  <2> DEFINE e == Head(events)
  <2>1. e \in EventMsg
    BY <1>2, TailFacts DEF Dispatch, AInv, Structure
  <2>2. /\ e.arg \in Proxies
        /\ e.type \in {"introduce", "delete_id"} => e.argID \in T!IDs
    BY <2>1, EventFacts
  <2>3. CASE DispatchUnknownSender(e) \/ DispatchError(e) \/ DispatchMisread(e) \/ DispatchPlain(e)
    BY <2>3 DEF DispatchUnknownSender, DispatchError, DispatchMisread, DispatchPlain, SetFatal
  <2>4. CASE DispatchZombie(e)
    BY <2>2, <2>4
       DEF DispatchZombie, RegisterZombie, SetFatal, T!Acceptable, AbsorbsInServerRange
  <2>5. CASE DispatchDeleteID(e)
    BY <1>1, <2>2, <2>5, TableSteps DEF DispatchDeleteID
  <2>6. CASE DispatchIntroduction(e)
    BY <1>1, <2>2, <2>6, TableSteps DEF DispatchIntroduction
  <2> QED
    BY <1>2, <2>3, <2>4, <2>5, <2>6 DEF Dispatch
<1>3. CASE Application
  BY <1>1, <1>3, TableSteps DEF Application, Create, CreateRefused, Construct, Bind, Destroy
<1>4. CASE Server
  BY <1>4 DEF Server, Handle, FinishCallback, SendEvent, Introduce, SendRogue
<1>5. CASE UNCHANGED vars
  BY <1>5 DEF vars
<1> QED
  BY <1>2, <1>3, <1>4, <1>5 DEF Next

(* The two instances of the table state the same abstraction.              *)
LEMMA SameIDState ==
    /\ T!IDState = TP!IDState /\ T!IDState' = TP!IDState'
    /\ T!IDL!Next <=> TP!IDL!Next
    /\ T!IDL!Init <=> TP!IDL!Init
<1>1. T!IDState = TP!IDState /\ T!IDState' = TP!IDState'
  BY DEF T!IDState, TP!IDState, T!Live, TP!Live, T!SeqRange, TP!SeqRange, T!ClientIDs,
         TP!ClientIDs
<1>2. T!IDL!Next <=> TP!IDL!Next
  BY <1>1 DEF T!IDL!Next, TP!IDL!Next, T!IDL!Introduce, TP!IDL!Introduce,
              T!IDL!Recycle, TP!IDL!Recycle, T!IDL!Acknowledge, TP!IDL!Acknowledge,
              T!IDL!Drop, TP!IDL!Drop
<1>3. T!IDL!Init <=> TP!IDL!Init
  BY <1>1 DEF T!IDL!Init, TP!IDL!Init
<1> QED
  BY <1>1, <1>2, <1>3

LEMMA StepRefines ==
    ASSUME AInv, [Next]_vars
    PROVE  [TP!IDL!Next]_(TP!IDState)
<1>1. TP!IInv
  BY TableInvIsTheirs DEF AInv
<1>2. CASE TP!Next \/ UNCHANGED table
  <2>1. [TP!Next]_(TP!vars)
    BY <1>2 DEF table, TP!vars
  <2> QED
    BY <1>1, <2>1, TableAssumption, TP!NextRefines, Zenon
<1>3. CASE AbsorbsInServerRange
  <2>1. PICK n \in T!ServerIDs, p \in Proxies :
            objects' = T!Bound(n, p) /\ UNCHANGED <<freeIDs, currentID>>
    BY <1>3 DEF AbsorbsInServerRange
  <2>2. DOMAIN objects' = DOMAIN objects \cup {n} /\ n \notin TP!ClientIDs
    BY <2>1, LifecycleAssumption DEF T!Bound, T!ServerIDs, TP!ClientIDs
  <2>3. \A m \in TP!ClientIDs : m \in DOMAIN objects' <=> m \in DOMAIN objects
    BY <2>2
  <2> QED
    BY <2>1, <2>3 DEF TP!IDState, TP!Live
<1> QED
  BY <1>2, <1>3, StepOnTable

(* Whatever the server sends and whatever is in flight: over the life of a *)
(* connection the client's IDs enter use in ascending order without gaps,  *)
(* and one comes back only after the server's delete_id for it.            *)
THEOREM ConnectionRefinesIDLifecycle == Spec => T!RefinesIDLifecycle
<1>1. Init => T!IDL!Init
  <2> SUFFICES ASSUME Init PROVE TP!IDL!Init
    BY SameIDState
  <2>1. TP!Init
    BY DEF Init, T!Init, TP!Init, T!DisplayID, TP!DisplayID
  <2> QED
    BY <2>1, TableAssumption, TP!InitRefines, Zenon
<1>2. AInv /\ [Next]_vars => [T!IDL!Next]_(T!IDState)
  BY StepRefines, SameIDState
<1> QED
  BY <1>1, <1>2, Safety, PTL DEF Spec, T!RefinesIDLifecycle, T!IDL!Spec
=============================================================================
