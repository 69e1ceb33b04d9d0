----------------------------- MODULE Lifecycle -----------------------------
(***************************************************************************)
(* The life of protocol objects, end to end: the application, the client's *)
(* object table, the two byte streams of the socket seen as FIFO queues of *)
(* messages, and the server's own map of IDs.                              *)
(*                                                                         *)
(* An ID is only a number: the server and the client each map it to an     *)
(* object, and a destroyed ID comes back for another object while messages *)
(* about the first are still in flight.  A member of Proxies stands for    *)
(* one protocol object seen from both ends, so a message can carry, next   *)
(* to the ID, the object its sender meant; nothing the client does reads   *)
(* that part, the properties do.                                           *)
(*                                                                         *)
(* The server follows libwayland (external): see the map.                  *)
(***************************************************************************)
EXTENDS Integers, Sequences

CONSTANTS
    Proxies, Display, FirstServerID, MaxID,   \* as in ObjectTable
    Creatable,      \* the kinds of object the application creates
    Introducible,   \* the kinds of object the server introduces
    MaxInFlight,    \* bound on the messages queued in each direction
    Rogue,          \* TRUE: the server may also send what libwayland would not
    Oversize,       \* TRUE: a constructor's request may be too long for a frame
    Binds           \* TRUE: constructing a global and binding it are two calls

VARIABLES
    objects, freeIDs, currentID, pid, zombie, outcome,  \* as in ObjectTable
    fatal,      \* Context.fatalErr # nil
    kind,       \* the interface of each object, as far as its life depends on it
    unbound,    \* objects constructed for a Registry.Bind still to come
    requests,   \* written by the client, not yet read by the server
    events,     \* sent by the server, not yet dispatched by the client
    resources,  \* the server's map: a function from the IDs in use to objects
    served,     \* the highest client ID the server has seen introduced
    rejected    \* the server has posted a protocol error and stopped reading

table == <<objects, freeIDs, currentID, pid, zombie, outcome>>
server == <<resources, served, rejected>>
vars == <<table, fatal, kind, unbound, requests, events, server>>

T == INSTANCE ObjectTable

Kinds == {"display",    \* wl_display: one per connection
          "surface",    \* has a destructor request: wl_surface, wl_pointer, ...
          "global",     \* no destructor request: wl_registry, wl_compositor, ...
          "callback",   \* wl_callback: the server destroys it after done
          "device",     \* wl_data_device: its events introduce objects
          "offer",      \* wl_data_offer: allocated by the server
          "pad"}        \* zwp_tablet_pad_v2: so is this, and it introduces more

ASSUME LifecycleAssumption ==
    /\ Display \in Proxies
    /\ FirstServerID \in Nat /\ MaxID \in Nat
    /\ 2 < FirstServerID /\ FirstServerID <= MaxID
    /\ Creatable \subseteq Kinds \ {"display", "offer", "pad"}
    /\ Introducible \subseteq {"offer", "pad"}
    /\ MaxInFlight \in Nat \ {0}
    /\ Rogue \in BOOLEAN /\ Oversize \in BOOLEAN /\ Binds \in BOOLEAN

(* Destroy (or Release) writes a request for these; for the others it is   *)
(* local.                                                                  *)
HasDestructor(p) == kind[p] \in {"surface", "device", "offer", "pad"}
(* Interfaces with an event that carries a new_id.                         *)
Introduces(p) == kind[p] \in {"device", "pad"}

NoID == 0
Request(op, n, p) == [op |-> op, id |-> n, object |-> p]
(* An event from object p at ID n, with an object or new_id argument: the  *)
(* ID on the wire and the object the server means by it.                   *)
Event(type, n, p, argID, arg) ==
    [type |-> type, id |-> n, object |-> p, argID |-> argID, arg |-> arg]

Messages(q) == {q[i] : i \in DOMAIN q}
InUse(p) ==
    \/ p \in T!Registered \cup unbound
    \/ \E n \in DOMAIN resources : resources[n] = p
    \/ \E m \in Messages(requests) : m.object = p
    \/ \E e \in Messages(events) : e.object = p \/ e.arg = p
Unused == {p \in Proxies \ {Display} : ~InUse(p)}

Init ==
    /\ T!Init
    /\ fatal = FALSE
    /\ kind = [p \in Proxies |-> IF p = Display THEN "display" ELSE "surface"]
    /\ unbound = {}
    /\ requests = << >>
    /\ events = << >>
    /\ resources = [n \in {T!DisplayID} |-> Display]
    /\ served = T!DisplayID
    /\ rejected = FALSE

-----------------------------------------------------------------------------
(* The application.                                                        *)

(* WriteMsg writes nothing once the connection has failed.                 *)
WrongWriteAfterFatal(m) == requests' = Append(requests, m)
Write(m) == requests' = IF fatal THEN requests ELSE Append(requests, m)

(* New IDs reach the server in ascending order as long as the application  *)
(* announces what it has constructed in the order it constructed it.       *)
InOrder(n) == \A q \in unbound : n <= pid[q]

(* A constructor and the request that carries its new_id: Display.Sync,    *)
(* Compositor.CreateSurface ...                                            *)
WrongCreateStaleID(p, k) ==
    /\ p \in Unused
    /\ Len(requests) < MaxInFlight
    /\ T!RegisterRecycled(p) \/ T!RegisterNew(p)
    /\ InOrder(pid'[p])
    /\ kind' = [kind EXCEPT ![p] = k]
    /\ Write(Request("new", pid[p], p))
    /\ UNCHANGED <<fatal, unbound, events, server>>

Create(p, k) ==
    /\ p \in Unused
    /\ Len(requests) < MaxInFlight
    /\ T!RegisterRecycled(p) \/ T!RegisterNew(p)
    /\ InOrder(pid'[p])
    /\ kind' = [kind EXCEPT ![p] = k]
    /\ Write(Request("new", pid'[p], p))
    /\ UNCHANGED <<fatal, unbound, events, server>>

(* NewCompositor, NewSeat ...: registered now, announced by Registry.Bind. *)
Construct(p, k) ==
    /\ Binds
    /\ p \in Unused
    /\ T!RegisterRecycled(p) \/ T!RegisterNew(p)
    /\ kind' = [kind EXCEPT ![p] = k]
    /\ unbound' = unbound \cup {p}
    /\ UNCHANGED <<fatal, requests, events, server>>

Bind(p) ==
    /\ p \in unbound
    /\ Len(requests) < MaxInFlight
    /\ InOrder(pid[p])
    /\ unbound' = unbound \ {p}
    /\ Write(Request("new", pid[p], p))
    /\ UNCHANGED <<table, fatal, kind, events, server>>

(* The constructor has registered the proxy when WriteMsg refuses the      *)
(* request (ErrFrameSize): nothing is written and nothing is undone. Only  *)
(* Registry.Bind can be refused, so p stands for a global, and the         *)
(* application does not repeat the call (Construct and Bind, if it does).  *)
CreateRefused(p, k) ==
    /\ Oversize
    /\ p \in Unused
    /\ T!RegisterRecycled(p) \/ T!RegisterNew(p)
    /\ kind' = [kind EXCEPT ![p] = k]
    /\ UNCHANGED <<fatal, unbound, requests, events, server>>

(* A destructor request, then the zombie mark; or the mark alone.          *)
WrongDestroyRecyclesAtOnce(p) ==
    /\ p \in T!Registered \ unbound /\ ~zombie[p] /\ p # Display
    /\ Len(requests) < MaxInFlight
    /\ objects' = T!Without(pid[p])
    /\ freeIDs' = IF T!Recyclable(pid[p]) THEN Append(freeIDs, pid[p]) ELSE freeIDs
    /\ zombie' = [zombie EXCEPT ![p] = TRUE]
    /\ IF HasDestructor(p) THEN Write(Request("destroy", pid[p], p))
                           ELSE UNCHANGED requests
    /\ UNCHANGED <<currentID, pid, outcome, fatal, kind, unbound, events, server>>

Destroy(p) ==
    /\ p \in T!Registered \ unbound /\ ~zombie[p]
    /\ Len(requests) < MaxInFlight
    /\ T!MarkZombie(p)
    /\ IF HasDestructor(p) THEN Write(Request("destroy", pid[p], p))
                           ELSE UNCHANGED requests
    /\ UNCHANGED <<fatal, kind, unbound, events, server>>

-----------------------------------------------------------------------------
(* Context.Dispatch, one event.                                            *)

(* GetProxy, then the zombie test of the generated decoders: what an       *)
(* object argument becomes in the event handed to the application.         *)
WrongResolvesZombies(n) == n \in DOMAIN objects
Resolves(n) == n \in DOMAIN objects /\ ~zombie[objects[n]]

(* A zombie's event is dropped, except at the display, which has no        *)
(* destructor request and still gets delete_id and error.                  *)
WrongAbsorbsDisplay(p) == zombie[p]
Absorbs(p) == zombie[p] /\ kind[p] # "display"

SetFatal == fatal' = TRUE /\ UNCHANGED table

(* AbsorbNewIDs: RegisterWithID and MarkZombie in one call.                *)
WrongIgnoreNewID(p, n) == UNCHANGED <<table, fatal>>
WrongRegisterZombieUnchecked(p, n) ==
    /\ objects' = T!Bound(n, p)
    /\ pid' = [pid EXCEPT ![p] = n]
    /\ zombie' = [zombie EXCEPT ![p] = TRUE]
    /\ outcome' = "ok"
    /\ UNCHANGED <<freeIDs, currentID, fatal>>
RegisterZombie(p, n) ==
    IF T!Acceptable(n)
    THEN /\ objects' = T!Bound(n, p)
         /\ pid' = [pid EXCEPT ![p] = n]
         /\ zombie' = [zombie EXCEPT ![p] = TRUE]
         /\ outcome' = "ok"
         /\ UNCHANGED <<freeIDs, currentID, fatal>>
    ELSE SetFatal

DispatchUnknownSender(e) ==
    /\ e.id \notin DOMAIN objects
    /\ SetFatal

DispatchZombie(e) ==
    /\ e.id \in DOMAIN objects
    /\ Absorbs(objects[e.id])
    /\ IF e.type = "introduce" /\ kind[objects[e.id]] = kind[e.object]
       THEN RegisterZombie(e.arg, e.argID)
       ELSE UNCHANGED <<table, fatal>>

Handles(e) == e.id \in DOMAIN objects /\ ~Absorbs(objects[e.id])

(* Display.Dispatch.                                                       *)
DispatchDeleteID(e) ==
    /\ Handles(e) /\ e.type = "delete_id"
    /\ T!DeleteID(e.argID)
    /\ UNCHANGED fatal

DispatchError(e) ==
    /\ Handles(e) /\ e.type = "error"
    /\ SetFatal

(* DataDevice.Dispatch, ZwpTabletPadV2.Dispatch: a live proxy of its type  *)
(* at the new_id is taken as the new object; otherwise a fresh proxy is    *)
(* registered, whose panic becomes a fatal error.                          *)
Adopts(n, k) == Resolves(n) /\ kind[objects[n]] = k

DispatchIntroduction(e) ==
    /\ Handles(e) /\ e.type = "introduce"
    /\ kind[objects[e.id]] = kind[e.object]
    /\ \/ /\ Adopts(e.argID, kind[e.arg])
          /\ UNCHANGED <<table, fatal>>
       \/ /\ ~Adopts(e.argID, kind[e.arg])
          /\ T!RegisterWithID(e.arg, e.argID)
          /\ fatal' = (outcome' = "panic")

DispatchPlain(e) ==
    /\ Handles(e) /\ e.type \in {"plain", "done"}
    /\ kind[objects[e.id]] = kind[e.object]
    /\ UNCHANGED <<table, fatal>>

(* The holder of the ID is not what the server thinks: it takes the opcode *)
(* for one of its own events, and the decoder (of a zombie, AbsorbNewIDs)  *)
(* may panic.                                                              *)
DispatchMisread(e) ==
    /\ e.id \in DOMAIN objects
    /\ e.type \in {"plain", "done", "introduce"}
    /\ kind[objects[e.id]] # kind[e.object]
    /\ Absorbs(objects[e.id]) => Introduces(objects[e.id])
    /\ UNCHANGED <<table, fatal>> \/ SetFatal

Dispatch ==
    /\ ~fatal
    /\ events # << >>
    /\ events' = Tail(events)
    /\ LET e == Head(events) IN
         \/ DispatchUnknownSender(e)
         \/ DispatchZombie(e)
         \/ DispatchDeleteID(e)
         \/ DispatchError(e)
         \/ DispatchIntroduction(e)
         \/ DispatchPlain(e)
         \/ DispatchMisread(e)
    /\ UNCHANGED <<kind, unbound, requests, server>>

-----------------------------------------------------------------------------
(* The server (external).                                                  *)

Post(es) == events' = events \o es
DeleteIDEvent(n) == Event("delete_id", T!DisplayID, Display, n, Display)
Reject ==
    /\ rejected' = TRUE
    /\ Post(<<Event("error", T!DisplayID, Display, NoID, Display)>>)
    /\ UNCHANGED <<resources, served>>

Occupied(n) == n \in DOMAIN resources
Install(n, p) ==
    resources' = [m \in DOMAIN resources \cup {n} |-> IF m = n THEN p ELSE resources[m]]
Remove(n) == resources' = [m \in DOMAIN resources \ {n} |-> resources[m]]

(* libwayland refuses a new_id that is occupied or leaves a gap.           *)
HandleNew(m) ==
    /\ m.op = "new"
    /\ IF Occupied(m.id) \/ m.id > served + 1
       THEN Reject
       ELSE /\ Install(m.id, m.object)
            /\ served' = IF m.id > served THEN m.id ELSE served
            /\ UNCHANGED <<events, rejected>>

(* Destroying a client object is acknowledged by delete_id; a server       *)
(* object's ID is free at once.                                            *)
HandleDestroy(m) ==
    /\ m.op = "destroy"
    /\ IF ~Occupied(m.id)
       THEN Reject
       ELSE /\ Remove(m.id)
            /\ Post(IF m.id < FirstServerID THEN <<DeleteIDEvent(m.id)>> ELSE << >>)
            /\ UNCHANGED <<served, rejected>>

Handle ==
    /\ ~rejected
    /\ requests # << >>
    /\ requests' = Tail(requests)
    /\ HandleNew(Head(requests)) \/ HandleDestroy(Head(requests))
    /\ UNCHANGED <<table, fatal, kind, unbound>>

FinishCallback(n) ==
    /\ Len(events) < MaxInFlight
    /\ kind[resources[n]] = "callback"
    /\ Remove(n)
    /\ Post(<<Event("done", n, resources[n], NoID, Display), DeleteIDEvent(n)>>)
    /\ UNCHANGED <<table, fatal, kind, unbound, requests, served, rejected>>

(* An event of an object in use, naming another object in use or none.     *)
SendEvent(n) ==
    /\ Len(events) < MaxInFlight
    /\ kind[resources[n]] \notin {"display", "callback"}
    /\ \/ Post(<<Event("plain", n, resources[n], NoID, Display)>>)
       \/ \E a \in DOMAIN resources :
            /\ kind[resources[a]] \in {"surface", "offer", "pad"}
            /\ Post(<<Event("plain", n, resources[n], a, resources[a])>>)
    /\ UNCHANGED <<table, fatal, kind, unbound, requests, server>>

Introduce(n, a, p, k) ==
    /\ Len(events) < MaxInFlight
    /\ Introduces(resources[n])
    /\ ~Occupied(a)
    /\ p \in Unused
    /\ Install(a, p)
    /\ kind' = [kind EXCEPT ![p] = k]
    /\ Post(<<Event("introduce", n, resources[n], a, p)>>)
    /\ UNCHANGED <<table, fatal, unbound, requests, served, rejected>>

(* What no libwayland server sends: a delete_id nobody asked for, an event *)
(* of an ID that is not in use, a new_id that is already in use.           *)
SendRogue ==
    /\ Rogue
    /\ Len(events) < MaxInFlight
    /\ \/ /\ \E n \in T!IDs : Post(<<DeleteIDEvent(n)>>)
          /\ UNCHANGED kind
       \/ /\ \E n \in T!IDs \ DOMAIN resources :
               Post(<<Event("plain", n, Display, NoID, Display)>>)
          /\ UNCHANGED kind
       \/ \E n \in DOMAIN resources, a \in T!IDs, p \in Unused, k \in Introducible :
            /\ Introduces(resources[n])
            /\ kind' = [kind EXCEPT ![p] = k]
            /\ Post(<<Event("introduce", n, resources[n], a, p)>>)
    /\ UNCHANGED <<table, fatal, unbound, requests, server>>

-----------------------------------------------------------------------------
Application ==
    \/ \E p \in Proxies, k \in Creatable :
         Create(p, k) \/ CreateRefused(p, k) \/ Construct(p, k)
    \/ \E p \in Proxies : Bind(p) \/ Destroy(p)

Server ==
    \/ Handle
    \/ ~rejected /\ \E n \in DOMAIN resources : FinishCallback(n) \/ SendEvent(n)
    \/ ~rejected /\ \E n \in DOMAIN resources, a \in T!ServerIDs, p \in Proxies,
                       k \in Introducible : Introduce(n, a, p, k)
    \/ SendRogue

Next == Application \/ Dispatch \/ Server

Spec == Init /\ [][Next]_vars

(* The documented use of Dispatch is a loop, and a server reads what its   *)
(* clients write.  Nothing obliges the application to create or destroy,   *)
(* or the server to send.                                                  *)
FairSpec == Spec /\ WF_vars(Dispatch) /\ WF_vars(Handle)

-----------------------------------------------------------------------------
TypeOK ==
    /\ T!TypeOK
    /\ fatal \in BOOLEAN /\ rejected \in BOOLEAN
    /\ kind \in [Proxies -> Kinds]
    /\ unbound \subseteq Proxies
    /\ \A m \in Messages(requests) : m.id \in T!ClientIDs \cup T!ServerIDs
    /\ \A e \in Messages(events) : e.id \in T!IDs /\ e.argID \in T!IDs \cup {NoID}
    /\ DOMAIN resources \subseteq T!IDs
    /\ \A n \in DOMAIN resources : resources[n] \in Proxies
    /\ served \in T!ClientIDs

(* With a libwayland server, no order of creations, destructions, recycled *)
(* IDs and events in flight makes the server refuse a request or the       *)
(* client fail the connection.                                             *)
ConformingPeersNeverFail == ~fatal /\ ~rejected

(* The event Dispatch reads next finds, at its sender ID, the very object  *)
(* the server sent it from: not a recycled ID's new holder, not nothing.   *)
EventFindsItsObject ==
    (events # << >> /\ ~fatal)
        => LET e == Head(events) IN
             e.id \in DOMAIN objects /\ objects[e.id] = e.object

(* An object argument reaches the application as the object the server     *)
(* meant, or as nil because the application has destroyed it; never as     *)
(* another object that has come to its ID.                                 *)
ArgumentNeverStrays ==
    (events # << >> /\ ~fatal)
        => LET e == Head(events) IN
             (e.type = "plain" /\ e.argID # NoID /\ Resolves(e.argID))
                 => objects[e.argID] = e.arg

(* With nothing in flight the two ends agree: a client ID is registered    *)
(* exactly when the server has it in use, for the same object, or when it  *)
(* waits for Registry.Bind; and every live object of the server's range is *)
(* known to the client.                                                    *)
AgreementAtRest ==
    (requests = << >> /\ events = << >> /\ ~fatal)
        => LET announced == {n \in DOMAIN objects : objects[n] \notin unbound} IN
             /\ announced \cap T!ClientIDs = DOMAIN resources \cap T!ClientIDs
             /\ \A n \in DOMAIN resources : n \in announced /\ objects[n] = resources[n]
             /\ \A n \in announced : ~zombie[objects[n]] => n \in DOMAIN resources

(* An ID whose object was destroyed with a destructor request is given     *)
(* back: its zombie does not occupy the table forever.                     *)
ZombiesAreReclaimed ==
    \A n \in T!ClientIDs, p \in Proxies \ {Display} :
        (n \in DOMAIN objects /\ objects[n] = p /\ zombie[p] /\ HasDestructor(p))
            ~> ~(n \in DOMAIN objects /\ objects[n] = p)

(* A failed connection stays failed and silent, whatever arrives later: no *)
(* request is written and no event touches the table.                      *)
FatalIsFinal ==
    [][fatal => /\ fatal'
                /\ Len(requests') <= Len(requests)
                /\ Len(events') >= Len(events)]_vars

(* Whatever the server sends, dispatching and absorbing an event never     *)
(* takes an ID away from a live object to give it to another.              *)
LiveObjectsKeepTheirIDs == T!OnlyZombiesReplaced

(* README.md:35 "a live duplicate panics" and context.go:69 "Only a live   *)
(* object at the ID is a duplicate": dispatching a data_offer that names a *)
(* live object's ID fails the connection.                                  *)
LiveDuplicateIsFatal ==
    [][(/\ ~fatal /\ events # << >> /\ events' = Tail(events)
        /\ Head(events).type = "introduce"
        /\ Resolves(Head(events).argID))
           => fatal']_vars

(* request.go:16 WriteMsg "refuses invalid frames before writing any byte  *)
(* and leaves the connection usable": a server that follows libwayland     *)
(* does not close the connection over the requests that come after.        *)
RefusalLeavesConnectionUsable == ~rejected

=============================================================================
