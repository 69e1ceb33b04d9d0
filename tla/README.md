# Specifications of sysc-wayland

TLA+ models of the Wayland client transport in `client/`, the TLC runs that
check them on small instances, and TLAPS proofs for every value of the
constants. File and line references are relative to the repository root.
`PROJECT.json` lists the runs, the mutants that show each property can fail,
the source lines of every definition, and the hazards the properties are for.

## 1. The system

sysc-wayland speaks the Wayland wire protocol over a Unix stream socket. One
goroutine owns a `Context`: the socket, the table of protocol objects, a queue
of received file descriptors and a sticky error. Generated bindings turn method
calls into requests and events into handler calls.

| Component | State | Operations | Talks to |
|---|---|---|---|
| Object table (`client/context.go`, `client/common.go`) | `objects`, `freeIDs`, `currentID`; `id` and `zombie` of every `BaseProxy` | `Register`, `RegisterWithID`, `Unregister`, `DeleteID`, `GetProxy`, `MarkZombie` | constructors, destructors, `Dispatch`, decoders |
| Event reader (`client/event.go`) | the stream position, `pendingFDs` | `ReadMsg`, `readExactWith`, `takeFD` | socket, `Dispatch` |
| Dispatch (`client/context.go`) | `fatalErr`, `pendingFDs` | `Dispatch`, `putBackFD`, `setFatal`, `recordDisplayError`, `Close` | reader, table, decoders, handlers |
| Request writer (`client/request.go`) | `fatalErr` | `WriteMsg`, `writeFrame` | socket, generated requests |
| Core bindings (`client/client.go`, generated) | the handlers of each proxy | constructors, requests, `Dispatch`, `HasFD`, `AbsorbNewIDs` | all of the above |
| Extension bindings (`cursorshape/`, `idle/`, `sessionlock/`, `textinput/`, generated) | the same | the same | the same |
| Roundtrip (`client/display.go`) | `done`, one callback | `Roundtrip` | `Sync`, `Dispatch` |
| Connect (`client/context.go`) | the environment, one descriptor | `Connect`, `unixConnFromFD` | the environment, the socket |
| Wire codec (`client/request.go`, `event.go`, `util.go`) | none | `PutString`, `PutArray`, `PutFixed`, `String`, `Fixed`, `PaddedLen` | bindings |
| Scanner (`cmd/sysc-wayland-scanner`) | none | XML to Go | writes the bindings |

How a message travels: a constructor registers a proxy, puts its ID in a
request and calls `WriteMsg`. The server answers on its own time. `Dispatch`
reads one frame, finds the sender by ID, decides whose descriptor it is,
absorbs the event when the sender was destroyed, and otherwise calls the
decoder, which resolves object arguments in the same table, may register an
object the server introduces, and calls the handler. A handler may create,
destroy, or dispatch again.

### What is hard

- **IDs outlive objects.** A destroyed object's events are still in flight;
  its ID comes back for another object. The client recycles its own IDs after
  `delete_id`; the server reuses its IDs without telling.
- **Destroyed objects introduce objects.** `data_offer` to a released
  `wl_data_device` names a new object whose own events follow.
- **Descriptors are out of band.** They arrive with or before the bytes of
  their frame, several frames' at once, and each has to be closed exactly once
  on a dozen paths, with handlers nested in handlers.
- **Partial progress.** Reads and writes stop anywhere. A deadline is harmless
  at a frame boundary and fatal inside a frame; a partial write must be the
  last thing written.
- **Failure is sticky.** After the first failure nothing is written and no
  event is handled.
- **Three functions per type.** What an event carries is written down in
  `Dispatch`, again in `HasFD` and again in `AbsorbNewIDs`; what a request
  occupies is computed once for the buffer and once while filling it.
- **Refusal after registration.** A constructor registers before its request
  is refused; a global is constructed in one call and announced in another.
- **Waiting nests.** `Roundtrip` waits for one event in a loop whose handlers
  may wait in loops of their own, and on a deadline it leaves with its event
  still to come.
- **Numbers are reused.** A descriptor closed by `Connect` is another
  goroutine's file a moment later.

### What makes each part correct

- *Table*: an ID handed out is nobody else's; a proxy's own ID and the table
  agree; only zombies of the server range are replaced; an ID returns only
  after `delete_id`; new IDs ascend without gaps (a libwayland server insists).
- *Lifecycle*: with a server that keeps the protocol no order of events fails
  either end; an event and each of its arguments reach the object they were
  sent about or none; both ends agree when nothing is in flight; IDs come back.
- *Reader and dispatch*: whole frames, in order, none lost to deadlines; each
  descriptor has one holder, reaches its event's handler, and is closed once.
- *Writer*: the peer reads whole frames in order; rights travel once, with the
  first bytes of their frame; refused requests leave no trace.
- *Roundtrip*: returns nil only after every earlier request and its events have
  been handled; always returns; gives its callback's ID back.
- *Connect*: `WAYLAND_SOCKET` is consumed once and never names a closed number
  afterwards; no descriptor leaks; nobody else's is closed.
- *Bindings and codec*: `Dispatch`, `HasFD` and `AbsorbNewIDs` of each type agree
  on every event; valid events are read where the server wrote them, anything
  else never reaches a handler; a request fills its buffer exactly and its
  header states its length; a zombie is one the server was told about.

## 2. Modules

| Module | Models | Composition |
|---|---|---|
| `IDLifecycle` | abstract: what a client owes the server about its IDs | refined by `ObjectTable` |
| `ObjectTable` | the table under any order of calls | used by `Lifecycle` as `T` |
| `ObjectTable_proofs` | its theorems | extends `ObjectTable`, `TLAPS` |
| `Lifecycle` | application, table, two message queues, server | instantiates `ObjectTable` |
| `Lifecycle_proofs` | its theorems | extends `Lifecycle`, `TLAPS`; instantiates `ObjectTable_proofs` |
| `Barrier` | abstract: what `Roundtrip` promises | implemented by `Roundtrip` |
| `Roundtrip` | nested calls of `Roundtrip` and `Dispatch`, the callbacks' IDs, the server | instantiates `ObjectTable` and `Barrier` |
| `Roundtrip_proofs` | its theorems, the refinement of `Barrier` among them | extends `Roundtrip`, `TLAPS`; instantiates `ObjectTable_proofs` |
| `Connect` | environment, descriptor table, `Connect` by system calls | |
| `Connect_proofs` | its theorems | extends `Connect`, `TLAPS` |
| `FrameReader` | bytes and descriptors to handler calls | |
| `FrameReader_proofs` | its theorems | extends `FrameReader`, `TLAPS` |
| `FrameWriter` | requests and descriptors to bytes | |
| `FrameWriter_proofs` | its theorems | extends `FrameWriter`, `TLAPS` |
| `WireFormat` | external: the layout of a message body | used by the two below |
| `Signatures` | the arguments of all requests and events of the shipped bindings | data for the runs |
| `EventDecoder` | one event through routing, `Dispatch` or `AbsorbNewIDs` | extends `WireFormat` |
| `EventDecoder_proofs` | its theorems | extends `EventDecoder`, `TLAPS` |
| `RequestEncoder` | one call of a request method | extends `WireFormat` |
| `RequestEncoder_proofs` | its theorems | extends `RequestEncoder`, `TLAPS` |
| `MC*` | the values of the runs | extend the module they name |

Definitions whose names begin with `Wrong` are plausible bugs. No behaviour of
a specification uses them; substituted for the operator next to them they show
that a property notices.

### ObjectTable

State is the code's: `objects` a function on the registered IDs, `freeIDs` a
sequence whose end is the top of the stack, `currentID`, and `pid` and `zombie`
for the two fields of every `BaseProxy`. One goroutine owns a `Context`, so each
method is one action. `Register` is three alternatives: a usable ID popped from
the stack (unusable ones popped on the way are lost, as in the loop at
`context.go:38`), the counter raised over IDs in use, or the panic at the
server's range. A panic is a value of `outcome`. `Proxies` is a set of structs
that can be allocated again once out of the table; a constructor's struct is
zero-valued, hence not a zombie. `Unregister` deletes whatever is at the proxy's
own ID, which need not be the proxy. `Register` is only called on structs not in the table: every
constructor allocates the struct it registers.

### Lifecycle

The two directions of the socket are FIFO queues of messages; the bytes below
them are `FrameReader`'s and `FrameWriter`'s subject. A member of `Proxies` is
one protocol object at both ends, so a message can carry the object its sender
meant next to the ID on the wire. No action of the client looks at that part.

Interfaces differ, as far as the life of an object goes, only in kind:
whether a destructor request exists (`hasDestructor` in the scanner), whether
the server destroys the object itself (`wl_callback`), whether events introduce
objects (`wl_data_device`), and whether the server allocates the ID
(`wl_data_offer`); `zwp_tablet_pad_v2` is both, so a destroyed pad that was
itself absorbed absorbs what it introduces. `Dispatch` of one event follows `Context.Dispatch`: unknown sender, zombie, then
the decoder. `DispatchMisread` is what a decoder does with another interface's
event: it may be dispatched as something else, or panic and fail the
connection; the properties show that it needs a misbehaving server.
`RegisterZombie` is `RegisterWithID` followed by `MarkZombie` in
`AbsorbNewIDs`, one step because nothing runs between them.

`CreateRefused` is a constructor whose request `WriteMsg` refuses and the
application does not repeat. A frame is too long only with a string or array in it,
and the one request with either beside its `new_id` is `Registry.Bind`
(`client/client.go:327`): the object stands for a global, constructed and then
not bound, and "surface" is then a global that has a release request. The
application that repeats `Bind` with the same proxy is `Construct` and a later
`Bind`. These two are the calls by which an application binds a global: the ID is
taken by the first and announced by the second, and other objects may be
destroyed and their IDs come back in between. `InOrder` is what the application
must keep to: it announces in the order of construction. An ID announced out of
order leaves the same gap as one never announced, which `lifecycle_refused`
shows to be fatal.

The server is external. It follows libwayland: a `new_id` must be free and at
most one above the highest seen; a destroyed client object is acknowledged by
`delete_id`; a server ID is free as soon as the client's destroy is handled;
`wl_callback.done` is followed by its `delete_id`. With `Rogue` it also sends
`delete_id`s, events and `new_id`s at will.

### Roundtrip and Barrier

`stack` is the Go call stack as far as it matters: running calls of `Roundtrip`
and running handlers. `Begin` is `Sync` and the first lines of `Roundtrip`; the
loop's `Dispatch` is taken apart into the event it reads and the return of the
handler it runs, so that the handler can issue requests, call `Dispatch` or call
`Roundtrip` in between. `done` holds the calls whose local variable is true: the
closure belongs to its own call, whichever loop dispatches the event. `Leave` is
the deferred `Destroy`, taken on every return: on nil, on a failure, and on
`ErrReadTimeout`, which may strike whenever the loop is about to read and leaves
the done event in flight. The callback's ID is freed by `delete_id`, possibly
while its call still runs (a nested loop has dispatched both events), and is then
another callback's. Handlers exist for plain events, `delete_id` and `error`;
one that was not set returns at once.

An application request is a member of `Requests`, sent once; the server handles
requests in order and answers each with an event or none, sends events of its
own accord, and may post an error or go away at any time.

`Barrier` states the promise of the comment on `Display.Sync` without callbacks
or queues. The mapping reads the stage of a request off the two queues and the
stack; what a call waits for is recorded in its frame when it begins and is
looked at by nothing else. A handler that runs when the call is made is not
waited for: the call may have been made by it.

### Connect

`files` is the descriptor table of the process, from open numbers to owners, and
the kernel hands out the lowest free number. `pc` walks through the system calls
of `Connect` and `unixConnFromFD`: duplicating the inherited descriptor
(`FileConn`), closing it, closing the duplicate when anything was wrong, and
dropping the variable; or dialling. Between any two of them the rest of the
process may open or close a file. Each call may fail, and all fail when no number
is free. `close` releases the number even when it reports an error, as on Linux.
What the parent passes down may be a Unix stream socket, another socket or no
socket. `Unsetenv` does not fail on Unix systems; its error branch is therefore
not taken in the model. The parent's number is open when the process starts: if
it is not, the program's own files may have taken the number before `Connect`
sees it, and no client could tell.

### FrameReader

A frame is `HeaderUnits` units of header and a body; units stand for bytes, two
to a header so that a read can stop inside it. `script`, one of `Scripts`, fixes
what the peer will send: body, whether a descriptor belongs to the frame, and the kind of sender.
The peer writes any number of units at a time with the descriptors of at least
every frame it begins, possibly of later ones. The kernel delivers descriptors
with the first unit of their write and never joins two writes with descriptors.
`pc` walks through `ReadMsg` (`header`, `body`, `deliver`); `active` and `lent`
are the stack of running handlers and the descriptor each holds, because a
handler may dispatch again. `owner` and `closes` record each descriptor's holder
and how often it has been closed. `Fail(q, x)` is `setFatal` with queue `q` and the
descriptors `x` that the caller closes besides.

A dispatcher without `HasFD` (sender `custom`) may be given another event's
descriptor; `DescriptorReachesItsEvent` is therefore stated for scripts without
one, as the shipped bindings are, and the accounting properties for all.

A descriptor counts as one per event; the model sends frames of one descriptor
at most, as every event in the shipped protocols does. The error of a malformed
control message (`getFdsFromOob`) is not modelled: the kernel does not produce
one.

### FrameWriter

`script` gives each request its length, its rights and whether it passes the
tests of `WriteMsg`. The socket takes any number of units and rights of each
write and may report an error as well, or a count out of range. `wire` is what
the peer will read.

### Signatures, EventDecoder, RequestEncoder

The bindings are some 13 thousand lines that differ in little but the
signatures. `Signatures` is that little: for each type the arguments each
request method encodes and each case of `Dispatch` decodes, the opcodes for
which `HasFD` is true and those `AbsorbNewIDs` handles, read off the Go code and
not off the protocol files. The walks are the same everywhere, because
`writeRequest`, `writeEventDispatcher` and `writeNewIDAbsorber` of the scanner
wrote them, and are modelled once.

`EventDecoder` starts where `ReadMsg` returns. `Init` chooses the event, the
sender's state, whether there is a handler, the size of the body, and the length
that each string or array declares, whether or not it fits. `pos` is the code's
`l`. A panic and its recovery are one step (`Panic`): the descriptor in hand is
closed, and `setFatal` closes the queue. `fd` says where the descriptor is that
`ReadMsg` took, which may belong to a later event. `AbsorbNewIDs` makes fewer
tests: words are stepped over, padding is not tested (the frame's size is a
multiple of four, `event.go:78`, so it always fits). `IntroducedObjectsAreKnown`
takes a `new_id` as registered when the code calls `RegisterWithID` or finds a
live proxy there; which IDs that accepts is `ObjectTable`'s subject.

`RequestEncoder` is the method from its first deferred statement to its return.
A nil proxy for an argument that may not be null panics where `ID()` is called,
after a constructor has registered its object. The slices the code writes to are
guards (`pos + 4 <= reqBuf`); deadlock checking shows they never fail.
`WireFormat` is the peer's view of the same bytes: its rounding and offsets are
defined apart from the code's `PaddedLen`, so that agreement means something.

## 3. Runs

| Run | Bounds | States | Shows |
|---|---|---|---|
| `object_table` | 4 proxies, client IDs 1-3, server IDs 4-5 | 127 k | the table's invariants; implements `IDLifecycle` |
| `lifecycle_recycling` | 4 objects, client IDs 1-3, 2 messages per direction, globals bound in two calls, fairness | 193 k | recycling with events in flight; both ends agree at rest; IDs come back |
| `lifecycle_devices` | 5 objects, client IDs 1-3, server IDs 4-5, 2 messages | 2.9 M | the same with objects the server introduces, offers and pads |
| `lifecycle_rogue` | 4 objects, server IDs 3-4, 1 message | 1.0 M | failure is final; live objects keep their IDs |
| `lifecycle_duplicate` | as `lifecycle_rogue` | | violation, see Findings |
| `lifecycle_refused` | 4 objects, 2 messages | | violation, see Findings |
| `frame_reader` | 2 frames of any senders and 3 of generated or destroyed ones, bodies of 0 or 1 unit, nesting 2, fairness | 907 k | every failure path of descriptors and the order of coalesced ones; no event is lost to deadlines |
| `frame_writer` | 3 requests of 1-3 units, 0-2 rights | 198 k | framing under partial writes |
| `roundtrip` | 2 callbacks, client IDs 1-3, 1 request, depth 4, fairness | 259 k | implements `Barrier`; every call returns; IDs come back |
| `connect` | 4 descriptor numbers, every environment | 22 k | descriptors have owners, the name is never stale, others are left alone |
| `event_decoder` | all events of all 40 types and all signatures of up to 3 arguments; bodies to 12 words, lengths 0, 1, 5, 1000 | 3.9 M | `Dispatch`, `HasFD`, `AbsorbNewIDs` agree with each other and the wire, for the shipped types and whatever the scanner generates |
| `request_encoder` | all requests, strings of 0-5 and 65496-65536 bytes | 6 k | exact buffers, honest headers, announced zombies |

Why these bounds are enough to be interesting. Three client IDs are the display
and two others, so a stack of two, recycling out of order, a gap and exhaustion
all occur; two server IDs let one be replaced while another is live. Two or
three messages in flight let a destroy, the event that crossed it, and the
`delete_id` coexist with a recycled `new_id`. A header of two units gives reads that stop inside it; a body of one
unit separates "after the header" from "complete"; three frames are needed for
a put-back in front of a queue with something in it. Three requests of three units
give a first write, two plain writes, and a request before and after.
Twelve words hold the longest shipped event (`wl_output.geometry`, six words and
two strings of five bytes); lengths 0, 1 and 5 are null, empty and padded, 1000
is past any body. The long strings carry each request that has one across 65532,
65536 and beyond. Events with two descriptors are left out: the decoder would
give both fields the same one, and no Wayland event has two.
Two callbacks and depth four give a call, its handler, a call inside and its
handler; a late done of either callback while the other waits; and an outer
callback whose ID is recycled while its call runs. One request is enough for a
call to pass too early, because the barrier speaks of each request by itself. The
queues of `Roundtrip` need no bound: each request, callback and unasked event is
in flight at most once. Four descriptor numbers are the inherited one, its
duplicate, an earlier connection's and another goroutine's, and let the table
fill up.
`MaxInFlight` guards what a peer sends of its own accord, not what a handler
replies, so nobody waits for a full queue. `MaxNesting` bounds recursion of
handlers.

`CHECK_DEADLOCK FALSE` appears where the modelled system stops: a failed
connection (`lifecycle_rogue`, `roundtrip` and the two violations) and a writer
that has written all its requests (`frame_writer`). In all the other runs
deadlock is checked; in `EventDecoder` and
`RequestEncoder` only a call that has returned may rest.

`lifecycle_recycling` introduces no objects from the server, so `AgreementAtRest`
says something only of client IDs there; for server IDs it is proved
(`TablesAgreeAtRest`, section 4).

**Fairness.** `lifecycle_recycling` assumes weak fairness of `Dispatch`, which is
the loop the package documents (`client/event.go:31`, `client/context.go:139`),
and of the server handling requests. Nothing obliges the application to create
or destroy or the server to send. `frame_reader` assumes that loop
too, that handlers return or panic, and strong fairness of receiving: a caller
that sets deadlines may time out any number of times, but a read for which bytes
are waiting succeeds eventually. No fairness is assumed of the peer.
`roundtrip` assumes that the loop of the innermost `Roundtrip` goes on reading
and returns when it may (it is ordinary code), that a server handles requests as
long as it is there, and that a handler at any depth ends (strong fairness for
each depth: a handler that calls `Roundtrip` in an endless loop never returns, and
then neither does the call around it). No deadline and no call of `Dispatch` by
the application is owed.

### Findings

- **A live duplicate is adopted** (`lifecycle_duplicate`). README.md:35 says a
  live duplicate panics. `RegisterWithID` does, and so does absorption at a
  zombie device, but `DataDevice.Dispatch` (`client/client.go:2840`) takes a
  live `*DataOffer` at the `new_id` as the introduced object. Two
  introductions then share one proxy. It takes a server that breaks the
  protocol.
- **A refused constructor costs the connection** (`lifecycle_refused`).
  `client/request.go:15-16` says a refused frame leaves the connection usable.
  The socket is; but the constructor has registered the proxy and its ID is
  never announced. The next constructor's `new_id` leaves a gap: in the trace it
  is 3 when the highest ID the server has seen is 1, two above, where a
  libwayland server accepts at most one above, and it answers with a fatal
  error. ID 2 of the trace stands for a global behind the registry (the registry
  and what else was created before are left out), because it takes a request
  with a `new_id` that is too long, that is `Registry.Bind` with an oversized
  interface name. An application can avoid the gap: it repeats `Bind` with the
  same proxy and a name that fits, before it creates anything else.

## 4. Proofs

`ObjectTable_proofs` proves, for any set of proxies and any split of the IDs
that satisfies `ObjectTableAssumption`:

| Theorem | Property |
|---|---|
| `TypeCorrect` | `[]TypeOK` |
| `FreeListIsSound` | `[]FreeListSound` |
| `IdentitiesAgree` | `[]IdentityAgrees` |
| `LiveObjectsKeepTheirIDs` | `OnlyZombiesReplaced` |
| `TableRefinesIDLifecycle` | `RefinesIDLifecycle` |

The argument is one inductive invariant, `IInv`: the types, `FreeListSound`,
`IdentityAgrees` and `CounterCoversClientIDs` (no client ID above `currentID`
is registered). None of the three is inductive alone. `FreeListSound` needs
the counter to cover the table, or `DeleteID` could queue an ID the counter has
yet to reach and `RegisterNew` would hand it out a second time.
`IdentityAgrees` needs the types, and that a proxy is registered only when it is
not in the table. Each
action has a lemma that it preserves `IInv`; `NextIInv` collects them. The
action property and the refinement use `IInv` in the state before the step.

For the refinement, `IDState` reads the abstract state off the table: *held* if
registered, *ready* if on the stack, *gone* if below the counter and neither,
*unused* above it. `IDStateAt` says so for one ID, `IDStateStep` turns
statements about single IDs into the abstract `EXCEPT`, and one lemma per
action maps it to an abstract action or a stutter. `RegisterNew` needs that the
counter covers the table (so the ID is the least unused one, exactly one above
it); an unregistered ID becomes *gone*.

`Roundtrip_proofs` proves, for any requests, any callbacks, any range of IDs and
any depth of nested calls that satisfy `RoundtripAssumption`:

| Theorem | Property |
|---|---|
| `TypeCorrect` | `[]TypeOK` |
| `AbandonedIDsAreOwed` | `[]AbandonedIDsComeBack` |
| `RoundtripIsABarrier` | `ImplementsBarrier` |

The invariant has the table's own (`TableInv`; the lemmas of `ObjectTable_proofs`
are used through an instance, with `TableAssumption` giving their assumption)
and, about the connection: a request is in one place only (`OnePlace`); what a
running call waits for is delivered above it on the stack (`CallStack`); the sync
and the done of a running call lie behind everything it waits for, and once
`done` is set nothing of that is in flight (`Behind`); the ID in a message is
still its callback's, and a callback whose done is to come is awaited or a
zombie (`Routing`); an ID is given back once and after its done
(`GivenBackOnce`). `Routing` is what keeps a late done of an abandoned call from
completing another: it needs `GivenBackOnce`, or a second `delete_id` could free
the ID of the new holder. The refinement has one lemma per action. The one that
matters is `ReturnNilMaps`: the call on top of the stack has its done, so by
`Behind` nothing it waits for is in flight; by `CallStack` each handler of it
would lie above the call, where there is nothing; so all of it is settled.
`TypeOK` alone would not even show that `objects[e.id]` is a callback.

`Connect_proofs` proves, for any non-empty set of descriptor numbers:

| Theorem | Property |
|---|---|
| `TypeCorrect` | `[]TypeOK` |
| `NoDescriptorIsLost` | `[]DescriptorsHaveOwners` |
| `NameStaysGood` | `[]NameIsNeverStale` |
| `ConnectLeavesOthersAlone` | `OthersAreLeftAlone` |

`NameIsNeverStale` speaks of the moments between calls; the invariant says what
the name is during one (`NameIsGood`: good until `file.Close`, and from there to
`Unsetenv` no descriptor is the inherited one), and that the socket a call has
made is open and nobody else's (`SocketIsOurs`). `LowestIsFree` is the kernel's
choice of number.

`FrameReader_proofs` proves, for every sequence of frames, every way of splitting
it into writes and reads, and every depth of nested handlers:

| Theorem | Property |
|---|---|
| `TypeCorrect` | `[]TypeOK` |
| `StopsAtBoundaries` | `[]StopsAtFrameBoundary` |
| `NoDescriptorLeaks` | `[]DescriptorsAccountedFor` |
| `DescriptorsReachTheirEvents` | `[]DescriptorReachesItsEvent` |

The invariant ties the read position to the unread writes: these lie end to end
from where the reader is to what the peer has written (`StreamPosition`, with
the starts of the writes as witness), and a descriptor in a write belongs to a
frame that begins no earlier. With the order of descriptors in the socket and in
the queue (`InOrder`) and that none of a frame to come is missing
(`NoneMissing`), the head of the queue is the descriptor of the frame being
dispatched. `Holders` makes closing what a handler holds closing it once.

`FrameWriter_proofs` proves, for any number of requests of any length with any
number of descriptors:

| Theorem | Property |
|---|---|
| `TypeCorrect` | `[]TypeOK` |
| `StreamStaysFramed` | `[]StreamIsFramed` |
| `ResultsAreHonest` | `[]ResultIsHonest` |
| `RightsAreSentOnce` | `[]RightsTravelOnce` |

The invariant adds where the stream stands during a write (`Position`), that
nothing of a later request is on the wire (`NothingAhead`), and that every unit
up to the offset and every descriptor of the request in progress is
(`TakenSoFar`); the properties speak of finished calls.

`EventDecoder_proofs` proves, for any set of events, any lengths and any sizes:

| Theorem | Property |
|---|---|
| `TypeCorrect` | `[]TypeOK` |
| `ValidEventsAreReadInPlace` | `[]ValidEventIsReadInPlace` |
| `HandlersSeeOnlyTheBody` | `[]HandlerSeesOnlyTheBody` |
| `DescriptorsFollowSignatures` | `TablesAgree => (Spec => []DescriptorFollowsSignature)` |
| `IntroductionsAreKnown` | `TablesAgree => (Spec => []IntroducedObjectsAreKnown)` |
| `BindingsTablesAgree` | `Bindings => (Spec => []TableAgrees)` |
| `BindingsLoseNothing` | `Bindings => (Spec => [](DescriptorFollowsSignature /\ IntroducedObjectsAreKnown))` |

`TablesAgree` says that `HasFD` and `AbsorbNewIDs` agree with the signatures, so
the first two of the last four hold of any bindings that keep their tables in
step. `Bindings` says that the events are those of the 40 interfaces in
`Signatures`, or what the scanner writes for some signature (`GeneratedEvent`);
for these the agreement is itself proved, interface by interface: 14 have no
events, 20 have only ordinary arguments and need no table (`OrdinaryEvents`), and
for the six with a table the opcodes it lists are shown to be the carriers of a
descriptor or a `new_id` (`CarriersAre`). The last theorem therefore assumes
nothing of the tables.

The invariant of these results adds to the two
properties where the descriptor is while the walk is under way (`PlaceOfFD`),
which branch the walk is (`Branch`) and that the `new_id`s among the arguments
read so far are registered (`KnownSoFar`); the properties speak only of the
return and are not inductive. One lemma covers a failure from any step, one a
read, one a registration; the actions follow from them. The first three rest on
a second invariant (`WInv`): the body has an argument of the right kind for each
letter, the position is the layout's offset of the next argument, and each
argument read by `Dispatch` was found to lie within the body.

`RequestEncoder_proofs` proves, for any set of requests and any lengths:

| Theorem | Property |
|---|---|
| `BuffersAreExactlyFilled` | `[]BufferIsExactlyFilled` |
| `SizeFieldsAreHonest` | `[]SizeFieldIsHonest` |
| `ZombiesWereAnnounced` | `[]ZombieWasAnnounced` |

The invariant says the arguments are of their letters' kinds (`CallIsTyped`), the
walk keeps to the layout (`Walk`) and how far the method is (`Progress`).
`ZombiesWereAnnounced` needs `DestructorAssumption`: a destructor has no string,
no array, no more words than fit a frame and, when it destroys its receiver, no
object argument. A destructor outside it could be refused, or panic, after its
`MarkZombie` was deferred. The assumption holds of every shipped destructor;
`request_encoder` evaluates it on the tables. The property is about request
methods; the `Destroy` that the scanner adds to an interface without a
destructor request marks the proxy and tells the server nothing, by design.

The layout, the sizing expression and the positions of frames are recursive
functions of sequences. What they compute is proved by taking the least index at
which it would go wrong (`LeastCounterexample`, `LeastElement`), from the
well-founded order of the natural numbers; `SumExists` and `SolutionExists` show
that the recursive equations have a solution.

`Lifecycle_proofs` proves, for any objects, any range of IDs and queues of any
depth that satisfy `LifecycleAssumption`:

| Theorem | Property | Server |
|---|---|---|
| `TypeCorrect` | `[]TypeOK` | any |
| `LiveObjectsAreNotReplaced` | `LiveObjectsKeepTheirIDs` | any |
| `FailureIsFinal` | `FatalIsFinal` | any |
| `ConnectionRefinesIDLifecycle` | `T!RefinesIDLifecycle` | any |
| `PeersAgree` | `[]Peers` | libwayland |
| `OnlyRejectionsFail` | `[](fatal => rejected)` | libwayland |
| `SendersAreFound` | `[]EventFindsItsObject` | libwayland |
| `ArgumentsAreFound` | `[]ArgumentNeverStrays` | libwayland |
| `PeersNeverFail` | `[]ConformingPeersNeverFail` | libwayland, no refusals |
| `TablesAgreeAtRest` | `[]AgreementAtRest` | libwayland, no refusals |

The first four hold whatever the server sends. Their invariant, `AInv`, has the
table's (through an instance of `ObjectTable_proofs`, as in `Roundtrip_proofs`),
the shape of the messages, and `Newcomers`: an object the server introduces is in
nobody's table until its event is read, or `RegisterWithID` would meet a proxy
that is registered already.

The fourth is the refinement `ObjectTable` has on its own, for the table in its
environment. Every step of the connection is a step of the table or leaves it
alone (`StepOnTable`), so `ObjectTable_proofs` does the rest, except for
`RegisterZombie`, which registers and marks in one: it touches server IDs only,
which the abstraction does not see.

The other six assume `~Rogue`: `lifecycle_rogue` has the server that sends what
libwayland would not. A constructor whose request is refused after it has taken
an ID (`Oversize`) does not invalidate the middle four. It breaks the ascending
order in which the server must see the IDs, so the server may reject a later
request, which `lifecycle_refused` shows, and that is why the last two need
`~Oversize`; but up to the server's `display.error` every event and every
argument still finds its object, and nothing but that event fails the client.
The invariant is `Peers`: `AInv`, and `BInv` until the connection fails after a
rejection. Within `BInv`, what a refusal costs is stated where it arises: a
client ID may be unknown to the server for good (`Settled`), so may the ID in a
destructor's request (`Refusable`), and `Order` holds only without refusals.
`LifecycleDevices.cfg` with `Oversize = TRUE`, `CHECK_DEADLOCK FALSE` and without
`ConformingPeersNeverFail` has TLC check `EventFindsItsObject` and
`ArgumentNeverStrays` with refused constructors on a small instance, in a few
minutes.

The centre of `BInv` is what the client *finds* at an ID when it comes to a
given event of the queue (`Finds`): the object an earlier event introduces
there, or the one in the table when no earlier event is about that ID. `Senders`
and `NamedObjects` say that every event in flight finds what its sender meant,
and `ServerView` that the end of the queue finds what the server has now. These
are not inductive alone, because a `delete_id` or an introduction ahead in the
queue could change the answer. So there is one conjunct per kind of message
about an ID: an introduction names a server ID the server still has, where the
table holds nothing or a zombie (`Introductions`); a `delete_id` a zombie, or an
object without destructor, whose ID is in no request (`Deletions`); a
constructor's request an ID the server does not have (`News`); a destructor's an
ID it has or is about to have (`Destructions`); and no two of a kind are about
one ID (`OncePerID`). `Settled` is the converse: every client ID in the table
waits for its bind, is on its way to the server, is there, or is on its way back
(or was refused). `Order` says the IDs the server has yet to see come in
ascending order without gaps, with those waiting for `Registry.Bind` at the end,
which is why the server never finds `new_id > served + 1` (`NewID`).

The proof has a lemma per action for each invariant. What the client reads is
`ReadEventBInv`, whose hypotheses are what `DeleteID`, `RegisterWithID`,
`RegisterZombie` and an event that changes nothing have in common; `FindsNext`
moves `Finds` one event forward. `FirstEvent` gives the properties: at the head
of the queue nothing is earlier, so the table itself has the object.

**Only model-checked.** Liveness (`ZombiesAreReclaimed`,
`EveryFrameDispatched`, `RoundtripReturns`): liveness under fairness and
`ENABLED` are outside what TLAPS can prove here. The two violations are TLC's by
their nature. Every safety property the passing runs check is also a theorem.

## 5. Plan

In this order; all of it exists.

1. `IDLifecycle`, `ObjectTable`, `ObjectTable_proofs`.
2. `Lifecycle`: the table in its environment.
3. `FrameReader`.
4. `FrameWriter`.
5. `Signatures`, `WireFormat`, `EventDecoder` with its proofs, `RequestEncoder`.
6. `Barrier` and `Roundtrip`.
7. `Connect`.
8. `Registry.Bind` split from the constructor, and objects of the server's range
   that introduce others, in `Lifecycle`.
9. Proofs about `Connect`, `FrameWriter`, `FrameReader`, `RequestEncoder`,
   `EventDecoder` and `Roundtrip`.
10. Proofs about `Lifecycle`, for any server and then for conforming peers.

## 6. Not modelled

- The scanner's XML parsing, naming, formatting and command line: output without
  state. What its templates do at run time is modelled.
- `ControlFD`, `SetReadDeadline`: wrappers over the runtime. What a deadline
  does is in `FrameReader` and `Roundtrip`.
- The 24.8 fixed-point conversions (`client/util.go`): they work on the bits of
  an IEEE double, which the integers of a model would only restate.
- Two calls of `Connect("")` at once: both may read `WAYLAND_SOCKET` before
  either drops it. Nothing in the package claims that this works.
- Requests and events that neither create, destroy nor introduce objects and
  carry no descriptor: `Lifecycle` has one plain event with one object argument
  for all of them (`EventDecoder` and `RequestEncoder` have all of them, one
  message at a time).
- Data races: one goroutine owns a connection by contract
  (`client/context.go:137`). `zombie` is atomic in the code, which lets another
  goroutine read it; nothing in the package does.
- A handler that closes a descriptor and then panics: recovery closes the number
  again. The interface does not say who owns it at that point.
- Closing a `Context` from another goroutine during a read.
- Which error a connection failed with: `fatal` is a boolean, and that
  `setFatal` (`client/context.go:209`) keeps the first error is not observed.
- What `Unregister` of a replaced proxy ought to do. It removes the new holder
  of the ID, in the code and in the model; `IDLifecycle` allows that (`Drop`)
  and does not see server IDs, and nothing in the repository claims otherwise
  or makes such a call.
