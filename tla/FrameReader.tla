---------------------------- MODULE FrameReader ----------------------------
(***************************************************************************)
(* How events and their file descriptors leave the socket                  *)
(* (Context.ReadMsg, readExactWith, takeFD in client/event.go;             *)
(* Context.Dispatch, putBackFD, setFatal, Close in client/context.go).     *)
(*                                                                         *)
(* The stream is counted in units: a header is HeaderUnits long, so that a *)
(* read can stop inside it.  The descriptor of frame f is called f.        *)
(* Descriptors are out of band: the kernel hands them over with the first  *)
(* byte of the write they were attached to, which may belong to an earlier *)
(* frame, so a queue in the Context holds them until their event is        *)
(* dispatched.                                                             *)
(*                                                                         *)
(* A handler may call Dispatch again (Display.Roundtrip does), so handlers *)
(* nest.                                                                   *)
(***************************************************************************)
EXTENDS Integers, Sequences

CONSTANTS
    Scripts,     \* what the peer may send: sequences of FrameKinds
    MaxNesting   \* bound on handlers calling Dispatch

HeaderUnits == 2

SenderKinds == {"aware",     \* generated proxy: implements FDDispatcher
                "custom",    \* Dispatcher without HasFD
                "zombie",    \* destroyed generated proxy
                "mute",      \* implements neither interface
                "unknown",   \* no proxy registered at the ID
                "invalid"}   \* the header itself is malformed

(* A frame: units of body, whether a descriptor is its own, its sender.    *)
FrameKinds == [body : Nat, fd : BOOLEAN, sender : SenderKinds]

ASSUME FrameReaderAssumption ==
    /\ \A s \in Scripts : s \in Seq(FrameKinds)
    /\ MaxNesting \in Nat \ {0}

VARIABLES
    script,      \* the frames of this peer
    sentUnits,   \* units the peer has written
    sentFDs,     \* frames whose descriptors the peer has written
    chunks,      \* writes not yet read: units left, descriptors not yet received
    eof,         \* the peer has shut its end down
    frame,       \* the frame at the read position
    got,         \* units of it consumed by the current ReadMsg
    pc,          \* "idle", or what the innermost Dispatch call is doing
    pendingFDs,  \* Context.pendingFDs
    active,      \* frames whose handlers are running, innermost last
    lent,        \* the descriptor given to each of those handlers
    fatal,       \* Context.fatalErr # nil
    closed,      \* Context.Close has been called
    owner,       \* who holds each descriptor
    closes       \* how often each descriptor has been closed

peer == <<script, sentUnits, sentFDs, eof>>
fds == <<owner, closes>>
vars == <<peer, chunks, frame, got, pc, pendingFDs, active, lent, fatal, closed, fds>>

N == Len(script)
Frames == 1 .. N
NoFD == 0
Owners == {"peer", "kernel", "context", "handler", "application", "closed"}

Units(f) == HeaderUnits + script[f].body
UnitsBefore[f \in 1 .. N + 1] == IF f = 1 THEN 0 ELSE UnitsBefore[f - 1] + Units(f - 1)
TotalUnits == UnitsBefore[N + 1]
HasFD(f) == script[f].fd

SeqRange(s) == {s[i] : i \in DOMAIN s}
Least(a, b) == IF a <= b THEN a ELSE b

Init ==
    /\ script \in Scripts
    /\ sentUnits = 0 /\ sentFDs = 0 /\ chunks = << >> /\ eof = FALSE
    /\ frame = 1 /\ got = 0 /\ pc = "idle"
    /\ pendingFDs = << >> /\ active = << >> /\ lent = << >>
    /\ fatal = FALSE /\ closed = FALSE
    /\ owner = [f \in Frames |-> "peer"]
    /\ closes = [f \in Frames |-> 0]

-----------------------------------------------------------------------------
(* The peer and the socket (external).  A write carries any number of the  *)
(* units left, and the descriptors of at least every frame it begins.      *)
Begun(units) == {f \in Frames : UnitsBefore[f] < units}
FDsOf(lo, hi) ==
    LET upTo[f \in lo .. hi] == IF f = lo THEN << >>
                                ELSE IF HasFD(f) THEN Append(upTo[f - 1], f)
                                ELSE upTo[f - 1]
    IN  upTo[hi]

PeerWrite(k, m) ==
    /\ ~eof
    /\ sentUnits + k <= TotalUnits
    /\ \A f \in Begun(sentUnits + k) : f <= m
    /\ sentUnits' = sentUnits + k
    /\ sentFDs' = m
    /\ chunks' = Append(chunks, [units |-> k, fds |-> FDsOf(sentFDs, m)])
    /\ owner' = [f \in Frames |-> IF f \in sentFDs + 1 .. m THEN "kernel" ELSE owner[f]]
    /\ UNCHANGED <<script, eof, frame, got, pc, pendingFDs, active, lent, fatal, closed, closes>>

PeerShutdown ==
    /\ ~eof
    /\ eof' = TRUE
    /\ UNCHANGED <<script, sentUnits, sentFDs, chunks, frame, got, pc, pendingFDs, active,
                   lent, fatal, closed, fds>>

-----------------------------------------------------------------------------
(* setFatal: the first failure sticks and closes the queue.                *)
CloseAll(s) ==
    /\ owner' = [f \in Frames |-> IF f \in s THEN "closed" ELSE owner[f]]
    /\ closes' = [f \in Frames |-> IF f \in s THEN closes[f] + 1 ELSE closes[f]]

(* Fail with queue q and a received descriptor set x to close besides.     *)
Fail(q, x) ==
    /\ fatal' = TRUE
    /\ pendingFDs' = IF fatal THEN q ELSE << >>
    /\ CloseAll(x \cup (IF fatal THEN {} ELSE SeqRange(q)))
    /\ pc' = "idle"

(* Dispatch returns fatalErr at once when it is set.                       *)
StartDispatch ==
    /\ pc = "idle" /\ ~fatal
    /\ Len(active) < MaxNesting
    /\ pc' = "header"
    /\ got' = 0
    /\ UNCHANGED <<peer, chunks, frame, pendingFDs, active, lent, fatal, closed, fds>>

Reading == pc \in {"header", "body"}
Wanted == IF pc = "header" THEN HeaderUnits - got ELSE Units(frame) - got

(* What follows once the units asked for have been read.                   *)
WrongAlwaysReadsBody(n) ==
    IF n < HeaderUnits THEN "header"
    ELSE IF n <= HeaderUnits \/ n < Units(frame) THEN "body" ELSE "deliver"
AfterRead(n) ==
    IF n < HeaderUnits THEN "header"
    ELSE IF n < Units(frame) THEN "body" ELSE "deliver"

(* One recvmsg: some of the first chunk, with its descriptors.             *)
Consume(n) ==
    chunks' = LET c == Head(chunks) IN
              IF n = c.units THEN Tail(chunks)
              ELSE <<[units |-> c.units - n, fds |-> << >>]>> \o Tail(chunks)

Receive(n) ==
    /\ Reading /\ ~closed /\ chunks # << >>
    /\ n <= Least(Wanted, Head(chunks).units)
    /\ Consume(n)
    /\ LET queue == pendingFDs \o Head(chunks).fds
           invalid == pc = "header" /\ got + n = HeaderUnits /\ script[frame].sender = "invalid"
       IN  \/ /\ ~invalid
              /\ got' = got + n
              /\ pc' = AfterRead(got + n)
              /\ pendingFDs' = queue
              /\ owner' = [f \in Frames |->
                             IF f \in SeqRange(Head(chunks).fds) THEN "context" ELSE owner[f]]
              /\ UNCHANGED <<fatal, closes>>
           \/ /\ invalid
              /\ Fail(queue, {})
              /\ got' = 0
    /\ UNCHANGED <<peer, frame, active, lent, closed>>

(* The control message did not fit: MSG_CTRUNC.  Its descriptors are       *)
(* queued before the flags are looked at.                                  *)
ReceiveTruncated(n) ==
    /\ Reading /\ ~closed /\ chunks # << >>
    /\ n <= Least(Wanted, Head(chunks).units)
    /\ Head(chunks).fds # << >>
    /\ Consume(n)
    /\ Fail(pendingFDs \o Head(chunks).fds, {})
    /\ got' = 0
    /\ UNCHANGED <<peer, frame, active, lent, closed>>

(* The read deadline passes: harmless if this frame has not been touched.  *)
WrongDeadline ==
    /\ Reading
    /\ pc' = "idle"
    /\ UNCHANGED <<got, pendingFDs, fatal, fds>>
    /\ UNCHANGED <<peer, chunks, frame, active, lent, closed>>

Deadline ==
    /\ Reading
    /\ \/ /\ pc = "header" /\ got = 0
          /\ pc' = "idle"
          /\ UNCHANGED <<got, pendingFDs, fatal, fds>>
       \/ /\ pc = "body" \/ got > 0
          /\ Fail(pendingFDs, {})
          /\ got' = 0
    /\ UNCHANGED <<peer, chunks, frame, active, lent, closed>>

(* End of stream, or a read on a connection the application has closed.    *)
ReadError ==
    /\ Reading
    /\ closed \/ (eof /\ chunks = << >>)
    /\ Fail(pendingFDs, {})
    /\ got' = 0
    /\ UNCHANGED <<peer, chunks, frame, active, lent, closed>>

-----------------------------------------------------------------------------
(* takeFD, then the routing of Dispatch.                                   *)
Taken == IF pendingFDs = << >> THEN NoFD ELSE Head(pendingFDs)
WrongAfterTakeLeavesHole ==
    IF pendingFDs = << >> THEN << >> ELSE <<NoFD>> \o Tail(pendingFDs)
AfterTake == IF pendingFDs = << >> THEN << >> ELSE Tail(pendingFDs)

(* A sender that implements FDDispatcher hands back a descriptor that is   *)
(* not its event's.                                                        *)
WrongNeverPutsBack(f) == FALSE
PutsBack(f) == script[f].sender \in {"aware", "zombie"} /\ ~HasFD(f)
FD(f) == IF PutsBack(f) THEN NoFD ELSE Taken
Queue(f) == IF PutsBack(f) /\ Taken # NoFD THEN <<Taken>> \o AfterTake ELSE AfterTake
Received(f) == IF FD(f) = NoFD THEN {} ELSE {FD(f)}

NextFrame == frame' = frame + 1 /\ got' = 0

DeliverRefused(f) ==
    /\ script[f].sender \in {"unknown", "mute"}
    /\ Fail(Queue(f), Received(f))
    /\ UNCHANGED <<active, lent>>

(* A zombie's descriptor is closed before its new_ids are absorbed, which  *)
(* may panic.                                                              *)
DeliverZombie(f) ==
    /\ script[f].sender = "zombie"
    /\ \/ /\ pendingFDs' = Queue(f)
          /\ CloseAll(Received(f))
          /\ pc' = "idle"
          /\ UNCHANGED fatal
       \/ Fail(Queue(f), Received(f))
    /\ UNCHANGED <<active, lent>>

(* A generated decoder closes the descriptor itself when no handler is     *)
(* set.                                                                    *)
DeliverNoHandler(f) ==
    /\ script[f].sender = "aware"
    /\ pendingFDs' = Queue(f)
    /\ CloseAll(Received(f))
    /\ pc' = "idle"
    /\ UNCHANGED <<fatal, active, lent>>

DeliverToHandler(f) ==
    /\ script[f].sender \in {"aware", "custom"}
    /\ pendingFDs' = Queue(f)
    /\ active' = Append(active, f)
    /\ lent' = Append(lent, FD(f))
    /\ owner' = [g \in Frames |-> IF g \in Received(f) THEN "handler" ELSE owner[g]]
    /\ pc' = "idle"
    /\ UNCHANGED <<fatal, closes>>

Deliver ==
    /\ pc = "deliver"
    /\ NextFrame
    /\ \/ DeliverRefused(frame)
       \/ DeliverZombie(frame)
       \/ DeliverNoHandler(frame)
       \/ DeliverToHandler(frame)
    /\ UNCHANGED <<peer, chunks, closed>>

-----------------------------------------------------------------------------
(* The innermost handler ends: a normal return leaves the descriptor with  *)
(* the application, a panic is recovered by Dispatch, which closes it.     *)
Innermost == lent[Len(lent)]
Popped(s) == SubSeq(s, 1, Len(s) - 1)
Lent == IF Innermost = NoFD THEN {} ELSE {Innermost}

HandlerReturns ==
    /\ pc = "idle" /\ active # << >>
    /\ active' = Popped(active) /\ lent' = Popped(lent)
    /\ owner' = [f \in Frames |-> IF f \in Lent THEN "application" ELSE owner[f]]
    /\ UNCHANGED <<peer, chunks, frame, got, pc, pendingFDs, fatal, closed, closes>>

WrongPanicLeaksFD ==
    /\ pc = "idle" /\ active # << >>
    /\ active' = Popped(active) /\ lent' = Popped(lent)
    /\ Fail(pendingFDs, {})
    /\ UNCHANGED <<peer, chunks, frame, got, closed>>

HandlerPanics ==
    /\ pc = "idle" /\ active # << >>
    /\ active' = Popped(active) /\ lent' = Popped(lent)
    /\ Fail(pendingFDs, Lent)
    /\ UNCHANGED <<peer, chunks, frame, got, closed>>

(* wl_display.error sticks fatalErr through recordDisplayError, then runs  *)
(* its handler.                                                            *)
DisplayError ==
    /\ pc = "idle" /\ active # << >> /\ script[active[Len(active)]].sender = "aware"
    /\ Innermost = NoFD
    /\ ~fatal
    /\ Fail(pendingFDs, {})
    /\ UNCHANGED <<peer, chunks, frame, got, active, lent, closed>>

(* Context.Close, between Dispatch calls or inside a handler.              *)
CloseContext ==
    /\ pc = "idle"
    /\ closed' = TRUE
    /\ CloseAll(SeqRange(pendingFDs))
    /\ pendingFDs' = << >>
    /\ UNCHANGED <<peer, chunks, frame, got, pc, active, lent, fatal>>

-----------------------------------------------------------------------------
PeerStep == PeerShutdown \/ \E k \in 1 .. TotalUnits, m \in sentFDs .. N : PeerWrite(k, m)
ReceiveSome == \E n \in 1 .. TotalUnits : Receive(n)
Truncated == \E n \in 1 .. TotalUnits : ReceiveTruncated(n)

Next ==
    \/ PeerStep
    \/ StartDispatch \/ ReceiveSome \/ Truncated \/ Deadline \/ ReadError
    \/ Deliver
    \/ HandlerReturns \/ HandlerPanics \/ DisplayError
    \/ CloseContext

Spec == Init /\ [][Next]_vars

(* The event loop keeps calling Dispatch and its handlers return; a read   *)
(* deadline leaves time to read what has arrived, over and over.           *)
FairSpec ==
    /\ Spec
    /\ WF_vars(StartDispatch) /\ WF_vars(Deliver)
    /\ WF_vars(HandlerReturns \/ HandlerPanics) /\ WF_vars(ReadError)
    /\ SF_vars(ReceiveSome)

-----------------------------------------------------------------------------
TypeOK ==
    /\ sentUnits \in 0 .. TotalUnits /\ sentFDs \in 0 .. N
    /\ frame \in 1 .. N + 1
    /\ got \in Nat
    /\ pc \in {"idle", "header", "body", "deliver"}
    /\ SeqRange(pendingFDs) \subseteq Frames
    /\ Len(active) = Len(lent) /\ Len(active) <= MaxNesting
    /\ owner \in [Frames -> Owners]
    /\ closes \in [Frames -> Nat]

(* Every received descriptor has exactly one holder, and is closed at most *)
(* once: whatever fails, panics, nests or is closed early, none leaks from *)
(* the queue and none is closed twice (by then another file's number).     *)
(* Those in the queue belong to frames not yet dispatched, in their order; *)
(* a failed or closed connection holds none.                               *)
DescriptorsAccountedFor ==
    \A f \in Frames :
      /\ (owner[f] = "context") <=> (f \in SeqRange(pendingFDs))
      /\ (owner[f] = "handler") <=> (f \in SeqRange(lent))
      /\ closes[f] = IF owner[f] = "closed" THEN 1 ELSE 0
      /\ owner[f] = "context" => f >= frame /\ ~fatal /\ ~closed
      /\ \A i, j \in DOMAIN pendingFDs : i < j => pendingFDs[i] < pendingFDs[j]

(* A handler is given the descriptor its own frame carried, and never      *)
(* another frame's, although descriptors arrive early and in bulk.  (A     *)
(* dispatcher without HasFD takes what is there, as documented.)           *)
DescriptorReachesItsEvent ==
    (\A f \in Frames : script[f].sender # "custom") =>
      \A i \in DOMAIN active :
          lent[i] = IF HasFD(active[i]) THEN active[i] ELSE NoFD

(* A Dispatch that has not failed the connection leaves the stream at a    *)
(* frame boundary, so the next one reads a header.                         *)
StopsAtFrameBoundary == (pc = "idle" /\ ~fatal) => got = 0

(* Again and again, every frame that has arrived in full is dispatched,    *)
(* unless the connection fails or is closed: idle deadlines delay events   *)
(* and lose none, and end of stream is noticed only after what came before *)
(* it.                                                                     *)
EveryFrameDispatched ==
    []<>(\/ fatal \/ closed
         \/ \A f \in Frames : sentUnits >= UnitsBefore[f + 1] => frame > f)

=============================================================================
