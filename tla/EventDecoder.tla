---------------------------- MODULE EventDecoder ----------------------------
(***************************************************************************)
(* One event from the moment ReadMsg returns it: Context.Dispatch          *)
(* (client/context.go) routes its descriptor and hands it to the sender's  *)
(* generated Dispatch, or, when the sender is a zombie, to AbsorbNewIDs.   *)
(*                                                                         *)
(* Both walk the arguments at a running offset into a body whose size the  *)
(* frame fixed and whose lengths the server chose; a slice out of range, a *)
(* length past the end and a missing NUL panic, and Dispatch recovers.     *)
(* Words are not modelled but for new_id, whose registration is.           *)
(***************************************************************************)
EXTENDS Integers, Sequences, WireFormat

CONSTANTS
    Events,     \* the events a sender may emit (records as Signatures!Event)
    Lengths,    \* the lengths the server may declare for a string or array
    MaxWords    \* bound on the size of a body, in words

ASSUME EventDecoderAssumption ==
    /\ \A e \in Events : e.sig \in Seq(Letters) /\ e.fails \in BOOLEAN
    /\ Lengths \subseteq Nat /\ MaxWords \in Nat

VARIABLES
    event,      \* the case of Dispatch the sender and opcode select
    zombie,     \* the sender's IsZombie
    handler,    \* the application set a handler for the event
    body, size, \* what the arguments declare; the bytes the frame carries
    pc,
    arg, pos,   \* the argument to read next and the offset l
    at,         \* where each argument read so far was read
    fd,         \* where the descriptor ReadMsg took from the queue is
    introduced, \* how each new_id argument was registered
    fatal       \* Context.fatalErr # nil

message == <<event, zombie, handler, body, size>>
vars == <<message, pc, arg, pos, at, fd, introduced, fatal>>

Returned == {"absorbed", "unhandled", "handled"}
Failed == {"unsupported", "recovered", "crashed"}   \* crashed: in the handler
Descriptor == {"none", "held", "queued", "closed", "given"}

Contents(letter) ==
    CASE letter \in Strings -> {c \in Content(Lengths, BOOLEAN, {FALSE}) : c.nul => c.len > 0}
      [] letter = "a" -> Content(Lengths, {FALSE}, {FALSE})
      [] letter = "n" -> Content({0}, {FALSE}, BOOLEAN)
      [] OTHER -> Content({0}, {FALSE}, {FALSE})
Bodies(sig) ==
    LET b[k \in 0 .. Len(sig)] ==
            IF k = 0 THEN {<< >>}
            ELSE {Append(s, c) : s \in b[k - 1], c \in Contents(sig[k])}
    IN  b[Len(sig)]

Init ==
    /\ event \in Events /\ body \in Bodies(event.sig)
    /\ zombie \in BOOLEAN /\ handler \in BOOLEAN
    /\ size \in {4 * w : w \in 0 .. MaxWords}
    /\ fd \in {"none", "held"}
    /\ pc = "route" /\ arg = 1 /\ pos = 0 /\ at = << >>
    /\ introduced = [k \in 1 .. Len(event.sig) |-> "no"]
    /\ fatal = FALSE

-----------------------------------------------------------------------------
Carries(letter) == \E k \in 1 .. Len(event.sig) : event.sig[k] = letter

(* A wl_display is zombied only locally and keeps its events.              *)
Absorbs == zombie /\ event.iface # "Display"

(* An event that carries no descriptor leaves the one that happened to be  *)
(* first in the queue for a later event.                                   *)
Routed == IF event.dispatcher /\ ~event.hasFD /\ fd = "held" THEN "queued" ELSE fd
Closed(f) == IF f = "held" THEN "closed" ELSE f

(* A failure closes the descriptor in hand and those in the queue.         *)
Fail(outcome) ==
    /\ pc' = outcome
    /\ fatal' = TRUE
    /\ fd' = IF fd = "none" THEN "none" ELSE "closed"
Panic == Fail("recovered") /\ UNCHANGED <<message, arg, pos, at, introduced>>
Goes(next, f) ==
    /\ pc' = next /\ fd' = f
    /\ UNCHANGED <<message, arg, pos, at, introduced, fatal>>

RouteToZombie ==
    /\ pc = "route" /\ Absorbs
    /\ Goes(IF event.absorbs THEN "absorb" ELSE "absorbed", Closed(Routed))

RouteToNoDispatcher ==
    /\ pc = "route" /\ ~Absorbs /\ ~event.dispatcher
    /\ Fail("unsupported")
    /\ UNCHANGED <<message, arg, pos, at, introduced>>

UnknownOpcode ==
    /\ pc = "route" /\ ~Absorbs /\ event.dispatcher /\ ~event.known
    /\ Panic

(* Without a handler an event is not even decoded, unless it introduces an *)
(* object or the client acts on it itself.                                 *)
WrongSkipsIntroductions == ~handler /\ ~event.loud
Skips == ~handler /\ ~event.loud /\ ~Carries("n")
Ignored(f) == IF Carries("h") THEN Closed(f) ELSE f

RouteToNoHandler ==
    /\ pc = "route" /\ ~Absorbs /\ event.dispatcher /\ event.known
    /\ Skips
    /\ Goes("unhandled", Ignored(Routed))

RouteToDispatch ==
    /\ pc = "route" /\ ~Absorbs /\ event.dispatcher /\ event.known
    /\ ~Skips
    /\ Goes("decode", Routed)

-----------------------------------------------------------------------------
PaddedLen(l) == IF l % 4 # 0 THEN l + (4 - (l % 4)) ELSE l

Letter == event.sig[arg]
Declared == body[arg].len
More == arg <= Len(event.sig)
Reading(letters) == More /\ Letter \in letters
Fits(n) == pos + n <= size

WrongAdvanceFromHeader(n) ==
    /\ pos' = pos + n - 8
    /\ at' = Append(at, pos)
    /\ arg' = arg + 1
Advance(n) ==
    /\ pos' = pos + n
    /\ at' = Append(at, pos)
    /\ arg' = arg + 1
Reads(n) == Advance(n) /\ UNCHANGED <<message, pc, fd, introduced, fatal>>

Words == {"u", "i", "f", "o", "?o"}

(* data[l : l+4] panics past the end of the body.                          *)
Truncated ==
    /\ pc = "decode" \/ (pc = "absorb" /\ More /\ Letter \notin {"u", "i", "f"})
    /\ Reading(Letters \ {"h"}) /\ ~Fits(4)
    /\ Panic

DecodeWord ==
    /\ pc = "decode" /\ Reading(Words) /\ Fits(4)
    /\ Reads(4)

DecodeFD ==
    /\ pc = "decode" /\ Reading({"h"})
    /\ Reads(0)

Introduce(as) ==
    /\ Advance(4)
    /\ introduced' = IF body[arg].null THEN introduced ELSE [introduced EXCEPT ![arg] = as]
    /\ UNCHANGED <<message, pc, fd, fatal>>

DecodeNewID ==
    /\ pc = "decode" /\ Reading({"n"}) /\ Fits(4)
    /\ Introduce("live")

LengthFits == Fits(4 + Declared)
PaddingFits == Fits(4 + PaddedLen(Declared))
Terminated ==
    CASE Letter = "s" -> Declared > 0 /\ body[arg].nul
      [] Letter = "?s" -> Declared = 0 \/ body[arg].nul
      [] OTHER -> TRUE

WrongDecodeVariableUnbounded ==
    /\ pc = "decode" /\ Reading(Variable) /\ Fits(4)
    /\ Terminated
    /\ Reads(4 + PaddedLen(Declared))
DecodeVariable ==
    /\ pc = "decode" /\ Reading(Variable) /\ Fits(4)
    /\ LengthFits /\ PaddingFits /\ Terminated
    /\ Reads(4 + PaddedLen(Declared))

DecodeBadVariable ==
    /\ pc = "decode" /\ Reading(Variable) /\ Fits(4)
    /\ ~(LengthFits /\ PaddingFits /\ Terminated)
    /\ Panic

(* The handler runs last.  It may panic as well: Dispatch recovers that    *)
(* too and closes the descriptor it has given away.                        *)
Decoded == pc = "decode" /\ ~More
Completes(next, f) ==
    /\ pc' = next
    /\ fatal' = event.fails
    /\ fd' = IF event.fails /\ f = "queued" THEN "closed" ELSE f
    /\ UNCHANGED <<message, arg, pos, at, introduced>>

Deliver ==
    /\ Decoded /\ handler
    /\ Completes("handled", IF Carries("h") /\ fd = "held" THEN "given" ELSE fd)

HandlerPanics ==
    /\ Decoded /\ handler
    /\ Fail("crashed")
    /\ UNCHANGED <<message, arg, pos, at, introduced>>

DropUnhandled ==
    /\ Decoded /\ ~handler
    /\ Completes("unhandled", Ignored(fd))

-----------------------------------------------------------------------------
(* AbsorbNewIDs walks the same body, and only as carefully as the walk     *)
(* needs: words are stepped over unread, contents are not looked at.       *)
AbsorbWord ==
    /\ pc = "absorb" /\ Reading(Words)
    /\ Letter \in {"o", "?o"} => Fits(4)
    /\ Reads(4)

AbsorbFD ==
    /\ pc = "absorb" /\ Reading({"h"})
    /\ Reads(0)

AbsorbNewID ==
    /\ pc = "absorb" /\ Reading({"n"}) /\ Fits(4)
    /\ Introduce("zombie")

WrongAbsorbVariableUnpadded ==
    /\ pc = "absorb" /\ Reading(Variable) /\ Fits(4)
    /\ LengthFits
    /\ Reads(4 + Declared)
AbsorbVariable ==
    /\ pc = "absorb" /\ Reading(Variable) /\ Fits(4)
    /\ LengthFits
    /\ Reads(4 + PaddedLen(Declared))

AbsorbBadVariable ==
    /\ pc = "absorb" /\ Reading(Variable) /\ Fits(4)
    /\ ~LengthFits
    /\ Panic

Absorbed ==
    /\ pc = "absorb" /\ ~More
    /\ Goes("absorbed", fd)

Route ==
    \/ RouteToZombie \/ RouteToNoDispatcher \/ UnknownOpcode
    \/ RouteToNoHandler \/ RouteToDispatch
Decode ==
    \/ DecodeWord \/ DecodeFD \/ DecodeNewID \/ DecodeVariable \/ DecodeBadVariable
    \/ Deliver \/ HandlerPanics \/ DropUnhandled
Absorb == AbsorbWord \/ AbsorbFD \/ AbsorbNewID \/ AbsorbVariable \/ AbsorbBadVariable \/ Absorbed

(* Dispatch has returned.                                                  *)
Rest == pc \in Returned \cup Failed /\ UNCHANGED vars

Next == Route \/ Truncated \/ Decode \/ Absorb \/ Rest
Spec == Init /\ [][Next]_vars

-----------------------------------------------------------------------------
TypeOK ==
    /\ event.sig \in Seq(Letters) /\ zombie \in BOOLEAN /\ handler \in BOOLEAN /\ fatal \in BOOLEAN
    /\ pc \in {"route", "decode", "absorb"} \cup Returned \cup Failed
    /\ arg \in 1 .. Len(event.sig) + 1
    /\ pos \in Nat /\ size \in Nat
    /\ at \in Seq(Nat) /\ Len(at) = arg - 1
    /\ fd \in Descriptor
    /\ introduced \in [1 .. Len(event.sig) -> {"no", "live", "zombie"}]

Agrees(e) ==
    LET has(letter) == \E k \in 1 .. Len(e.sig) : e.sig[k] = letter
    IN  /\ e.dispatcher => (e.hasFD <=> has("h"))
        /\ e.absorbs <=> e.dispatcher /\ has("n")

(* HasFD and AbsorbNewIDs of a type answer for exactly the opcodes whose   *)
(* case in Dispatch takes a descriptor or registers an object: three       *)
(* functions of each generated type, kept in step by the scanner alone.    *)
TableAgrees == Agrees(event)

Valid == event.known /\ WellFormed(event.sig, body, size)

(* An event the server encoded correctly never fails the connection on the *)
(* client's side, and every argument is read where the server put it, by   *)
(* Dispatch and by AbsorbNewIDs alike, up to the last byte of the body.    *)
ValidEventIsReadInPlace ==
    Valid =>
        /\ pc # "recovered"
        /\ \A k \in 1 .. Len(at) : at[k] = Offset(event.sig, body)[k]
        /\ arg > Len(event.sig) => pos = size

(* A handler only ever sees arguments that lay wholly within the body, its *)
(* strings terminated there: everything else ends in a recovered panic.    *)
HandlerSeesOnlyTheBody ==
    pc \in {"handled", "crashed"} =>
        /\ Size(event.sig, body) <= size
        /\ \A k \in 1 .. Len(event.sig) : Proper(event.sig[k], body[k])

(* The descriptor that came with an event is closed or the handler's when  *)
(* Dispatch returns; one that belongs to a later event is back in the      *)
(* queue; and a failed connection holds none.                              *)
DescriptorFollowsSignature ==
    /\ pc \in Returned /\ ~fatal /\ event.dispatcher =>
         fd \in IF Carries("h") THEN {"none", "closed", "given"} ELSE {"none", "queued"}
    /\ fatal => fd \in {"none", "closed", "given"}
    /\ fd = "given" => handler /\ ~Absorbs

(* When Dispatch returns, every object the event introduced has a proxy,   *)
(* with or without a handler: a live one, or a zombie if the sender was    *)
(* one, so that the object's own events find somebody.                     *)
IntroducedObjectsAreKnown ==
    pc \in Returned /\ event.dispatcher =>
        \A k \in 1 .. Len(event.sig) :
            event.sig[k] = "n" /\ ~body[k].null =>
                introduced[k] = IF Absorbs THEN "zombie" ELSE "live"
=============================================================================
