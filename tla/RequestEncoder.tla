--------------------------- MODULE RequestEncoder ---------------------------
(***************************************************************************)
(* One call of a generated request method (client/client.go and the        *)
(* protocol packages): the buffer is sized from the arguments, the header  *)
(* and the arguments are put at a running offset, WriteMsg accepts or      *)
(* refuses the frame, and a destructor marks a proxy a zombie on return.   *)
(*                                                                         *)
(* The size is computed from one expression and the offset advanced by     *)
(* another; the header keeps 16 bits of the size.  The ids a request       *)
(* introduces are Lifecycle's, the socket's part is FrameWriter's.         *)
(***************************************************************************)
EXTENDS Integers, Sequences, WireFormat

CONSTANTS
    Requests,   \* the request methods (records as Signatures!Req)
    Lengths     \* the lengths of strings and arrays, in bytes, without a NUL

ASSUME RequestEncoderAssumption ==
    /\ \A r \in Requests : r.sig \in Seq(Letters) /\ r.marks \in {"none", "self", "argument"}
    /\ Lengths \subseteq Nat

VARIABLES
    request, args,  \* the method and its arguments
    fatal,          \* Context.fatalErr # nil
    pc,             \* "call", "encode", "write", "return" or "done"
    reqBuf,         \* len(_reqBuf)
    field,          \* the upper half of the header's second word
    arg, pos,       \* the next argument and the offset l
    at,             \* where each argument so far was put
    result,         \* how the method ended
    marked          \* it marked a proxy a zombie

vars == <<request, args, fatal, pc, reqBuf, field, arg, pos, at, result, marked>>

Results == {"none", "ok", "refused", "failed", "sticky", "panic"}
HeaderSize == 8
SizeFieldLimit == 65536

(* Destructors are small: words, too few to reach the limit, and never a   *)
(* proxy the method would call ID() on besides the one it marks.           *)
ASSUME DestructorAssumption ==
    \A r \in Requests : r.marks # "none" =>
        /\ HeaderSize + 4 * Len(r.sig) < SizeFieldLimit
        /\ \A k \in 1 .. Len(r.sig) : r.sig[k] \notin Variable
        /\ r.marks = "self" => \A k \in 1 .. Len(r.sig) : r.sig[k] # "o"

(* A nil string has no length on the wire, an empty one that of its NUL.   *)
Nil == [len |-> 0, nul |-> FALSE, null |-> TRUE]
StringOf(l) == [len |-> l + 1, nul |-> TRUE, null |-> FALSE]
Arguments(letter) ==
    CASE letter = "s" -> {StringOf(l) : l \in Lengths}
      [] letter = "?s" -> {StringOf(l) : l \in Lengths} \cup {Nil}
      [] letter = "a" -> Content(Lengths, {FALSE}, {FALSE})
      [] letter \in {"o", "?o"} -> Content({0}, {FALSE}, BOOLEAN)
      [] OTHER -> Content({0}, {FALSE}, {FALSE})
Calls(sig) ==
    LET c[k \in 0 .. Len(sig)] ==
            IF k = 0 THEN {<< >>}
            ELSE {Append(s, a) : s \in c[k - 1], a \in Arguments(sig[k])}
    IN  c[Len(sig)]

Init ==
    /\ request \in Requests /\ args \in Calls(request.sig)
    /\ fatal \in BOOLEAN
    /\ pc = "call" /\ reqBuf = 0 /\ field = 0
    /\ arg = 1 /\ pos = 0 /\ at = << >>
    /\ result = "none" /\ marked = FALSE

-----------------------------------------------------------------------------
PaddedLen(l) == IF l % 4 # 0 THEN l + (4 - (l % 4)) ELSE l

(* What the sizing expression allots to an argument.                       *)
Allotted(k) ==
    CASE request.sig[k] = "h" -> 0
      [] request.sig[k] = "?s" -> IF args[k].null THEN 4 ELSE 4 + PaddedLen(args[k].len)
      [] request.sig[k] \in {"s", "a"} -> 4 + PaddedLen(args[k].len)
      [] OTHER -> 4
ReqBufLen ==
    LET sum[k \in 0 .. Len(request.sig)] ==
            IF k = 0 THEN HeaderSize ELSE sum[k - 1] + Allotted(k)
    IN  sum[Len(request.sig)]

(* The deferred MarkZombie of a nil argument panics when it is deferred.   *)
DefersOnNil == request.marks = "argument" /\ \E k \in 1 .. Len(args) : args[k].null

Ends(r) ==
    /\ pc' = "return" /\ result' = r
    /\ UNCHANGED <<request, args, reqBuf, field, arg, pos, at, marked>>

Allocate ==
    /\ pc = "call" /\ ~DefersOnNil
    /\ reqBuf' = ReqBufLen
    /\ field' = ReqBufLen % SizeFieldLimit
    /\ pos' = HeaderSize
    /\ pc' = "encode"
    /\ UNCHANGED <<request, args, fatal, arg, at, result, marked>>

DeferPanics ==
    /\ pc = "call" /\ DefersOnNil
    /\ pc' = "done" /\ result' = "panic"
    /\ UNCHANGED <<request, args, fatal, reqBuf, field, arg, pos, at, marked>>

More == arg <= Len(request.sig)
Letter == request.sig[arg]

Puts(n) ==
    /\ pos' = pos + n
    /\ at' = Append(at, pos)
    /\ arg' = arg + 1
    /\ UNCHANGED <<request, args, fatal, pc, reqBuf, field, result, marked>>

PutWord ==
    /\ pc = "encode" /\ More /\ Letter \notin Variable \cup {"h"}
    /\ Letter = "o" => ~args[arg].null
    /\ pos + 4 <= reqBuf
    /\ Puts(4)

(* The method calls ID() on a nil proxy.                                   *)
PutNil ==
    /\ pc = "encode" /\ More /\ Letter = "o" /\ args[arg].null
    /\ Ends("panic") /\ UNCHANGED fatal

WrongPutNilStringStays ==
    /\ pc = "encode" /\ More /\ Letter = "?s" /\ args[arg].null
    /\ pos + 4 <= reqBuf
    /\ Puts(0)
PutNilString ==
    /\ pc = "encode" /\ More /\ Letter = "?s" /\ args[arg].null
    /\ pos + 4 <= reqBuf
    /\ Puts(4)

(* PutString and PutArray write into a slice of the allotted length.       *)
PutVariable ==
    /\ pc = "encode" /\ More /\ Letter \in Variable /\ ~args[arg].null
    /\ pos + 4 + PaddedLen(args[arg].len) <= reqBuf
    /\ Puts(4 + PaddedLen(args[arg].len))

(* A descriptor goes into the ancillary data.                              *)
PutFD ==
    /\ pc = "encode" /\ More /\ Letter = "h"
    /\ Puts(0)

Encoded ==
    /\ pc = "encode" /\ ~More
    /\ pc' = "write"
    /\ UNCHANGED <<request, args, fatal, reqBuf, field, arg, pos, at, result, marked>>

-----------------------------------------------------------------------------
(* WriteMsg.                                                               *)
WrongFrameIsValidAnySize ==
    /\ reqBuf >= HeaderSize
    /\ reqBuf % 4 = 0
    /\ field = reqBuf % SizeFieldLimit
WrongFrameIsValidNotBare ==
    /\ reqBuf > HeaderSize
    /\ reqBuf < SizeFieldLimit
    /\ reqBuf % 4 = 0
    /\ field = reqBuf
FrameIsValid ==
    /\ reqBuf >= HeaderSize
    /\ reqBuf < SizeFieldLimit
    /\ reqBuf % 4 = 0
    /\ field = reqBuf

WriteAfterFatal ==
    /\ pc = "write" /\ fatal
    /\ Ends("sticky") /\ UNCHANGED fatal

Refuse ==
    /\ pc = "write" /\ ~fatal /\ ~FrameIsValid
    /\ Ends("refused") /\ UNCHANGED fatal

Write ==
    /\ pc = "write" /\ ~fatal /\ FrameIsValid
    /\ \/ Ends("ok") /\ UNCHANGED fatal
       \/ Ends("failed") /\ fatal' = TRUE

(* The deferred MarkZombie runs however the method ends.                   *)
Return ==
    /\ pc = "return"
    /\ pc' = "done"
    /\ marked' = (request.marks # "none")
    /\ UNCHANGED <<request, args, fatal, reqBuf, field, arg, pos, at, result>>

Rest == pc = "done" /\ UNCHANGED vars

Next ==
    \/ Allocate \/ DeferPanics
    \/ PutWord \/ PutNil \/ PutNilString \/ PutVariable \/ PutFD \/ Encoded
    \/ WriteAfterFatal \/ Refuse \/ Write \/ Return \/ Rest

Spec == Init /\ [][Next]_vars

-----------------------------------------------------------------------------
(* Every argument is put where the peer looks for it and the arguments     *)
(* fill the buffer to its last byte: the sizing expression and the walk    *)
(* agree, for nil and empty strings and for every remainder of a length.   *)
BufferIsExactlyFilled ==
    /\ \A k \in 1 .. Len(at) : at[k] = HeaderSize + Offset(request.sig, args)[k]
    /\ pc = "write" => pos = reqBuf /\ reqBuf = HeaderSize + Size(request.sig, args)

(* A frame on the wire declares its own length: the 16-bit field never     *)
(* wraps on a frame that is sent, and only a frame too long for the field  *)
(* is ever refused.                                                        *)
SizeFieldIsHonest ==
    /\ result = "ok" => field = HeaderSize + Size(request.sig, args)
    /\ result = "refused" => HeaderSize + Size(request.sig, args) >= SizeFieldLimit

(* A proxy becomes a zombie only once the server has been told or can no   *)
(* longer be, so that a delete_id is never waited for in vain; and one     *)
(* whose destruction was sent is a zombie when the method returns.         *)
ZombieWasAnnounced ==
    /\ marked => result \in {"ok", "failed", "sticky"}
    /\ pc = "done" /\ result = "ok" => marked = (request.marks # "none")
=============================================================================
