---------------------------- MODULE FrameWriter ----------------------------
(***************************************************************************)
(* How requests and their descriptors enter the socket: Context.WriteMsg   *)
(* and writeFrame (client/request.go).                                     *)
(*                                                                         *)
(* A frame is counted in units and its ancillary data in rights.  Only the *)
(* first write of a frame carries its rights; what the socket does not     *)
(* take at once follows in plain writes.  The socket (external) may take   *)
(* any part of what it is offered, fail, or report a nonsensical count.    *)
(***************************************************************************)
EXTENDS Integers, Sequences

CONSTANTS
    N,          \* the number of requests the application writes
    MaxUnits,   \* bound on the length of a frame
    MaxRights   \* bound on the ancillary data of a frame

ASSUME FrameWriterAssumption ==
    N \in Nat \ {0} /\ MaxUnits \in Nat \ {0} /\ MaxRights \in Nat

VARIABLES
    script,     \* the requests: units, rights and whether the frame is valid
    frame,      \* the request being written, or the next one
    pc,         \* "idle", or the write writeFrame is about to make
    offset,     \* units of the frame the socket has accepted
    wire,       \* what the socket has accepted: a sequence of <<frame, unit>>
    rightsSent, \* rights accepted: a sequence of <<frame, units on the wire before>>
    result,     \* what WriteMsg returned for each request
    fatal       \* Context.fatalErr # nil

vars == <<script, frame, pc, offset, wire, rightsSent, result, fatal>>

Frames == 1 .. N
Results == {"none", "ok",
            "refused",  \* ErrFrameSize
            "failed",   \* the write failed, and with it the connection
            "sticky"}   \* the error that failed the connection before

Init ==
    /\ script \in [Frames -> [units : 1 .. MaxUnits, rights : 0 .. MaxRights, valid : BOOLEAN]]
    /\ frame = 1 /\ pc = "idle" /\ offset = 0
    /\ wire = << >> /\ rightsSent = << >>
    /\ result = [f \in Frames |-> "none"]
    /\ fatal = FALSE

UnitsOf(f, first, last) == [i \in 1 .. last - first |-> <<f, first + i>>]
Remaining == script[frame].units - offset

WrongReturnsKeepsOffset(r) ==
    /\ result' = [result EXCEPT ![frame] = r]
    /\ frame' = frame + 1
    /\ pc' = "idle"
    /\ UNCHANGED offset
Returns(r) ==
    /\ result' = [result EXCEPT ![frame] = r]
    /\ frame' = frame + 1
    /\ pc' = "idle"
    /\ offset' = 0
Complete == Returns("ok") /\ UNCHANGED fatal
Fail == Returns("failed") /\ fatal' = TRUE

-----------------------------------------------------------------------------
(* WriteMsg.  A failed connection writes nothing; a malformed frame is     *)
(* refused whole.                                                          *)
WriteAfterFatal ==
    /\ pc = "idle" /\ frame \in Frames
    /\ fatal
    /\ Returns("sticky")
    /\ UNCHANGED <<script, wire, rightsSent, fatal>>

Refuse ==
    /\ pc = "idle" /\ frame \in Frames
    /\ ~fatal /\ ~script[frame].valid
    /\ Returns("refused")
    /\ UNCHANGED <<script, wire, rightsSent, fatal>>

Begin ==
    /\ pc = "idle" /\ frame \in Frames
    /\ ~fatal /\ script[frame].valid
    /\ pc' = "first"
    /\ UNCHANGED <<script, frame, offset, wire, rightsSent, result, fatal>>

(* Between two calls Dispatch may fail the connection.                     *)
DispatchFails ==
    /\ pc = "idle" /\ frame \in Frames /\ ~fatal
    /\ fatal' = TRUE
    /\ UNCHANGED <<script, frame, pc, offset, wire, rightsSent, result>>

(* What the socket has taken reaches the peer, whatever the count says.    *)
Accept(n) == wire' = wire \o UnitsOf(frame, offset, offset + n)
AcceptRights(o) ==
    rightsSent' = IF o > 0 THEN Append(rightsSent, <<frame, o, Len(wire)>>) ELSE rightsSent
Progress(n) ==
    \/ /\ offset + n = script[frame].units
       /\ Complete
    \/ /\ offset + n < script[frame].units
       /\ pc' = "plain"
       /\ offset' = offset + n
       /\ UNCHANGED <<frame, result, fatal>>

(* The first write takes n units and o rights and reports an error or not. *)
WrongResendsRights(n, o, error) ==
    /\ pc = "first"
    /\ Accept(n) /\ AcceptRights(o)
    /\ IF error
       THEN Fail
       ELSE IF o < script[frame].rights \/ n = 0
            THEN UNCHANGED <<frame, pc, offset, result, fatal>>
            ELSE Progress(n)
    /\ UNCHANGED script
WrongIgnoresShortRights(n, o, error) ==
    /\ pc = "first"
    /\ Accept(n) /\ AcceptRights(o)
    /\ IF error \/ n = 0 THEN Fail ELSE Progress(n)
    /\ UNCHANGED script
FirstWrite(n, o, error) ==
    /\ pc = "first"
    /\ Accept(n) /\ AcceptRights(o)
    /\ IF o < script[frame].rights \/ error \/ n = 0
       THEN Fail
       ELSE Progress(n)
    /\ UNCHANGED script

WrongErrorIsNotFatal(n, error) ==
    /\ pc = "plain"
    /\ Accept(n)
    /\ IF error \/ n = 0 THEN Returns("refused") /\ UNCHANGED fatal ELSE Progress(n)
    /\ UNCHANGED <<script, rightsSent>>
PlainWrite(n, error) ==
    /\ pc = "plain"
    /\ Accept(n)
    /\ IF error \/ n = 0 THEN Fail ELSE Progress(n)
    /\ UNCHANGED <<script, rightsSent>>

(* A count outside the range offered: how much was taken is unknown.       *)
NonsenseCount(n, o) ==
    /\ pc = "first" \/ (pc = "plain" /\ o = 0)
    /\ Accept(n) /\ AcceptRights(o)
    /\ Fail
    /\ UNCHANGED script

Next ==
    \/ WriteAfterFatal \/ Refuse \/ Begin \/ DispatchFails
    \/ /\ pc = "first"
       /\ \E n \in 0 .. Remaining, o \in 0 .. script[frame].rights, error \in BOOLEAN :
             FirstWrite(n, o, error)
    \/ /\ pc = "plain"
       /\ \E n \in 0 .. Remaining, error \in BOOLEAN : PlainWrite(n, error)
    \/ /\ pc # "idle"
       /\ \E n \in 0 .. Remaining, o \in 0 .. script[frame].rights : NonsenseCount(n, o)

Spec == Init /\ [][Next]_vars

-----------------------------------------------------------------------------
Sent(f) == {i \in DOMAIN wire : wire[i][1] = f}
RightsOf(f) == {i \in DOMAIN rightsSent : rightsSent[i][1] = f}
LastUnit(u) == u[2] = script[u[1]].units
Follows(u, v) ==
    \/ v = <<u[1], u[2] + 1>>
    \/ LastUnit(u) /\ v[1] > u[1] /\ v[2] = 1

(* The write in progress is one of the frame's own, at an offset inside it *)
(* exactly when the rest goes out in plain writes.                         *)
TypeOK ==
    /\ frame \in 1 .. N + 1
    /\ pc \in {"idle", "first", "plain"}
    /\ IF pc = "plain" THEN offset \in 1 .. script[frame].units - 1 ELSE offset = 0
    /\ \A i \in DOMAIN wire : wire[i][1] \in Frames /\ wire[i][2] \in 1 .. script[wire[i][1]].units
    /\ result \in [Frames -> Results]
    /\ fatal \in BOOLEAN

(* The peer reads frames in the order they were written, every unit once   *)
(* and in its place: nothing is written behind a frame that was cut short, *)
(* however the socket splits the writes, and between two calls a           *)
(* connection that has not failed is at a frame boundary.                  *)
StreamIsFramed ==
    /\ wire # << >> => wire[1][2] = 1
    /\ \A i \in 1 .. Len(wire) - 1 : Follows(wire[i], wire[i + 1])
    /\ (pc = "idle" /\ ~fatal /\ wire # << >>) => LastUnit(wire[Len(wire)])

(* What WriteMsg returns is what happened: nil only for a frame whose      *)
(* every unit, and every right, the socket has taken; and of a request     *)
(* that is refused, or comes after the connection has failed, the peer     *)
(* sees neither a byte nor a descriptor.                                   *)
ResultIsHonest ==
    \A f \in Frames :
      /\ result[f] = "ok" =>
           /\ \A u \in 1 .. script[f].units : \E i \in Sent(f) : wire[i][2] = u
           /\ script[f].rights > 0 => \E i \in RightsOf(f) : rightsSent[i][2] = script[f].rights
      /\ result[f] \in {"refused", "sticky"} => Sent(f) = {} /\ RightsOf(f) = {}

(* Rights are sent once and with the first unit of their frame: a          *)
(* duplicate, or one sent late, would be taken by another request.         *)
RightsTravelOnce ==
    \A i \in DOMAIN rightsSent :
        /\ RightsOf(rightsSent[i][1]) = {i}
        /\ \A j \in Sent(rightsSent[i][1]) : j > rightsSent[i][3]
        /\ \A j \in DOMAIN wire : wire[j][1] < rightsSent[i][1] => j <= rightsSent[i][3]

=============================================================================
