------------------------- MODULE FrameWriter_proofs -------------------------
(***************************************************************************)
(* Proofs about WriteMsg and writeFrame, for any number of requests of any *)
(* length with any number of descriptors, and however the socket splits    *)
(* the writes.                                                             *)
(***************************************************************************)
EXTENDS FrameWriter, SequenceTheorems, TLAPS

(* The types TypeOK leaves out: the requests and the two logs.             *)
LogTypes ==
    /\ script \in [Frames -> [units : 1 .. MaxUnits, rights : 0 .. MaxRights, valid : BOOLEAN]]
    /\ wire \in Seq(Frames \X Nat)
    /\ rightsSent \in Seq(Frames \X Nat \X Nat)

(* Where the stream stands: at the end of a frame, or at the offset of the *)
(* write in progress, unless the connection has failed.                    *)
Position ==
    /\ fatal => pc = "idle"
    /\ pc # "idle" => frame \in Frames
    /\ (~fatal /\ pc # "plain" /\ wire # << >>) => LastUnit(wire[Len(wire)])
    /\ pc = "plain" => wire # << >> /\ wire[Len(wire)] = <<frame, offset>>

(* Nothing of a later frame has been sent or answered, and of the current  *)
(* one only if its first write is done.                                    *)
NothingAhead ==
    /\ \A i \in DOMAIN wire :
         wire[i][1] =< frame /\ (pc # "plain" => wire[i][1] < frame)
    /\ \A i \in DOMAIN rightsSent :
         /\ rightsSent[i][1] =< frame /\ (pc # "plain" => rightsSent[i][1] < frame)
         /\ rightsSent[i][3] =< Len(wire)
    /\ \A f \in Frames : f >= frame => result[f] = "none"

(* Of the frame in progress the socket has every unit up to the offset and *)
(* every right.                                                            *)
TakenSoFar ==
    pc = "plain" =>
      /\ \A u \in 1 .. offset : \E i \in Sent(frame) : wire[i][2] = u
      /\ script[frame].rights > 0 =>
           \E i \in RightsOf(frame) : rightsSent[i][2] = script[frame].rights

IInv == /\ TypeOK /\ LogTypes
        /\ Position /\ NothingAhead /\ TakenSoFar
        /\ StreamIsFramed /\ ResultIsHonest /\ RightsTravelOnce

-----------------------------------------------------------------------------
(* Nothing has been written at the start.                                  *)
LEMMA InitIInv == Init => IInv
<1> SUFFICES ASSUME Init PROVE IInv
  OBVIOUS
<1>1. TypeOK
  <2>1. frame \in 1 .. N + 1
    BY FrameWriterAssumption DEF Init
  <2>2. result \in [Frames -> Results]
    BY DEF Init, Results
  <2>3. \A i \in DOMAIN wire : FALSE
    BY DEF Init
  <2>4. fatal = FALSE /\ pc = "idle" /\ offset = 0
    BY DEF Init
  <2> QED
    BY <2>1, <2>2, <2>3, <2>4 DEF TypeOK
<1>2. LogTypes
  BY DEF Init, LogTypes
<1>3. Position /\ NothingAhead /\ TakenSoFar
  BY DEF Init, Position, NothingAhead, TakenSoFar
<1>4. StreamIsFramed /\ ResultIsHonest /\ RightsTravelOnce
  BY DEF Init, StreamIsFramed, ResultIsHonest, RightsTravelOnce
<1> QED
  BY <1>1, <1>2, <1>3, <1>4 DEF IInv

(* The entries of the two logs and of the script, field by field.          *)
LEMMA LogFacts ==
    ASSUME LogTypes
    PROVE  /\ \A i \in DOMAIN wire : wire[i][1] \in Frames /\ wire[i][2] \in Nat
           /\ \A i \in DOMAIN rightsSent : rightsSent[i][1] \in Frames /\ rightsSent[i][3] \in Nat
           /\ DOMAIN wire = 1 .. Len(wire) /\ Len(wire) \in Nat
           /\ DOMAIN rightsSent = 1 .. Len(rightsSent) /\ Len(rightsSent) \in Nat
           /\ Frames \subseteq Nat
<1>1. Frames \subseteq Nat
  BY DEF Frames
<1>2. \A i \in DOMAIN wire : wire[i] \in Frames \X Nat
  BY DEF LogTypes
<1>3. \A i \in DOMAIN rightsSent : rightsSent[i] \in Frames \X Nat \X Nat
  BY DEF LogTypes
<1> QED
  BY ONLY <1>1, <1>2, <1>3 DEF LogTypes

LEMMA ScriptFacts ==
    ASSUME LogTypes, NEW f \in Frames
    PROVE  /\ script[f].units \in 1 .. MaxUnits
           /\ script[f].rights \in 0 .. MaxRights
           /\ script[f].units \in Nat \ {0}
           /\ script[f].rights \in Nat
BY FrameWriterAssumption DEF LogTypes

(* A call that writes nothing: after a failure, or of a malformed frame.   *)
LEMMA RefusedIInv ==
    ASSUME IInv, WriteAfterFatal \/ Refuse PROVE IInv'
<1> USE FrameWriterAssumption
<1>1. PICK r \in {"sticky", "refused"} : Returns(r)
  BY DEF WriteAfterFatal, Refuse
<1>2. /\ pc = "idle" /\ frame \in Frames
      /\ script' = script /\ wire' = wire /\ rightsSent' = rightsSent /\ fatal' = fatal
  BY DEF WriteAfterFatal, Refuse
<1>3. /\ result' = [result EXCEPT ![frame] = r]
      /\ frame' = frame + 1 /\ pc' = "idle" /\ offset' = 0
  BY <1>1 DEF Returns
<1>4. TypeOK' /\ LogTypes'
  BY <1>2, <1>3 DEF IInv, TypeOK, LogTypes, Frames, Results
<1>5. NothingAhead'
  <2>1. \A f \in Frames : f >= frame + 1 => f >= frame /\ f # frame
    BY <1>2, LogFacts DEF IInv
  <2>2. \A f \in Frames : f >= frame' => result'[f] = "none"
    BY <1>2, <1>3, <2>1 DEF IInv, TypeOK, NothingAhead
  <2>3. \A f \in Frames : f < frame => f =< frame + 1 /\ f < frame + 1
    BY <1>2, LogFacts DEF IInv
  <2> QED
    BY <1>2, <1>3, <2>2, <2>3, LogFacts DEF IInv, NothingAhead
<1>6. Position' /\ TakenSoFar' /\ StreamIsFramed' /\ RightsTravelOnce'
  BY <1>2, <1>3
     DEF IInv, Position, TakenSoFar, StreamIsFramed, RightsTravelOnce, LastUnit, Follows,
         Sent, RightsOf
<1>7. ResultIsHonest'
  <2>1. Sent(frame) = {} /\ RightsOf(frame) = {}
    BY <1>2, LogFacts DEF IInv, NothingAhead, Sent, RightsOf
  <2>2. result'[frame] = r /\ \A f \in Frames : f # frame => result'[f] = result[f]
    BY <1>2, <1>3 DEF IInv, TypeOK
  <2> QED
    BY <1>2, <2>1, <2>2 DEF IInv, ResultIsHonest, Sent, RightsOf
<1> QED
  BY <1>4, <1>5, <1>6, <1>7 DEF IInv

(* The call turns to the socket, or the connection fails between calls.    *)
LEMMA NoWriteIInv ==
    ASSUME IInv, Begin \/ DispatchFails PROVE IInv'
<1>1. /\ script' = script /\ wire' = wire /\ rightsSent' = rightsSent
      /\ frame' = frame /\ result' = result /\ offset' = offset
      /\ pc = "idle" /\ frame \in Frames /\ ~fatal
      /\ \/ pc' = "first" /\ fatal' = fatal
         \/ pc' = "idle" /\ fatal' = TRUE
  BY DEF Begin, DispatchFails
<1>2. TypeOK' /\ LogTypes'
  BY <1>1 DEF IInv, TypeOK, LogTypes
<1>3. Position' /\ NothingAhead' /\ TakenSoFar'
  BY <1>1 DEF IInv, Position, NothingAhead, TakenSoFar, LastUnit
<1>4. StreamIsFramed' /\ ResultIsHonest' /\ RightsTravelOnce'
  BY <1>1
     DEF IInv, StreamIsFramed, ResultIsHonest, RightsTravelOnce, LastUnit, Follows, Sent, RightsOf
<1> QED
  BY <1>2, <1>3, <1>4 DEF IInv

-----------------------------------------------------------------------------
(* What one write adds to the stream and to the rights sent.               *)
LEMMA AcceptFacts ==
    ASSUME IInv, pc # "idle", NEW n \in 0 .. Remaining, Accept(n), UNCHANGED script
    PROVE  /\ wire' \in Seq(Frames \X Nat)
           /\ Len(wire) \in Nat /\ n \in Nat /\ offset \in Nat
           /\ Len(wire') = Len(wire) + n
           /\ \A i \in 1 .. Len(wire) : wire'[i] = wire[i]
           /\ \A i \in Len(wire) + 1 .. Len(wire) + n :
                 wire'[i] = <<frame, offset + (i - Len(wire))>>
<1> DEFINE new == UnitsOf(frame, offset, offset + n)
<1>1. frame \in Frames
  BY DEF IInv, Position
<1>2. n \in Nat /\ offset \in Nat
  BY <1>1, ScriptFacts DEF IInv, TypeOK, Remaining
<1>3. offset + n - offset = n
  BY <1>2
<1>4. new = [i \in 1 .. n |-> <<frame, offset + i>>]
  BY <1>2 DEF UnitsOf
<1>5. new \in Seq(Frames \X Nat) /\ Len(new) = n
  BY <1>1, <1>2, <1>4
<1>6. wire \in Seq(Frames \X Nat)
  BY DEF IInv, LogTypes
<1>7. wire' = wire \o new
  BY DEF Accept
<1>8. \A i \in 1 .. n : new[i] = <<frame, offset + i>>
  BY <1>4
<1> HIDE DEF new
<1>9. wire' \in Seq(Frames \X Nat) /\ Len(wire) \in Nat /\ Len(wire') = Len(wire) + n
  <2>1. wire \o new \in Seq(Frames \X Nat) /\ Len(wire \o new) = Len(wire) + Len(new)
    BY <1>5, <1>6, ConcatProperties, Zenon
  <2> QED
    BY <1>5, <1>6, <1>7, <2>1, LenProperties, Zenon
<1>10. \A i \in 1 .. Len(wire) : wire'[i] = wire[i]
  BY <1>5, <1>6, <1>7
<1>11. \A i \in Len(wire) + 1 .. Len(wire) + n : wire'[i] = new[i - Len(wire)]
  BY <1>2, <1>5, <1>6, <1>7
<1>12. \A i \in Len(wire) + 1 .. Len(wire) + n : i - Len(wire) \in 1 .. n
  BY <1>2, <1>9
<1> QED
  BY <1>2, <1>8, <1>9, <1>10, <1>11, <1>12

LEMMA AcceptRightsFacts ==
    ASSUME IInv, pc # "idle", NEW o \in 0 .. script[frame].rights, AcceptRights(o)
    PROVE  /\ rightsSent' \in Seq(Frames \X Nat \X Nat)
           /\ Len(rightsSent) \in Nat
           /\ Len(rightsSent') = IF o > 0 THEN Len(rightsSent) + 1 ELSE Len(rightsSent)
           /\ \A i \in 1 .. Len(rightsSent) : rightsSent'[i] = rightsSent[i]
           /\ o > 0 => rightsSent'[Len(rightsSent) + 1] = <<frame, o, Len(wire)>>
<1>1. frame \in Frames
  BY DEF IInv, Position
<1>2. o \in Nat
  BY <1>1, ScriptFacts DEF IInv
<1>3. wire \in Seq(Frames \X Nat) /\ rightsSent \in Seq(Frames \X Nat \X Nat)
  BY DEF IInv, LogTypes
<1>4. <<frame, o, Len(wire)>> \in Frames \X Nat \X Nat
  BY <1>1, <1>2, <1>3
<1> QED
  BY <1>2, <1>3, <1>4 DEF AcceptRights

(* Every write of writeFrame is of this form: it takes n units and o       *)
(* rights, the latter only if it is the first of its frame, and then       *)
(* either the connection fails or the frame has made progress with all of  *)
(* its rights sent.                                                        *)
Write(n, o) ==
    /\ pc # "idle" /\ (pc = "plain" => o = 0)
    /\ Accept(n) /\ AcceptRights(o)
    /\ \/ Fail
       \/ n # 0 /\ (pc = "first" => o = script[frame].rights) /\ Progress(n)
    /\ UNCHANGED script

LEMMA WriteIInv ==
    ASSUME IInv, NEW n \in 0 .. Remaining, NEW o \in 0 .. script[frame].rights, Write(n, o)
    PROVE  IInv'
<1> DEFINE L == Len(wire)  R == Len(rightsSent)
<1>1. /\ frame \in Frames /\ frame \in Nat /\ ~fatal
      /\ pc \in {"first", "plain"} /\ script' = script
      /\ script[frame].units \in Nat \ {0} /\ script[frame].rights \in Nat
      /\ n \in Nat /\ o \in Nat /\ offset \in Nat
      /\ offset + n =< script[frame].units
  BY ScriptFacts, LogFacts DEF IInv, TypeOK, Position, Write, Remaining
<1>2. /\ wire' \in Seq(Frames \X Nat)
      /\ L \in Nat /\ Len(wire') = L + n
      /\ DOMAIN wire = 1 .. L /\ DOMAIN wire' = 1 .. L + n
      /\ \A i \in 1 .. L : wire'[i] = wire[i]
      /\ \A i \in L + 1 .. L + n : wire'[i] = <<frame, offset + (i - L)>>
  <2>1. Accept(n) /\ UNCHANGED script /\ pc # "idle"
    BY DEF Write
  <2>2. wire' \in Seq(Frames \X Nat) /\ Len(wire') = L + n
    BY <2>1, AcceptFacts
  <2> QED
    BY <2>1, <2>2, AcceptFacts, LogFacts, LenProperties DEF IInv
<1>3. /\ rightsSent' \in Seq(Frames \X Nat \X Nat)
      /\ R \in Nat
      /\ DOMAIN rightsSent = 1 .. R
      /\ DOMAIN rightsSent' = IF o > 0 THEN 1 .. R + 1 ELSE 1 .. R
      /\ \A i \in 1 .. R : rightsSent'[i] = rightsSent[i]
      /\ o > 0 => rightsSent'[R + 1] = <<frame, o, L>>
  <2>1. AcceptRights(o) /\ pc # "idle"
    BY DEF Write
  <2> QED
    BY <2>1, AcceptRightsFacts, LogFacts, LenProperties DEF IInv
<1>4. \/ /\ frame' = frame + 1 /\ pc' = "idle" /\ offset' = 0
         /\ \/ fatal' = TRUE /\ result' = [result EXCEPT ![frame] = "failed"]
            \/ /\ fatal' = fatal /\ result' = [result EXCEPT ![frame] = "ok"]
               /\ n > 0 /\ offset + n = script[frame].units
               /\ pc = "first" => o = script[frame].rights
      \/ /\ frame' = frame /\ pc' = "plain" /\ offset' = offset + n
         /\ fatal' = fatal /\ result' = result
         /\ n > 0 /\ offset + n < script[frame].units
         /\ pc = "first" => o = script[frame].rights
  BY <1>1 DEF Write, Fail, Progress, Complete, Returns
<1> HIDE DEF L, R
<1>5. \A i \in DOMAIN wire' :
        \/ i \in DOMAIN wire /\ wire'[i] = wire[i]
        \/ i \in L + 1 .. L + n /\ wire'[i][1] = frame /\ wire'[i][2] = offset + (i - L)
  BY SMTT(60), <1>1, <1>2
<1>6. \A i \in DOMAIN rightsSent' :
        \/ i \in DOMAIN rightsSent /\ rightsSent'[i] = rightsSent[i]
        \/ /\ i = R + 1 /\ pc = "first" /\ o > 0
           /\ rightsSent'[i][1] = frame /\ rightsSent'[i][2] = o /\ rightsSent'[i][3] = L
  BY SMTT(60), <1>1, <1>3 DEF Write
<1>7. TypeOK' /\ LogTypes'
  <2>1. LogTypes'
    BY <1>1, <1>2, <1>3 DEF IInv, LogTypes
  <2>2. \A i \in DOMAIN wire' :
          wire'[i][1] \in Frames /\ wire'[i][2] \in 1 .. script[wire'[i][1]].units
    <3> SUFFICES ASSUME NEW i \in DOMAIN wire'
                 PROVE  wire'[i][1] \in Frames /\ wire'[i][2] \in 1 .. script[wire'[i][1]].units
      OBVIOUS
    <3>1. CASE i \in DOMAIN wire /\ wire'[i] = wire[i]
      BY <3>1 DEF IInv, TypeOK
    <3>2. CASE i \in L + 1 .. L + n /\ wire'[i][1] = frame /\ wire'[i][2] = offset + (i - L)
      BY SMTT(60), <1>1, <1>2, <3>2
    <3> QED
      BY <1>5, <3>1, <3>2
  <2>3. result' \in [Frames -> Results] /\ fatal' \in BOOLEAN
    BY <1>1, <1>4 DEF IInv, TypeOK, Results
  <2>4. frame' \in 1 .. N + 1
    BY <1>1, <1>4, FrameWriterAssumption DEF Frames
  <2> QED
    BY <1>1, <1>4, <2>1, <2>2, <2>3, <2>4 DEF TypeOK
<1>8. NothingAhead'
  <2>1. \A i \in DOMAIN wire' : wire'[i][1] =< frame
    BY <1>1, <1>5 DEF IInv, NothingAhead
  <2>2. \A i \in DOMAIN rightsSent' : rightsSent'[i][1] =< frame /\ rightsSent'[i][3] =< L + n
    <3> SUFFICES ASSUME NEW i \in DOMAIN rightsSent'
                 PROVE  rightsSent'[i][1] =< frame /\ rightsSent'[i][3] =< L + n
      OBVIOUS
    <3>1. CASE i \in DOMAIN rightsSent /\ rightsSent'[i] = rightsSent[i]
      <4>1. /\ rightsSent[i][1] =< frame
            /\ rightsSent[i][3] =< L /\ rightsSent[i][3] \in Nat
        BY <3>1, LogFacts DEF IInv, NothingAhead, L
      <4> QED
        BY <1>1, <1>2, <3>1, <4>1
    <3>2. CASE rightsSent'[i][1] = frame /\ rightsSent'[i][3] = L
      BY <1>1, <1>2, <3>2
    <3> QED
      BY <1>6, <3>1, <3>2
  <2>3. \A f \in Frames : f >= frame' => result'[f] = "none"
    BY <1>1, <1>4, LogFacts DEF IInv, TypeOK, NothingAhead
  <2>4. \A f \in Frames : f =< frame => f < frame + 1 /\ f =< frame + 1
    BY <1>1, LogFacts DEF IInv
  <2>5. /\ \A i \in DOMAIN wire' : wire'[i][1] \in Frames
        /\ \A i \in DOMAIN rightsSent' : rightsSent'[i][1] \in Frames
    BY <1>1, <1>5, <1>6, LogFacts DEF IInv
  <2> QED
    BY <1>2, <1>4, <2>1, <2>2, <2>3, <2>4, <2>5 DEF NothingAhead
<1>9. Position'
  <2>1. n > 0 => wire' # << >> /\ wire'[Len(wire')] = <<frame, offset + n>>
    <3> SUFFICES ASSUME n > 0 PROVE wire' # << >> /\ wire'[Len(wire')] = <<frame, offset + n>>
      OBVIOUS
    <3>1. L + n \in L + 1 .. L + n /\ (L + n) - L = n
      BY <1>1, <1>2
    <3>2. wire'[L + n] = <<frame, offset + n>>
      BY <1>2, <3>1
    <3> QED
      BY <1>1, <1>2, <3>2
  <2> QED
    BY <1>1, <1>4, <2>1 DEF Position, LastUnit
<1>10. StreamIsFramed'
  <2>1. wire' # << >> => wire'[1][2] = 1
    BY <1>1, <1>2, <1>5 DEF IInv, StreamIsFramed, Position, TypeOK
  <2>2. ASSUME NEW i \in 1 .. Len(wire') - 1
        PROVE  Follows(wire[i], wire[i + 1])'
    <3>1. CASE i + 1 =< L
      <4>1. i \in 1 .. L - 1 /\ wire'[i] = wire[i] /\ wire'[i + 1] = wire[i + 1]
        BY ONLY <1>1, <1>2, <2>2, <3>1
      <4> QED
        BY <1>1, <4>1 DEF IInv, StreamIsFramed, Follows, LastUnit, L
    <3>2. CASE i > L
      <4>1. i \in L + 1 .. L + n /\ i + 1 \in L + 1 .. L + n
        BY ONLY <1>1, <1>2, <2>2, <3>2
      <4>2. offset + ((i + 1) - L) = (offset + (i - L)) + 1
        BY <1>1, <1>2, <4>1
      <4>3. wire'[i] = <<frame, offset + (i - L)>>
            /\ wire'[i + 1] = <<frame, (offset + (i - L)) + 1>>
        BY <1>2, <4>1, <4>2
      <4> QED
        BY <4>3 DEF Follows
    <3>3. CASE i = L
      <4>1. wire'[i] = wire[L] /\ L \in DOMAIN wire /\ wire'[i + 1] = <<frame, offset + 1>>
        BY SMTT(60), <1>1, <1>2, <2>2, <3>3
      <4>2. CASE pc = "first"
        BY <1>1, <4>1, <4>2 DEF IInv, TypeOK, Position, NothingAhead, Follows, LastUnit, L
      <4>3. CASE pc = "plain"
        BY <1>1, <4>1, <4>3 DEF IInv, Position, Follows, L
      <4> QED
        BY <1>1, <4>2, <4>3
    <3> QED
      BY <1>2, <2>2, <3>1, <3>2, <3>3
  <2>3. (pc' = "idle" /\ ~fatal' /\ wire' # << >>) => LastUnit(wire[Len(wire)])'
    BY <1>9 DEF Position
  <2> QED
    BY <2>1, <2>2, <2>3 DEF StreamIsFramed
<1>11. RightsTravelOnce'
  <2>1. ASSUME NEW i \in DOMAIN rightsSent'
        PROVE  /\ \A k \in DOMAIN rightsSent' : rightsSent'[k][1] = rightsSent'[i][1] => k = i
               /\ \A j \in DOMAIN wire' : wire'[j][1] = rightsSent'[i][1] => j > rightsSent'[i][3]
               /\ \A j \in DOMAIN wire' : wire'[j][1] < rightsSent'[i][1] => j =< rightsSent'[i][3]
    <3>1. CASE i \in DOMAIN rightsSent /\ rightsSent'[i] = rightsSent[i]
      <4>1. /\ rightsSent[i][1] \in Nat /\ rightsSent[i][3] \in Nat /\ rightsSent[i][3] =< L
            /\ rightsSent[i][1] =< frame /\ (pc = "first" => rightsSent[i][1] < frame)
        BY <1>1, <3>1, LogFacts DEF IInv, NothingAhead, L
      <4>2. /\ \A k \in DOMAIN rightsSent : rightsSent[k][1] = rightsSent[i][1] => k = i
            /\ \A j \in DOMAIN wire : wire[j][1] = rightsSent[i][1] => j > rightsSent[i][3]
            /\ \A j \in DOMAIN wire : wire[j][1] < rightsSent[i][1] => j =< rightsSent[i][3]
        BY <3>1 DEF IInv, RightsTravelOnce, RightsOf, Sent
      <4>3. \A k \in DOMAIN rightsSent' : rightsSent'[k][1] = rightsSent'[i][1] => k = i
        BY <1>1, <1>6, <3>1, <4>1, <4>2
      <4> DEFINE before == rightsSent[i][3]  owner == rightsSent[i][1]
      <4>4. /\ \A j \in L + 1 .. L + n : j > before
            /\ ~(frame < owner)
        <5>1. before \in Nat /\ before =< L /\ owner \in Nat /\ owner =< frame
          BY <4>1
        <5> HIDE DEF before, owner
        <5> QED
          BY <1>1, <1>2, <5>1
      <4>5. \A j \in DOMAIN wire' : wire'[j][1] = rightsSent'[i][1] => j > rightsSent'[i][3]
        BY <1>5, <3>1, <4>2, <4>4
      <4>6. \A j \in DOMAIN wire' : wire'[j][1] < rightsSent'[i][1] => j =< rightsSent'[i][3]
        BY <1>5, <3>1, <4>2, <4>4
      <4> QED
        BY <4>3, <4>5, <4>6
    <3>2. CASE i = R + 1 /\ pc = "first" /\ rightsSent'[i][1] = frame /\ rightsSent'[i][3] = L
      <4>1. /\ \A k \in DOMAIN rightsSent : rightsSent[k][1] # frame
            /\ \A j \in DOMAIN wire : wire[j][1] # frame
        BY <1>1, <3>2, LogFacts DEF IInv, NothingAhead
      <4>2. \A k \in DOMAIN rightsSent' : rightsSent'[k][1] = frame => k = i
        BY <1>6, <3>2, <4>1
      <4>3. \A j \in DOMAIN wire' : wire'[j][1] = frame => j > L
        BY <1>1, <1>2, <1>5, <4>1
      <4>4. \A j \in DOMAIN wire' : wire'[j][1] < frame => j =< L
        BY <1>1, <1>2, <1>5
      <4> QED
        BY <3>2, <4>2, <4>3, <4>4
    <3> QED
      BY <1>6, <2>1, <3>1, <3>2
  <2> QED
    BY <2>1 DEF RightsTravelOnce, RightsOf, Sent
<1>12. /\ \A i \in DOMAIN wire : i \in DOMAIN wire' /\ wire'[i] = wire[i]
       /\ \A i \in DOMAIN rightsSent : i \in DOMAIN rightsSent' /\ rightsSent'[i] = rightsSent[i]
  <2>1. 1 .. L \subseteq 1 .. L + n
    BY <1>1, <1>2
  <2>2. 1 .. R \subseteq 1 .. R + 1
    BY <1>3
  <2> QED
    BY <1>2, <1>3, <2>1, <2>2
<1>13. ASSUME n > 0, NEW u \in 1 .. offset + n
       PROVE  \E i \in DOMAIN wire' : wire'[i][1] = frame /\ wire'[i][2] = u
  <2>1. CASE u =< offset
    <3>1. PICK i \in DOMAIN wire : wire[i][1] = frame /\ wire[i][2] = u
      BY <1>1, <1>13, <2>1 DEF IInv, TypeOK, TakenSoFar, Sent
    <3> QED
      BY <1>12, <3>1
  <2>2. CASE u > offset
    <3>1. L + (u - offset) \in L + 1 .. L + n /\ offset + ((L + (u - offset)) - L) = u
      BY SMTT(60), <1>1, <1>2, <1>13, <2>2
    <3>2. wire'[L + (u - offset)] = <<frame, u>>
      BY <1>2, <3>1
    <3>3. L + (u - offset) \in DOMAIN wire'
      BY <1>1, <1>2, <3>1
    <3> QED
      BY <3>2, <3>3
  <2> QED
    BY <1>1, <1>13, <2>1, <2>2
<1>14. ASSUME pc = "first" => o = script[frame].rights, script[frame].rights > 0
       PROVE  \E i \in DOMAIN rightsSent' :
                rightsSent'[i][1] = frame /\ rightsSent'[i][2] = script[frame].rights
  <2>1. CASE pc = "first"
    <3>1. o > 0 /\ R + 1 \in DOMAIN rightsSent'
      BY <1>1, <1>3, <1>14, <2>1
    <3>2. rightsSent'[R + 1] = <<frame, script[frame].rights, L>>
      BY <1>3, <1>14, <2>1, <3>1
    <3> QED
      BY <3>1, <3>2
  <2>2. CASE pc = "plain"
    <3>1. PICK i \in DOMAIN rightsSent :
            rightsSent[i][1] = frame /\ rightsSent[i][2] = script[frame].rights
      BY <1>14, <2>2 DEF IInv, TakenSoFar, RightsOf
    <3> QED
      BY <1>12, <3>1
  <2> QED
    BY <1>1, <2>1, <2>2
<1>15. TakenSoFar'
  BY <1>1, <1>4, <1>13, <1>14 DEF TakenSoFar, Sent, RightsOf
<1>16. ResultIsHonest'
  <2>1. ASSUME NEW f \in Frames, f # frame
        PROVE  /\ result'[f] = result[f]
               /\ \A i \in DOMAIN wire' : wire'[i][1] = f => i \in DOMAIN wire /\ wire[i][1] = f
               /\ \A i \in DOMAIN rightsSent' :
                     rightsSent'[i][1] = f => i \in DOMAIN rightsSent /\ rightsSent[i][1] = f
    BY <1>1, <1>4, <1>5, <1>6, <2>1 DEF IInv, TypeOK
  <2>2. ASSUME NEW f \in Frames, result'[f] = "ok"
        PROVE  /\ \A u \in 1 .. script[f].units :
                     \E i \in DOMAIN wire' : wire'[i][1] = f /\ wire'[i][2] = u
               /\ script[f].rights > 0 =>
                     \E i \in DOMAIN rightsSent' :
                       rightsSent'[i][1] = f /\ rightsSent'[i][2] = script[f].rights
    <3>1. CASE f # frame
      BY <1>12, <2>1, <2>2, <3>1 DEF IInv, ResultIsHonest, Sent, RightsOf
    <3>2. CASE f = frame
      <4>1. /\ n > 0 /\ offset + n = script[frame].units
            /\ pc = "first" => o = script[frame].rights
        BY <1>1, <1>4, <2>2, <3>2, LogFacts DEF IInv, TypeOK, NothingAhead
      <4> QED
        BY <1>13, <1>14, <3>2, <4>1
    <3> QED
      BY <3>1, <3>2
  <2>3. ASSUME NEW f \in Frames, result'[f] \in {"refused", "sticky"}
        PROVE  /\ \A i \in DOMAIN wire' : wire'[i][1] # f
               /\ \A i \in DOMAIN rightsSent' : rightsSent'[i][1] # f
    <3>1. f # frame
      BY <1>1, <1>4, <2>3, LogFacts DEF IInv, TypeOK, NothingAhead
    <3> QED
      BY <2>1, <2>3, <3>1 DEF IInv, ResultIsHonest, Sent, RightsOf
  <2> QED
    BY <1>1, <2>2, <2>3 DEF ResultIsHonest, Sent, RightsOf
<1> QED
  BY <1>7, <1>8, <1>9, <1>10, <1>11, <1>15, <1>16 DEF IInv

-----------------------------------------------------------------------------
(* Every step keeps the invariant.                                         *)
LEMMA NextIInv == IInv /\ [Next]_vars => IInv'
<1> SUFFICES ASSUME IInv, [Next]_vars PROVE IInv'
  OBVIOUS
<1>1. CASE WriteAfterFatal \/ Refuse \/ Begin \/ DispatchFails
  BY <1>1, RefusedIInv, NoWriteIInv
<1>2. ASSUME pc = "first",
             NEW n \in 0 .. Remaining, NEW o \in 0 .. script[frame].rights, NEW error \in BOOLEAN,
             FirstWrite(n, o, error)
      PROVE  IInv'
  <2>1. frame \in Frames /\ script[frame].rights \in Nat
    BY <1>2, ScriptFacts DEF IInv, Position
  <2>2. Write(n, o)
    BY <1>2, <2>1 DEF FirstWrite, Write
  <2> QED
    BY <1>2, <2>2, WriteIInv
<1>3. ASSUME pc = "plain", NEW n \in 0 .. Remaining, NEW error \in BOOLEAN, PlainWrite(n, error)
      PROVE  IInv'
  <2>1. frame \in Frames /\ script[frame].rights \in Nat
    BY <1>3, ScriptFacts DEF IInv, Position
  <2>2. 0 \in 0 .. script[frame].rights /\ Write(n, 0)
    BY <1>3, <2>1 DEF PlainWrite, Write, AcceptRights
  <2> QED
    BY <1>3, <2>2, WriteIInv
<1>4. ASSUME pc # "idle", NEW n \in 0 .. Remaining, NEW o \in 0 .. script[frame].rights,
             NonsenseCount(n, o)
      PROVE  IInv'
  <2>1. Write(n, o)
    BY <1>4 DEF NonsenseCount, Write
  <2> QED
    BY <1>4, <2>1, WriteIInv
<1>5. CASE UNCHANGED vars
  <2> USE <1>5 DEF vars, IInv
  <2>1. TypeOK' /\ LogTypes'
    BY DEF TypeOK, LogTypes
  <2>2. Position' /\ NothingAhead' /\ TakenSoFar'
    BY DEF Position, NothingAhead, TakenSoFar, LastUnit, Sent, RightsOf
  <2>3. StreamIsFramed' /\ ResultIsHonest' /\ RightsTravelOnce'
    BY DEF StreamIsFramed, ResultIsHonest, RightsTravelOnce, LastUnit, Follows, Sent, RightsOf
  <2> QED
    BY <2>1, <2>2, <2>3
<1> QED
  BY <1>1, <1>2, <1>3, <1>4, <1>5 DEF Next

LEMMA Invariance == Spec => []IInv
BY InitIInv, NextIInv, PTL DEF Spec

(* The offset of writeFrame stays inside its frame, and the logs hold      *)
(* units of the frames written.                                            *)
THEOREM TypeCorrect == Spec => []TypeOK
<1>1. IInv => TypeOK
  BY DEF IInv
<1> QED
  BY Invariance, <1>1, PTL

(* writeFrame never leaves half a frame in the middle of the stream,       *)
(* however short the writes the socket accepts (request.go).               *)
THEOREM StreamStaysFramed == Spec => []StreamIsFramed
<1>1. IInv => StreamIsFramed
  BY DEF IInv
<1> QED
  BY Invariance, <1>1, PTL

(* WriteMsg returns nil only for a frame the socket has taken whole, with  *)
(* its descriptors, and sends nothing of a frame it refuses.               *)
THEOREM ResultsAreHonest == Spec => []ResultIsHonest
<1>1. IInv => ResultIsHonest
  BY DEF IInv
<1> QED
  BY Invariance, <1>1, PTL

(* The descriptors of a request are sent once, with its first byte.        *)
THEOREM RightsAreSentOnce == Spec => []RightsTravelOnce
<1>1. IInv => RightsTravelOnce
  BY DEF IInv
<1> QED
  BY Invariance, <1>1, PTL

=============================================================================
