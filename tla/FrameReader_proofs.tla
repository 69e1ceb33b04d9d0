------------------------- MODULE FrameReader_proofs -------------------------
(***************************************************************************)
(* Proofs about ReadMsg, Dispatch and the queue of descriptors, for every  *)
(* sequence of frames the peer may send, every way of splitting it into    *)
(* writes and reads, and every depth of nested handlers.                   *)
(***************************************************************************)
EXTENDS FrameReader, SequenceTheorems, WellFoundedInduction, TLAPS

(* The types TypeOK leaves out.                                            *)
Chunk == [units : Nat, fds : Seq(Nat)]

MoreTypes ==
    /\ script \in Seq(FrameKinds)
    /\ chunks \in Seq(Chunk)
    /\ pendingFDs \in Seq(Nat)
    /\ active \in Seq(Frames) /\ lent \in Seq(Nat)
    /\ eof \in BOOLEAN /\ fatal \in BOOLEAN /\ closed \in BOOLEAN

(* How far Dispatch is in its frame, and that a failed or closed           *)
(* connection holds no descriptor.                                         *)
Control ==
    /\ fatal => pc = "idle"
    /\ closed => pc = "idle" \/ (pc = "header" /\ got = 0)
    /\ (fatal \/ closed) => pendingFDs = << >>
    /\ pc # "idle" => Len(active) < MaxNesting
    /\ pc = "header" => got < HeaderUnits
    /\ pc = "body" => frame \in Frames /\ got < Units(frame)
    /\ pc = "deliver" => frame \in Frames /\ got = Units(frame)

(* The writes not yet read lie end to end between the read position and    *)
(* what the peer has written; start[i] is where chunk i begins.  A         *)
(* descriptor in a chunk belongs to a frame that begins no earlier.        *)
EndToEnd(start) ==
    /\ start[1] = UnitsBefore[frame] + got
    /\ start[Len(chunks) + 1] = sentUnits
    /\ \A i \in 1 .. Len(chunks) :
         /\ chunks[i].units > 0
         /\ start[i + 1] = start[i] + chunks[i].units
         /\ \A f \in SeqRange(chunks[i].fds) : start[i] =< UnitsBefore[f]
    /\ \A i, j \in 1 .. Len(chunks) + 1 : i =< j => start[i] =< start[j]

StreamPosition ==
    ~fatal => \E start \in [1 .. Len(chunks) + 1 -> 0 .. TotalUnits] : EndToEnd(start)

Ascending(s) == \A i, j \in DOMAIN s : i < j => s[i] < s[j]

(* Descriptors in the socket are the kernel's and in the order of their    *)
(* frames, behind those in the queue.                                      *)
InOrder ==
    /\ \A i \in DOMAIN chunks :
         /\ Ascending(chunks[i].fds)
         /\ \A f \in SeqRange(chunks[i].fds) :
              f \in Frames /\ f =< sentFDs /\ HasFD(f) /\ owner[f] = "kernel"
         /\ \A p \in SeqRange(pendingFDs), f \in SeqRange(chunks[i].fds) : p < f
    /\ \A i, j \in DOMAIN chunks : i < j =>
         \A f \in SeqRange(chunks[i].fds), g \in SeqRange(chunks[j].fds) : f < g
    /\ \A f \in Frames : f > sentFDs => owner[f] = "peer"
    /\ \A f \in Frames : UnitsBefore[f] < sentUnits => f =< sentFDs

(* The queue holds descriptors of frames that have one, and no two         *)
(* handlers have the same.                                                 *)
Holders ==
    /\ \A f \in SeqRange(pendingFDs) : HasFD(f)
    /\ \A i \in DOMAIN lent : lent[i] \in Frames \cup {NoFD}
    /\ \A i, j \in DOMAIN lent : lent[i] = lent[j] => i = j \/ lent[i] = NoFD

(* Without dispatchers that take whatever is there, no descriptor of a     *)
(* frame still to come is missing.                                         *)
NoneMissing ==
    ((\A f \in Frames : script[f].sender # "custom") /\ ~fatal /\ ~closed) =>
      \A f \in Frames :
        (frame =< f /\ f =< sentFDs /\ HasFD(f)) =>
          \/ f \in SeqRange(pendingFDs)
          \/ \E i \in DOMAIN chunks : f \in SeqRange(chunks[i].fds)

IInv == /\ TypeOK /\ MoreTypes /\ Control /\ StopsAtFrameBoundary
        /\ StreamPosition /\ InOrder /\ Holders /\ DescriptorsAccountedFor
        /\ NoneMissing /\ DescriptorReachesItsEvent

-----------------------------------------------------------------------------
(* Induction over the frames: a non-empty set of counterexamples has a     *)
(* least element.                                                          *)
LEMMA LeastElement ==
    ASSUME NEW T, T \subseteq Nat, T # {}
    PROVE  \E x \in T : \A y \in T : ~(y < x)
<1>1. PICK x \in T : \A y \in T : ~(<<y, x>> \in OpToRel(<, Nat))
  BY NatLessThanWellFounded, WFMin, Zenon
<1>2. ASSUME NEW y \in T PROVE ~(y < x)
  <2>1. x \in Nat /\ y \in Nat
    OBVIOUS
  <2> QED
    BY <1>1, <2>1, Zenon DEF OpToRel
<1> QED
  BY <1>2

(* The lengths and kinds of the frames.                                    *)
LEMMA FrameFacts ==
    ASSUME script \in Seq(FrameKinds)
    PROVE  /\ N \in Nat
           /\ \A f \in Frames : /\ f \in Nat
                                /\ Units(f) \in Nat /\ Units(f) >= HeaderUnits
                                /\ script[f].sender \in SenderKinds
<1>1. \A f \in 1 .. Len(script) : script[f] \in FrameKinds
  OBVIOUS
<1>2. \A f \in 1 .. Len(script) : script[f].body \in Nat /\ script[f].sender \in SenderKinds
  BY <1>1 DEF FrameKinds
<1> QED
  BY <1>2 DEF N, Frames, Units, HeaderUnits

(* The recursive definition of UnitsBefore has a solution: one for the     *)
(* first m frames extends to one for the first m + 1.                      *)
Solves(g, m) ==
    /\ g \in [1 .. m + 1 -> Nat]
    /\ \A f \in 1 .. m + 1 : g[f] = IF f = 1 THEN 0 ELSE g[f - 1] + Units(f - 1)

LEMMA SolutionExists ==
    ASSUME script \in Seq(FrameKinds)
    PROVE  \E g : Solves(g, N)
<1> DEFINE T == {m \in 0 .. N : ~\E g : Solves(g, m)}
<1> SUFFICES ASSUME ~\E g : Solves(g, N) PROVE FALSE
  OBVIOUS
<1>1. N \in Nat /\ 0 .. N \subseteq Nat /\ N \in 0 .. N
  BY FrameFacts
<1>2. T # {} /\ T \subseteq Nat
  BY <1>1
<1>3. PICK x \in T : \A y \in T : ~(y < x)
  BY <1>2, LeastElement
<1>4. x # 0
  <2>1. Solves([f \in 1 .. 0 + 1 |-> 0], 0)
    BY DEF Solves
  <2> QED
    BY <2>1
<1>5. x \in 1 .. N /\ x - 1 \in 0 .. N /\ x - 1 < x
  BY <1>1, <1>4
<1>6. PICK g : Solves(g, x - 1)
  BY <1>3, <1>5
<1> DEFINE h == [f \in 1 .. x + 1 |-> IF f = x + 1 THEN g[x] + Units(x) ELSE g[f]]
<1>7. g \in [1 .. x -> Nat] /\ (x - 1) + 1 = x
      /\ \A f \in 1 .. x : g[f] = IF f = 1 THEN 0 ELSE g[f - 1] + Units(f - 1)
  BY <1>5, <1>6 DEF Solves
<1>8. Units(x) \in Nat
  BY <1>5, FrameFacts DEF Frames
<1>9. h \in [1 .. x + 1 -> Nat]
  BY <1>5, <1>7, <1>8
<1>10. ASSUME NEW f \in 1 .. x + 1
       PROVE  h[f] = IF f = 1 THEN 0 ELSE h[f - 1] + Units(f - 1)
  <2>1. CASE f = x + 1
    <3>1. f - 1 = x /\ f # 1 /\ x \in 1 .. x + 1 /\ x # x + 1
      BY <1>5, <2>1
    <3>2. h[f] = g[x] + Units(x) /\ h[x] = g[x]
      BY <2>1, <3>1
    <3> QED
      BY <3>1, <3>2
  <2>2. CASE f \in 1 .. x
    <3>1. h[f] = g[f]
      BY <1>5, <2>2
    <3>2. f # 1 => f - 1 \in 1 .. x /\ f - 1 \in 1 .. x + 1 /\ f - 1 # x + 1
      BY <1>5, <2>2
    <3>3. f # 1 => h[f - 1] = g[f - 1]
      BY <3>2
    <3> QED
      BY <1>7, <2>2, <3>1, <3>3
  <2> QED
    BY <1>5, <2>1, <2>2
<1>11. Solves(h, x)
  BY <1>9, <1>10 DEF Solves
<1> QED
  BY <1>11

LEMMA UnitsBeforeDef ==
    ASSUME script \in Seq(FrameKinds)
    PROVE  Solves(UnitsBefore, N)
<1>1. PICK g : Solves(g, N)
  BY SolutionExists
<1>2. g = [f \in 1 .. N + 1 |-> IF f = 1 THEN 0 ELSE g[f - 1] + Units(f - 1)]
  BY <1>1 DEF Solves
<1>3. UnitsBefore = [f \in 1 .. N + 1 |->
                       IF f = 1 THEN 0 ELSE UnitsBefore[f - 1] + Units(f - 1)]
  BY <1>2 DEF UnitsBefore
<1>4. N \in Nat /\ \A f \in 1 .. N + 1 : g[f] \in Nat
  BY <1>1, FrameFacts DEF Solves
<1> DEFINE T == {f \in 1 .. N + 1 : UnitsBefore[f] # g[f]}
<1>5. T = {}
  <2> SUFFICES ASSUME T # {} PROVE FALSE
    OBVIOUS
  <2>1. PICK x \in T : \A y \in T : ~(y < x)
    <3>1. T \subseteq Nat
      BY <1>4
    <3> QED
      BY <3>1, LeastElement
  <2>2. x # 1
    BY <1>2, <1>3, <1>4
  <2>3. x - 1 \in 1 .. N + 1 /\ x - 1 < x
    BY <1>4, <2>2
  <2>4. UnitsBefore[x - 1] = g[x - 1]
    BY <2>1, <2>3
  <2>5. x \in 1 .. N + 1 /\ UnitsBefore[x] # g[x]
    BY <2>1
  <2>6. g[x] = g[x - 1] + Units(x - 1)
    BY <1>2, <2>2, <2>5
  <2>7. UnitsBefore[x] = UnitsBefore[x - 1] + Units(x - 1)
    BY <1>3, <2>2, <2>5
  <2> QED
    BY <2>4, <2>5, <2>6, <2>7
<1>6. UnitsBefore \in [1 .. N + 1 -> Nat]
  BY <1>3, <1>4, <1>5
<1> QED
  BY <1>3, <1>6 DEF Solves

(* Frames begin where the one before ends, each later than the one before. *)
LEMMA UnitsBeforeFacts ==
    ASSUME script \in Seq(FrameKinds)
    PROVE  /\ N \in Nat
           /\ UnitsBefore \in [1 .. N + 1 -> Nat]
           /\ UnitsBefore[1] = 0 /\ TotalUnits \in Nat
           /\ \A f \in Frames : UnitsBefore[f + 1] = UnitsBefore[f] + Units(f)
           /\ \A f, g \in 1 .. N + 1 : f < g => UnitsBefore[f] < UnitsBefore[g]
<1>1. N \in Nat /\ Solves(UnitsBefore, N)
  BY FrameFacts, UnitsBeforeDef
<1>2. /\ UnitsBefore \in [1 .. N + 1 -> Nat]
      /\ UnitsBefore[1] = 0 /\ TotalUnits \in Nat
  BY <1>1 DEF Solves, TotalUnits
<1>3. ASSUME NEW f \in Frames PROVE UnitsBefore[f + 1] = UnitsBefore[f] + Units(f)
  <2>1. f + 1 \in 1 .. N + 1 /\ f + 1 # 1 /\ (f + 1) - 1 = f
    BY <1>1 DEF Frames
  <2> QED
    BY <1>1, <2>1 DEF Solves
<1>4. ASSUME NEW f \in 1 .. N + 1
      PROVE  \A g \in 1 .. N + 1 : f < g => UnitsBefore[f] < UnitsBefore[g]
  <2> DEFINE T == {g \in 1 .. N + 1 : f < g /\ ~(UnitsBefore[f] < UnitsBefore[g])}
  <2> SUFFICES ASSUME T # {} PROVE FALSE
    OBVIOUS
  <2>1. T \subseteq Nat
    BY <1>1
  <2>2. PICK x \in T : \A y \in T : ~(y < x)
    BY <2>1, LeastElement
  <2>3. x - 1 \in Frames /\ (x - 1) + 1 = x /\ x - 1 < x /\ x - 1 \in 1 .. N + 1
        /\ (x - 1 = f \/ f < x - 1)
    BY <1>1 DEF Frames
  <2>4. UnitsBefore[x] = UnitsBefore[x - 1] + Units(x - 1)
        /\ Units(x - 1) \in Nat /\ Units(x - 1) >= 2
    BY <1>3, <2>3, FrameFacts DEF HeaderUnits
  <2>5. UnitsBefore[f] =< UnitsBefore[x - 1]
    BY <1>2, <2>2, <2>3
  <2> QED
    BY <1>2, <2>3, <2>4, <2>5
<1> QED
  BY <1>1, <1>2, <1>3, <1>4

(* FDsOf selects exactly the frames with a descriptor, in order.           *)
Selects(s, lo, hi) ==
    /\ s \in Seq(Nat) /\ Ascending(s)
    /\ \A f \in SeqRange(s) : f \in lo + 1 .. hi /\ HasFD(f)
    /\ \A f \in lo + 1 .. hi : HasFD(f) => f \in SeqRange(s)

SelectsUpTo(g, lo, m) ==
    /\ g = [f \in lo .. m |-> g[f]]
    /\ \A f \in lo .. m : Selects(g[f], lo, f)
    /\ \A f \in lo .. m : g[f] = IF f = lo THEN << >>
                                 ELSE IF HasFD(f) THEN Append(g[f - 1], f)
                                 ELSE g[f - 1]

LEMMA SelectsStep ==
    ASSUME NEW lo \in Nat, NEW m \in Nat, lo =< m, NEW s, Selects(s, lo, m)
    PROVE  Selects(IF HasFD(m + 1) THEN Append(s, m + 1) ELSE s, lo, m + 1)
<1>1. CASE ~HasFD(m + 1)
  BY <1>1 DEF Selects
<1>2. CASE HasFD(m + 1)
  <2> DEFINE t == Append(s, m + 1)
  <2>1. s \in Seq(Nat) /\ Len(s) \in Nat /\ DOMAIN s = 1 .. Len(s)
    BY DEF Selects
  <2>2. /\ t \in Seq(Nat) /\ DOMAIN t = 1 .. Len(s) + 1
        /\ t[Len(s) + 1] = m + 1
        /\ \A i \in 1 .. Len(s) : t[i] = s[i]
    BY <2>1
  <2> HIDE DEF t
  <2>3. \A i \in 1 .. Len(s) : s[i] \in lo + 1 .. m /\ HasFD(s[i])
    BY <2>1 DEF Selects, SeqRange
  <2>4. Ascending(t)
    <3>1. \A i, j \in 1 .. Len(s) : i < j => s[i] < s[j]
      BY <2>1 DEF Selects, Ascending
    <3> SUFFICES ASSUME NEW i \in DOMAIN t, NEW j \in DOMAIN t, i < j
                 PROVE  t[i] < t[j]
      BY DEF Ascending
    <3>2. i \in 1 .. Len(s)
      BY <2>1, <2>2
    <3>3. CASE j \in 1 .. Len(s)
      BY <2>2, <3>1, <3>2, <3>3
    <3>4. CASE j = Len(s) + 1
      <4>1. t[i] \in lo + 1 .. m
        BY <2>2, <2>3, <3>2
      <4> QED
        BY <2>2, <3>4, <4>1
    <3> QED
      BY <2>1, <2>2, <3>3, <3>4
  <2>5. SeqRange(t) = SeqRange(s) \cup {m + 1}
    BY <2>1, <2>2 DEF SeqRange
  <2>6. \A f \in SeqRange(t) : f \in lo + 1 .. m + 1 /\ HasFD(f)
    <3>1. m + 1 \in lo + 1 .. m + 1 /\ \A f \in lo + 1 .. m : f \in lo + 1 .. m + 1
      OBVIOUS
    <3> QED
      BY <1>2, <2>5, <3>1 DEF Selects
  <2>7. \A f \in lo + 1 .. m + 1 : HasFD(f) => f \in SeqRange(t)
    BY <2>5 DEF Selects
  <2> QED
    BY <1>2, <2>2, <2>4, <2>6, <2>7 DEF Selects, t
<1> QED
  BY <1>1, <1>2

LEMMA SelectionExists ==
    ASSUME script \in Seq(FrameKinds), NEW lo \in 0 .. N, NEW hi \in lo .. N
    PROVE  \E g : SelectsUpTo(g, lo, hi)
<1> SUFFICES ASSUME ~\E g : SelectsUpTo(g, lo, hi) PROVE FALSE
  OBVIOUS
<1> DEFINE T == {m \in lo .. hi : ~\E g : SelectsUpTo(g, lo, m)}
<1>1. N \in Nat /\ lo \in Nat /\ hi \in Nat /\ lo =< hi /\ hi \in lo .. hi
  BY FrameFacts
<1>2. hi \in T /\ T \subseteq Nat
  BY <1>1
<1>3. PICK x \in T : \A y \in T : ~(y < x)
  BY <1>2, LeastElement
<1>4. x # lo
  <2> DEFINE g == [f \in lo .. lo |-> << >>]
  <2>1. Selects(<< >>, lo, lo)
    BY <1>1 DEF Selects, Ascending, SeqRange
  <2>2. SelectsUpTo(g, lo, lo)
    BY <1>1, <2>1 DEF SelectsUpTo
  <2> QED
    BY <2>2
<1>5. x - 1 \in lo .. hi /\ x - 1 \in Nat /\ x - 1 < x /\ x \in Nat /\ (x - 1) + 1 = x
  BY <1>1, <1>4
<1>6. PICK g : SelectsUpTo(g, lo, x - 1)
  BY <1>3, <1>5
<1> DEFINE e == IF HasFD(x) THEN Append(g[x - 1], x) ELSE g[x - 1]
           h == [f \in lo .. x |-> IF f = x THEN e ELSE g[f]]
<1>7. x - 1 \in lo .. x - 1 /\ Selects(g[x - 1], lo, x - 1)
  BY <1>1, <1>5, <1>6 DEF SelectsUpTo
<1>8. Selects(e, lo, x)
  <2>1. lo =< x - 1
    BY <1>1, <1>5
  <2> QED
    BY <1>1, <1>5, <1>7, <2>1, SelectsStep
<1>9. /\ h[x] = e /\ x \in lo .. x
      /\ \A f \in lo .. x - 1 : f \in lo .. x /\ f # x /\ h[f] = g[f]
  BY <1>1, <1>5
<1>10. \A f \in lo .. x : f = x \/ f \in lo .. x - 1
  BY <1>1, <1>5
<1>11. \A f \in lo .. x - 1 : f # lo => f - 1 \in lo .. x - 1
  BY <1>1, <1>5
<1>12. h = [f \in lo .. x |-> h[f]]
  OBVIOUS
<1> HIDE DEF h, e
<1>13. \A f \in lo .. x : Selects(h[f], lo, f)
  BY <1>6, <1>8, <1>9, <1>10 DEF SelectsUpTo
<1>14. \A f \in lo .. x : h[f] = IF f = lo THEN << >>
                                ELSE IF HasFD(f) THEN Append(h[f - 1], f)
                                ELSE h[f - 1]
  <2>1. ASSUME NEW f \in lo .. x - 1
        PROVE  h[f] = IF f = lo THEN << >>
                      ELSE IF HasFD(f) THEN Append(h[f - 1], f) ELSE h[f - 1]
    BY <1>6, <1>9, <1>11 DEF SelectsUpTo
  <2>2. h[x] = IF HasFD(x) THEN Append(h[x - 1], x) ELSE h[x - 1]
    BY <1>7, <1>9 DEF e
  <2> QED
    BY <1>4, <1>10, <2>1, <2>2
<1>15. SelectsUpTo(h, lo, x)
  BY <1>12, <1>13, <1>14 DEF SelectsUpTo
<1> QED
  BY <1>15

LEMMA FDsOfFacts ==
    ASSUME script \in Seq(FrameKinds), NEW lo \in 0 .. N, NEW hi \in lo .. N
    PROVE  Selects(FDsOf(lo, hi), lo, hi)
<1> DEFINE R(g) == [f \in lo .. hi |-> IF f = lo THEN << >>
                                       ELSE IF HasFD(f) THEN Append(g[f - 1], f)
                                       ELSE g[f - 1]]
           u == CHOOSE g : g = R(g)
<1>1. PICK g : SelectsUpTo(g, lo, hi)
  BY SelectionExists
<1>2. g = R(g)
  BY <1>1 DEF SelectsUpTo
<1>3. u = R(u)
  BY <1>2
<1>4. FDsOf(lo, hi) = u[hi]
  BY DEF FDsOf
<1>5. lo \in Nat /\ hi \in Nat /\ hi \in lo .. hi /\ lo =< hi
  BY FrameFacts
<1> HIDE DEF u
<1> DEFINE T == {f \in lo .. hi : u[f] # g[f]}
<1>6. T = {}
  <2> SUFFICES ASSUME T # {} PROVE FALSE
    OBVIOUS
  <2>1. T \subseteq Nat
    BY <1>5
  <2>2. PICK x \in T : \A y \in T : ~(y < x)
    BY <2>1, LeastElement
  <2>3. x # lo
    BY <1>2, <1>3
  <2>4. x - 1 \in lo .. hi /\ x - 1 < x
    BY <1>5, <2>3
  <2>5. u[x - 1] = g[x - 1]
    BY <2>2, <2>4
  <2> QED
    BY <1>2, <1>3, <2>3, <2>5
<1> QED
  BY <1>1, <1>4, <1>5, <1>6 DEF SelectsUpTo

-----------------------------------------------------------------------------
(* No step changes the script, nor what is defined from it.                *)
LEMMA ScriptFixed ==
    ASSUME script' = script
    PROVE  /\ N' = N /\ Frames' = Frames
           /\ UnitsBefore' = UnitsBefore /\ TotalUnits' = TotalUnits
<1>1. N' = N
  BY DEF N
<1>2. Frames' = Frames
  BY <1>1 DEF Frames
<1>3. UnitsBefore' = UnitsBefore
  BY <1>1 DEF UnitsBefore, Units
<1> QED
  BY <1>1, <1>2, <1>3 DEF TotalUnits

(* What the types say of the sequences, element by element.                *)
LEMMA SeqFacts ==
    ASSUME IInv
    PROVE  /\ N \in Nat /\ Frames \subseteq Nat \ {0} /\ Frames = 1 .. N
           /\ Len(chunks) \in Nat /\ DOMAIN chunks = 1 .. Len(chunks)
           /\ \A i \in DOMAIN chunks : chunks[i].units \in Nat /\ chunks[i].fds \in Seq(Nat)
           /\ Len(pendingFDs) \in Nat /\ DOMAIN pendingFDs = 1 .. Len(pendingFDs)
           /\ Len(lent) \in Nat /\ DOMAIN lent = 1 .. Len(lent) /\ Len(active) = Len(lent)
           /\ SeqRange(pendingFDs) \subseteq Frames
           /\ sentFDs \in Nat /\ sentUnits \in Nat /\ got \in Nat /\ frame \in Nat
<1>1. N \in Nat /\ Frames = 1 .. N /\ TotalUnits \in Nat
  BY FrameFacts, UnitsBeforeFacts DEF IInv, MoreTypes, Frames
<1>2. \A i \in DOMAIN chunks : chunks[i] \in Chunk
  BY DEF IInv, MoreTypes
<1>3. \A i \in DOMAIN chunks : chunks[i].units \in Nat /\ chunks[i].fds \in Seq(Nat)
  BY <1>2 DEF Chunk
<1>4. /\ Len(chunks) \in Nat /\ DOMAIN chunks = 1 .. Len(chunks)
      /\ Len(pendingFDs) \in Nat /\ DOMAIN pendingFDs = 1 .. Len(pendingFDs)
      /\ Len(lent) \in Nat /\ DOMAIN lent = 1 .. Len(lent)
  BY DEF IInv, MoreTypes
<1> QED
  BY <1>1, <1>3, <1>4 DEF IInv, TypeOK

(* Who holds what, in one place: nothing is in two.                        *)
LEMMA HolderFacts ==
    ASSUME IInv
    PROVE  /\ \A f \in SeqRange(pendingFDs) : f \in Frames /\ owner[f] = "context" /\ f =< sentFDs
           /\ \A f \in SeqRange(lent) : f # NoFD => f \in Frames /\ owner[f] = "handler"
           /\ \A i \in DOMAIN chunks : \A f \in SeqRange(chunks[i].fds) :
                 f \in Frames /\ owner[f] = "kernel"
<1>1. \A f \in SeqRange(pendingFDs) : f \in Frames /\ owner[f] = "context"
  BY DEF IInv, TypeOK, DescriptorsAccountedFor
<1>2. \A f \in SeqRange(pendingFDs) : f =< sentFDs
  BY <1>1, SeqFacts DEF IInv, InOrder
<1>3. \A f \in SeqRange(lent) : f # NoFD => f \in Frames /\ owner[f] = "handler"
  BY DEF IInv, Holders, SeqRange, DescriptorsAccountedFor
<1> QED
  BY <1>1, <1>2, <1>3 DEF IInv, InOrder

(* The initial state.                                                      *)
LEMMA InitIInv == Init => IInv
<1> SUFFICES ASSUME Init PROVE IInv
  OBVIOUS
<1>1. script \in Seq(FrameKinds)
  BY FrameReaderAssumption DEF Init
<1>2. N \in Nat /\ TotalUnits \in Nat /\ UnitsBefore \in [1 .. N + 1 -> Nat] /\ UnitsBefore[1] = 0
  BY <1>1, UnitsBeforeFacts
<1>3. SeqRange(<< >>) = {} /\ Len(<< >>) = 0 /\ \A i \in DOMAIN << >> : FALSE
  BY DEF SeqRange
<1>4. MoreTypes
  <2>1. /\ << >> \in Seq(Chunk) /\ << >> \in Seq(Nat) /\ << >> \in Seq(Frames)
    BY EmptySeq
  <2> QED
    BY <1>1, <2>1, Zenon DEF Init, MoreTypes
<1>5. TypeOK
  <2>1. owner \in [Frames -> Owners] /\ closes \in [Frames -> Nat]
    BY DEF Init, Owners
  <2>2. MaxNesting \in Nat
    BY FrameReaderAssumption
  <2> QED
    BY <1>2, <1>3, <2>1, <2>2 DEF Init, TypeOK
<1>6. Control /\ StopsAtFrameBoundary
  BY DEF Init, Control, StopsAtFrameBoundary
<1>7. StreamPosition
  <2> DEFINE start == [i \in 1 .. 1 |-> 0]
  <2>1. start \in [1 .. Len(chunks) + 1 -> 0 .. TotalUnits]
    BY <1>2, <1>3 DEF Init
  <2>2. EndToEnd(start)
    BY <1>2, <1>3 DEF Init, EndToEnd
  <2> QED
    BY <2>1, <2>2 DEF StreamPosition
<1>8. InOrder
  BY <1>2, <1>3 DEF Init, InOrder, Frames
<1>9. Holders /\ NoneMissing /\ DescriptorReachesItsEvent /\ DescriptorsAccountedFor
  BY <1>2, <1>3
     DEF Init, Holders, NoneMissing, DescriptorReachesItsEvent, DescriptorsAccountedFor, Frames
<1> QED
  BY <1>4, <1>5, <1>6, <1>7, <1>8, <1>9 DEF IInv

(* Steps that move no data: a Dispatch that starts, one whose deadline     *)
(* passes before its frame, the peer's shutdown.                           *)
Unmoved ==
    /\ UNCHANGED <<script, sentUnits, sentFDs, chunks, frame, got, pendingFDs, active, lent,
                   fatal, closed, owner, closes>>
    /\ eof' \in BOOLEAN
    /\ \/ pc' = pc
       \/ pc = "idle" /\ ~fatal /\ Len(active) < MaxNesting /\ pc' = "header"
       \/ pc = "header" /\ got = 0 /\ pc' = "idle"

LEMMA UnmovedIInv ==
    ASSUME IInv, Unmoved PROVE IInv'
<1> USE ScriptFixed DEF Unmoved
<1>1. TypeOK' /\ MoreTypes'
  BY DEF IInv, TypeOK, MoreTypes
<1>2. Control' /\ StopsAtFrameBoundary'
  BY DEF IInv, Control, StopsAtFrameBoundary, HeaderUnits, Units
<1>3. StreamPosition'
  BY DEF IInv, StreamPosition, EndToEnd
<1>4. InOrder' /\ Holders'
  BY DEF IInv, InOrder, Holders, HasFD
<1>5. DescriptorsAccountedFor' /\ NoneMissing' /\ DescriptorReachesItsEvent'
  BY DEF IInv, DescriptorsAccountedFor, NoneMissing, DescriptorReachesItsEvent, HasFD
<1> QED
  BY <1>1, <1>2, <1>3, <1>4, <1>5 DEF IInv

-----------------------------------------------------------------------------
(* The peer writes: its descriptors are behind all others, and none of     *)
(* them belongs to a frame begun before.                                   *)
LEMMA PeerWriteIInv ==
    ASSUME IInv, NEW k \in 1 .. TotalUnits, NEW m \in sentFDs .. N, PeerWrite(k, m)
    PROVE  IInv'
<1> DEFINE L == Len(chunks)
           c == [units |-> k, fds |-> FDsOf(sentFDs, m)]
<1>1. /\ script' = script /\ eof' = eof /\ frame' = frame /\ got' = got /\ pc' = pc
      /\ pendingFDs' = pendingFDs /\ active' = active /\ lent' = lent
      /\ fatal' = fatal /\ closed' = closed /\ closes' = closes
      /\ sentUnits' = sentUnits + k /\ sentFDs' = m /\ sentUnits + k =< TotalUnits
      /\ chunks' = Append(chunks, c)
      /\ owner' = [f \in Frames |-> IF f \in sentFDs + 1 .. m THEN "kernel" ELSE owner[f]]
  BY DEF PeerWrite
<1> USE <1>1, ScriptFixed
<1>2. /\ N \in Nat /\ Frames = 1 .. N /\ TotalUnits \in Nat /\ k \in Nat /\ k > 0
      /\ m \in Nat /\ sentFDs \in 0 .. N /\ sentFDs =< m /\ m =< N
      /\ sentUnits \in Nat /\ L \in Nat /\ DOMAIN chunks = 1 .. L
      /\ UnitsBefore \in [1 .. N + 1 -> Nat]
  BY SeqFacts, UnitsBeforeFacts DEF IInv, MoreTypes, TypeOK
<1>3. Selects(c.fds, sentFDs, m)
  BY <1>2, FDsOfFacts DEF IInv, MoreTypes
<1>4. c \in Chunk /\ c.units = k
  BY <1>2, <1>3 DEF Chunk, Selects
<1> HIDE DEF c
<1>5. /\ chunks' \in Seq(Chunk) /\ Len(chunks') = L + 1 /\ DOMAIN chunks' = 1 .. L + 1
      /\ chunks'[L + 1] = c
      /\ \A i \in 1 .. L : chunks'[i] = chunks[i]
  BY <1>2, <1>4 DEF IInv, MoreTypes
<1> HIDE DEF L
<1>6. \A f \in SeqRange(c.fds) : f \in sentFDs + 1 .. m /\ f \in Frames /\ HasFD(f)
  BY <1>2, <1>3 DEF Selects
<1>7. TypeOK' /\ MoreTypes'
  <2>1. owner' \in [Frames -> Owners]
    BY DEF IInv, TypeOK, Owners
  <2>2. sentUnits + k \in 0 .. TotalUnits /\ m \in 0 .. N
    BY <1>2
  <2> QED
    BY <1>5, <2>1, <2>2 DEF IInv, TypeOK, MoreTypes
<1>8. Control' /\ StopsAtFrameBoundary'
  BY DEF IInv, Control, StopsAtFrameBoundary, HeaderUnits, Units
<1>9. StreamPosition'
  <2> SUFFICES ASSUME ~fatal
               PROVE  \E start \in [1 .. (L + 1) + 1 -> 0 .. TotalUnits] : EndToEnd(start)'
    BY <1>5 DEF StreamPosition
  <2>1. PICK start \in [1 .. L + 1 -> 0 .. TotalUnits] : EndToEnd(start)
    BY DEF IInv, StreamPosition, L
  <2> DEFINE Longer == [i \in 1 .. (L + 1) + 1 |->
                          IF i = (L + 1) + 1 THEN sentUnits + k ELSE start[i]]
  <2>2. PICK next \in [1 .. (L + 1) + 1 -> 0 .. TotalUnits] : next = Longer
    <3>1. Longer \in [1 .. (L + 1) + 1 -> 0 .. TotalUnits]
      BY <1>2, <2>1
    <3> QED
      BY <3>1
  <2>3. next[(L + 1) + 1] = sentUnits + k /\ \A i \in 1 .. L + 1 : next[i] = start[i]
    BY <1>2, <2>2
  <2>4. /\ start[1] = UnitsBefore[frame] + got /\ start[L + 1] = sentUnits
        /\ \A i \in 1 .. L :
             /\ chunks[i].units > 0
             /\ start[i + 1] = start[i] + chunks[i].units
             /\ \A f \in SeqRange(chunks[i].fds) : start[i] =< UnitsBefore[f]
        /\ \A i, j \in 1 .. L + 1 : i =< j => start[i] =< start[j]
    BY <2>1 DEF EndToEnd, L
  <2> HIDE DEF Longer
  <2>5. ASSUME NEW i \in 1 .. L + 1
        PROVE  /\ chunks'[i].units > 0
               /\ next[i + 1] = next[i] + chunks'[i].units
               /\ \A f \in SeqRange(chunks'[i].fds) : next[i] =< UnitsBefore[f]
    <3>1. CASE i \in 1 .. L
      <4>1. i + 1 \in 1 .. L + 1
        BY <1>2, <3>1
      <4> QED
        BY <1>5, <2>3, <2>4, <3>1, <4>1
    <3>2. CASE i = L + 1
      <4>1. \A f \in SeqRange(c.fds) : sentUnits =< UnitsBefore[f]
        <5> SUFFICES ASSUME NEW f \in SeqRange(c.fds) PROVE sentUnits =< UnitsBefore[f]
          OBVIOUS
        <5>1. f \in Frames /\ ~(f =< sentFDs)
          BY ONLY <1>2, <1>6
        <5>2. UnitsBefore[f] \in Nat
          BY <1>2, <5>1
        <5>3. ~(UnitsBefore[f] < sentUnits)
          BY <5>1 DEF IInv, InOrder
        <5> QED
          BY ONLY <1>2, <5>2, <5>3
      <4> QED
        BY <1>2, <1>4, <1>5, <2>3, <2>4, <3>2, <4>1
    <3>3. i \in 1 .. L \/ i = L + 1
      BY <1>2
    <3> QED
      BY <3>1, <3>2, <3>3
  <2>6. ASSUME NEW i \in 1 .. (L + 1) + 1, NEW j \in 1 .. (L + 1) + 1, i =< j
        PROVE  next[i] =< next[j]
    <3>1. CASE j \in 1 .. L + 1
      <4>1. i \in 1 .. L + 1
        BY <1>2, <2>6, <3>1
      <4> QED
        BY <2>3, <2>4, <2>6, <3>1, <4>1
    <3>2. CASE j = (L + 1) + 1 /\ i \in 1 .. L + 1
      <4>1. start[i] =< start[L + 1]
        <5>1. L + 1 \in 1 .. L + 1 /\ i =< L + 1
          BY <1>2, <3>2
        <5> QED
          BY <2>4, <3>2, <5>1
      <4>2. start[i] \in 0 .. TotalUnits
        BY <2>1, <3>2
      <4> QED
        BY <1>2, <2>3, <2>4, <3>2, <4>1, <4>2
    <3>3. CASE j = (L + 1) + 1 /\ i = (L + 1) + 1
      BY <1>2, <2>3, <3>3
    <3> QED
      BY <1>2, <3>1, <3>2, <3>3
  <2>7. next[1] = UnitsBefore[frame] + got
    BY <1>2, <2>3, <2>4
  <2>8. EndToEnd(next)'
    BY <1>5, <2>3, <2>5, <2>6, <2>7 DEF EndToEnd
  <2> QED
    BY <2>2, <2>8
<1>10. InOrder'
  <2>1. \A f \in Frames : f =< sentFDs => owner'[f] = owner[f]
    BY <1>2
  <2>2. \A i \in 1 .. L : \A f \in SeqRange(chunks[i].fds) :
           f \in Frames /\ f =< sentFDs /\ HasFD(f) /\ owner[f] = "kernel"
    BY <1>2 DEF IInv, InOrder
  <2>3. ASSUME NEW i \in 1 .. L + 1
        PROVE  /\ Ascending(chunks'[i].fds)
               /\ \A f \in SeqRange(chunks'[i].fds) :
                    f \in Frames /\ f =< m /\ HasFD(f) /\ owner'[f] = "kernel"
               /\ \A q \in SeqRange(pendingFDs), f \in SeqRange(chunks'[i].fds) : q < f
    <3>1. CASE i \in 1 .. L
      <4>1. \A f \in Frames : f =< sentFDs => f =< m
        BY <1>2
      <4> QED
        BY <1>2, <1>5, <2>1, <2>2, <3>1, <4>1 DEF IInv, InOrder
    <3>2. CASE i = L + 1
      <4>1. \A q \in SeqRange(pendingFDs) : q \in Frames /\ q =< sentFDs
        BY HolderFacts
      <4>2. \A q \in SeqRange(pendingFDs), f \in SeqRange(c.fds) : q < f
        BY <1>2, <1>6, <4>1
      <4>3. \A f \in SeqRange(c.fds) : f =< m /\ owner'[f] = "kernel"
        BY <1>2, <1>6
      <4> QED
        BY <1>3, <1>5, <1>6, <3>2, <4>2, <4>3 DEF Selects
    <3>3. i \in 1 .. L \/ i = L + 1
      BY <1>2
    <3> QED
      BY <3>1, <3>2, <3>3
  <2>4. ASSUME NEW i \in 1 .. L + 1, NEW j \in 1 .. L + 1, i < j,
               NEW f \in SeqRange(chunks'[i].fds), NEW g \in SeqRange(chunks'[j].fds)
        PROVE  f < g
    <3>1. i \in 1 .. L
      BY <1>2, <2>4
    <3>2. CASE j \in 1 .. L
      BY <1>2, <1>5, <2>4, <3>1, <3>2 DEF IInv, InOrder
    <3>3. CASE j = L + 1
      <4>1. f \in Frames /\ f =< sentFDs
        BY <1>5, <2>2, <2>4, <3>1
      <4>2. g \in sentFDs + 1 .. m
        BY <1>5, <1>6, <2>4, <3>3
      <4> QED
        BY <1>2, <4>1, <4>2
    <3> QED
      BY <1>2, <3>2, <3>3
  <2>5. \A f \in Frames : f > m => owner'[f] = "peer"
    <3>1. \A f \in Frames : f > m => f > sentFDs /\ f \notin sentFDs + 1 .. m
      BY <1>2
    <3> QED
      BY <3>1 DEF IInv, InOrder
  <2>6. \A f \in Frames : UnitsBefore[f] < sentUnits + k => f =< m
    BY DEF PeerWrite, Begun
  <2> QED
    BY <1>5, <2>3, <2>4, <2>5, <2>6 DEF InOrder, Ascending, HasFD
<1>11. Holders' /\ DescriptorReachesItsEvent'
  BY DEF IInv, Holders, DescriptorReachesItsEvent, HasFD
<1>12. DescriptorsAccountedFor'
  <2>1. \A f \in Frames : owner'[f] = owner[f] \/ (owner[f] = "peer" /\ owner'[f] = "kernel")
    BY <1>2 DEF IInv, InOrder
  <2> QED
    BY <2>1 DEF IInv, DescriptorsAccountedFor
<1>13. NoneMissing'
  <2>1. ASSUME NEW f \in Frames, f =< m, HasFD(f)
        PROVE  f =< sentFDs \/ f \in SeqRange(chunks'[L + 1].fds)
    BY <1>2, <1>3, <1>5, <2>1 DEF Selects
  <2>2. L + 1 \in 1 .. L + 1 /\ 1 .. L \subseteq 1 .. L + 1
    BY <1>2
  <2> QED
    BY <1>2, <1>5, <2>1, <2>2 DEF IInv, NoneMissing, HasFD
<1> QED
  BY <1>7, <1>8, <1>9, <1>10, <1>11, <1>12, <1>13 DEF IInv

-----------------------------------------------------------------------------
(* A read shortens the first chunk and empties it of descriptors, or       *)
(* removes it: chunk i was chunk i + d before.                             *)
Shifted(n, d) ==
    /\ Len(chunks') = Len(chunks) - d
    /\ DOMAIN chunks' = 1 .. Len(chunks) - d
    /\ d = 1 => n = chunks[1].units
    /\ \A i \in 1 .. Len(chunks) - d :
         \/ /\ d = 0 /\ i = 1
            /\ chunks'[i].fds = << >> /\ chunks'[i].units = chunks[1].units - n
            /\ n < chunks[1].units
         \/ i + d \in 2 .. Len(chunks) /\ chunks'[i] = chunks[i + d]

LEMMA ConsumeFacts ==
    ASSUME IInv, chunks # << >>, NEW n \in Nat, n =< Head(chunks).units, Consume(n)
    PROVE  /\ Head(chunks) = chunks[1] /\ 1 \in DOMAIN chunks
           /\ chunks' \in Seq(Chunk)
           /\ \E d \in {0, 1} : Shifted(n, d)
<1>1. chunks \in Seq(Chunk)
  BY DEF IInv, MoreTypes
<1>2. Head(chunks) = chunks[1] /\ 1 \in DOMAIN chunks /\ Len(chunks) \in Nat /\ Len(chunks) >= 1
      /\ DOMAIN chunks = 1 .. Len(chunks)
  BY <1>1
<1>3. chunks[1].units \in Nat /\ chunks[1] \in Chunk
  <2>1. chunks[1] \in Chunk
    BY <1>1, <1>2
  <2> QED
    BY <2>1 DEF Chunk
<1>4. /\ Tail(chunks) \in Seq(Chunk) /\ Len(Tail(chunks)) = Len(chunks) - 1
      /\ \A i \in 1 .. Len(chunks) - 1 : Tail(chunks)[i] = chunks[i + 1]
  BY <1>1, <1>2, HeadTailProperties
<1>5. CASE n = chunks[1].units
  <2>1. chunks' = Tail(chunks)
    BY <1>2, <1>5 DEF Consume
  <2>2. DOMAIN chunks' = 1 .. Len(chunks) - 1
    BY <1>4, <2>1
  <2>3. \A i \in 1 .. Len(chunks) - 1 : i + 1 \in 2 .. Len(chunks)
    BY <1>2
  <2>4. Shifted(n, 1)
    BY <1>4, <1>5, <2>1, <2>2, <2>3 DEF Shifted
  <2> QED
    BY <1>2, <1>4, <2>1, <2>4
<1>6. CASE n # chunks[1].units
  <2> DEFINE c == [units |-> chunks[1].units - n, fds |-> << >>]
  <2>1. chunks' = <<c>> \o Tail(chunks)
    BY <1>2, <1>6 DEF Consume
  <2>2. n < chunks[1].units /\ chunks[1].units - n \in Nat
    BY <1>2, <1>3, <1>6
  <2>3. << >> \in Seq(Nat)
    OBVIOUS
  <2>4. c \in Chunk /\ c.fds = << >> /\ c.units = chunks[1].units - n
    BY <2>2, <2>3 DEF Chunk
  <2> HIDE DEF c
  <2>5. <<c>> \in Seq(Chunk) /\ Len(<<c>>) = 1 /\ <<c>>[1] = c
    BY <2>4
  <2>6. /\ chunks' \in Seq(Chunk) /\ Len(chunks') = Len(chunks)
        /\ \A i \in 1 .. Len(chunks) :
              chunks'[i] = IF i =< 1 THEN <<c>>[i] ELSE Tail(chunks)[i - 1]
    <3>1. Len(<<c>>) + Len(Tail(chunks)) = Len(chunks)
      BY <1>2, <1>4, <2>5
    <3> QED
      BY <1>4, <2>1, <2>5, <3>1, ConcatProperties
  <2>7. ASSUME NEW i \in 1 .. Len(chunks), i # 1
        PROVE  i + 0 \in 2 .. Len(chunks) /\ chunks'[i] = chunks[i + 0]
    <3>1. i - 1 \in 1 .. Len(chunks) - 1 /\ (i - 1) + 1 = i /\ ~(i =< 1) /\ i + 0 = i
          /\ i \in 2 .. Len(chunks)
      BY <1>2, <2>7
    <3> QED
      BY <1>4, <2>6, <3>1
  <2>8. chunks'[1] = c /\ DOMAIN chunks' = 1 .. Len(chunks) /\ Len(chunks) - 0 = Len(chunks)
    BY <1>2, <2>5, <2>6
  <2>9. Shifted(n, 0)
    BY <2>2, <2>4, <2>6, <2>7, <2>8 DEF Shifted
  <2> QED
    BY <1>2, <2>6, <2>9
<1> QED
  BY <1>5, <1>6

(* Reading n units moves the read position and keeps the rest of the       *)
(* stream in place.                                                        *)
LEMMA ConsumePosition ==
    ASSUME IInv, ~fatal, chunks # << >>, NEW n \in Nat, n > 0, n =< Head(chunks).units,
           Consume(n), script' = script, sentUnits' = sentUnits, frame' = frame, got' = got + n
    PROVE  StreamPosition' /\ frame \in Frames
<1> USE ScriptFixed
<1> DEFINE L == Len(chunks)
<1>1. PICK d \in {0, 1} : Shifted(n, d)
  BY ConsumeFacts
<1>2. /\ N \in Nat /\ TotalUnits \in Nat /\ UnitsBefore \in [1 .. N + 1 -> Nat]
      /\ L \in Nat /\ L >= 1 /\ got \in Nat /\ frame \in 1 .. N + 1
      /\ chunks[1].units \in Nat /\ n =< chunks[1].units
  BY SeqFacts, ConsumeFacts, UnitsBeforeFacts DEF IInv, MoreTypes, TypeOK
<1>3. PICK start \in [1 .. L + 1 -> 0 .. TotalUnits] : EndToEnd(start)
  BY DEF IInv, StreamPosition
<1>4. /\ start[1] = UnitsBefore[frame] + got /\ start[L + 1] = sentUnits
      /\ \A i \in 1 .. L :
           /\ chunks[i].units > 0
           /\ start[i + 1] = start[i] + chunks[i].units
           /\ \A f \in SeqRange(chunks[i].fds) : start[i] =< UnitsBefore[f]
      /\ \A i, j \in 1 .. L + 1 : i =< j => start[i] =< start[j]
  BY <1>3 DEF EndToEnd
<1>5. /\ Len(chunks') = L - d
      /\ d = 1 => n = chunks[1].units
      /\ \A i \in 1 .. L - d :
           \/ /\ d = 0 /\ i = 1
              /\ chunks'[i].fds = << >> /\ chunks'[i].units = chunks[1].units - n
              /\ n < chunks[1].units
           \/ i + d \in 2 .. L /\ chunks'[i] = chunks[i + d]
  BY <1>1 DEF Shifted
<1> HIDE DEF L
<1>6. /\ start[1] \in Nat /\ start[2] \in Nat /\ start[2] = start[1] + chunks[1].units
      /\ start[1] + n =< start[2] /\ start[2] =< sentUnits
      /\ \A i \in 1 .. L + 1 : start[i] \in 0 .. TotalUnits
  <2>1. 1 \in 1 .. L /\ 2 \in 1 .. L + 1 /\ L + 1 \in 1 .. L + 1 /\ 2 =< L + 1 /\ 1 + 1 = 2
        /\ 1 \in 1 .. L + 1
    BY <1>2
  <2>2. \A i \in 1 .. L + 1 : start[i] \in 0 .. TotalUnits
    BY <1>3
  <2>3. start[2] = start[1] + chunks[1].units /\ start[2] =< start[L + 1]
    BY <1>4, <2>1
  <2>4. start[1] \in Nat /\ start[2] \in Nat
    BY <1>2, <2>1, <2>2
  <2> QED
    BY SMTT(60), <1>2, <1>4, <2>2, <2>3, <2>4
<1>7. frame \in Frames
  <2>1. UnitsBefore[frame] < TotalUnits
    BY SMTT(60), <1>2, <1>4, <1>6 DEF IInv, TypeOK
  <2>2. frame # N + 1
    BY <1>2, <2>1 DEF TotalUnits
  <2> QED
    BY <1>2, <2>2 DEF Frames
<1> DEFINE After == [i \in 1 .. (L - d) + 1 |-> IF i = 1 THEN start[1] + n ELSE start[i + d]]
<1>8. \A i \in 1 .. (L - d) + 1 : i # 1 => i + d \in 2 .. L + 1
  BY <1>2
<1>9. start[1] + n \in 0 .. TotalUnits
  BY <1>2, <1>6 DEF IInv, TypeOK
<1>10. PICK next \in [1 .. (L - d) + 1 -> 0 .. TotalUnits] : next = After
  <2>1. After \in [1 .. (L - d) + 1 -> 0 .. TotalUnits]
    BY <1>2, <1>6, <1>8, <1>9
  <2> QED
    BY <2>1
<1>11. /\ next[1] = start[1] + n
       /\ \A i \in 1 .. (L - d) + 1 : i # 1 => next[i] = start[i + d]
       /\ d = 1 => next[1] = start[1 + d]
  BY SMTT(60), <1>2, <1>5, <1>6, <1>10
<1> HIDE DEF After
<1>12. ASSUME NEW i \in 1 .. L - d
       PROVE  /\ chunks'[i].units > 0
              /\ next[i + 1] = next[i] + chunks'[i].units
              /\ \A f \in SeqRange(chunks'[i].fds) : next[i] =< UnitsBefore[f]
  <2>1. i + 1 \in 1 .. (L - d) + 1 /\ i + 1 # 1 /\ i \in 1 .. (L - d) + 1
    BY <1>2
  <2>2. CASE d = 0 /\ i = 1 /\ chunks'[i].fds = << >> /\ chunks'[i].units = chunks[1].units - n
             /\ n < chunks[1].units
    <3>1. next[i + 1] = start[2] /\ next[i] = start[1] + n
      BY <1>11, <2>1, <2>2
    <3>2. SeqRange(chunks'[i].fds) = {}
      BY <2>2 DEF SeqRange
    <3> QED
      BY SMTT(60), <1>2, <1>6, <2>2, <3>1, <3>2
  <2>3. CASE i + d \in 2 .. L /\ chunks'[i] = chunks[i + d]
    <3>1. i + d \in 1 .. L /\ (i + 1) + d = (i + d) + 1 /\ (i # 1 \/ d = 1)
      BY <1>2, <2>3
    <3>2. next[i + 1] = start[(i + d) + 1] /\ next[i] = start[i + d]
      BY <1>11, <2>1, <3>1
    <3> QED
      BY <1>4, <2>3, <3>1, <3>2
  <2> QED
    BY <1>5, <2>2, <2>3
<1>13. ASSUME NEW i \in 1 .. (L - d) + 1, NEW j \in 1 .. (L - d) + 1, i =< j
       PROVE  next[i] =< next[j]
  <2>1. CASE i # 1
    <3>1. j # 1 /\ i + d \in 1 .. L + 1 /\ j + d \in 1 .. L + 1 /\ i + d =< j + d
      BY <1>2, <1>13, <2>1
    <3> QED
      BY <1>4, <1>11, <2>1, <3>1
  <2>2. CASE i = 1 /\ j # 1
    <3>1. j + d \in 1 .. L + 1 /\ 2 \in 1 .. L + 1 /\ 2 =< j + d
      BY <1>2, <1>13, <2>2
    <3>2. start[2] =< start[j + d]
      BY <1>4, <3>1
    <3>3. start[j + d] \in 0 .. TotalUnits
      BY <1>6, <3>1
    <3>4. next[i] = start[1] + n /\ next[j] = start[j + d]
      BY <1>11, <2>2
    <3> QED
      BY <1>2, <1>6, <3>2, <3>3, <3>4
  <2>3. CASE i = 1 /\ j = 1
    BY <1>2, <1>6, <1>11, <2>3
  <2> QED
    BY <2>1, <2>2, <2>3
<1>14. next[1] = UnitsBefore[frame] + (got + n)
  <2>1. UnitsBefore[frame] \in Nat
    BY <1>2
  <2> QED
    BY <1>2, <1>4, <1>11, <2>1
<1>15. next[(L - d) + 1] = sentUnits
  <2>1. (L - d) + 1 \in 1 .. (L - d) + 1 /\ ((L - d) + 1) + d = L + 1
    BY <1>2
  <2>2. (L - d) + 1 # 1 \/ (d = 1 /\ L = 1)
    BY <1>2
  <2> QED
    BY <1>4, <1>11, <2>1, <2>2
<1>16. EndToEnd(next)'
  BY <1>5, <1>12, <1>13, <1>14, <1>15 DEF EndToEnd
<1> QED
  BY <1>5, <1>7, <1>10, <1>16 DEF StreamPosition

(* What is left of the stream stays in order, whoever takes the            *)
(* descriptors that were read.                                             *)
LEMMA ConsumeInOrder ==
    ASSUME IInv, chunks # << >>, NEW n \in Nat, n =< Head(chunks).units, Consume(n),
           script' = script, sentUnits' = sentUnits, sentFDs' = sentFDs,
           \A f \in Frames : owner[f] \in {"peer", "kernel"} /\ f \notin SeqRange(Head(chunks).fds)
                               => owner'[f] = owner[f],
           SeqRange(pendingFDs') \subseteq SeqRange(pendingFDs) \cup SeqRange(Head(chunks).fds)
    PROVE  InOrder'
<1> USE ScriptFixed
<1>1. PICK d \in {0, 1} : Shifted(n, d)
  BY ConsumeFacts
<1>2. Head(chunks) = chunks[1] /\ Len(chunks) \in Nat /\ DOMAIN chunks = 1 .. Len(chunks)
      /\ 1 \in DOMAIN chunks
  BY ConsumeFacts, SeqFacts
<1>3. \A i \in DOMAIN chunks' :
        \/ SeqRange(chunks'[i].fds) = {} /\ Ascending(chunks'[i].fds) /\ i + d < 2
        \/ i + d \in DOMAIN chunks /\ i + d > 1 /\ chunks'[i] = chunks[i + d]
  <2>1. SeqRange(<< >>) = {} /\ Ascending(<< >>)
    BY DEF SeqRange, Ascending
  <2>2. \A j \in 2 .. Len(chunks) : j \in DOMAIN chunks /\ j > 1
    BY <1>2
  <2> QED
    BY <1>1, <2>1, <2>2 DEF Shifted
<1>4. \A j \in DOMAIN chunks : j > 1 =>
        \A f \in SeqRange(chunks[j].fds) : f \notin SeqRange(chunks[1].fds)
  <2>1. ASSUME NEW j \in DOMAIN chunks, j > 1, NEW f \in SeqRange(chunks[j].fds),
               f \in SeqRange(chunks[1].fds)
        PROVE  FALSE
    <3>1. f < f /\ f \in Frames
      BY <1>2, <2>1 DEF IInv, InOrder
    <3> QED
      BY <3>1, SeqFacts
  <2> QED
    BY <2>1
<1>5. ASSUME NEW i \in DOMAIN chunks'
      PROVE  /\ Ascending(chunks'[i].fds)
             /\ \A f \in SeqRange(chunks'[i].fds) :
                  f \in Frames /\ f =< sentFDs /\ HasFD(f) /\ owner'[f] = "kernel"
             /\ \A q \in SeqRange(pendingFDs'), f \in SeqRange(chunks'[i].fds) : q < f
  <2>1. CASE SeqRange(chunks'[i].fds) = {} /\ Ascending(chunks'[i].fds)
    BY <2>1
  <2>2. CASE i + d \in DOMAIN chunks /\ i + d > 1 /\ chunks'[i] = chunks[i + d]
    <3>1. \A f \in SeqRange(chunks'[i].fds) :
            f \in Frames /\ f =< sentFDs /\ HasFD(f) /\ owner'[f] = "kernel"
      BY <1>2, <1>4, <2>2 DEF IInv, InOrder
    <3>2. \A q \in SeqRange(pendingFDs'), f \in SeqRange(chunks'[i].fds) : q < f
      BY <1>2, <2>2 DEF IInv, InOrder
    <3> QED
      BY <2>2, <3>1, <3>2 DEF IInv, InOrder
  <2> QED
    BY <1>3, <2>1, <2>2
<1>6. ASSUME NEW i \in DOMAIN chunks', NEW j \in DOMAIN chunks', i < j,
             NEW f \in SeqRange(chunks'[i].fds), NEW g \in SeqRange(chunks'[j].fds)
      PROVE  f < g
  <2>1. /\ i + d \in DOMAIN chunks /\ chunks'[i] = chunks[i + d]
        /\ j + d \in DOMAIN chunks /\ chunks'[j] = chunks[j + d]
    BY <1>3, <1>6
  <2>2. i + d < j + d
    BY <1>1, <1>2, <1>6 DEF Shifted
  <2> QED
    BY <1>6, <2>1, <2>2 DEF IInv, InOrder
<1>7. \A f \in Frames : f > sentFDs => owner'[f] = "peer"
  <2>1. \A f \in Frames : f > sentFDs => f \notin SeqRange(chunks[1].fds) /\ owner[f] = "peer"
    BY <1>2, HolderFacts DEF IInv, InOrder
  <2> QED
    BY <1>2, <2>1
<1> QED
  BY <1>5, <1>6, <1>7 DEF IInv, InOrder, HasFD, Ascending

-----------------------------------------------------------------------------
(* Queues: joining two, taking the head, popping the last.                 *)
LEMMA JoinFacts ==
    ASSUME NEW s \in Seq(Nat), NEW t \in Seq(Nat)
    PROVE  /\ s \o t \in Seq(Nat)
           /\ SeqRange(s \o t) = SeqRange(s) \cup SeqRange(t)
           /\ (/\ Ascending(s) /\ Ascending(t)
               /\ \A p \in SeqRange(s), f \in SeqRange(t) : p < f) => Ascending(s \o t)
<1> DEFINE q == s \o t
<1>1. /\ q \in Seq(Nat) /\ Len(s) \in Nat /\ Len(t) \in Nat
      /\ DOMAIN s = 1 .. Len(s) /\ DOMAIN t = 1 .. Len(t)
      /\ DOMAIN q = 1 .. Len(s) + Len(t)
      /\ \A i \in 1 .. Len(s) + Len(t) : q[i] = IF i =< Len(s) THEN s[i] ELSE t[i - Len(s)]
  BY ConcatProperties, LenProperties
<1> HIDE DEF q
<1>2. \A i \in DOMAIN q :
        \/ i \in DOMAIN s /\ q[i] = s[i]
        \/ i > Len(s) /\ i - Len(s) \in DOMAIN t /\ q[i] = t[i - Len(s)]
  BY <1>1
<1>3. \A i \in DOMAIN s : i \in DOMAIN q /\ q[i] = s[i]
  BY <1>1
<1>4. ASSUME NEW i \in DOMAIN t PROVE i + Len(s) \in DOMAIN q /\ q[i + Len(s)] = t[i]
  <2>1. i + Len(s) \in 1 .. Len(s) + Len(t) /\ ~(i + Len(s) =< Len(s))
        /\ (i + Len(s)) - Len(s) = i
    BY <1>1
  <2> QED
    BY <1>1, <2>1
<1>5. SeqRange(q) = SeqRange(s) \cup SeqRange(t)
  <2>1. ASSUME NEW f \in SeqRange(q) PROVE f \in SeqRange(s) \cup SeqRange(t)
    BY <1>2 DEF SeqRange
  <2>2. ASSUME NEW f \in SeqRange(s) PROVE f \in SeqRange(q)
    BY <1>3 DEF SeqRange
  <2>3. ASSUME NEW f \in SeqRange(t) PROVE f \in SeqRange(q)
    BY <1>4 DEF SeqRange
  <2> QED
    BY <2>1, <2>2, <2>3
<1>6. ASSUME Ascending(s), Ascending(t), \A p \in SeqRange(s), f \in SeqRange(t) : p < f
      PROVE  Ascending(q)
  <2> SUFFICES ASSUME NEW i \in DOMAIN q, NEW j \in DOMAIN q, i < j PROVE q[i] < q[j]
    BY DEF Ascending
  <2>1. CASE j \in DOMAIN s /\ q[j] = s[j]
    <3>1. i \in DOMAIN s
      BY <1>1, <2>1
    <3> QED
      BY <1>3, <1>6, <2>1, <3>1 DEF Ascending
  <2>2. CASE j > Len(s) /\ j - Len(s) \in DOMAIN t /\ q[j] = t[j - Len(s)]
    <3>1. CASE i \in DOMAIN s /\ q[i] = s[i]
      BY <1>6, <2>2, <3>1 DEF SeqRange
    <3>2. CASE i > Len(s) /\ i - Len(s) \in DOMAIN t /\ q[i] = t[i - Len(s)]
      <4>1. i - Len(s) < j - Len(s)
        BY <1>1
      <4> QED
        BY <1>6, <2>2, <3>2, <4>1 DEF Ascending
    <3> QED
      BY <1>2, <3>1, <3>2
  <2> QED
    BY <1>2, <2>1, <2>2
<1> QED
  BY <1>1, <1>5, <1>6 DEF q

LEMMA TakeFacts ==
    ASSUME NEW s \in Seq(Nat), s # << >>, Ascending(s)
    PROVE  /\ Head(s) \in SeqRange(s) /\ Tail(s) \in Seq(Nat)
           /\ SeqRange(Tail(s)) = SeqRange(s) \ {Head(s)}
           /\ Ascending(Tail(s))
           /\ \A f \in SeqRange(s) : Head(s) =< f
           /\ <<Head(s)>> \o Tail(s) = s
<1>1. /\ Len(s) \in Nat /\ Len(s) >= 1 /\ DOMAIN s = 1 .. Len(s) /\ Head(s) = s[1]
      /\ \A i \in 1 .. Len(s) : s[i] \in Nat
  OBVIOUS
<1>2. /\ Tail(s) \in Seq(Nat) /\ Len(Tail(s)) = Len(s) - 1
      /\ \A i \in 1 .. Len(Tail(s)) : Tail(s)[i] = s[i + 1]
  BY HeadTailProperties
<1> DEFINE t == Tail(s)
<1>3. /\ DOMAIN t = 1 .. Len(s) - 1
      /\ \A i \in 1 .. Len(s) - 1 : t[i] = s[i + 1] /\ i + 1 \in DOMAIN s
  BY <1>1, <1>2
<1>4. \A i \in DOMAIN s : i # 1 => i - 1 \in DOMAIN t /\ t[i - 1] = s[i]
  <2>1. \A i \in DOMAIN s : i # 1 => i - 1 \in 1 .. Len(s) - 1 /\ (i - 1) + 1 = i
    BY <1>1
  <2> QED
    BY <1>3, <2>1
<1> HIDE DEF t
<1>5. \A i \in DOMAIN s : i # 1 => s[1] < s[i]
  BY <1>1 DEF Ascending
<1>6. Ascending(t)
  <2> SUFFICES ASSUME NEW i \in DOMAIN t, NEW j \in DOMAIN t, i < j PROVE t[i] < t[j]
    BY DEF Ascending
  <2>1. i + 1 < j + 1 /\ i + 1 \in DOMAIN s /\ j + 1 \in DOMAIN s
    BY <1>1, <1>3
  <2> QED
    BY <1>3, <2>1 DEF Ascending
<1>7. SeqRange(t) = SeqRange(s) \ {s[1]}
  <2>1. ASSUME NEW f \in SeqRange(t) PROVE f \in SeqRange(s) /\ f # s[1]
    <3>1. PICK i \in DOMAIN t : f = t[i]
      BY DEF SeqRange
    <3>2. i + 1 \in DOMAIN s /\ f = s[i + 1] /\ i + 1 # 1
      BY <1>1, <1>3, <3>1
    <3> QED
      BY <1>1, <1>5, <3>2 DEF SeqRange
  <2>2. ASSUME NEW f \in SeqRange(s), f # s[1] PROVE f \in SeqRange(t)
    BY <1>4, <2>2 DEF SeqRange
  <2> QED
    BY <2>1, <2>2
<1>8. \A f \in SeqRange(s) : s[1] =< f
  BY <1>1, <1>5 DEF SeqRange
<1>9. <<Head(s)>> \o Tail(s) = s
  BY <1>1
<1>10. s[1] \in SeqRange(s)
  BY <1>1 DEF SeqRange
<1> QED
  BY <1>1, <1>2, <1>6, <1>7, <1>8, <1>9, <1>10 DEF t

LEMMA PopFacts ==
    ASSUME NEW S, NEW s \in Seq(S), s # << >>
    PROVE  /\ Popped(s) \in Seq(S) /\ Len(Popped(s)) = Len(s) - 1
           /\ DOMAIN Popped(s) = 1 .. Len(s) - 1 /\ Len(s) \in DOMAIN s
           /\ DOMAIN s = 1 .. Len(s) /\ Len(s) \in Nat /\ Len(s) >= 1
           /\ \A i \in 1 .. Len(s) - 1 : Popped(s)[i] = s[i]
<1>1. /\ Len(s) \in Nat /\ Len(s) >= 1 /\ DOMAIN s = 1 .. Len(s) /\ Len(s) \in DOMAIN s
      /\ \A i \in 1 .. Len(s) - 1 : s[i] \in S
  OBVIOUS
<1>2. /\ Popped(s) \in Seq(S) /\ Len(Popped(s)) = Len(s) - 1
      /\ \A i \in 1 .. Len(s) - 1 : Popped(s)[i] = s[i]
  BY <1>1, SubSeqProperties DEF Popped
<1> QED
  BY <1>1, <1>2

-----------------------------------------------------------------------------
(* A read that succeeds: the descriptors that came with it belong to the   *)
(* frame being read or to later ones, and join the queue behind the rest.  *)
Invalid(n) == pc = "header" /\ got + n = HeaderUnits /\ script[frame].sender = "invalid"

LEMMA ReceiveIInv ==
    ASSUME IInv, NEW n \in 1 .. TotalUnits, Receive(n), ~Invalid(n) PROVE IInv'
<1> DEFINE new == Head(chunks).fds
<1>1. /\ Reading /\ ~closed /\ chunks # << >> /\ Consume(n)
      /\ n =< Least(Wanted, Head(chunks).units)
      /\ got' = got + n /\ pc' = AfterRead(got + n)
      /\ pendingFDs' = pendingFDs \o new
      /\ owner' = [f \in Frames |-> IF f \in SeqRange(new) THEN "context" ELSE owner[f]]
      /\ fatal' = fatal /\ closes' = closes
      /\ script' = script /\ sentUnits' = sentUnits /\ sentFDs' = sentFDs /\ eof' = eof
      /\ frame' = frame /\ active' = active /\ lent' = lent /\ closed' = closed
  BY DEF Receive, Invalid, peer
<1> USE <1>1, ScriptFixed
<1>2. /\ ~fatal /\ n \in Nat /\ n > 0 /\ TotalUnits \in Nat /\ got \in Nat
      /\ UnitsBefore \in [1 .. N + 1 -> Nat] /\ frame \in 1 .. N + 1 /\ N \in Nat
      /\ Frames = 1 .. N
  BY SMTT(60), SeqFacts, UnitsBeforeFacts DEF IInv, MoreTypes, TypeOK, Control, Reading
<1>3. /\ Len(chunks) \in Nat /\ DOMAIN chunks = 1 .. Len(chunks) /\ 1 \in DOMAIN chunks
      /\ Head(chunks) = chunks[1] /\ chunks[1].units \in Nat /\ new \in Seq(Nat)
  <2>1. chunks \in Seq(Chunk) /\ chunks # << >>
    BY DEF IInv, MoreTypes
  <2>2. /\ Len(chunks) \in Nat /\ DOMAIN chunks = 1 .. Len(chunks) /\ 1 \in DOMAIN chunks
        /\ Head(chunks) = chunks[1]
    BY ONLY <2>1
  <2>3. chunks[1].units \in Nat /\ chunks[1].fds \in Seq(Nat)
    BY ONLY IInv, <2>2, SeqFacts
  <2> QED
    BY <2>2, <2>3
<1>4. n =< Wanted /\ n =< Head(chunks).units
  <2>1. Wanted \in Int
    <3>1. pc = "body" => Units(frame) \in Nat
      BY FrameFacts DEF IInv, MoreTypes, Control
    <3> QED
      BY <1>2, <3>1 DEF Wanted, HeaderUnits, Reading
  <2> QED
    BY <1>2, <1>3, <2>1 DEF Least
<1>5. StreamPosition' /\ frame \in Frames
  BY <1>2, <1>4, ConsumePosition
<1>6. chunks' \in Seq(Chunk) /\ \E d \in {0, 1} : Shifted(n, d)
  BY <1>2, <1>4, ConsumeFacts
<1>7. \A f \in SeqRange(new) :
        /\ f \in Frames /\ f =< sentFDs /\ HasFD(f) /\ owner[f] = "kernel"
        /\ frame =< f /\ \A p \in SeqRange(pendingFDs) : p < f
  <2>1. PICK start \in [1 .. Len(chunks) + 1 -> 0 .. TotalUnits] : EndToEnd(start)
    BY <1>2 DEF IInv, StreamPosition
  <2>2. \A f \in SeqRange(new) : UnitsBefore[frame] + got =< UnitsBefore[f]
    BY <1>3, <2>1 DEF EndToEnd
  <2>3. ASSUME NEW f \in SeqRange(new), f \in Frames PROVE ~(f < frame)
    <3>1. f \in 1 .. N + 1 /\ UnitsBefore[f] \in Nat /\ UnitsBefore[frame] \in Nat
      BY <1>2, <2>3
    <3>2. f < frame => UnitsBefore[f] < UnitsBefore[frame]
      BY <1>2, <3>1, UnitsBeforeFacts DEF IInv, MoreTypes
    <3> QED
      BY <1>2, <2>2, <2>3, <3>1, <3>2
  <2>4. \A f \in SeqRange(new) :
          /\ f \in Frames /\ f =< sentFDs /\ HasFD(f) /\ owner[f] = "kernel"
          /\ \A p \in SeqRange(pendingFDs) : p < f
    BY <1>3 DEF IInv, InOrder
  <2> QED
    BY <1>2, <2>3, <2>4
<1>8. /\ pendingFDs' \in Seq(Nat)
      /\ SeqRange(pendingFDs') = SeqRange(pendingFDs) \cup SeqRange(new)
      /\ Ascending(pendingFDs')
  <2>1. Ascending(pendingFDs)
    <3>1. CASE pendingFDs = << >>
      BY <3>1 DEF Ascending
    <3>2. CASE Frames # {}
      BY <3>2 DEF IInv, DescriptorsAccountedFor, Ascending
    <3> QED
      BY <1>5, <3>2
  <2>2. Ascending(new)
    BY <1>3 DEF IInv, InOrder
  <2> QED
    BY <1>3, <1>7, <2>1, <2>2, JoinFacts DEF IInv, MoreTypes
<1> HIDE DEF new
<1>9. TypeOK' /\ MoreTypes'
  <2>1. owner' \in [Frames -> Owners]
    BY DEF IInv, TypeOK, Owners
  <2>2. got + n \in Nat
    BY <1>2
  <2>3. SeqRange(pendingFDs') \subseteq Frames
    BY <1>7, <1>8 DEF IInv, TypeOK
  <2>4. pc' \in {"idle", "header", "body", "deliver"}
    BY DEF AfterRead
  <2> QED
    BY <1>6, <1>8, <2>1, <2>2, <2>3, <2>4 DEF IInv, TypeOK, MoreTypes
<1>10. Control' /\ StopsAtFrameBoundary'
  <2>1. Units(frame) \in Nat /\ Units(frame) >= HeaderUnits /\ Units(frame)' = Units(frame)
    BY <1>5, FrameFacts DEF IInv, MoreTypes, Units
  <2>2. got + n =< Units(frame)
    BY <1>2, <1>4, <2>1 DEF Wanted, HeaderUnits, Reading
  <2>3. \/ pc' = "header" /\ got + n < HeaderUnits
        \/ pc' = "body" /\ got + n < Units(frame)
        \/ pc' = "deliver" /\ got + n = Units(frame)
    <3>1. pc' = IF got + n < HeaderUnits THEN "header"
                ELSE IF got + n < Units(frame) THEN "body" ELSE "deliver"
      BY DEF AfterRead
    <3>2. got + n \in Nat /\ HeaderUnits \in Nat
      BY <1>2 DEF HeaderUnits
    <3>3. CASE got + n < HeaderUnits
      BY <3>1, <3>3, Zenon
    <3>4. CASE ~(got + n < HeaderUnits) /\ got + n < Units(frame)
      BY <3>1, <3>4, Zenon
    <3>5. CASE ~(got + n < HeaderUnits) /\ ~(got + n < Units(frame))
      <4>1. pc' = "deliver"
        BY <3>1, <3>5, Zenon
      <4>2. got + n = Units(frame)
        BY <2>1, <2>2, <3>2, <3>5
      <4> QED
        BY <4>1, <4>2
    <3> QED
      BY <3>3, <3>4, <3>5, Zenon
  <2>4. Len(active) < MaxNesting
    BY DEF IInv, Control, Reading
  <2> QED
    BY <1>2, <1>5, <2>1, <2>3, <2>4 DEF Control, StopsAtFrameBoundary, HeaderUnits
<1>11. InOrder'
  BY <1>2, <1>4, <1>8, ConsumeInOrder DEF new
<1>12. Holders'
  BY <1>7, <1>8 DEF IInv, Holders, HasFD
<1>13. DescriptorsAccountedFor'
  <2>1. \A i, j \in DOMAIN pendingFDs' : i < j => pendingFDs'[i] < pendingFDs'[j]
    BY <1>8 DEF Ascending
  <2>2. ASSUME NEW f \in Frames
        PROVE  /\ (owner'[f] = "context") <=> (f \in SeqRange(pendingFDs'))
               /\ (owner'[f] = "handler") <=> (f \in SeqRange(lent))
               /\ closes[f] = IF owner'[f] = "closed" THEN 1 ELSE 0
               /\ owner'[f] = "context" => f >= frame
    <3>1. CASE f \in SeqRange(new)
      <4>1. owner'[f] = "context" /\ owner[f] = "kernel" /\ f >= frame
        BY <1>2, <1>7, <3>1
      <4> QED
        BY <1>8, <3>1, <4>1 DEF IInv, DescriptorsAccountedFor
    <3>2. CASE f \notin SeqRange(new)
      BY <1>8, <3>2 DEF IInv, DescriptorsAccountedFor
    <3> QED
      BY <3>1, <3>2
  <2> QED
    BY <1>2, <2>1, <2>2 DEF DescriptorsAccountedFor
<1>14. NoneMissing'
  <2>1. PICK d \in {0, 1} : Shifted(n, d)
    BY <1>6
  <2>2. ASSUME NEW j \in DOMAIN chunks, j # 1
        PROVE  \E i \in DOMAIN chunks' : chunks'[i] = chunks[j]
    <3>1. j - d \in 1 .. Len(chunks) - d /\ (j - d) + d = j /\ ~(d = 0 /\ j - d = 1)
      BY <1>3, <2>2
    <3> QED
      BY <2>1, <3>1 DEF Shifted
  <2>3. SeqRange(chunks[1].fds) \subseteq SeqRange(pendingFDs')
    BY <1>3, <1>8 DEF new
  <2>4. ASSUME NEW f, NEW i \in DOMAIN chunks, f \in SeqRange(chunks[i].fds)
        PROVE  \/ f \in SeqRange(pendingFDs')
               \/ \E j \in DOMAIN chunks' : f \in SeqRange(chunks'[j].fds)
    BY <2>2, <2>3, <2>4
  <2> QED
    BY <1>8, <2>4 DEF IInv, NoneMissing, HasFD
<1>15. DescriptorReachesItsEvent'
  BY DEF IInv, DescriptorReachesItsEvent, HasFD
<1> QED
  BY <1>5, <1>9, <1>10, <1>11, <1>12, <1>13, <1>14, <1>15 DEF IInv

-----------------------------------------------------------------------------
(* Closing the descriptors of S, all of which were held, and dropping them *)
(* from the queue and from the handlers keeps the accounts.                *)
LEMMA Accounting ==
    ASSUME IInv, script' = script, NEW S, CloseAll(S),
           \A f \in S : f \in Frames /\ owner[f] # "closed",
           SeqRange(pendingFDs') = SeqRange(pendingFDs) \ S, Ascending(pendingFDs'),
           \A f \in SeqRange(pendingFDs') : f >= frame' /\ ~fatal' /\ ~closed',
           \A f \in Frames : f \in SeqRange(lent') <=> (f \in SeqRange(lent) /\ f \notin S)
    PROVE  /\ DescriptorsAccountedFor'
           /\ owner' \in [Frames -> Owners] /\ closes' \in [Frames -> Nat]
<1> USE ScriptFixed
<1>1. /\ owner' = [f \in Frames |-> IF f \in S THEN "closed" ELSE owner[f]]
      /\ closes' = [f \in Frames |-> IF f \in S THEN closes[f] + 1 ELSE closes[f]]
  BY DEF CloseAll
<1>2. owner' \in [Frames -> Owners] /\ closes' \in [Frames -> Nat]
  BY <1>1 DEF IInv, TypeOK, Owners
<1>3. \A i, j \in DOMAIN pendingFDs' : i < j => pendingFDs'[i] < pendingFDs'[j]
  BY DEF Ascending
<1>4. ASSUME NEW f \in Frames
      PROVE  /\ (owner'[f] = "context") <=> (f \in SeqRange(pendingFDs'))
             /\ (owner'[f] = "handler") <=> (f \in SeqRange(lent'))
             /\ closes'[f] = IF owner'[f] = "closed" THEN 1 ELSE 0
             /\ owner'[f] = "context" => f >= frame' /\ ~fatal' /\ ~closed'
  <2>1. CASE f \in S
    <3>1. owner'[f] = "closed" /\ closes'[f] = closes[f] + 1 /\ closes[f] = 0
      BY <1>1, <2>1 DEF IInv, DescriptorsAccountedFor
    <3> QED
      BY <2>1, <3>1
  <2>2. CASE f \notin S
    BY <1>1, <2>2 DEF IInv, DescriptorsAccountedFor
  <2> QED
    BY <2>1, <2>2
<1> QED
  BY <1>2, <1>3, <1>4 DEF DescriptorsAccountedFor

(* What is in the socket is not disturbed by what is done with what was    *)
(* received.                                                               *)
LEMMA InOrderKept ==
    ASSUME IInv, script' = script, sentUnits' = sentUnits, sentFDs' = sentFDs, chunks' = chunks,
           \A f \in Frames : owner[f] \in {"peer", "kernel"} => owner'[f] = owner[f],
           SeqRange(pendingFDs') \subseteq SeqRange(pendingFDs)
    PROVE  InOrder'
<1> USE ScriptFixed
<1>1. \A i \in DOMAIN chunks :
         /\ Ascending(chunks[i].fds)
         /\ \A f \in SeqRange(chunks[i].fds) :
              f \in Frames /\ f =< sentFDs /\ HasFD(f) /\ owner'[f] = "kernel"
         /\ \A p \in SeqRange(pendingFDs'), f \in SeqRange(chunks[i].fds) : p < f
  BY DEF IInv, InOrder
<1>2. \A f \in Frames : f > sentFDs => owner'[f] = "peer"
  BY DEF IInv, InOrder
<1> QED
  BY <1>1, <1>2 DEF IInv, InOrder, HasFD, Ascending

LEMMA PendingAscending == ASSUME IInv PROVE Ascending(pendingFDs)
<1>1. CASE pendingFDs = << >>
  BY <1>1 DEF Ascending
<1>2. CASE pendingFDs # << >>
  <2>1. pendingFDs[1] \in SeqRange(pendingFDs)
    BY <1>2 DEF IInv, MoreTypes, SeqRange
  <2>2. Frames # {}
    BY <2>1, SeqFacts
  <2> QED
    BY <2>2 DEF IInv, DescriptorsAccountedFor, Ascending
<1> QED
  BY <1>1, <1>2

(* setFatal: whatever failed, with every descriptor in hand closed.  Once  *)
(* the connection has failed the stream no longer matters.                 *)
LEMMA FailIInv ==
    ASSUME IInv, NEW q, NEW X, Fail(q, X), fatal => q = << >>,
           script' = script, sentUnits' = sentUnits, sentFDs' = sentFDs, eof' = eof,
           closed' = closed, frame' \in 1 .. N + 1, got' \in Nat, chunks' \in Seq(Chunk),
           InOrder',
           active' \in Seq(Frames), lent' \in Seq(Nat), Len(active') = Len(lent'),
           Len(active') =< MaxNesting,
           \A i \in DOMAIN lent' : lent'[i] \in Frames \cup {NoFD},
           \A i, j \in DOMAIN lent' : lent'[i] = lent'[j] => i = j \/ lent'[i] = NoFD,
           DescriptorReachesItsEvent',
           SeqRange(pendingFDs) \subseteq X \cup SeqRange(q),
           \A f \in X \cup SeqRange(q) : f \in Frames /\ owner[f] # "closed",
           \A f \in Frames : f \in SeqRange(lent')
                               <=> (f \in SeqRange(lent) /\ f \notin X \cup SeqRange(q))
    PROVE  IInv'
<1> USE ScriptFixed
<1>1. SeqRange(<< >>) = {} /\ Ascending(<< >>) /\ << >> \in Seq(Nat)
  BY DEF SeqRange, Ascending
<1>2. /\ fatal' = TRUE /\ pc' = "idle" /\ pendingFDs' = << >>
      /\ CloseAll(X \cup SeqRange(q))
  <2>1. CASE fatal
    BY <1>1, <2>1 DEF Fail
  <2>2. CASE ~fatal
    BY <2>2 DEF Fail
  <2> QED
    BY <2>1, <2>2
<1>3. SeqRange(pendingFDs') = SeqRange(pendingFDs) \ (X \cup SeqRange(q))
      /\ SeqRange(pendingFDs') = {} /\ Ascending(pendingFDs')
  BY <1>1, <1>2
<1>4. /\ DescriptorsAccountedFor'
      /\ owner' \in [Frames -> Owners] /\ closes' \in [Frames -> Nat]
  BY <1>2, <1>3, Accounting
<1>5. TypeOK' /\ MoreTypes'
  BY <1>1, <1>2, <1>3, <1>4 DEF IInv, TypeOK, MoreTypes
<1>6. Control' /\ StopsAtFrameBoundary' /\ StreamPosition' /\ NoneMissing'
  BY <1>2 DEF Control, StopsAtFrameBoundary, StreamPosition, NoneMissing
<1>7. Holders'
  BY <1>3 DEF Holders
<1> QED
  BY <1>4, <1>5, <1>6, <1>7 DEF IInv

(* Failures that leave the handlers as they are: of a read that took       *)
(* nothing from the socket, of one that did, and wl_display.error.         *)
LEMMA FailInPlaceIInv ==
    ASSUME IInv, Fail(pendingFDs, {}), got' \in Nat,
           UNCHANGED <<script, sentUnits, sentFDs, eof, chunks, frame, active, lent, closed>>
    PROVE  IInv'
<1> USE ScriptFixed
<1>1. \A f \in {} \cup SeqRange(pendingFDs) : f \in Frames /\ owner[f] = "context"
  BY HolderFacts
<1>2. InOrder'
  <2>1. \A f \in Frames : owner[f] \in {"peer", "kernel"} => owner'[f] = owner[f]
    BY <1>1 DEF Fail, CloseAll
  <2>2. SeqRange(pendingFDs') \subseteq SeqRange(pendingFDs)
    BY DEF Fail, SeqRange
  <2> QED
    BY <2>1, <2>2, InOrderKept
<1>3. \A f \in Frames : f \in SeqRange(lent') <=> (f \in SeqRange(lent) /\ f \notin SeqRange(pendingFDs))
  BY <1>1, HolderFacts, SeqFacts DEF NoFD
<1>4. DescriptorReachesItsEvent'
  BY DEF IInv, DescriptorReachesItsEvent, HasFD
<1>5. /\ fatal => pendingFDs = << >>
      /\ frame' \in 1 .. N + 1 /\ chunks' \in Seq(Chunk)
      /\ active' \in Seq(Frames) /\ lent' \in Seq(Nat) /\ Len(active') = Len(lent')
      /\ Len(active') =< MaxNesting
  BY DEF IInv, MoreTypes, TypeOK, Control
<1>6. /\ \A i \in DOMAIN lent' : lent'[i] \in Frames \cup {NoFD}
      /\ \A i, j \in DOMAIN lent' : lent'[i] = lent'[j] => i = j \/ lent'[i] = NoFD
  BY DEF IInv, Holders
<1> QED
  BY <1>1, <1>2, <1>3, <1>4, <1>5, <1>6, FailIInv

LEMMA FailReadIInv ==
    ASSUME IInv, chunks # << >>, NEW n \in Nat, n =< Head(chunks).units, Consume(n), ~fatal,
           Fail(pendingFDs \o Head(chunks).fds, {}), got' \in Nat,
           UNCHANGED <<script, sentUnits, sentFDs, eof, frame, active, lent, closed>>
    PROVE  IInv'
<1> USE ScriptFixed
<1> DEFINE new == Head(chunks).fds
           q == pendingFDs \o new
<1>1. Head(chunks) = chunks[1] /\ 1 \in DOMAIN chunks /\ chunks' \in Seq(Chunk)
  BY ConsumeFacts
<1>2. new \in Seq(Nat) /\ \A f \in SeqRange(new) : f \in Frames /\ owner[f] = "kernel"
  BY <1>1, SeqFacts, HolderFacts
<1>3. q \in Seq(Nat) /\ SeqRange(q) = SeqRange(pendingFDs) \cup SeqRange(new)
  BY <1>2, JoinFacts DEF IInv, MoreTypes
<1>4. \A f \in SeqRange(pendingFDs) : f \in Frames /\ owner[f] = "context"
  BY HolderFacts
<1> HIDE DEF q
<1>5. pendingFDs' = << >> /\ owner' = [f \in Frames |-> IF f \in SeqRange(q) THEN "closed" ELSE owner[f]]
  BY DEF Fail, CloseAll, q
<1>6. InOrder'
  <2>1. \A f \in Frames : owner[f] \in {"peer", "kernel"} /\ f \notin SeqRange(new)
                             => owner'[f] = owner[f]
    BY <1>3, <1>4, <1>5
  <2>2. SeqRange(pendingFDs') = {}
    BY <1>5 DEF SeqRange
  <2> QED
    BY <2>1, <2>2, ConsumeInOrder
<1>7. \A f \in Frames : f \in SeqRange(lent') <=> (f \in SeqRange(lent) /\ f \notin {} \cup SeqRange(q))
  BY <1>2, <1>3, <1>4, HolderFacts, SeqFacts DEF NoFD
<1>8. DescriptorReachesItsEvent'
  BY DEF IInv, DescriptorReachesItsEvent, HasFD
<1>9. /\ frame' \in 1 .. N + 1
      /\ active' \in Seq(Frames) /\ lent' \in Seq(Nat) /\ Len(active') = Len(lent')
      /\ Len(active') =< MaxNesting
  BY DEF IInv, MoreTypes, TypeOK
<1>10. /\ \A i \in DOMAIN lent' : lent'[i] \in Frames \cup {NoFD}
       /\ \A i, j \in DOMAIN lent' : lent'[i] = lent'[j] => i = j \/ lent'[i] = NoFD
  BY DEF IInv, Holders
<1>11. Fail(q, {}) /\ SeqRange(pendingFDs) \subseteq {} \cup SeqRange(q)
       /\ \A f \in {} \cup SeqRange(q) : f \in Frames /\ owner[f] # "closed"
  BY <1>2, <1>3, <1>4 DEF q
<1> QED
  BY <1>1, <1>6, <1>7, <1>8, <1>9, <1>10, <1>11, FailIInv

-----------------------------------------------------------------------------
(* What Dispatch takes from the queue, and what it leaves: only later      *)
(* frames' descriptors, and, without dispatchers that take whatever is     *)
(* there, all of them.                                                     *)
NoCustom == \A f \in Frames : script[f].sender # "custom"

LEMMA DeliverFacts ==
    ASSUME IInv, pc = "deliver"
    PROVE  /\ frame \in Frames /\ ~fatal /\ ~closed
           /\ Queue(frame) \in Seq(Nat) /\ Ascending(Queue(frame))
           /\ Received(frame) \subseteq SeqRange(pendingFDs)
           /\ SeqRange(Queue(frame)) = SeqRange(pendingFDs) \ Received(frame)
           /\ \A f \in SeqRange(Queue(frame)) : f >= frame + 1
           /\ FD(frame) \in Frames \cup {NoFD}
           /\ Received(frame) = {FD(frame)} \cap Frames
           /\ (NoCustom /\ script[frame].sender \in {"aware", "zombie"})
                 => FD(frame) = IF HasFD(frame) THEN frame ELSE NoFD
<1>1. /\ frame \in Frames /\ ~fatal /\ ~closed /\ got = Units(frame)
  BY DEF IInv, Control
<1>2. /\ N \in Nat /\ Frames = 1 .. N /\ pendingFDs \in Seq(Nat) /\ NoFD \notin Frames
      /\ SeqRange(pendingFDs) \subseteq Frames /\ Ascending(pendingFDs)
      /\ \A f \in SeqRange(pendingFDs) : f >= frame /\ HasFD(f)
  <2>1. \A f \in SeqRange(pendingFDs) : f >= frame /\ HasFD(f)
    BY HolderFacts DEF IInv, Holders, DescriptorsAccountedFor
  <2> QED
    BY <2>1, SeqFacts, PendingAscending DEF IInv, MoreTypes, NoFD
<1>3. SeqRange(<< >>) = {} /\ Ascending(<< >>) /\ << >> \in Seq(Nat)
  BY DEF SeqRange, Ascending
<1>4. ASSUME NoCustom, HasFD(frame) PROVE frame \in SeqRange(pendingFDs)
  <2>1. PICK start \in [1 .. Len(chunks) + 1 -> 0 .. TotalUnits] : EndToEnd(start)
    BY <1>1 DEF IInv, StreamPosition
  <2>2. /\ UnitsBefore[frame] \in Nat /\ Units(frame) \in Nat /\ Units(frame) > 0
        /\ Len(chunks) \in Nat /\ DOMAIN chunks = 1 .. Len(chunks)
        /\ TotalUnits \in Nat /\ UnitsBefore \in [1 .. N + 1 -> Nat]
    <3>1. UnitsBefore \in [1 .. N + 1 -> Nat] /\ TotalUnits \in Nat
      BY UnitsBeforeFacts DEF IInv, MoreTypes
    <3>2. UnitsBefore[frame] \in Nat
      BY <1>1, <1>2, <3>1
    <3>3. Units(frame) \in Nat /\ Units(frame) >= HeaderUnits
      BY <1>1, FrameFacts DEF IInv, MoreTypes
    <3> QED
      BY <3>1, <3>2, <3>3, SeqFacts DEF HeaderUnits
  <2>3. start[1] = UnitsBefore[frame] + Units(frame) /\ start[Len(chunks) + 1] = sentUnits
        /\ \A i \in 1 .. Len(chunks) : start[1] =< start[i]
        /\ start[1] =< sentUnits
    <3>1. 1 \in 1 .. Len(chunks) + 1 /\ Len(chunks) + 1 \in 1 .. Len(chunks) + 1
          /\ \A i \in 1 .. Len(chunks) : i \in 1 .. Len(chunks) + 1 /\ 1 =< i
          /\ 1 =< Len(chunks) + 1
      BY <2>2
    <3> QED
      BY <1>1, <2>1, <3>1 DEF EndToEnd
  <2>4. frame =< sentFDs
    <3>1. UnitsBefore[frame] < sentUnits
      BY <2>2, <2>3, SeqFacts
    <3> QED
      BY <1>1, <3>1 DEF IInv, InOrder
  <2>5. ASSUME NEW i \in DOMAIN chunks, frame \in SeqRange(chunks[i].fds) PROVE FALSE
    <3>1. start[i] =< UnitsBefore[frame] /\ start[1] =< start[i]
      BY <2>1, <2>2, <2>3, <2>5 DEF EndToEnd
    <3>2. start[i] \in Nat
      BY <2>1, <2>2
    <3> QED
      BY <2>2, <2>3, <3>1, <3>2
  <2>6. frame =< frame
    BY <1>1, <1>2
  <2> QED
    BY <1>1, <1>4, <2>4, <2>5, <2>6 DEF IInv, NoneMissing, NoCustom
<1>5. CASE pendingFDs = << >>
  <2>1. FD(frame) = NoFD /\ Received(frame) = {} /\ Queue(frame) = << >>
    BY <1>5 DEF FD, Received, Queue, Taken, AfterTake
  <2>2. (NoCustom => ~HasFD(frame))
    BY <1>3, <1>4, <1>5
  <2> QED
    BY <1>1, <1>2, <1>3, <1>5, <2>1, <2>2
<1>6. CASE pendingFDs # << >>
  <2> DEFINE h == Head(pendingFDs)  t == Tail(pendingFDs)
  <2>1. /\ h \in SeqRange(pendingFDs) /\ t \in Seq(Nat) /\ Ascending(t)
        /\ SeqRange(t) = SeqRange(pendingFDs) \ {h}
        /\ \A f \in SeqRange(pendingFDs) : h =< f
        /\ <<h>> \o t = pendingFDs
    BY <1>2, <1>6, TakeFacts
  <2>2. h \in Frames /\ h # NoFD /\ Taken = h /\ AfterTake = t
    BY <1>2, <1>6, <2>1 DEF Taken, AfterTake
  <2> HIDE DEF h, t
  <2>3. frame \in SeqRange(pendingFDs) => h = frame
    <3>1. h \in Nat /\ frame \in Nat /\ h >= frame
      BY <1>1, <1>2, <2>1, <2>2
    <3> QED
      BY <2>1, <3>1
  <2>4. CASE PutsBack(frame)
    <3>1. FD(frame) = NoFD /\ Received(frame) = {} /\ Queue(frame) = pendingFDs /\ ~HasFD(frame)
      BY <2>1, <2>2, <2>4 DEF FD, Received, Queue, PutsBack
    <3>2. \A f \in SeqRange(pendingFDs) : f \in Nat /\ f >= frame /\ f # frame
      BY <1>2, <3>1
    <3>3. \A f \in SeqRange(pendingFDs) : f >= frame + 1
      BY <1>1, <1>2, <3>2
    <3> QED
      BY <1>1, <1>2, <3>1, <3>3
  <2>5. CASE ~PutsBack(frame)
    <3>1. FD(frame) = h /\ Received(frame) = {h} /\ Queue(frame) = t
      BY <2>2, <2>5 DEF FD, Received, Queue
    <3>2. \A f \in SeqRange(t) : f \in Nat /\ f >= frame /\ f # frame
      BY <1>2, <2>1, <2>3
    <3>3. \A f \in SeqRange(t) : f >= frame + 1
      BY <1>1, <1>2, <3>2
    <3>4. script[frame].sender \in {"aware", "zombie"} => HasFD(frame)
      BY <2>5 DEF PutsBack
    <3> QED
      BY <1>1, <1>2, <1>4, <2>1, <2>2, <2>3, <3>1, <3>3, <3>4
  <2> QED
    BY <2>4, <2>5
<1> QED
  BY <1>5, <1>6

(* A delivery that does not fail the connection, whoever gets the          *)
(* descriptor: the stream moves on to the next frame.                      *)
LEMMA NextFramePosition ==
    ASSUME IInv, pc = "deliver", NextFrame, pc' = "idle",
           UNCHANGED <<script, sentUnits, sentFDs, chunks, closed, fatal>>,
           pendingFDs' = Queue(frame),
           script[frame].sender \in {"aware", "zombie", "custom"}
    PROVE  /\ StreamPosition' /\ Control' /\ StopsAtFrameBoundary' /\ NoneMissing'
           /\ frame' \in 1 .. N + 1 /\ got' \in Nat
<1> USE ScriptFixed
<1>1. /\ frame \in Frames /\ frame' = frame + 1 /\ got' = 0 /\ got = Units(frame)
      /\ ~fatal /\ ~closed /\ N \in Nat /\ Frames = 1 .. N
  BY SeqFacts DEF NextFrame, IInv, Control
<1>2. frame' \in 1 .. N + 1 /\ got' \in Nat
  BY <1>1
<1>3. StreamPosition'
  <2>1. PICK start \in [1 .. Len(chunks) + 1 -> 0 .. TotalUnits] : EndToEnd(start)
    BY <1>1 DEF IInv, StreamPosition
  <2>2. UnitsBefore[frame] + got = UnitsBefore[frame + 1] + 0
    <3>1. frame + 1 \in 1 .. N + 1
      BY <1>1
    <3>2. UnitsBefore[frame + 1] = UnitsBefore[frame] + Units(frame)
          /\ UnitsBefore[frame + 1] \in Nat
      BY <1>1, <3>1, UnitsBeforeFacts DEF IInv, MoreTypes
    <3> QED
      BY <1>1, <3>2
  <2>3. EndToEnd(start)'
    BY <1>1, <2>1, <2>2 DEF EndToEnd
  <2> QED
    BY <2>1, <2>3 DEF StreamPosition
<1>4. Control' /\ StopsAtFrameBoundary'
  BY <1>1 DEF Control, StopsAtFrameBoundary
<1>5. NoneMissing'
  <2>1. ASSUME NoCustom PROVE SeqRange(pendingFDs) \ SeqRange(pendingFDs') \subseteq {frame}
    <3>1. FD(frame) \in {frame, NoFD} /\ NoFD \notin Frames
      <4>1. script[frame].sender \in {"aware", "zombie"}
        BY <1>1, <2>1 DEF NoCustom
      <4> QED
        BY <2>1, <4>1, DeliverFacts, SeqFacts DEF NoFD
    <3>2. /\ Received(frame) = {FD(frame)} \cap Frames
          /\ SeqRange(Queue(frame)) = SeqRange(pendingFDs) \ Received(frame)
      BY DeliverFacts
    <3> QED
      BY <3>1, <3>2
  <2>2. ASSUME NEW f \in Frames, frame + 1 =< f PROVE frame =< f /\ f # frame
    BY <1>1, <2>2
  <2> QED
    BY <1>1, <2>1, <2>2 DEF IInv, NoneMissing, NoCustom, HasFD
<1> QED
  BY <1>2, <1>3, <1>4, <1>5

LEMMA DeliverRefusedIInv ==
    ASSUME IInv, pc = "deliver", NextFrame, Fail(Queue(frame), Received(frame)),
           UNCHANGED <<script, sentUnits, sentFDs, eof, chunks, closed, active, lent>>
    PROVE  IInv'
<1> USE ScriptFixed
<1> DEFINE q == Queue(frame)  X == Received(frame)
<1>1. /\ frame \in Frames /\ ~fatal /\ q \in Seq(Nat)
      /\ SeqRange(pendingFDs) = X \cup SeqRange(q)
  BY DeliverFacts
<1>2. \A f \in SeqRange(pendingFDs) : f \in Frames /\ owner[f] = "context"
  BY HolderFacts
<1> HIDE DEF q, X
<1>3. pendingFDs' = << >>
      /\ owner' = [f \in Frames |-> IF f \in SeqRange(pendingFDs) THEN "closed" ELSE owner[f]]
  BY <1>1 DEF Fail, CloseAll, q, X
<1>4. InOrder'
  <2>1. \A f \in Frames : owner[f] \in {"peer", "kernel"} => owner'[f] = owner[f]
    BY <1>2, <1>3
  <2>2. SeqRange(pendingFDs') \subseteq SeqRange(pendingFDs)
    BY <1>3 DEF SeqRange
  <2> QED
    BY <2>1, <2>2, InOrderKept
<1>5. \A f \in Frames : f \in SeqRange(lent') <=> (f \in SeqRange(lent) /\ f \notin X \cup SeqRange(q))
  BY <1>1, <1>2, HolderFacts, SeqFacts DEF NoFD
<1>6. DescriptorReachesItsEvent'
  BY DEF IInv, DescriptorReachesItsEvent, HasFD
<1>7. /\ frame' \in 1 .. N + 1 /\ got' \in Nat
      /\ chunks' \in Seq(Chunk)
      /\ active' \in Seq(Frames) /\ lent' \in Seq(Nat) /\ Len(active') = Len(lent')
      /\ Len(active') =< MaxNesting
  <2>1. frame + 1 \in 1 .. N + 1
    BY <1>1, SeqFacts
  <2> QED
    BY <2>1 DEF NextFrame, IInv, MoreTypes, TypeOK
<1>8. /\ \A i \in DOMAIN lent' : lent'[i] \in Frames \cup {NoFD}
      /\ \A i, j \in DOMAIN lent' : lent'[i] = lent'[j] => i = j \/ lent'[i] = NoFD
  BY DEF IInv, Holders
<1>9. /\ Fail(q, X) /\ SeqRange(pendingFDs) \subseteq X \cup SeqRange(q)
      /\ \A f \in X \cup SeqRange(q) : f \in Frames /\ owner[f] # "closed"
  BY <1>1, <1>2 DEF q, X
<1> QED
  BY <1>1, <1>4, <1>5, <1>6, <1>7, <1>8, <1>9, FailIInv

(* The descriptor is closed by Dispatch, for a zombie, or by the decoder,  *)
(* without a handler.                                                      *)
LEMMA DeliverClosedIInv ==
    ASSUME IInv, pc = "deliver", NextFrame, pc' = "idle",
           pendingFDs' = Queue(frame), CloseAll(Received(frame)),
           script[frame].sender \in {"aware", "zombie"},
           UNCHANGED <<script, sentUnits, sentFDs, eof, chunks, closed, fatal, active, lent>>
    PROVE  IInv'
<1> USE ScriptFixed
<1> DEFINE q == Queue(frame)  X == Received(frame)
<1>1. /\ frame \in Frames /\ ~fatal /\ ~closed /\ q \in Seq(Nat) /\ Ascending(q)
      /\ X \subseteq SeqRange(pendingFDs) /\ SeqRange(q) = SeqRange(pendingFDs) \ X
      /\ \A f \in SeqRange(q) : f >= frame + 1
  BY DeliverFacts
<1>2. \A f \in SeqRange(pendingFDs) : f \in Frames /\ owner[f] = "context"
  BY HolderFacts
<1>3. /\ StreamPosition' /\ Control' /\ StopsAtFrameBoundary' /\ NoneMissing'
      /\ frame' \in 1 .. N + 1 /\ got' \in Nat
  BY NextFramePosition
<1>4. pendingFDs' = q /\ CloseAll(X) /\ frame' = frame + 1
  BY DEF NextFrame
<1> HIDE DEF q, X
<1>5. InOrder'
  <2>1. \A f \in Frames : owner[f] \in {"peer", "kernel"} => owner'[f] = owner[f]
    BY <1>1, <1>2, <1>4 DEF CloseAll
  <2> QED
    BY <1>1, <1>4, <2>1, InOrderKept
<1>6. \A f \in Frames : f \in SeqRange(lent') <=> (f \in SeqRange(lent) /\ f \notin X)
  BY <1>1, <1>2, HolderFacts, SeqFacts DEF NoFD
<1>7. /\ DescriptorsAccountedFor'
      /\ owner' \in [Frames -> Owners] /\ closes' \in [Frames -> Nat]
  BY <1>1, <1>2, <1>4, <1>6, Accounting
<1>8. TypeOK' /\ MoreTypes'
  BY <1>1, <1>2, <1>3, <1>4, <1>7 DEF IInv, TypeOK, MoreTypes
<1>9. Holders' /\ DescriptorReachesItsEvent'
  BY <1>1, <1>4 DEF IInv, Holders, DescriptorReachesItsEvent, HasFD
<1> QED
  BY <1>3, <1>5, <1>7, <1>8, <1>9 DEF IInv

(* The descriptor goes to the handler, which now runs innermost.           *)
LEMMA DeliverToHandlerIInv ==
    ASSUME IInv, Deliver, DeliverToHandler(frame) PROVE IInv'
<1> USE ScriptFixed
<1> DEFINE q == Queue(frame)  X == Received(frame)  d == FD(frame)  L == Len(lent)
<1>1. /\ pc = "deliver" /\ NextFrame /\ pc' = "idle"
      /\ script' = script /\ sentUnits' = sentUnits /\ sentFDs' = sentFDs /\ eof' = eof
      /\ chunks' = chunks /\ closed' = closed /\ fatal' = fatal /\ closes' = closes
      /\ pendingFDs' = q /\ active' = Append(active, frame) /\ lent' = Append(lent, d)
      /\ owner' = [g \in Frames |-> IF g \in X THEN "handler" ELSE owner[g]]
      /\ script[frame].sender \in {"aware", "custom"}
  BY DEF Deliver, DeliverToHandler, peer
<1> USE <1>1
<1>2. /\ frame \in Frames /\ ~fatal /\ ~closed /\ q \in Seq(Nat) /\ Ascending(q)
      /\ X \subseteq SeqRange(pendingFDs) /\ SeqRange(q) = SeqRange(pendingFDs) \ X
      /\ \A f \in SeqRange(q) : f >= frame + 1
      /\ d \in Frames \cup {NoFD} /\ X = {d} \cap Frames
      /\ (NoCustom /\ script[frame].sender = "aware")
            => d = IF HasFD(frame) THEN frame ELSE NoFD
  BY DeliverFacts
<1>3. \A f \in SeqRange(pendingFDs) : f \in Frames /\ owner[f] = "context"
  BY HolderFacts
<1>4. /\ StreamPosition' /\ Control' /\ StopsAtFrameBoundary' /\ NoneMissing'
      /\ frame' \in 1 .. N + 1 /\ got' \in Nat /\ frame' = frame + 1
  BY NextFramePosition DEF NextFrame
<1>5. /\ L \in Nat /\ Len(active) = L /\ DOMAIN lent = 1 .. L /\ d \in Nat
      /\ NoFD \notin Frames /\ MaxNesting \in Nat /\ L < MaxNesting
  BY <1>2, SeqFacts, FrameReaderAssumption DEF NoFD, IInv, Control
<1> HIDE DEF q, X, d
<1>6. /\ lent' \in Seq(Nat) /\ DOMAIN lent' = 1 .. L + 1 /\ Len(lent') = L + 1
      /\ lent'[L + 1] = d /\ \A i \in 1 .. L : lent'[i] = lent[i]
  BY <1>5 DEF IInv, MoreTypes
<1>7. /\ active' \in Seq(Frames) /\ DOMAIN active' = 1 .. L + 1 /\ Len(active') = L + 1
      /\ active'[L + 1] = frame /\ \A i \in 1 .. L : active'[i] = active[i]
  BY <1>2, <1>5 DEF IInv, MoreTypes
<1> HIDE DEF L
<1>8. SeqRange(lent') = SeqRange(lent) \cup {d}
  BY <1>5, <1>6 DEF SeqRange
<1>9. \A f \in Frames : f \in X <=> f = d
  BY <1>2
<1>10. DescriptorsAccountedFor'
  <2>1. \A i, j \in DOMAIN pendingFDs' : i < j => pendingFDs'[i] < pendingFDs'[j]
    BY <1>2 DEF Ascending
  <2>2. ASSUME NEW f \in Frames
        PROVE  /\ (owner'[f] = "context") <=> (f \in SeqRange(q))
               /\ (owner'[f] = "handler") <=> (f \in SeqRange(lent'))
               /\ closes[f] = IF owner'[f] = "closed" THEN 1 ELSE 0
               /\ owner'[f] = "context" => f >= frame + 1
    <3>1. CASE f \in X
      <4>1. owner'[f] = "handler" /\ owner[f] = "context" /\ f \notin SeqRange(q) /\ f = d
        BY <1>2, <1>3, <1>9, <3>1
      <4> QED
        BY <1>8, <4>1 DEF IInv, DescriptorsAccountedFor
    <3>2. CASE f \notin X
      <4>1. owner'[f] = owner[f] /\ f # d
        BY <1>9, <3>2
      <4> QED
        BY <1>2, <1>8, <3>2, <4>1 DEF IInv, DescriptorsAccountedFor
    <3> QED
      BY <3>1, <3>2
  <2> QED
    BY <1>2, <1>4, <2>1, <2>2 DEF DescriptorsAccountedFor
<1>11. InOrder'
  <2>1. \A f \in Frames : owner[f] \in {"peer", "kernel"} => owner'[f] = owner[f]
    BY <1>2, <1>3
  <2> QED
    BY <1>2, <2>1, InOrderKept
<1>12. TypeOK' /\ MoreTypes'
  <2>1. owner' \in [Frames -> Owners]
    BY DEF IInv, TypeOK, Owners
  <2>2. L + 1 =< MaxNesting
    BY <1>5
  <2>3. SeqRange(pendingFDs') \subseteq Frames
    BY <1>2, <1>3
  <2> QED
    BY <1>2, <1>4, <1>6, <1>7, <2>1, <2>2, <2>3 DEF IInv, TypeOK, MoreTypes
<1>13. Holders'
  <2>1. ASSUME NEW i \in DOMAIN lent', NEW j \in DOMAIN lent', lent'[i] = lent'[j], i # j
        PROVE  lent'[i] = NoFD
    <3>1. ASSUME NEW k \in 1 .. L, lent[k] = d PROVE d = NoFD
      <4>1. d \in SeqRange(lent)
        BY <1>5, <3>1 DEF SeqRange
      <4>2. d # NoFD => owner[d] = "handler" /\ owner[d] = "context"
        BY <1>2, <1>3, <4>1, HolderFacts
      <4> QED
        BY <4>2
    <3>2. CASE i \in 1 .. L /\ j \in 1 .. L
      BY <1>5, <1>6, <2>1, <3>2 DEF IInv, Holders
    <3>3. CASE i \in 1 .. L /\ j = L + 1
      BY <1>6, <2>1, <3>1, <3>3
    <3>4. CASE i = L + 1 /\ j \in 1 .. L
      BY <1>6, <2>1, <3>1, <3>4
    <3> QED
      BY <1>5, <1>6, <2>1, <3>2, <3>3, <3>4
  <2>2. \A i \in DOMAIN lent' : lent'[i] \in Frames \cup {NoFD}
    BY <1>2, <1>5, <1>6 DEF IInv, Holders
  <2> QED
    BY <1>2, <2>1, <2>2 DEF IInv, Holders, HasFD
<1>14. DescriptorReachesItsEvent'
  <2> SUFFICES ASSUME NoCustom, NEW i \in 1 .. L + 1
               PROVE  lent'[i] = IF HasFD(active'[i]) THEN active'[i] ELSE NoFD
    BY <1>7 DEF DescriptorReachesItsEvent, NoCustom, HasFD
  <2>1. CASE i \in 1 .. L
    <3>1. i \in DOMAIN active
      BY <1>5, <2>1 DEF IInv, MoreTypes
    <3> QED
      BY <1>6, <1>7, <2>1, <3>1 DEF IInv, DescriptorReachesItsEvent, NoCustom
  <2>2. CASE i = L + 1
    <3>1. script[frame].sender = "aware"
      BY <1>2 DEF NoCustom
    <3> QED
      BY <1>2, <1>6, <1>7, <2>2, <3>1
  <2> QED
    BY <1>5, <2>1, <2>2
<1> QED
  BY <1>4, <1>10, <1>11, <1>12, <1>13, <1>14 DEF IInv

LEMMA DeliverIInv == ASSUME IInv, Deliver PROVE IInv'
<1>1. /\ pc = "deliver" /\ NextFrame
      /\ UNCHANGED <<script, sentUnits, sentFDs, eof, chunks, closed>>
  BY DEF Deliver, peer
<1>2. CASE DeliverRefused(frame)
  BY <1>1, <1>2, DeliverRefusedIInv DEF DeliverRefused
<1>3. CASE DeliverZombie(frame)
  BY <1>1, <1>3, DeliverRefusedIInv, DeliverClosedIInv DEF DeliverZombie
<1>4. CASE DeliverNoHandler(frame)
  BY <1>1, <1>4, DeliverClosedIInv DEF DeliverNoHandler
<1>5. CASE DeliverToHandler(frame)
  BY <1>5, DeliverToHandlerIInv
<1> QED
  BY <1>2, <1>3, <1>4, <1>5 DEF Deliver

-----------------------------------------------------------------------------
(* When the innermost handler ends, the descriptor lent to it, and no      *)
(* other, leaves the handlers.                                             *)
LEMMA PoppedFacts ==
    ASSUME IInv, script' = script, active # << >>,
           active' = Popped(active), lent' = Popped(lent)
    PROVE  /\ active' \in Seq(Frames) /\ lent' \in Seq(Nat) /\ Len(active') = Len(lent')
           /\ Len(active') =< MaxNesting
           /\ \A i \in DOMAIN lent' : lent'[i] \in Frames \cup {NoFD}
           /\ \A i, j \in DOMAIN lent' : lent'[i] = lent'[j] => i = j \/ lent'[i] = NoFD
           /\ DescriptorReachesItsEvent'
           /\ Lent \subseteq Frames /\ \A f \in Lent : owner[f] = "handler"
           /\ \A f \in Frames : f \in SeqRange(lent') <=> (f \in SeqRange(lent) /\ f \notin Lent)
<1> USE ScriptFixed
<1> DEFINE L == Len(lent)
<1>1. /\ active \in Seq(Frames) /\ lent \in Seq(Nat) /\ Len(active) = L /\ lent # << >>
      /\ L =< MaxNesting /\ MaxNesting \in Nat
  BY FrameReaderAssumption DEF IInv, MoreTypes, TypeOK
<1>2. /\ active' \in Seq(Frames) /\ Len(active') = L - 1 /\ DOMAIN active' = 1 .. L - 1
      /\ DOMAIN active = 1 .. L /\ \A i \in 1 .. L - 1 : active'[i] = active[i]
  BY <1>1, PopFacts
<1>3. /\ lent' \in Seq(Nat) /\ Len(lent') = L - 1 /\ DOMAIN lent' = 1 .. L - 1
      /\ DOMAIN lent = 1 .. L /\ L \in Nat /\ L \in DOMAIN lent
      /\ \A i \in 1 .. L - 1 : lent'[i] = lent[i]
  BY <1>1, PopFacts
<1> HIDE DEF L
<1>4. \A i \in DOMAIN lent' : i \in DOMAIN lent /\ i # L /\ lent'[i] = lent[i]
  BY <1>3
<1>5. \A i \in DOMAIN lent : i # L => i \in DOMAIN lent'
  BY <1>3
<1>6. DescriptorReachesItsEvent'
  <2>1. \A i \in DOMAIN active' : i \in DOMAIN active /\ active'[i] = active[i] /\ lent'[i] = lent[i]
    BY <1>2, <1>3
  <2> QED
    BY <2>1 DEF IInv, DescriptorReachesItsEvent, HasFD
<1>7. /\ \A i \in DOMAIN lent' : lent'[i] \in Frames \cup {NoFD}
      /\ \A i, j \in DOMAIN lent' : lent'[i] = lent'[j] => i = j \/ lent'[i] = NoFD
  BY <1>4 DEF IInv, Holders
<1>8. Innermost = lent[L] /\ lent[L] \in Frames \cup {NoFD} /\ lent[L] \in SeqRange(lent)
      /\ NoFD \notin Frames
  BY <1>3, SeqFacts DEF Innermost, IInv, Holders, SeqRange, L, NoFD
<1>9. Lent \subseteq Frames /\ \A f \in Lent : owner[f] = "handler" /\ f = lent[L]
  BY <1>8, HolderFacts DEF Lent
<1>10. \A f \in Frames : f \in Lent <=> f = lent[L]
  BY <1>8 DEF Lent
<1>11. ASSUME NEW f \in Frames
       PROVE  f \in SeqRange(lent') <=> (f \in SeqRange(lent) /\ f \notin Lent)
  <2>1. ASSUME f \in SeqRange(lent') PROVE f \in SeqRange(lent) /\ f # lent[L]
    <3>1. PICK i \in DOMAIN lent' : f = lent'[i]
      BY <2>1 DEF SeqRange
    <3>2. i \in DOMAIN lent /\ i # L /\ f = lent[i] /\ f # NoFD
      BY <1>4, <1>8, <3>1
    <3> QED
      BY <1>3, <3>2 DEF IInv, Holders, SeqRange
  <2>2. ASSUME f \in SeqRange(lent), f # lent[L] PROVE f \in SeqRange(lent')
    <3>1. PICK i \in DOMAIN lent : f = lent[i]
      BY <2>2 DEF SeqRange
    <3> QED
      BY <1>4, <1>5, <2>2, <3>1 DEF SeqRange
  <2> QED
    BY <1>10, <2>1, <2>2
<1>12. L - 1 =< MaxNesting
  BY <1>1, <1>3
<1> QED
  BY <1>2, <1>3, <1>6, <1>7, <1>9, <1>11, <1>12

LEMMA HandlerReturnsIInv == ASSUME IInv, HandlerReturns PROVE IInv'
<1> USE ScriptFixed
<1>1. /\ pc = "idle" /\ active # << >> /\ active' = Popped(active) /\ lent' = Popped(lent)
      /\ owner' = [f \in Frames |-> IF f \in Lent THEN "application" ELSE owner[f]]
      /\ script' = script /\ sentUnits' = sentUnits /\ sentFDs' = sentFDs /\ eof' = eof
      /\ chunks' = chunks /\ frame' = frame /\ got' = got /\ pc' = pc
      /\ pendingFDs' = pendingFDs /\ fatal' = fatal /\ closed' = closed /\ closes' = closes
  BY DEF HandlerReturns, peer
<1> USE <1>1
<1>2. /\ active' \in Seq(Frames) /\ lent' \in Seq(Nat) /\ Len(active') = Len(lent')
      /\ Len(active') =< MaxNesting
      /\ \A i \in DOMAIN lent' : lent'[i] \in Frames \cup {NoFD}
      /\ \A i, j \in DOMAIN lent' : lent'[i] = lent'[j] => i = j \/ lent'[i] = NoFD
      /\ DescriptorReachesItsEvent'
      /\ Lent \subseteq Frames /\ \A f \in Lent : owner[f] = "handler"
      /\ \A f \in Frames : f \in SeqRange(lent') <=> (f \in SeqRange(lent) /\ f \notin Lent)
  BY PoppedFacts
<1>3. TypeOK' /\ MoreTypes'
  <2>1. owner' \in [Frames -> Owners]
    BY DEF IInv, TypeOK, Owners
  <2> QED
    BY <1>2, <2>1 DEF IInv, TypeOK, MoreTypes
<1>4. Control' /\ StopsAtFrameBoundary'
  BY DEF IInv, Control, StopsAtFrameBoundary
<1>5. StreamPosition'
  BY DEF IInv, StreamPosition, EndToEnd
<1>6. InOrder'
  <2>1. \A f \in Frames : owner[f] \in {"peer", "kernel"} => owner'[f] = owner[f]
    BY <1>2
  <2> QED
    BY <2>1, InOrderKept
<1>7. Holders' /\ NoneMissing'
  BY <1>2 DEF IInv, Holders, NoneMissing, HasFD
<1>8. DescriptorsAccountedFor'
  <2>1. ASSUME NEW f \in Frames
        PROVE  /\ (owner'[f] = "context") <=> (f \in SeqRange(pendingFDs))
               /\ (owner'[f] = "handler") <=> (f \in SeqRange(lent'))
               /\ closes[f] = IF owner'[f] = "closed" THEN 1 ELSE 0
               /\ owner'[f] = "context" => owner[f] = "context"
    <3>1. CASE f \in Lent
      BY <1>2, <3>1 DEF IInv, DescriptorsAccountedFor
    <3>2. CASE f \notin Lent
      BY <1>2, <3>2 DEF IInv, DescriptorsAccountedFor
    <3> QED
      BY <3>1, <3>2
  <2> QED
    BY <2>1 DEF IInv, DescriptorsAccountedFor
<1> QED
  BY <1>2, <1>3, <1>4, <1>5, <1>6, <1>7, <1>8 DEF IInv

LEMMA HandlerPanicsIInv == ASSUME IInv, HandlerPanics PROVE IInv'
<1> USE ScriptFixed
<1>1. /\ active # << >> /\ active' = Popped(active) /\ lent' = Popped(lent)
      /\ Fail(pendingFDs, Lent)
      /\ script' = script /\ sentUnits' = sentUnits /\ sentFDs' = sentFDs /\ eof' = eof
      /\ chunks' = chunks /\ frame' = frame /\ got' = got /\ closed' = closed
  BY DEF HandlerPanics, peer
<1>2. /\ active' \in Seq(Frames) /\ lent' \in Seq(Nat) /\ Len(active') = Len(lent')
      /\ Len(active') =< MaxNesting
      /\ \A i \in DOMAIN lent' : lent'[i] \in Frames \cup {NoFD}
      /\ \A i, j \in DOMAIN lent' : lent'[i] = lent'[j] => i = j \/ lent'[i] = NoFD
      /\ DescriptorReachesItsEvent'
      /\ Lent \subseteq Frames /\ \A f \in Lent : owner[f] = "handler"
      /\ \A f \in Frames : f \in SeqRange(lent') <=> (f \in SeqRange(lent) /\ f \notin Lent)
  BY <1>1, PoppedFacts
<1>3. \A f \in SeqRange(pendingFDs) : f \in Frames /\ owner[f] = "context"
  BY HolderFacts
<1>4. InOrder'
  <2>1. \A f \in Frames : owner[f] \in {"peer", "kernel"} => owner'[f] = owner[f]
    BY <1>1, <1>2, <1>3 DEF Fail, CloseAll
  <2>2. SeqRange(pendingFDs') \subseteq SeqRange(pendingFDs)
    BY <1>1 DEF Fail, SeqRange
  <2> QED
    BY <1>1, <2>1, <2>2, InOrderKept
<1>5. \A f \in Frames : f \in SeqRange(lent')
                         <=> (f \in SeqRange(lent) /\ f \notin Lent \cup SeqRange(pendingFDs))
  BY <1>2, <1>3, HolderFacts, SeqFacts DEF NoFD
<1>6. /\ fatal => pendingFDs = << >>
      /\ frame' \in 1 .. N + 1 /\ got' \in Nat /\ chunks' \in Seq(Chunk)
  BY <1>1 DEF IInv, MoreTypes, TypeOK, Control
<1>7. /\ SeqRange(pendingFDs) \subseteq Lent \cup SeqRange(pendingFDs)
      /\ \A f \in Lent \cup SeqRange(pendingFDs) : f \in Frames /\ owner[f] # "closed"
  BY <1>2, <1>3
<1> QED
  BY <1>1, <1>2, <1>4, <1>5, <1>6, <1>7, FailIInv

(* Context.Close empties the queue; nothing is read afterwards.            *)
LEMMA CloseContextIInv == ASSUME IInv, CloseContext PROVE IInv'
<1> USE ScriptFixed
<1>1. /\ pc = "idle" /\ closed' = TRUE /\ pendingFDs' = << >>
      /\ CloseAll(SeqRange(pendingFDs))
      /\ script' = script /\ sentUnits' = sentUnits /\ sentFDs' = sentFDs /\ eof' = eof
      /\ chunks' = chunks /\ frame' = frame /\ got' = got /\ pc' = pc
      /\ active' = active /\ lent' = lent /\ fatal' = fatal
  BY DEF CloseContext, peer
<1> USE <1>1
<1>2. SeqRange(pendingFDs') = {} /\ Ascending(pendingFDs') /\ pendingFDs' \in Seq(Nat)
  BY DEF SeqRange, Ascending
<1>3. \A f \in SeqRange(pendingFDs) : f \in Frames /\ owner[f] = "context"
  BY HolderFacts
<1>4. /\ DescriptorsAccountedFor'
      /\ owner' \in [Frames -> Owners] /\ closes' \in [Frames -> Nat]
  <2>1. \A f \in Frames : f \in SeqRange(lent')
                            <=> (f \in SeqRange(lent) /\ f \notin SeqRange(pendingFDs))
    BY <1>3, HolderFacts, SeqFacts DEF NoFD
  <2>2. SeqRange(pendingFDs') = SeqRange(pendingFDs) \ SeqRange(pendingFDs)
    BY <1>2
  <2> QED
    BY <1>2, <1>3, <2>1, <2>2, Accounting
<1>5. TypeOK' /\ MoreTypes'
  BY <1>2, <1>4 DEF IInv, TypeOK, MoreTypes
<1>6. Control' /\ StopsAtFrameBoundary' /\ NoneMissing'
  BY DEF IInv, Control, StopsAtFrameBoundary, NoneMissing
<1>7. StreamPosition'
  BY DEF IInv, StreamPosition, EndToEnd
<1>8. InOrder'
  <2>1. \A f \in Frames : owner[f] \in {"peer", "kernel"} => owner'[f] = owner[f]
    BY <1>3 DEF CloseAll
  <2> QED
    BY <1>2, <2>1, InOrderKept
<1>9. Holders' /\ DescriptorReachesItsEvent'
  BY <1>2 DEF IInv, Holders, DescriptorReachesItsEvent, HasFD
<1> QED
  BY <1>4, <1>5, <1>6, <1>7, <1>8, <1>9 DEF IInv

-----------------------------------------------------------------------------
(* Every step keeps the invariant.                                         *)
LEMMA NextIInv == IInv /\ [Next]_vars => IInv'
<1> SUFFICES ASSUME IInv, [Next]_vars PROVE IInv'
  OBVIOUS
<1>1. CASE PeerStep
  <2>1. CASE PeerShutdown
    BY <2>1, UnmovedIInv DEF PeerShutdown, Unmoved, fds
  <2> QED
    BY <1>1, <2>1, PeerWriteIInv DEF PeerStep
<1>2. CASE StartDispatch
  BY <1>2, UnmovedIInv DEF StartDispatch, Unmoved, fds, peer, IInv, MoreTypes, StopsAtFrameBoundary
<1>3. ASSUME NEW n \in 1 .. TotalUnits, Receive(n) PROVE IInv'
  <2>1. CASE ~Invalid(n)
    BY <1>3, <2>1, ReceiveIInv
  <2>2. CASE Invalid(n)
    <3>1. /\ chunks # << >> /\ n =< Least(Wanted, Head(chunks).units) /\ Consume(n) /\ Reading
          /\ Fail(pendingFDs \o Head(chunks).fds, {}) /\ got' = 0
          /\ UNCHANGED <<script, sentUnits, sentFDs, eof, frame, active, lent, closed>>
      BY <1>3, <2>2 DEF Receive, Invalid, peer
    <3>2. n \in Nat /\ n =< Head(chunks).units /\ ~fatal
      <4>1. TotalUnits \in Nat /\ got \in Nat /\ Head(chunks).units \in Nat
        <5>1. chunks \in Seq(Chunk) /\ Head(chunks) = chunks[1] /\ 1 \in DOMAIN chunks
          BY <3>1 DEF IInv, MoreTypes
        <5> QED
          BY <5>1, SeqFacts, UnitsBeforeFacts DEF IInv, MoreTypes
      <4>2. Wanted \in Int
        BY <2>2, <4>1 DEF Invalid, Wanted, HeaderUnits
      <4> QED
        BY <3>1, <4>1, <4>2 DEF Least, IInv, Control, Reading
    <3> QED
      BY <3>1, <3>2, FailReadIInv
  <2> QED
    BY <2>1, <2>2
<1>4. ASSUME NEW n \in 1 .. TotalUnits, ReceiveTruncated(n) PROVE IInv'
  <2>1. /\ chunks # << >> /\ n =< Least(Wanted, Head(chunks).units) /\ Consume(n) /\ Reading
        /\ Fail(pendingFDs \o Head(chunks).fds, {}) /\ got' = 0
        /\ UNCHANGED <<script, sentUnits, sentFDs, eof, frame, active, lent, closed>>
    BY <1>4 DEF ReceiveTruncated, peer
  <2>2. n \in Nat /\ n =< Head(chunks).units /\ ~fatal
    <3>1. TotalUnits \in Nat /\ got \in Nat /\ Head(chunks).units \in Nat
      <4>1. chunks \in Seq(Chunk) /\ Head(chunks) = chunks[1] /\ 1 \in DOMAIN chunks
        BY <2>1 DEF IInv, MoreTypes
      <4> QED
        BY <4>1, SeqFacts, UnitsBeforeFacts DEF IInv, MoreTypes
    <3>2. Wanted \in Int
      <4>1. pc = "body" => Units(frame) \in Nat
        BY FrameFacts DEF IInv, MoreTypes, Control
      <4> QED
        BY <2>1, <3>1, <4>1 DEF Wanted, HeaderUnits, Reading
    <3> QED
      BY <2>1, <3>1, <3>2 DEF Least, IInv, Control, Reading
  <2> QED
    BY <2>1, <2>2, FailReadIInv
<1>5. CASE Deadline
  <2>1. CASE Reading /\ pc = "header" /\ got = 0 /\ pc' = "idle"
             /\ UNCHANGED <<got, pendingFDs, fatal, fds>>
             /\ UNCHANGED <<peer, chunks, frame, active, lent, closed>>
    BY <2>1, UnmovedIInv DEF Unmoved, fds, peer, IInv, MoreTypes
  <2>2. CASE Fail(pendingFDs, {}) /\ got' = 0
             /\ UNCHANGED <<peer, chunks, frame, active, lent, closed>>
    BY <2>2, FailInPlaceIInv DEF peer
  <2> QED
    BY <1>5, <2>1, <2>2 DEF Deadline
<1>6. CASE ReadError
  BY <1>6, FailInPlaceIInv DEF ReadError, peer
<1>7. CASE DisplayError
  BY <1>7, FailInPlaceIInv, SeqFacts DEF DisplayError, peer
<1>8. CASE UNCHANGED vars
  BY <1>8, UnmovedIInv DEF vars, peer, fds, Unmoved, IInv, MoreTypes
<1> QED
  BY <1>1, <1>2, <1>3, <1>4, <1>5, <1>6, <1>7, <1>8, DeliverIInv, HandlerReturnsIInv,
     HandlerPanicsIInv, CloseContextIInv
     DEF Next, ReceiveSome, Truncated

LEMMA Invariance == Spec => []IInv
BY InitIInv, NextIInv, PTL DEF Spec

(* The reader's counters and its queue keep their types.                   *)
THEOREM TypeCorrect == Spec => []TypeOK
<1>1. IInv => TypeOK
  BY DEF IInv
<1> QED
  BY Invariance, <1>1, PTL

(* Dispatch returns at a frame boundary or with the connection failed      *)
(* (readExactWith's deadline rule, event.go).                              *)
THEOREM StopsAtBoundaries == Spec => []StopsAtFrameBoundary
<1>1. IInv => StopsAtFrameBoundary
  BY DEF IInv
<1> QED
  BY Invariance, <1>1, PTL

(* No descriptor leaks from the queue, is closed twice or outlives the     *)
(* connection: takeFD, putBackFD, setFatal, Close and Dispatch's recovery  *)
(* together lose none, on every path.                                      *)
THEOREM NoDescriptorLeaks == Spec => []DescriptorsAccountedFor
<1>1. IInv => DescriptorsAccountedFor
  BY DEF IInv
<1> QED
  BY Invariance, <1>1, PTL

(* takeFD gives each generated decoder the descriptor sent with its own    *)
(* event, although descriptors arrive early, in bulk and out of step with  *)
(* the bytes.                                                              *)
THEOREM DescriptorsReachTheirEvents == Spec => []DescriptorReachesItsEvent
<1>1. IInv => DescriptorReachesItsEvent
  BY DEF IInv
<1> QED
  BY Invariance, <1>1, PTL

=============================================================================
