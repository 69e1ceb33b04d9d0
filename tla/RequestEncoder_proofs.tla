------------------------ MODULE RequestEncoder_proofs ------------------------
(***************************************************************************)
(* The generated request methods, for any signatures and any lengths of    *)
(* strings and arrays: the buffer is exactly filled, the size field of a   *)
(* frame on the wire is its length, and a zombie was announced.            *)
(*                                                                         *)
(* The sizing expression and the layout are recursive functions; what they *)
(* compute is shown by taking the least index where it would go wrong.     *)
(***************************************************************************)
EXTENDS RequestEncoder, WellFoundedInduction, TLAPS

Off == Offset(request.sig, args)
Total == HeaderSize + Size(request.sig, args)

(* The call: one argument for each letter, of the letter's kind.           *)
CallIsTyped ==
    /\ request \in Requests
    /\ args \in Seq([len : Nat, nul : BOOLEAN, null : BOOLEAN])
    /\ Len(args) = Len(request.sig)
    /\ \A k \in 1 .. Len(request.sig) : args[k] \in Arguments(request.sig[k])

(* The walk over the arguments keeps to the layout.                        *)
Walk ==
    /\ arg \in 1 .. Len(request.sig) + 1
    /\ at \in Seq(Nat) /\ Len(at) = arg - 1
    /\ \A k \in 1 .. Len(at) : at[k] = HeaderSize + Off[k]
    /\ pc \in {"encode", "write"} =>
         /\ reqBuf = Total /\ field = Total % SizeFieldLimit
         /\ pos = HeaderSize + Off[arg]
    /\ pc = "write" => arg = Len(request.sig) + 1

(* How far the method is, what it has to say and whom it has marked.       *)
Progress ==
    /\ fatal \in BOOLEAN /\ marked \in BOOLEAN
    /\ pc \in {"call", "encode", "write", "return", "done"}
    /\ result \in Results
    /\ pc = "call" => arg = 1
    /\ pc \in {"call", "encode", "write"} => result = "none"
    /\ pc \in {"call", "encode", "write", "return"} => ~marked
    /\ pc \in {"encode", "write", "return"} => ~DefersOnNil
    /\ (pc = "return" /\ result = "panic") =>
         \E k \in 1 .. Len(args) : request.sig[k] = "o" /\ args[k].null
    /\ pc = "return" => result # "none"

IInv == CallIsTyped /\ Walk /\ Progress /\ SizeFieldIsHonest /\ ZombieWasAnnounced

-----------------------------------------------------------------------------
(* A non-empty set of counterexamples has a least element.                 *)
LEMMA LeastCounterexample ==
    ASSUME NEW S, S \subseteq Nat, S # {}
    PROVE  \E x \in S : \A y \in S : ~(y < x)
<1>1. PICK x \in S : \A y \in S : ~(<<y, x>> \in OpToRel(<, Nat))
  BY NatLessThanWellFounded, WFMin, Zenon
<1>2. ASSUME NEW y \in S PROVE ~(y < x)
  <2>1. x \in Nat /\ y \in Nat
    OBVIOUS
  <2> QED
    BY <1>1, <2>1, Zenon DEF OpToRel
<1> QED
  BY <1>2

(* A running sum s of the weights w, from b on.                            *)
Sums(s, w, n, b) ==
    s = [k \in 0 .. n |-> IF k = 0 THEN b ELSE s[k - 1] + w[k]]

LEMMA SumExists ==
    ASSUME NEW n \in Nat, NEW b \in Nat, NEW w, \A k \in 1 .. n : w[k] \in Nat
    PROVE  \E s : Sums(s, w, n, b)
<1> DEFINE S == {m \in 0 .. n : ~\E s : s \in [0 .. m -> Nat] /\ Sums(s, w, m, b)}
<1> SUFFICES ASSUME ~\E s : Sums(s, w, n, b) PROVE FALSE
  OBVIOUS
<1>1. S # {} /\ S \subseteq Nat
  <2>1. n \in 0 .. n /\ 0 .. n \subseteq Nat
    OBVIOUS
  <2> QED
    BY <2>1
<1>2. PICK x \in S : \A y \in S : ~(y < x)
  BY <1>1, LeastCounterexample
<1>3. x # 0
  <2> DEFINE s == [k \in 0 .. 0 |-> b]
  <2>1. s \in [0 .. 0 -> Nat] /\ Sums(s, w, 0, b)
    BY DEF Sums
  <2> QED
    BY <2>1
<1>4. x \in 1 .. n /\ x - 1 \in 0 .. n /\ x - 1 < x /\ x \in Nat
  BY <1>3
<1>5. PICK s : s \in [0 .. x - 1 -> Nat] /\ Sums(s, w, x - 1, b)
  BY <1>2, <1>4
<1> DEFINE t == [k \in 0 .. x |-> IF k = x THEN s[x - 1] + w[x] ELSE s[k]]
<1>6. \A k \in 0 .. x - 1 : /\ s[k] = IF k = 0 THEN b ELSE s[k - 1] + w[k]
                            /\ s[k] \in Nat /\ k \in 0 .. x /\ k # x
  BY <1>4, <1>5 DEF Sums
<1>7. w[x] \in Nat /\ x - 1 \in 0 .. x - 1
  BY <1>4
<1>8. t \in [0 .. x -> Nat]
  <2>1. ASSUME NEW k \in 0 .. x PROVE t[k] \in Nat
    <3>1. k = x \/ k \in 0 .. x - 1
      BY <1>4
    <3> QED
      BY <1>6, <1>7, <3>1
  <2> QED
    BY <2>1
<1>9. ASSUME NEW k \in 0 .. x
      PROVE  t[k] = IF k = 0 THEN b ELSE t[k - 1] + w[k]
  <2>1. CASE k = x
    BY <1>4, <1>6, <1>7, <2>1
  <2>2. CASE k \in 0 .. x - 1
    <3>1. t[k] = s[k]
      BY <1>6, <2>2
    <3>2. k # 0 => k - 1 \in 0 .. x - 1
      BY <1>4, <2>2
    <3>3. k # 0 => t[k - 1] = s[k - 1]
      BY <1>6, <3>2
    <3> QED
      BY <1>6, <2>2, <3>1, <3>3
  <2> QED
    BY <1>4, <2>1, <2>2
<1>10. Sums(t, w, x, b)
  BY <1>9 DEF Sums
<1> QED
  BY <1>8, <1>10

-----------------------------------------------------------------------------
(* The layout is a running sum of the sizes of the arguments.              *)
LEMMA OffsetFacts ==
    ASSUME NEW sig, NEW body, Len(sig) \in Nat,
           \A k \in 1 .. Len(sig) : ArgSize(sig[k], body[k]) \in Nat
    PROVE  /\ Offset(sig, body)[1] = 0
           /\ \A k \in 1 .. Len(sig) :
                Offset(sig, body)[k + 1] = Offset(sig, body)[k] + ArgSize(sig[k], body[k])
           /\ \A k \in 1 .. Len(sig) + 1 : Offset(sig, body)[k] \in Nat
<1> DEFINE n == Len(sig)
<1> DEFINE w == [k \in 1 .. n |-> ArgSize(sig[k], body[k])]
<1> DEFINE o == Offset(sig, body)
<1>1. PICK s : Sums(s, w, n, 0)
  BY SumExists
<1> DEFINE g == [k \in 1 .. n + 1 |-> s[k - 1]]
<1>2. g = [k \in 1 .. n + 1 |->
             IF k = 1 THEN 0 ELSE g[k - 1] + ArgSize(sig[k - 1], body[k - 1])]
  <2>1. ASSUME NEW k \in 1 .. n + 1
        PROVE  s[k - 1] = IF k = 1 THEN 0 ELSE g[k - 1] + ArgSize(sig[k - 1], body[k - 1])
    <3>1. k - 1 \in 0 .. n /\ (k # 1 => k - 1 \in 1 .. n + 1 /\ k - 1 \in 1 .. n)
      OBVIOUS
    <3>2. s[k - 1] = IF k - 1 = 0 THEN 0 ELSE s[k - 1 - 1] + w[k - 1]
      BY <1>1, <3>1 DEF Sums
    <3> QED
      BY <3>1, <3>2
  <2> QED
    BY <2>1
<1>3. o = [k \in 1 .. n + 1 |->
             IF k = 1 THEN 0 ELSE o[k - 1] + ArgSize(sig[k - 1], body[k - 1])]
  <2> HIDE DEF g
  <2> QED
    BY <1>2 DEF Offset
<1> HIDE DEF o, g
<1>4. o[1] = 0
  BY <1>3
<1>5. ASSUME NEW k \in 1 .. n PROVE o[k + 1] = o[k] + ArgSize(sig[k], body[k])
  <2>1. k + 1 \in 1 .. n + 1 /\ k + 1 # 1 /\ (k + 1) - 1 = k
    OBVIOUS
  <2> QED
    BY <1>3, <2>1
<1>6. \A k \in 1 .. n + 1 : o[k] \in Nat
  <2> DEFINE S == {k \in 1 .. n + 1 : o[k] \notin Nat}
  <2> SUFFICES ASSUME S # {} PROVE FALSE
    OBVIOUS
  <2>1. S \subseteq Nat
    OBVIOUS
  <2>2. PICK x \in S : \A y \in S : ~(y < x)
    BY <2>1, LeastCounterexample
  <2>3. x # 1
    BY <1>4
  <2>4. x - 1 \in 1 .. n /\ x - 1 \in 1 .. n + 1 /\ x - 1 < x /\ (x - 1) + 1 = x
    BY <2>3
  <2>5. o[x - 1] \in Nat
    BY <2>2, <2>4
  <2>6. o[x] = o[x - 1] + ArgSize(sig[x - 1], body[x - 1])
    BY <1>5, <2>4
  <2> QED
    BY <2>4, <2>5, <2>6
<1> QED
  BY <1>4, <1>5, <1>6 DEF o

-----------------------------------------------------------------------------
(* The contents an argument can have.                                      *)
LEMMA ArgumentFacts ==
    ASSUME NEW letter \in Letters, NEW a \in Arguments(letter)
    PROVE  /\ a \in [len : Nat, nul : BOOLEAN, null : BOOLEAN]
           /\ letter \in {"s", "a"} => ~a.null
           /\ letter = "?s" /\ a.null => a.len = 0
<1>1. Lengths \subseteq Nat /\ 0 \in Nat
  BY RequestEncoderAssumption
<1>2. CASE letter = "s"
  <2>1. PICK l \in Lengths : a = StringOf(l)
    BY <1>2 DEF Arguments
  <2> QED
    BY <1>1, <1>2, <2>1 DEF StringOf
<1>6. CASE letter = "?s"
  <2>1. a = Nil \/ \E l \in Lengths : a = StringOf(l)
    BY <1>6 DEF Arguments
  <2>2. CASE a = Nil
    BY <1>1, <1>6, <2>2 DEF Nil
  <2>3. CASE \E l \in Lengths : a = StringOf(l)
    BY <1>1, <1>6, <2>3 DEF StringOf
  <2> QED
    BY <2>1, <2>2, <2>3
<1>3. CASE letter = "a"
  BY <1>1, <1>3 DEF Arguments, Content
<1>4. CASE letter \in {"o", "?o"}
  BY <1>1, <1>4 DEF Arguments, Content
<1>5. CASE letter \notin {"s", "?s", "a", "o", "?o"}
  BY <1>1, <1>5 DEF Arguments, Content
<1> QED
  BY <1>2, <1>3, <1>4, <1>5, <1>6

(* The calls of a method: Calls has this closed form.                      *)
LEMMA CallsFacts ==
    ASSUME NEW sig \in Seq(Letters), NEW a \in Calls(sig)
    PROVE  /\ a \in Seq([len : Nat, nul : BOOLEAN, null : BOOLEAN])
           /\ Len(a) = Len(sig)
           /\ \A k \in 1 .. Len(sig) : a[k] \in Arguments(sig[k])
<1> DEFINE n == Len(sig)
<1> DEFINE R == [len : Nat, nul : BOOLEAN, null : BOOLEAN]
<1> DEFINE g == [k \in 0 .. n |->
                  {q \in Seq(R) : Len(q) = k /\ \A j \in 1 .. k : q[j] \in Arguments(sig[j])}]
<1> DEFINE step(f, k) == {Append(q, b) : q \in f[k - 1], b \in Arguments(sig[k])}
<1>1. n \in Nat /\ \A k \in 1 .. n : sig[k] \in Letters
  OBVIOUS
<1>2. \A k \in 1 .. n : Arguments(sig[k]) \subseteq R
  BY <1>1, ArgumentFacts
<1> HIDE DEF R
<1>10. ASSUME NEW k \in 0 .. n
       PROVE  \A q : q \in g[k] <=> /\ q \in Seq(R) /\ Len(q) = k
                                    /\ \A j \in 1 .. k : q[j] \in Arguments(sig[j])
  OBVIOUS
<1>11. g = [k \in 0 .. n |-> g[k]]
  OBVIOUS
<1> HIDE DEF g
<1>3. g[0] = {<< >>}
  <2>1. 0 \in 0 .. n
    BY <1>1
  <2>2. \A q \in Seq(R) : Len(q) = 0 <=> q = << >>
    OBVIOUS
  <2>3. << >> \in Seq(R) /\ 1 .. 0 = {}
    OBVIOUS
  <2>4. \A q : q \in g[0] <=> q \in {<< >>}
    BY <1>10, <2>1, <2>2, <2>3
  <2> QED
    BY <2>4
<1>4. ASSUME NEW k \in 1 .. n PROVE g[k] = step(g, k)
  <2>1. k \in 0 .. n /\ k - 1 \in 0 .. n /\ k - 1 \in Nat /\ k \in Nat /\ (k - 1) + 1 = k
    BY <1>1
  <2>2. ASSUME NEW q \in g[k] PROVE q \in step(g, k)
    <3>1. q \in Seq(R) /\ Len(q) = k /\ \A j \in 1 .. k : q[j] \in Arguments(sig[j])
      BY <1>10, <2>1
    <3> DEFINE r == SubSeq(q, 1, k - 1)
    <3>2. r \in Seq(R) /\ Len(r) = k - 1 /\ \A j \in 1 .. k - 1 : r[j] = q[j] /\ j \in 1 .. k
      BY <2>1, <3>1
    <3> HIDE DEF r
    <3>7. \A j \in 1 .. k - 1 : r[j] \in Arguments(sig[j])
      BY <3>1, <3>2
    <3>8. k - 1 \in 0 .. n
      BY <2>1
    <3>3. r \in g[k - 1]
      BY Zenon, <1>10, <3>2, <3>7, <3>8
    <3>4. k \in 1 .. k /\ q[k] \in Arguments(sig[k])
      BY <2>1, <3>1
    <3>5. q = Append(r, q[k])
      BY <2>1, <3>1 DEF r
    <3>6. \E u \in g[k - 1], b \in Arguments(sig[k]) : q = Append(u, b)
      BY <3>3, <3>4, <3>5
    <3> QED
      BY <3>6
  <2>3. ASSUME NEW q \in g[k - 1], NEW b \in Arguments(sig[k])
        PROVE  Append(q, b) \in g[k]
    <3>1. q \in Seq(R) /\ Len(q) = k - 1 /\ \A j \in 1 .. k - 1 : q[j] \in Arguments(sig[j])
      BY <1>10, <2>1
    <3>2. b \in R
      BY <1>2
    <3>3. Append(q, b) \in Seq(R) /\ Len(Append(q, b)) = k
      BY <2>1, <3>1, <3>2
    <3>4. ASSUME NEW j \in 1 .. k PROVE Append(q, b)[j] \in Arguments(sig[j])
      <4>1. j = k \/ j \in 1 .. k - 1
        BY <2>1
      <4> QED
        BY <2>1, <3>1, <3>2, <4>1
    <3> QED
      BY <1>10, <2>1, <3>3, <3>4
  <2>4. \A q : q \in step(g, k) => \E u \in g[k - 1], b \in Arguments(sig[k]) : q = Append(u, b)
    OBVIOUS
  <2>5. \A q : q \in g[k] <=> q \in step(g, k)
    <3>1. ASSUME NEW q \in step(g, k) PROVE q \in g[k]
      <4>1. PICK u \in g[k - 1], b \in Arguments(sig[k]) : q = Append(u, b)
        BY <2>4
      <4> QED
        BY <2>3, <4>1
    <3> HIDE DEF step
    <3> QED
      BY <2>2, <3>1
  <2> HIDE DEF step
  <2> QED
    BY <2>5
<1>5. g = [k \in 0 .. n |-> IF k = 0 THEN {<< >>} ELSE step(g, k)]
  <2> HIDE DEF step
  <2>1. ASSUME NEW k \in 0 .. n
        PROVE  g[k] = IF k = 0 THEN {<< >>} ELSE step(g, k)
    <3>1. k = 0 \/ k \in 1 .. n
      BY <1>1
    <3>2. k \in 1 .. n => k # 0
      OBVIOUS
    <3> QED
      BY <1>3, <1>4, <3>1, <3>2, Zenon
  <2> QED
    BY <1>11, <2>1, Zenon
<1> DEFINE isCalls(f) == f = [k \in 0 .. n |-> IF k = 0 THEN {<< >>} ELSE step(f, k)]
<1> DEFINE c == CHOOSE f : isCalls(f)
<1>7. Calls(sig) = c[n]
  BY DEF Calls
<1>6. c = [k \in 0 .. n |-> IF k = 0 THEN {<< >>} ELSE step(c, k)]
  <2> HIDE DEF step
  <2>1. isCalls(g)
    BY <1>5
  <2> HIDE DEF isCalls
  <2>2. isCalls(c)
    BY <2>1
  <2> USE DEF isCalls
  <2> QED
    BY <2>2
<1> HIDE DEF c
<1>8. \A k \in 0 .. n : c[k] = g[k]
  <2> DEFINE S == {k \in 0 .. n : c[k] # g[k]}
  <2> SUFFICES ASSUME S # {} PROVE FALSE
    OBVIOUS
  <2>1. S \subseteq Nat
    OBVIOUS
  <2>2. PICK x \in S : \A y \in S : ~(y < x)
    BY <2>1, LeastCounterexample
  <2>3. x # 0
    <3>1. 0 \in 0 .. n
      BY <1>1
    <3> HIDE DEF step
    <3>2. c[0] = {<< >>}
      BY <1>6, <3>1
    <3> QED
      BY <1>3, <3>2
  <2>4. x \in 1 .. n /\ x - 1 \in 0 .. n /\ x - 1 < x
    BY <2>3
  <2>5. c[x - 1] = g[x - 1]
    BY <2>2, <2>4
  <2>6. c[x] = step(c, x) /\ g[x] = step(g, x)
    <3>1. x \in 0 .. n
      OBVIOUS
    <3>2. g[x] = step(g, x)
      BY <1>4, <2>4
    <3> HIDE DEF step
    <3> QED
      BY <1>6, <2>3, <3>1, <3>2
  <2>7. step(c, x) = step(g, x)
    BY <2>5
  <2> HIDE DEF step
  <2> QED
    BY <2>6, <2>7
<1>9. a \in g[n] /\ n \in 0 .. n
  BY <1>1, <1>7, <1>8
<1> QED
  BY <1>9, <1>10 DEF R

-----------------------------------------------------------------------------
(* The padding of the bindings is the peer's.                              *)
LEMMA PaddedLenIsRoundUp ==
    ASSUME NEW l \in Nat
    PROVE  PaddedLen(l) = RoundUp(l) /\ PaddedLen(l) \in Nat
  BY DEF PaddedLen, RoundUp

(* What an argument is allotted is what it occupies.                       *)
LEMMA AllottedFacts ==
    ASSUME CallIsTyped, NEW k \in 1 .. Len(request.sig)
    PROVE  /\ Allotted(k) = ArgSize(request.sig[k], args[k])
           /\ Allotted(k) \in Nat
           /\ request.sig[k] \in Letters
           /\ request.sig[k] = "h" => ArgSize(request.sig[k], args[k]) = 0
           /\ request.sig[k] \in Variable /\ ~args[k].null =>
                ArgSize(request.sig[k], args[k]) = 4 + PaddedLen(args[k].len)
           /\ request.sig[k] = "?s" /\ args[k].null => ArgSize(request.sig[k], args[k]) = 4
           /\ request.sig[k] \notin Variable \cup {"h"} => ArgSize(request.sig[k], args[k]) = 4
           /\ request.sig[k] \in Variable /\ args[k].null => request.sig[k] = "?s"
<1>1. request.sig \in Seq(Letters) /\ request.sig[k] \in Letters
  BY RequestEncoderAssumption DEF CallIsTyped
<1>2. /\ args[k].len \in Nat
      /\ request.sig[k] \in {"s", "a"} => ~args[k].null
      /\ request.sig[k] = "?s" /\ args[k].null => args[k].len = 0
  BY <1>1, ArgumentFacts DEF CallIsTyped
<1>3. PaddedLen(args[k].len) = RoundUp(args[k].len) /\ PaddedLen(args[k].len) \in Nat
  BY <1>2, PaddedLenIsRoundUp
<1>4. args[k].len = 0 => PaddedLen(args[k].len) = 0
  BY DEF PaddedLen
<1> QED
  BY <1>1, <1>2, <1>3, <1>4 DEF Allotted, ArgSize, Variable, Strings

(* The sizing expression is the length of the frame.                       *)
LEMMA SizesAgree ==
    ASSUME CallIsTyped
    PROVE  /\ ReqBufLen = Total /\ Total \in Nat /\ Len(request.sig) \in Nat
           /\ Off[1] = 0 /\ Total = HeaderSize + Off[Len(request.sig) + 1]
           /\ \A k \in 1 .. Len(request.sig) :
                Off[k + 1] = Off[k] + ArgSize(request.sig[k], args[k])
           /\ \A k \in 1 .. Len(request.sig) + 1 : Off[k] \in Nat
<1> DEFINE n == Len(request.sig)
<1> DEFINE w == [k \in 1 .. n |-> Allotted(k)]
<1>1. n \in Nat
  BY RequestEncoderAssumption DEF CallIsTyped
<1>2. \A k \in 1 .. n : Allotted(k) \in Nat /\ Allotted(k) = ArgSize(request.sig[k], args[k])
  BY AllottedFacts
<1>3. /\ Off[1] = 0
      /\ \A k \in 1 .. n : Off[k + 1] = Off[k] + ArgSize(request.sig[k], args[k])
      /\ \A k \in 1 .. n + 1 : Off[k] \in Nat
  BY <1>1, <1>2, OffsetFacts DEF Off
<1>4. HeaderSize \in Nat
  BY DEF HeaderSize
<1>5. PICK s : Sums(s, w, n, HeaderSize)
  BY <1>1, <1>2, <1>4, SumExists
<1>6. s = [k \in 0 .. n |-> IF k = 0 THEN HeaderSize ELSE s[k - 1] + Allotted(k)]
  <2>1. \A k \in 0 .. n : k = 0 \/ k \in 1 .. n
    BY <1>1
  <2> QED
    BY <1>5, <2>1 DEF Sums
<1> DEFINE c == CHOOSE f : f = [k \in 0 .. n |-> IF k = 0 THEN HeaderSize ELSE f[k - 1] + Allotted(k)]
<1>7. c = [k \in 0 .. n |-> IF k = 0 THEN HeaderSize ELSE c[k - 1] + Allotted(k)]
  BY <1>6
<1>8. ReqBufLen = c[n]
  BY DEF ReqBufLen
<1> HIDE DEF c
<1>9. \A k \in 0 .. n : c[k] = HeaderSize + Off[k + 1]
  <2> DEFINE S == {k \in 0 .. n : c[k] # HeaderSize + Off[k + 1]}
  <2> SUFFICES ASSUME S # {} PROVE FALSE
    OBVIOUS
  <2>1. S \subseteq Nat
    OBVIOUS
  <2>2. PICK x \in S : \A y \in S : ~(y < x)
    BY <2>1, LeastCounterexample
  <2>3. x # 0
    BY <1>3, <1>4, <1>7
  <2>4. x \in 1 .. n /\ x - 1 \in 0 .. n /\ x - 1 < x /\ (x - 1) + 1 = x /\ x \in 1 .. n + 1
    BY <2>3
  <2>5. c[x - 1] = HeaderSize + Off[x]
    BY <2>2, <2>4
  <2>6. c[x] = c[x - 1] + Allotted(x) /\ Off[x + 1] = Off[x] + Allotted(x)
    BY <1>2, <1>3, <1>7, <2>3, <2>4
  <2>7. Off[x] \in Nat /\ Allotted(x) \in Nat
    BY <1>2, <1>3, <2>4
  <2> QED
    BY <1>4, <2>5, <2>6, <2>7
<1>10. ReqBufLen = HeaderSize + Off[n + 1] /\ n + 1 \in 1 .. n + 1
  BY <1>1, <1>8, <1>9
<1>11. Total = HeaderSize + Off[n + 1]
  BY DEF Total, Size, Off
<1> QED
  BY <1>1, <1>3, <1>4, <1>10, <1>11

(* A destructor's frame fits the size field.                               *)
LEMMA DestructorsFit ==
    ASSUME CallIsTyped, request.marks # "none"
    PROVE  Total < SizeFieldLimit
<1> DEFINE n == Len(request.sig)
<1>1. /\ Total = HeaderSize + Off[n + 1] /\ n \in Nat /\ Off[1] = 0
      /\ \A k \in 1 .. n : Off[k + 1] = Off[k] + ArgSize(request.sig[k], args[k])
      /\ \A k \in 1 .. n + 1 : Off[k] \in Nat
  BY SizesAgree
<1>2. request \in Requests /\ HeaderSize + 4 * n < SizeFieldLimit
      /\ \A k \in 1 .. n : request.sig[k] \notin Variable
  BY DestructorAssumption DEF CallIsTyped
<1>3. \A k \in 1 .. n : ArgSize(request.sig[k], args[k]) \in {0, 4}
  BY <1>2 DEF ArgSize
<1>4. \A k \in 1 .. n + 1 : Off[k] =< 4 * (k - 1)
  <2> DEFINE S == {k \in 1 .. n + 1 : ~(Off[k] =< 4 * (k - 1))}
  <2> SUFFICES ASSUME S # {} PROVE FALSE
    OBVIOUS
  <2>1. S \subseteq Nat
    BY <1>1
  <2>2. PICK x \in S : \A y \in S : ~(y < x)
    BY <2>1, LeastCounterexample
  <2>3. x # 1
    BY <1>1
  <2>4. x - 1 \in 1 .. n /\ x - 1 \in 1 .. n + 1 /\ x - 1 < x /\ (x - 1) + 1 = x
    BY <1>1, <2>3
  <2>5. Off[x - 1] =< 4 * ((x - 1) - 1) /\ Off[x - 1] \in Nat
    BY <1>1, <2>2, <2>4
  <2>6. Off[x] = Off[x - 1] + 0 \/ Off[x] = Off[x - 1] + 4
    BY <1>1, <1>3, <2>4
  <2> QED
    BY <1>1, <2>4, <2>5, <2>6
<1>5. n + 1 \in 1 .. n + 1 /\ Off[n + 1] \in Nat /\ Off[n + 1] =< 4 * n
  BY <1>1, <1>4
<1> QED
  BY <1>1, <1>2, <1>5 DEF HeaderSize, SizeFieldLimit

(* Frames are whole words.                                                 *)
LEMMA TotalIsWhole ==
    ASSUME CallIsTyped
    PROVE  Total % 4 = 0 /\ Total >= HeaderSize
<1> DEFINE n == Len(request.sig)
<1>1. /\ Total = HeaderSize + Off[n + 1] /\ n \in Nat /\ Off[1] = 0
      /\ \A k \in 1 .. n : Off[k + 1] = Off[k] + ArgSize(request.sig[k], args[k])
      /\ \A k \in 1 .. n + 1 : Off[k] \in Nat
  BY SizesAgree
<1>2. ASSUME NEW k \in 1 .. n
      PROVE  ArgSize(request.sig[k], args[k]) \in Nat /\ ArgSize(request.sig[k], args[k]) % 4 = 0
  <2>1. /\ Allotted(k) = ArgSize(request.sig[k], args[k]) /\ Allotted(k) \in Nat
        /\ request.sig[k] \in Letters
    BY AllottedFacts
  <2>2. args[k].len \in Nat
    BY <2>1, ArgumentFacts DEF CallIsTyped
  <2>3. PaddedLen(args[k].len) \in Nat /\ PaddedLen(args[k].len) % 4 = 0
    BY <2>2 DEF PaddedLen
  <2>4. (4 + PaddedLen(args[k].len)) % 4 = 0
    BY <2>3
  <2>5. Allotted(k) \in {0, 4, 4 + PaddedLen(args[k].len)}
    BY DEF Allotted
  <2> QED
    BY <2>1, <2>4, <2>5
<1>3. \A k \in 1 .. n + 1 : Off[k] % 4 = 0
  <2> DEFINE S == {k \in 1 .. n + 1 : Off[k] % 4 # 0}
  <2> SUFFICES ASSUME S # {} PROVE FALSE
    OBVIOUS
  <2>1. S \subseteq Nat
    BY <1>1
  <2>2. PICK x \in S : \A y \in S : ~(y < x)
    BY <2>1, LeastCounterexample
  <2>3. x # 1
    BY <1>1
  <2>4. x - 1 \in 1 .. n /\ x - 1 \in 1 .. n + 1 /\ x - 1 < x /\ (x - 1) + 1 = x
    BY <1>1, <2>3
  <2>5. Off[x - 1] % 4 = 0 /\ Off[x - 1] \in Nat
    BY <1>1, <2>2, <2>4
  <2>6. Off[x] = Off[x - 1] + ArgSize(request.sig[x - 1], args[x - 1])
    BY <1>1, <2>4
  <2>7. (Off[x - 1] + ArgSize(request.sig[x - 1], args[x - 1])) % 4 = 0
    <3> DEFINE u == Off[x - 1]
    <3> DEFINE v == ArgSize(request.sig[x - 1], args[x - 1])
    <3>1. u \in Nat /\ v \in Nat /\ u % 4 = 0 /\ v % 4 = 0
      BY <1>2, <2>4, <2>5
    <3> HIDE DEF u, v
    <3>2. (u + v) % 4 = 0
      BY <3>1
    <3> QED
      BY <3>2 DEF u, v
  <2> QED
    BY <2>6, <2>7
<1>4. n + 1 \in 1 .. n + 1 /\ Off[n + 1] \in Nat /\ Off[n + 1] % 4 = 0
  BY <1>1, <1>3
<1> QED
  BY <1>1, <1>4 DEF HeaderSize

-----------------------------------------------------------------------------
LEMMA InitIInv == Init => IInv
<1> SUFFICES ASSUME Init PROVE IInv
  OBVIOUS
<1>1. request \in Requests /\ request.sig \in Seq(Letters) /\ args \in Calls(request.sig)
  BY RequestEncoderAssumption DEF Init
<1>2. CallIsTyped
  BY <1>1, CallsFacts DEF CallIsTyped
<1>3. Walk
  BY <1>1 DEF Init, Walk
<1>4. Progress /\ SizeFieldIsHonest /\ ZombieWasAnnounced
  BY DEF Init, Progress, Results, SizeFieldIsHonest, ZombieWasAnnounced
<1> QED
  BY <1>2, <1>3, <1>4 DEF IInv

(* No action changes the call or where its arguments belong.               *)
LEMMA CallIsFixed ==
    ASSUME CallIsTyped, UNCHANGED <<request, args>>
    PROVE  /\ CallIsTyped' /\ Off' = Off /\ Total' = Total
           /\ DefersOnNil' = DefersOnNil
  BY DEF CallIsTyped, Off, Total, DefersOnNil, Size, Offset

LEMMA AllocateIInv == ASSUME IInv, Allocate PROVE IInv'
<1>1. CallIsTyped' /\ Off' = Off /\ Total' = Total /\ DefersOnNil' = DefersOnNil
  BY CallIsFixed DEF IInv, Allocate
<1>2. ReqBufLen = Total /\ Off[1] = 0
  BY SizesAgree DEF IInv
<1>3. Walk'
  BY <1>1, <1>2 DEF IInv, Walk, Progress, Allocate, HeaderSize
<1>4. Progress'
  BY <1>1 DEF IInv, Progress, Allocate
<1>5. SizeFieldIsHonest' /\ ZombieWasAnnounced'
  BY DEF IInv, Progress, Allocate, SizeFieldIsHonest, ZombieWasAnnounced
<1> QED
  BY <1>1, <1>3, <1>4, <1>5 DEF IInv

LEMMA DeferPanicsIInv == ASSUME IInv, DeferPanics PROVE IInv'
<1>1. CallIsTyped' /\ Off' = Off /\ Total' = Total /\ DefersOnNil' = DefersOnNil
  BY CallIsFixed DEF IInv, DeferPanics
<1>2. Walk'
  BY <1>1 DEF IInv, Walk, DeferPanics
<1>3. Progress'
  BY <1>1 DEF IInv, Progress, DeferPanics, Results
<1>4. SizeFieldIsHonest' /\ ZombieWasAnnounced'
  BY DEF IInv, Progress, DeferPanics, SizeFieldIsHonest, ZombieWasAnnounced
<1> QED
  BY <1>1, <1>2, <1>3, <1>4 DEF IInv

(* An argument is put where it belongs if the walk advances by its size.   *)
LEMMA PutsIInv ==
    ASSUME IInv, NEW n, pc = "encode", More,
           n = ArgSize(request.sig[arg], args[arg]), Puts(n)
    PROVE  IInv'
<1>1. CallIsTyped' /\ Off' = Off /\ Total' = Total /\ DefersOnNil' = DefersOnNil
  BY CallIsFixed DEF IInv, Puts
<1>2. /\ Len(request.sig) \in Nat
      /\ \A k \in 1 .. Len(request.sig) :
           Off[k + 1] = Off[k] + ArgSize(request.sig[k], args[k])
      /\ \A k \in 1 .. Len(request.sig) + 1 : Off[k] \in Nat
  BY SizesAgree DEF IInv
<1>3. /\ arg \in 1 .. Len(request.sig) /\ arg + 1 \in 1 .. Len(request.sig) + 1
      /\ arg \in 1 .. Len(request.sig) + 1
  BY <1>2 DEF IInv, Walk, More
<1>4. pos = HeaderSize + Off[arg] /\ pos \in Nat
  BY <1>2, <1>3 DEF IInv, Walk, HeaderSize
<1>5. Off[arg] \in Nat /\ Off[arg + 1] \in Nat /\ Off[arg + 1] = Off[arg] + n
  BY <1>2, <1>3
<1>6. n \in Nat
  BY <1>3, AllottedFacts DEF IInv
<1>7. pos' = HeaderSize + Off[arg + 1]
  BY <1>4, <1>5, <1>6 DEF Puts, HeaderSize
<1>8. at' \in Seq(Nat) /\ Len(at') = arg /\ at' = Append(at, pos)
  BY <1>3, <1>4 DEF IInv, Walk, Puts
<1>9. ASSUME NEW k \in 1 .. Len(at') PROVE at'[k] = HeaderSize + Off[k]
  <2>1. k = arg \/ k \in 1 .. Len(at)
    BY <1>3, <1>8 DEF IInv, Walk
  <2>2. at \in Seq(Nat) /\ Len(at) = arg - 1
    BY DEF IInv, Walk
  <2> QED
    BY <1>3, <1>4, <1>8, <2>1, <2>2 DEF IInv, Walk
<1>10. Walk'
  BY <1>1, <1>3, <1>7, <1>8, <1>9 DEF IInv, Walk, Puts
<1>11. Progress'
  BY <1>1 DEF IInv, Progress, Puts
<1>12. SizeFieldIsHonest' /\ ZombieWasAnnounced'
  BY DEF IInv, Progress, Puts, SizeFieldIsHonest, ZombieWasAnnounced
<1> QED
  BY <1>1, <1>10, <1>11, <1>12 DEF IInv

LEMMA PutIInv ==
    ASSUME IInv, PutWord \/ PutNilString \/ PutVariable \/ PutFD
    PROVE  IInv'
<1> DEFINE size == ArgSize(request.sig[arg], args[arg])
<1>1. pc = "encode" /\ More
  BY DEF PutWord, PutNilString, PutVariable, PutFD
<1>2. arg \in 1 .. Len(request.sig)
  <2>1. Len(request.sig) \in Nat
    BY SizesAgree DEF IInv
  <2> QED
    BY <1>1, <2>1 DEF IInv, Walk, More
<1>3. /\ request.sig[arg] = "h" => size = 0
      /\ request.sig[arg] \in Variable /\ ~args[arg].null => size = 4 + PaddedLen(args[arg].len)
      /\ request.sig[arg] = "?s" /\ args[arg].null => size = 4
      /\ request.sig[arg] \notin Variable \cup {"h"} => size = 4
  BY <1>2, AllottedFacts DEF IInv
<1>4. Puts(size)
  BY <1>3 DEF PutWord, PutNilString, PutVariable, PutFD, Letter
<1> QED
  BY <1>1, <1>4, PutsIInv

LEMMA EncodedIInv == ASSUME IInv, Encoded PROVE IInv'
<1>1. CallIsTyped' /\ Off' = Off /\ Total' = Total /\ DefersOnNil' = DefersOnNil
  BY CallIsFixed DEF IInv, Encoded
<1>2. arg = Len(request.sig) + 1
  <2>1. Len(request.sig) \in Nat
    BY SizesAgree DEF IInv
  <2> QED
    BY <2>1 DEF IInv, Walk, Encoded, More
<1>3. Walk'
  BY <1>1, <1>2 DEF IInv, Walk, Encoded
<1>4. Progress'
  BY <1>1 DEF IInv, Progress, Encoded
<1>5. SizeFieldIsHonest' /\ ZombieWasAnnounced'
  BY DEF IInv, Progress, Encoded, SizeFieldIsHonest, ZombieWasAnnounced
<1> QED
  BY <1>1, <1>3, <1>4, <1>5 DEF IInv

(* WriteMsg's answer, and the panic of ID() on a nil proxy.                *)
LEMMA EndsIInv ==
    ASSUME IInv, NEW r \in Results \ {"none"}, Ends(r), fatal' \in BOOLEAN,
           pc \in {"encode", "write"},
           r = "ok" => field = Total,
           r = "refused" => Total >= SizeFieldLimit,
           r = "panic" => \E k \in 1 .. Len(args) : request.sig[k] = "o" /\ args[k].null
    PROVE  IInv'
<1>1. CallIsTyped' /\ Off' = Off /\ Total' = Total /\ DefersOnNil' = DefersOnNil
  BY CallIsFixed DEF IInv, Ends
<1>2. Walk'
  BY <1>1 DEF IInv, Walk, Ends
<1>3. Progress'
  BY <1>1 DEF IInv, Progress, Ends
<1>4. SizeFieldIsHonest'
  BY <1>1 DEF Ends, SizeFieldIsHonest, Total
<1>5. ZombieWasAnnounced'
  BY DEF IInv, Progress, Ends, ZombieWasAnnounced
<1> QED
  BY <1>1, <1>2, <1>3, <1>4, <1>5 DEF IInv

LEMMA WriteMsgIInv ==
    ASSUME IInv, PutNil \/ WriteAfterFatal \/ Refuse \/ Write
    PROVE  IInv'
<1>1. Total \in Nat /\ Total % 4 = 0 /\ Total >= HeaderSize
  BY SizesAgree, TotalIsWhole DEF IInv
<1>2. CASE PutNil
  <2>1. arg \in 1 .. Len(args)
    BY <1>2 DEF IInv, CallIsTyped, Walk, PutNil, More
  <2> QED
    BY <1>2, <2>1, EndsIInv DEF PutNil, Letter, Results, IInv, Progress
<1>3. CASE WriteAfterFatal
  BY <1>3, EndsIInv DEF WriteAfterFatal, Results, IInv, Progress
<1>4. CASE Refuse
  <2>1. reqBuf = Total /\ field = Total % SizeFieldLimit
    BY <1>4 DEF Refuse, IInv, Walk
  <2>2. Total >= SizeFieldLimit
    BY <1>1, <1>4, <2>1 DEF Refuse, FrameIsValid, SizeFieldLimit, HeaderSize
  <2> QED
    BY <1>4, <2>2, EndsIInv DEF Refuse, Results, IInv, Progress
<1>5. CASE Write
  <2>1. field = Total
    BY <1>5 DEF Write, FrameIsValid, IInv, Walk
  <2> QED
    BY <1>5, <2>1, EndsIInv DEF Write, Results, IInv, Progress
<1> QED
  BY <1>2, <1>3, <1>4, <1>5

LEMMA ReturnIInv == ASSUME IInv, Return PROVE IInv'
<1>1. CallIsTyped' /\ Off' = Off /\ Total' = Total /\ DefersOnNil' = DefersOnNil
  BY CallIsFixed DEF IInv, Return
<1>2. Walk'
  BY <1>1 DEF IInv, Walk, Return
<1>3. Progress'
  BY <1>1 DEF IInv, Progress, Return
<1>4. SizeFieldIsHonest'
  BY <1>1 DEF IInv, Return, SizeFieldIsHonest, Total
<1>5. request.marks # "none" => result \in {"ok", "failed", "sticky"}
  <2> SUFFICES ASSUME request.marks # "none" PROVE result \in {"ok", "failed", "sticky"}
    OBVIOUS
  <2>1. result # "none" /\ result \in Results /\ pc = "return"
    BY DEF IInv, Progress, Return
  <2>2. result # "refused"
    <3>1. Total < SizeFieldLimit /\ Total \in Nat
      BY DestructorsFit, SizesAgree DEF IInv
    <3> QED
      BY <3>1 DEF IInv, SizeFieldIsHonest, Total, SizeFieldLimit
  <2>3. result # "panic"
    <3> SUFFICES ASSUME result = "panic" PROVE FALSE
      OBVIOUS
    <3>1. PICK k \in 1 .. Len(args) : request.sig[k] = "o" /\ args[k].null
      BY <2>1 DEF IInv, Progress
    <3>2. ~DefersOnNil
      BY <2>1 DEF IInv, Progress
    <3>3. request.marks # "argument"
      BY <3>1, <3>2 DEF DefersOnNil
    <3>4. request \in Requests /\ Len(args) = Len(request.sig)
      BY DEF IInv, CallIsTyped
    <3>5. request.marks = "self"
      BY <3>3, <3>4, RequestEncoderAssumption
    <3> QED
      BY <3>1, <3>4, <3>5, DestructorAssumption
  <2> QED
    BY <2>1, <2>2, <2>3 DEF Results
<1>6. ZombieWasAnnounced'
  BY <1>5 DEF Return, ZombieWasAnnounced
<1> QED
  BY <1>1, <1>2, <1>3, <1>4, <1>6 DEF IInv

LEMMA NextIInv == IInv /\ [Next]_vars => IInv'
<1> SUFFICES ASSUME IInv, [Next]_vars PROVE IInv'
  OBVIOUS
<1>1. CASE UNCHANGED vars
  <2>1. CallIsTyped' /\ Off' = Off /\ Total' = Total /\ DefersOnNil' = DefersOnNil
    BY <1>1, CallIsFixed DEF IInv, vars
  <2>2. Walk' /\ Progress'
    BY <1>1, <2>1 DEF IInv, Walk, Progress, vars
  <2>3. SizeFieldIsHonest' /\ ZombieWasAnnounced'
    BY <1>1, <2>1 DEF IInv, SizeFieldIsHonest, ZombieWasAnnounced, Total, vars
  <2> QED
    BY <2>1, <2>2, <2>3 DEF IInv
<1>2. CASE Next
  BY <1>1, <1>2, AllocateIInv, DeferPanicsIInv, PutIInv, EncodedIInv, WriteMsgIInv, ReturnIInv
     DEF Next, Rest
<1> QED
  BY <1>1, <1>2

LEMMA Invariance == Spec => []IInv
  BY InitIInv, NextIInv, PTL DEF Spec

-----------------------------------------------------------------------------
(* For requests of any signature and arguments of any length, the request  *)
(* methods put every argument where the peer looks for it, and the buffer  *)
(* they size from one expression is filled to its last byte by the other.  *)
THEOREM BuffersAreExactlyFilled == Spec => []BufferIsExactlyFilled
<1>1. IInv => BufferIsExactlyFilled
  <2> SUFFICES ASSUME IInv PROVE BufferIsExactlyFilled
    OBVIOUS
  <2>1. /\ Total = HeaderSize + Off[Len(request.sig) + 1]
        /\ Total = HeaderSize + Size(request.sig, args)
    BY SizesAgree DEF IInv, Total
  <2> QED
    BY <2>1 DEF IInv, Walk, BufferIsExactlyFilled, Off
<1> QED
  BY <1>1, Invariance, PTL

(* A frame that WriteMsg sends declares its own length in the 16 bits of   *)
(* its header, and the only frames it refuses are too long for them.       *)
THEOREM SizeFieldsAreHonest == Spec => []SizeFieldIsHonest
<1>1. IInv => SizeFieldIsHonest
  BY DEF IInv
<1> QED
  BY <1>1, Invariance, PTL

(* A destructor method marks a proxy a zombie only when the server was     *)
(* told or the connection is lost, for destructors as small as all the     *)
(* shipped ones are.                                                       *)
THEOREM ZombiesWereAnnounced == Spec => []ZombieWasAnnounced
<1>1. IInv => ZombieWasAnnounced
  BY DEF IInv
<1> QED
  BY <1>1, Invariance, PTL
=============================================================================
