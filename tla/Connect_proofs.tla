--------------------------- MODULE Connect_proofs ---------------------------
(***************************************************************************)
(* Proofs about Connect and the descriptors it handles, for every set of   *)
(* descriptor numbers.                                                     *)
(***************************************************************************)
EXTENDS Connect, WellFoundedInduction, TLAPS

(* What the properties need at every step of a call, and not only between  *)
(* calls.  Until file.Close the name is good, and the number adopted is    *)
(* the one it names.                                                       *)
NameIsGood ==
    /\ (pc \notin {"discard", "unset"} /\ socketEnv \in Numbers)
          => IsOpen(socketEnv) /\ files[socketEnv] = "inherited"
    /\ pc \in {"dup", "close"} => fd = socketEnv /\ fd \in Numbers
    /\ pc \in {"discard", "unset"} => \A n \in DOMAIN files : files[n] # "inherited"

(* The socket made by the call is open and nobody else's until it is       *)
(* handed out or discarded, and there is one exactly if no error was met;  *)
(* between file.Close and the discard there are both.                      *)
SocketIsOurs ==
    /\ conn # None => /\ pc \in {"close", "discard", "unset"}
                      /\ IsOpen(conn) /\ files[conn] = "connecting"
    /\ pc \in {"close", "unset"} => (failing <=> conn = None)
    /\ pc = "discard" => failing /\ conn # None
    /\ pc \in {"idle", "dup", "dial"} => ~failing

IInv == TypeOK /\ DescriptorsHaveOwners /\ NameIsGood /\ SocketIsOurs

(* The kernel's choice is a free number: the library's Min is defined by a *)
(* CHOOSE, and a non-empty set of natural numbers has a least element.     *)
LEMMA LowestIsFree ==
    ASSUME ~Full PROVE Lowest \in Numbers \ DOMAIN files
<1> DEFINE Free == Numbers \ DOMAIN files
<1>1. Free # {} /\ Free \subseteq Nat
  BY ConnectAssumption DEF Full
<1>2. PICK x \in Free : \A y \in Free : ~(<<y, x>> \in OpToRel(<, Nat))
  BY <1>1, NatLessThanWellFounded, WFMin, Zenon
<1>3. ASSUME NEW y \in Free PROVE x =< y
  <2>1. x \in Nat /\ y \in Nat
    BY <1>1
  <2>2. ~(y < x)
    BY <1>2, <2>1, Zenon DEF OpToRel
  <2> QED
    BY <2>1, <2>2
<1> QED
  BY <1>3 DEF Lowest, Min

(* "No socket yet" is no number.                                           *)
LEMMA NoneIsNoNumber == None \notin Numbers /\ Unset \notin Numbers
BY ConnectAssumption DEF None, Unset

-----------------------------------------------------------------------------
(* The process starts with at most the inherited descriptor open.          *)
LEMMA InitIInv == Init => IInv
BY ConnectAssumption
   DEF Init, IInv, TypeOK, DescriptorsHaveOwners, NameIsGood, SocketIsOurs,
       Owners, Gifts, Names, Steps, None, Unset, Malformed, IsOpen

(* Entry: the number adopted is the one the name gives.                    *)
LEMMA CallIInv ==
    ASSUME IInv, NEW addr \in Names, Call(addr) PROVE IInv'
BY DEF Call, Adopts, IInv, TypeOK, DescriptorsHaveOwners, NameIsGood, SocketIsOurs,
       env, Steps, None, IsOpen

(* The duplicate gets a free number, so neither the inherited descriptor   *)
(* nor anybody else's is touched.                                          *)
LEMMA FileConnIInv ==
    ASSUME IInv, FileConn PROVE IInv'
<1>1. CASE IsSocket /\ ~Full /\ conn' = Lowest
           /\ files' = Opened(Lowest, "connecting") /\ UNCHANGED failing
  <2>1. Lowest \in Numbers /\ Lowest \notin DOMAIN files /\ Lowest # None
    BY <1>1, LowestIsFree, NoneIsNoNumber
  <2>2. /\ DOMAIN files' = DOMAIN files \cup {Lowest}
        /\ files'[Lowest] = "connecting"
        /\ \A m \in DOMAIN files : files'[m] = files[m]
    BY <1>1, <2>1 DEF Opened
  <2> QED
    BY <1>1, <2>1, <2>2, NoneIsNoNumber
       DEF FileConn, IInv, TypeOK, DescriptorsHaveOwners, NameIsGood, SocketIsOurs,
           env, Steps, Owners, IsOpen
<1>2. CASE failing' = TRUE /\ UNCHANGED <<files, conn>>
  BY <1>2
     DEF FileConn, IInv, TypeOK, DescriptorsHaveOwners, NameIsGood, SocketIsOurs,
         env, Steps, IsOpen
<1> QED
  BY <1>1, <1>2 DEF FileConn

(* What is closed is the inherited descriptor, the only one there is, and  *)
(* not the duplicate.                                                      *)
LEMMA CloseFileIInv ==
    ASSUME IInv, CloseFile PROVE IInv'
<1>1. /\ DOMAIN files' = DOMAIN files \ {fd}
      /\ \A m \in DOMAIN files' : files'[m] = files[m]
  BY DEF Closed, CloseFile
<1>2. files[fd] = "inherited" /\ fd = socketEnv /\ fd \in DOMAIN files
  BY DEF CloseFile, IInv, NameIsGood, IsOpen
<1>3. PICK closeErr \in BOOLEAN :
        /\ failing' = (failing \/ closeErr \/ Foreign)
        /\ pc' = IF (failing \/ closeErr \/ Foreign) /\ conn # None
                 THEN "discard" ELSE "unset"
  BY DEF CloseFile
<1>4. failing' \in BOOLEAN /\ pc' \in {"discard", "unset"}
      /\ (failing => failing')
      /\ (pc' = "discard" <=> (failing' /\ conn # None))
  BY <1>3 DEF IInv, TypeOK
<1> QED
  BY <1>1, <1>2, <1>4
     DEF CloseFile, IInv, TypeOK, DescriptorsHaveOwners, NameIsGood, SocketIsOurs,
         env, Steps, IsOpen

(* Only the socket of the call itself is discarded.                        *)
LEMMA DiscardIInv ==
    ASSUME IInv, Discard PROVE IInv'
<1>1. /\ DOMAIN files' = DOMAIN files \ {conn}
      /\ \A m \in DOMAIN files' : files'[m] = files[m]
  BY DEF Closed, Discard
<1> QED
  BY <1>1
     DEF Discard, IInv, TypeOK, DescriptorsHaveOwners, NameIsGood, SocketIsOurs,
         env, Steps, IsOpen, None

(* The name goes when nothing inherited is left, and the socket of a call  *)
(* that met no error becomes a display's.                                  *)
LEMMA UnsetenvIInv ==
    ASSUME IInv, Unsetenv PROVE IInv'
<1>1. CASE failing
  BY <1>1, NoneIsNoNumber
     DEF Unsetenv, IInv, TypeOK, DescriptorsHaveOwners, NameIsGood, SocketIsOurs,
         Steps, IsOpen, None
<1>2. CASE ~failing
  <2>1. conn # None /\ conn \in DOMAIN files /\ files[conn] = "connecting"
    BY <1>2 DEF Unsetenv, IInv, SocketIsOurs, IsOpen
  <2>2. files' = Opened(conn, "display") /\ displays' = displays \cup {conn}
    BY <1>2 DEF Unsetenv, HandOut
  <2>3. /\ DOMAIN files' = DOMAIN files
        /\ files'[conn] = "display"
        /\ \A m \in DOMAIN files : m # conn => files'[m] = files[m]
    BY <2>1, <2>2 DEF Opened
  <2> QED
    BY <2>1, <2>2, <2>3, NoneIsNoNumber
       DEF Unsetenv, IInv, TypeOK, DescriptorsHaveOwners, NameIsGood, SocketIsOurs,
           Steps, Owners, IsOpen, None
<1> QED
  BY <1>1, <1>2

(* A dialled socket gets a free number.                                    *)
LEMMA DialUnixIInv ==
    ASSUME IInv, DialUnix PROVE IInv'
<1>1. CASE ~Full /\ HandOut(Lowest)
  <2>1. Lowest \in Numbers /\ Lowest \notin DOMAIN files
    BY <1>1, LowestIsFree
  <2>2. /\ DOMAIN files' = DOMAIN files \cup {Lowest}
        /\ files'[Lowest] = "display"
        /\ \A m \in DOMAIN files : files'[m] = files[m]
    BY <1>1, <2>1 DEF Opened, HandOut
  <2> QED
    BY <1>1, <2>1, <2>2, NoneIsNoNumber
       DEF DialUnix, HandOut, IInv, TypeOK, DescriptorsHaveOwners, NameIsGood, SocketIsOurs,
           env, locals, Steps, Owners, IsOpen
<1>2. CASE UNCHANGED <<files, displays>>
  BY <1>2, NoneIsNoNumber
     DEF DialUnix, IInv, TypeOK, DescriptorsHaveOwners, NameIsGood, SocketIsOurs,
         env, locals, Steps, IsOpen
<1> QED
  BY <1>1, <1>2 DEF DialUnix

(* Closing a display, and what the rest of the process does.               *)
LEMMA ClosesIInv ==
    ASSUME IInv, NEW n \in Numbers, CloseDisplay(n) \/ OtherCloses(n) PROVE IInv'
<1>1. /\ DOMAIN files' = DOMAIN files \ {n}
      /\ \A m \in DOMAIN files' : files'[m] = files[m]
  BY DEF Closed, CloseDisplay, OtherCloses
<1>2. n \in DOMAIN files /\ files[n] \in {"display", "other"}
  BY DEF CloseDisplay, OtherCloses, IsOpen, IInv, DescriptorsHaveOwners
<1>3. CASE CloseDisplay(n)
  BY <1>1, <1>2, <1>3
     DEF CloseDisplay, IInv, TypeOK, DescriptorsHaveOwners, NameIsGood, SocketIsOurs,
         env, locals, IsOpen
<1>4. CASE OtherCloses(n)
  BY <1>1, <1>2, <1>4
     DEF OtherCloses, IInv, TypeOK, DescriptorsHaveOwners, NameIsGood, SocketIsOurs,
         env, locals, IsOpen
<1> QED
  BY <1>3, <1>4

LEMMA OtherOpensIInv ==
    ASSUME IInv, OtherOpens PROVE IInv'
<1>1. Lowest \in Numbers /\ Lowest \notin DOMAIN files
  BY LowestIsFree DEF OtherOpens
<1>2. /\ DOMAIN files' = DOMAIN files \cup {Lowest}
      /\ files'[Lowest] = "other"
      /\ \A m \in DOMAIN files : files'[m] = files[m]
  BY <1>1 DEF Opened, OtherOpens
<1> QED
  BY <1>1, <1>2
     DEF OtherOpens, IInv, TypeOK, DescriptorsHaveOwners, NameIsGood, SocketIsOurs,
         env, locals, Owners, IsOpen

-----------------------------------------------------------------------------
(* Every step keeps the invariant.                                         *)
LEMMA NextIInv == IInv /\ [Next]_vars => IInv'
<1> SUFFICES ASSUME IInv, [Next]_vars PROVE IInv'
  OBVIOUS
<1>1. CASE UNCHANGED vars
  BY <1>1
     DEF vars, env, locals, IInv, TypeOK, DescriptorsHaveOwners, NameIsGood, SocketIsOurs,
         IsOpen
<1> QED
  BY <1>1, CallIInv, FileConnIInv, CloseFileIInv, DiscardIInv, UnsetenvIInv, DialUnixIInv,
     ClosesIInv, OtherOpensIInv
     DEF Next, Connecting

LEMMA Invariance == Spec => []IInv
BY InitIInv, NextIInv, PTL DEF Spec

(* The descriptor table and the locals of Connect keep their types,        *)
(* whatever set of numbers the process may use.                            *)
THEOREM TypeCorrect == Spec => []TypeOK
<1>1. IInv => TypeOK
  BY DEF IInv
<1> QED
  BY Invariance, <1>1, PTL

(* Connect leaks no descriptor (unixConnFromFD, context.go): every open    *)
(* number is the parent's and still named, the running call's, a           *)
(* display's, or somebody else's.                                          *)
THEOREM NoDescriptorIsLost == Spec => []DescriptorsHaveOwners
<1>1. IInv => DescriptorsHaveOwners
  BY DEF IInv
<1> QED
  BY Invariance, <1>1, PTL

(* Between calls WAYLAND_SOCKET names the parent's socket or nothing.      *)
THEOREM NameStaysGood == Spec => []NameIsNeverStale
<1>1. IInv => NameIsNeverStale
  BY DEF IInv, NameIsGood, NameIsNeverStale
<1> QED
  BY Invariance, <1>1, PTL

(* No step of Connect disturbs a descriptor of the rest of the process or  *)
(* of an earlier connection, however the numbers are reused: Close         *)
(* (context.go) is applied only to the inherited number and to the         *)
(* duplicate.                                                              *)
THEOREM ConnectLeavesOthersAlone == Spec => OthersAreLeftAlone
<1>1. ASSUME IInv, Connecting, NEW n \in DOMAIN files, files[n] \in {"other", "display"}
      PROVE  n \in DOMAIN files' /\ files'[n] = files[n]
  <2>1. CASE \E addr \in Names : Call(addr)
    BY <1>1, <2>1 DEF Call
  <2>2. CASE FileConn
    BY <1>1, <2>2, LowestIsFree DEF Opened, FileConn
  <2>3. CASE CloseFile
    BY <1>1, <2>3 DEF Closed, CloseFile, IInv, NameIsGood, IsOpen
  <2>4. CASE Discard
    BY <1>1, <2>4 DEF Closed, Discard, IInv, SocketIsOurs
  <2>5. CASE Unsetenv
    BY <1>1, <2>5 DEF Opened, Unsetenv, HandOut, IInv, SocketIsOurs
  <2>6. CASE DialUnix
    BY <1>1, <2>6, LowestIsFree DEF Opened, DialUnix, HandOut
  <2> QED
    BY <1>1, <2>1, <2>2, <2>3, <2>4, <2>5, <2>6 DEF Connecting
<1>2. IInv /\ [Next]_vars
        => [Connecting
              => \A n \in DOMAIN files :
                   files[n] \in {"other", "display"}
                     => n \in DOMAIN files' /\ files'[n] = files[n]]_vars
  BY <1>1
<1> QED
  BY Invariance, <1>2, PTL DEF Spec, OthersAreLeftAlone

=============================================================================
