------------------------ MODULE EventDecoder_proofs ------------------------
(***************************************************************************)
(* Context.Dispatch and AbsorbNewIDs for events of any signature, bodies   *)
(* of any contents and any size: what becomes of descriptors and of        *)
(* introduced objects, and where the walk over the bytes reads.            *)
(***************************************************************************)
EXTENDS EventDecoder, WellFoundedInduction, TLAPS

(* The hypothesis of the theorems, which TLC checks of the shipped tables   *)
(* (TableAgrees) and which the scanner establishes by construction.        *)
TablesAgree == \A e \in Events : Agrees(e)

PlaceOfFD ==
    /\ pc = "route" => fd \in {"none", "held"}
    /\ pc = "decode" => fd \in IF Carries("h") THEN {"none", "held"} ELSE {"none", "queued"}
    /\ pc = "absorb" => fd \in IF Carries("h") THEN {"none", "closed"} ELSE {"none", "queued"}
    /\ DescriptorFollowsSignature

Branch ==
    /\ pc \in {"route", "decode", "absorb"} => ~fatal
    /\ pc = "decode" => ~Absorbs /\ event.dispatcher
    /\ pc = "absorb" => Absorbs /\ event.dispatcher

(* The new_ids among the arguments read so far are registered.             *)
KnownSoFar(as) ==
    \A k \in 1 .. arg - 1 :
        event.sig[k] = "n" /\ ~body[k].null => introduced[k] = as
Progress ==
    /\ pc = "route" => arg = 1
    /\ pc = "decode" => KnownSoFar("live")
    /\ pc = "absorb" => KnownSoFar("zombie")
    /\ IntroducedObjectsAreKnown

Types ==
    /\ event \in Events /\ event.sig \in Seq(Letters)
    /\ pc \in {"route", "decode", "absorb"} \cup Returned \cup Failed
    /\ arg \in 1 .. Len(event.sig) + 1
    /\ introduced \in [1 .. Len(event.sig) -> {"no", "live", "zombie"}]

IInv == Types /\ Branch /\ PlaceOfFD /\ Progress

-----------------------------------------------------------------------------
(* The initial states satisfy the invariant.                               *)
LEMMA InitIInv == Init => IInv
  <1> SUFFICES ASSUME Init PROVE IInv
    OBVIOUS
  <1>1. event \in Events /\ event.sig \in Seq(Letters)
    BY EventDecoderAssumption DEF Init
  <1>2. Len(event.sig) \in Nat
    BY <1>1
  <1>3. Types
    BY <1>1, <1>2 DEF Init, Types
  <1>4. Branch /\ PlaceOfFD /\ Progress
    BY DEF Init, Branch, PlaceOfFD, Progress, DescriptorFollowsSignature,
           IntroducedObjectsAreKnown, Returned
  <1> QED BY <1>3, <1>4 DEF IInv

(* What no action changes.                                                 *)
LEMMA Frame ==
  ASSUME UNCHANGED message
  PROVE  /\ event' = event /\ body' = body /\ handler' = handler
         /\ Absorbs' = Absorbs
         /\ Carries("h")' = Carries("h") /\ Carries("n")' = Carries("n")
  BY DEF message, Absorbs, Carries

(* A failure keeps the invariant: whatever descriptor there was is closed. *)
LEMMA FailIInv ==
  ASSUME IInv, NEW r \in Failed, Fail(r), UNCHANGED <<message, arg, pos, at, introduced>>
  PROVE  IInv'
  <1>1. /\ event' = event /\ body' = body /\ handler' = handler
        /\ Absorbs' = Absorbs
        /\ Carries("h")' = Carries("h")
    BY Frame
  <1>2. pc' = r /\ fatal' /\ fd' \in {"none", "closed"} /\ arg' = arg /\ introduced' = introduced
    BY DEF Fail
  <1>3. r \notin Returned \cup {"route", "decode", "absorb"}
    BY DEF Failed, Returned
  <1>4. Types'
    BY <1>1, <1>2 DEF IInv, Types
  <1>5. Branch' /\ PlaceOfFD' /\ Progress'
    BY <1>1, <1>2, <1>3
    DEF Branch, PlaceOfFD, Progress, DescriptorFollowsSignature, IntroducedObjectsAreKnown
  <1> QED BY <1>4, <1>5 DEF IInv

(* Reading an argument that introduces nothing moves on by one.            *)
LEMMA ReadsIInv ==
  ASSUME IInv, pc \in {"decode", "absorb"}, More, Letter # "n", NEW n, Reads(n)
  PROVE  IInv'
  <1>1. /\ event' = event /\ body' = body /\ handler' = handler
        /\ Absorbs' = Absorbs
        /\ Carries("h")' = Carries("h")
    BY Frame DEF Reads
  <1>2. pc' = pc /\ fd' = fd /\ introduced' = introduced /\ fatal' = fatal /\ arg' = arg + 1
    BY DEF Reads, Advance
  <1>3. arg \in Nat /\ arg <= Len(event.sig) /\ Len(event.sig) \in Nat
    BY DEF IInv, Types, More
  <1>4. Types'
    BY <1>1, <1>2, <1>3 DEF IInv, Types
  <1>5. Branch' /\ PlaceOfFD'
    BY <1>1, <1>2
    DEF IInv, Branch, PlaceOfFD, DescriptorFollowsSignature
  <1>6. ASSUME NEW as, KnownSoFar(as) PROVE KnownSoFar(as)'
    <2> SUFFICES ASSUME NEW k \in 1 .. arg' - 1, event'.sig[k] = "n", ~body'[k].null
                 PROVE  introduced'[k] = as
      BY DEF KnownSoFar
    <2>1. event.sig[k] = "n" /\ ~body[k].null
      BY <1>1
    <2>2. k # arg
      BY <2>1 DEF Letter
    <2>3. k \in 1 .. arg - 1
      BY <2>2, <1>2, <1>3
    <2>4. introduced[k] = as
      BY <2>1, <2>3, <1>6 DEF KnownSoFar
    <2> QED BY <2>4, <1>2
  <1>7. pc \notin Returned
    BY DEF Returned
  <1>8. Progress'
    BY <1>2, <1>6, <1>7 DEF IInv, Progress, IntroducedObjectsAreKnown
  <1> QED BY <1>4, <1>5, <1>8 DEF IInv

(* Reading a new_id registers it, unless it is null.                       *)
LEMMA IntroduceIInv ==
  ASSUME IInv, More, NEW as, Introduce(as),
         \/ pc = "decode" /\ as = "live"
         \/ pc = "absorb" /\ as = "zombie"
  PROVE  IInv'
  <1>1. /\ event' = event /\ body' = body /\ handler' = handler
        /\ Absorbs' = Absorbs
        /\ Carries("h")' = Carries("h")
    BY Frame DEF Introduce
  <1>2. pc' = pc /\ fd' = fd /\ fatal' = fatal /\ arg' = arg + 1
    BY DEF Introduce, Advance
  <1>3. arg \in 1 .. Len(event.sig) /\ Len(event.sig) \in Nat
    BY DEF IInv, Types, More
  <1>4. introduced' = IF body[arg].null THEN introduced ELSE [introduced EXCEPT ![arg] = as]
    BY DEF Introduce
  <1>5. introduced \in [1 .. Len(event.sig) -> {"no", "live", "zombie"}]
    BY DEF IInv, Types
  <1>6. Types'
    <2>1. introduced' \in [1 .. Len(event.sig) -> {"no", "live", "zombie"}]
      BY <1>3, <1>4, <1>5
    <2>2. arg' \in 1 .. Len(event.sig) + 1
      BY <1>2, <1>3
    <2> QED BY <2>1, <2>2, <1>1, <1>2 DEF IInv, Types
  <1>7. Branch' /\ PlaceOfFD'
    BY <1>1, <1>2
    DEF IInv, Branch, PlaceOfFD, DescriptorFollowsSignature
  <1>8. KnownSoFar(as)
    BY DEF IInv, Progress
  <1>9. KnownSoFar(as)'
    <2> SUFFICES ASSUME NEW k \in 1 .. arg' - 1, event'.sig[k] = "n", ~body'[k].null
                 PROVE  introduced'[k] = as
      BY DEF KnownSoFar
    <2>1. k \in 1 .. arg /\ event.sig[k] = "n" /\ ~body[k].null
      BY <1>1, <1>2, <1>3
    <2>2. CASE k = arg
      BY <2>1, <2>2, <1>3, <1>4, <1>5
    <2>3. CASE k # arg
      <3>1. k \in 1 .. arg - 1
        BY <2>1, <2>3, <1>3
      <3>2. introduced[k] = as
        BY <3>1, <2>1, <1>8 DEF KnownSoFar
      <3>3. introduced'[k] = introduced[k]
        BY <2>3, <3>1, <1>3, <1>4, <1>5
      <3> QED BY <3>2, <3>3
    <2> QED BY <2>2, <2>3
  <1>10. pc \notin Returned
    BY DEF Returned
  <1>11. Progress'
    BY <1>2, <1>9, <1>10 DEF IInv, Progress, IntroducedObjectsAreKnown
  <1> QED BY <1>6, <1>7, <1>11 DEF IInv

-----------------------------------------------------------------------------
(* Routing: the descriptor is put back or kept as the signature says, and  *)
(* an event is left undecoded only if it introduces nothing.               *)
LEMMA RouteIInv ==
  ASSUME TablesAgree, IInv, Route
  PROVE  IInv'
  <1>1. /\ event \in Events /\ Len(event.sig) \in Nat
        /\ pc = "route" /\ arg = 1 /\ ~fatal /\ fd \in {"none", "held"}
    BY DEF IInv, Types, Branch, PlaceOfFD, Progress, Route, RouteToZombie,
           RouteToNoDispatcher, UnknownOpcode, RouteToNoHandler, RouteToDispatch
  <1>2. /\ event.dispatcher => (event.hasFD <=> Carries("h"))
        /\ event.absorbs <=> event.dispatcher /\ Carries("n")
    BY <1>1 DEF TablesAgree, Agrees, Carries
  <1>3. event.dispatcher =>
            Routed \in IF Carries("h") THEN {"none", "held"} ELSE {"none", "queued"}
    BY <1>1, <1>2 DEF Routed
  <1>4. \A k \in 1 .. Len(event.sig) : ~Carries("n") => event.sig[k] # "n"
    BY DEF Carries
  <1>5. ASSUME NEW STATE next, NEW STATE f, Goes(next, f)
        PROVE  /\ event' = event /\ body' = body /\ handler' = handler
               /\ Absorbs' = Absorbs
               /\ Carries("h")' = Carries("h")
               /\ pc' = next /\ fd' = f /\ arg' = 1 /\ ~fatal' /\ introduced' = introduced
    BY <1>1, <1>5, Frame DEF Goes
  <1>6. CASE RouteToZombie
    <2> DEFINE next == IF event.absorbs THEN "absorb" ELSE "absorbed"
    <2>1. Absorbs /\ Goes(next, Closed(Routed))
      BY <1>6 DEF RouteToZombie
    <2>2. event.dispatcher =>
              Closed(Routed) \in IF Carries("h") THEN {"none", "closed"} ELSE {"none", "queued"}
      BY <1>3 DEF Closed
    <2>3. Closed(Routed) # "given"
      BY <1>1 DEF Closed, Routed
    <2>4. /\ event' = event /\ body' = body /\ handler' = handler
          /\ Absorbs' = Absorbs
          /\ Carries("h")' = Carries("h")
          /\ pc' = next /\ fd' = Closed(Routed) /\ arg' = 1 /\ ~fatal'
          /\ introduced' = introduced
      BY <1>1, <2>1, Frame DEF Goes
    <2>5. next \in {"absorb", "absorbed"} /\ (next = "absorb" => event.dispatcher)
      BY <1>2
    <2>6. next = "absorbed" /\ event.dispatcher => ~Carries("n")
      BY <1>2
    <2> HIDE DEF next
    <2>7. Types'
      BY <1>1, <2>4, <2>5 DEF IInv, Types, Returned
    <2>8. Branch' /\ PlaceOfFD'
      BY <2>1, <2>2, <2>3, <2>4, <2>5
      DEF Branch, PlaceOfFD, DescriptorFollowsSignature, Returned
    <2>9. KnownSoFar("zombie")'
      BY <2>4 DEF KnownSoFar
    <2>10. IntroducedObjectsAreKnown'
      BY <1>4, <2>4, <2>5, <2>6 DEF IntroducedObjectsAreKnown, Returned
    <2>11. Progress'
      BY <2>4, <2>5, <2>9, <2>10 DEF Progress
    <2> QED BY <2>7, <2>8, <2>11 DEF IInv
  <1>7. CASE RouteToNoDispatcher
    BY <1>7, FailIInv DEF RouteToNoDispatcher, Failed
  <1>8. CASE UnknownOpcode
    BY <1>8, FailIInv DEF UnknownOpcode, Panic, Failed
  <1>9. CASE RouteToNoHandler
    <2>1. /\ ~Absorbs /\ event.dispatcher /\ ~Carries("n")
          /\ Goes("unhandled", Ignored(Routed))
      BY <1>9 DEF RouteToNoHandler, Skips
    <2>2. Ignored(Routed) \in IF Carries("h") THEN {"none", "closed"} ELSE {"none", "queued"}
      BY <1>3, <2>1 DEF Ignored, Closed
    <2>3. Types'
      BY <1>1, <1>5, <2>1 DEF IInv, Types, Returned
    <2>4. Branch' /\ PlaceOfFD'
      BY <1>5, <2>1, <2>2 DEF Branch, PlaceOfFD, DescriptorFollowsSignature
    <2>5. Progress'
      BY <1>4, <1>5, <2>1 DEF Progress, IntroducedObjectsAreKnown
    <2> QED BY <2>3, <2>4, <2>5 DEF IInv
  <1>10. CASE RouteToDispatch
    <2>1. ~Absorbs /\ event.dispatcher /\ Goes("decode", Routed)
      BY <1>10 DEF RouteToDispatch
    <2>2. Types'
      BY <1>1, <1>5, <2>1 DEF IInv, Types
    <2>3. Branch' /\ PlaceOfFD'
      BY <1>3, <1>5, <2>1 DEF Branch, PlaceOfFD, DescriptorFollowsSignature, Returned
    <2>4. Progress'
      BY <1>5, <2>1 DEF Progress, KnownSoFar, IntroducedObjectsAreKnown, Returned
    <2> QED BY <2>2, <2>3, <2>4 DEF IInv
  <1> QED BY <1>6, <1>7, <1>8, <1>9, <1>10 DEF Route

-----------------------------------------------------------------------------
(* The decoder's steps.                                                    *)
LEMMA DecodeIInv ==
  ASSUME IInv, Decode
  PROVE  IInv'
  <1>1. /\ Len(event.sig) \in Nat /\ arg \in Nat
        /\ pc = "decode" /\ ~fatal /\ ~Absorbs /\ event.dispatcher
        /\ fd \in IF Carries("h") THEN {"none", "held"} ELSE {"none", "queued"}
        /\ KnownSoFar("live")
    BY DEF IInv, Types, Branch, PlaceOfFD, Progress, Decode, DecodeWord, DecodeFD,
           DecodeNewID, DecodeVariable, DecodeBadVariable, Deliver, HandlerPanics,
           DropUnhandled, Decoded
  <1>2. CASE DecodeWord
    BY <1>2, <1>1, ReadsIInv DEF DecodeWord, Reading, Words
  <1>3. CASE DecodeFD
    BY <1>3, <1>1, ReadsIInv DEF DecodeFD, Reading
  <1>4. CASE DecodeNewID
    BY <1>4, <1>1, IntroduceIInv DEF DecodeNewID, Reading
  <1>5. CASE DecodeVariable
    BY <1>5, <1>1, ReadsIInv DEF DecodeVariable, Reading, Variable, Strings
  <1>6. CASE DecodeBadVariable
    BY <1>6, FailIInv DEF DecodeBadVariable, Panic, Failed
  <1>7. CASE HandlerPanics
    BY <1>7, FailIInv DEF HandlerPanics, Failed
  <1>8. ASSUME ~More, NEW STATE next, NEW STATE f, Completes(next, f),
               next \in {"handled", "unhandled"},
               f = "given" => handler,
               f \in IF Carries("h") THEN {"none", "closed", "given"} ELSE {"none", "queued"}
        PROVE  IInv'
    <2>1. /\ event' = event /\ body' = body /\ handler' = handler
          /\ Absorbs' = Absorbs
          /\ Carries("h")' = Carries("h")
      BY <1>8, Frame DEF Completes
    <2>2. /\ pc' = next /\ arg' = arg /\ introduced' = introduced
          /\ fatal' = event.fails
          /\ fd' = IF event.fails /\ f = "queued" THEN "closed" ELSE f
      BY <1>8 DEF Completes
    <2>3. Types'
      BY <1>8, <2>1, <2>2 DEF IInv, Types, Returned
    <2>4. Branch'
      BY <1>8, <2>2 DEF Branch
    <2>5. fatal' => fd' \in {"none", "closed", "given"}
      BY <1>8, <2>2
    <2>6. ~fatal' => fd' = f
      BY <2>2
    <2>7. fd' = "given" => handler
      BY <1>8, <2>2
    <2>8. PlaceOfFD'
      BY <1>1, <1>8, <2>1, <2>2, <2>5, <2>6, <2>7
      DEF PlaceOfFD, DescriptorFollowsSignature
    <2>9. \A k \in 1 .. Len(event.sig) : k \in 1 .. arg - 1
      BY <1>1, <1>8 DEF More
    <2>10. Progress'
      BY <1>1, <1>8, <2>1, <2>2, <2>9 DEF Progress, KnownSoFar, IntroducedObjectsAreKnown
    <2> QED BY <2>3, <2>4, <2>8, <2>10 DEF IInv
  <1>9. CASE Deliver
    <2> DEFINE f == IF Carries("h") /\ fd = "held" THEN "given" ELSE fd
    <2>1. ~More /\ handler /\ Completes("handled", f)
      BY <1>9 DEF Deliver, Decoded
    <2>2. f \in IF Carries("h") THEN {"none", "closed", "given"} ELSE {"none", "queued"}
      BY <1>1
    <2> HIDE DEF f
    <2> QED BY <1>8, <2>1, <2>2
  <1>10. CASE DropUnhandled
    <2>1. ~More /\ Completes("unhandled", Ignored(fd))
      BY <1>10 DEF DropUnhandled, Decoded
    <2>2. Ignored(fd) \in IF Carries("h") THEN {"none", "closed"} ELSE {"none", "queued"}
      BY <1>1 DEF Ignored, Closed
    <2> QED BY <1>8, <2>1, <2>2
  <1> QED BY <1>2, <1>3, <1>4, <1>5, <1>6, <1>7, <1>9, <1>10 DEF Decode

(* The absorber's steps.                                                   *)
LEMMA AbsorbIInv ==
  ASSUME IInv, Absorb
  PROVE  IInv'
  <1>1. /\ Len(event.sig) \in Nat /\ arg \in Nat
        /\ pc = "absorb" /\ ~fatal /\ Absorbs /\ event.dispatcher
        /\ fd \in IF Carries("h") THEN {"none", "closed"} ELSE {"none", "queued"}
        /\ KnownSoFar("zombie")
    BY DEF IInv, Types, Branch, PlaceOfFD, Progress, Absorb, AbsorbWord, AbsorbFD,
           AbsorbNewID, AbsorbVariable, AbsorbBadVariable, Absorbed
  <1>2. CASE AbsorbWord
    BY <1>2, <1>1, ReadsIInv DEF AbsorbWord, Reading, Words
  <1>3. CASE AbsorbFD
    BY <1>3, <1>1, ReadsIInv DEF AbsorbFD, Reading
  <1>4. CASE AbsorbNewID
    BY <1>4, <1>1, IntroduceIInv DEF AbsorbNewID, Reading
  <1>5. CASE AbsorbVariable
    BY <1>5, <1>1, ReadsIInv DEF AbsorbVariable, Reading, Variable, Strings
  <1>6. CASE AbsorbBadVariable
    BY <1>6, FailIInv DEF AbsorbBadVariable, Panic, Failed
  <1>7. CASE Absorbed
    <2>1. /\ event' = event /\ body' = body /\ handler' = handler
          /\ Absorbs' = Absorbs
          /\ Carries("h")' = Carries("h")
          /\ pc' = "absorbed" /\ fd' = fd /\ arg' = arg /\ ~fatal'
          /\ introduced' = introduced
      BY <1>1, <1>7, Frame DEF Absorbed, Goes
    <2>2. \A k \in 1 .. Len(event.sig) : k \in 1 .. arg - 1
      BY <1>1, <1>7 DEF Absorbed, More
    <2>3. Types'
      BY <2>1 DEF IInv, Types, Returned
    <2>4. Branch' /\ PlaceOfFD'
      BY <1>1, <2>1 DEF Branch, PlaceOfFD, DescriptorFollowsSignature
    <2>5. Progress'
      BY <1>1, <2>1, <2>2 DEF Progress, KnownSoFar, IntroducedObjectsAreKnown
    <2> QED BY <2>3, <2>4, <2>5 DEF IInv
  <1> QED BY <1>2, <1>3, <1>4, <1>5, <1>6, <1>7 DEF Absorb

(* Every step preserves the invariant.                                     *)
LEMMA NextIInv ==
  ASSUME TablesAgree, IInv, [Next]_vars
  PROVE  IInv'
  <1>1. CASE Route
    BY <1>1, RouteIInv
  <1>2. CASE Truncated
    BY <1>2, FailIInv DEF Truncated, Panic, Failed
  <1>3. CASE Decode
    BY <1>3, DecodeIInv
  <1>4. CASE Absorb
    BY <1>4, AbsorbIInv
  <1>5. CASE UNCHANGED vars
    BY <1>5
    DEF vars, message, IInv, Types, Branch, PlaceOfFD, Progress, KnownSoFar, Carries, Absorbs,
        DescriptorFollowsSignature, IntroducedObjectsAreKnown
  <1> QED BY <1>1, <1>2, <1>3, <1>4, <1>5 DEF Next, Rest

-----------------------------------------------------------------------------
(* For any protocol whose tables agree with its signatures: when Dispatch  *)
(* returns, an event's descriptor is closed or the handler's, a later      *)
(* event's is back in the queue, and a failed connection holds none.       *)
THEOREM DescriptorsFollowSignatures ==
  TablesAgree => (Spec => []DescriptorFollowsSignature)
  <1> SUFFICES ASSUME TablesAgree PROVE Spec => []DescriptorFollowsSignature
    OBVIOUS
  <1>1. IInv /\ [Next]_vars => IInv'
    BY NextIInv
  <1>2. IInv => DescriptorFollowsSignature
    BY DEF IInv, PlaceOfFD
  <1> QED BY <1>1, <1>2, InitIInv, PTL DEF Spec

(* For any protocol whose tables agree with its signatures: when Dispatch  *)
(* returns, every object the event introduced has a proxy, whether or not  *)
(* there is a handler and whether or not the sender had been destroyed.    *)
THEOREM IntroductionsAreKnown ==
  TablesAgree => (Spec => []IntroducedObjectsAreKnown)
  <1> SUFFICES ASSUME TablesAgree PROVE Spec => []IntroducedObjectsAreKnown
    OBVIOUS
  <1>1. IInv /\ [Next]_vars => IInv'
    BY NextIInv
  <1>2. IInv => IntroducedObjectsAreKnown
    BY DEF IInv, Progress
  <1> QED BY <1>1, <1>2, InitIInv, PTL DEF Spec

-----------------------------------------------------------------------------
(* The tables of the bindings in the repository, and of any others the     *)
(* scanner writes.                                                         *)
Sig == INSTANCE Signatures
Bindings == Events \subseteq Sig!ShippedEvents \cup {Sig!GeneratedEvent(sig) : sig \in Seq(Letters)}

(* The opcodes whose event carries an argument of the kind `letter'.       *)
Carriers(events, letter) ==
    {op \in 0 .. Len(events) - 1 :
        \E k \in 1 .. Len(events[op + 1]) : events[op + 1][k] = letter}
InterfaceAgrees(type) ==
    /\ type.events \in Seq(Seq(Letters))
    /\ type.hasFD = Carriers(type.events, "h")
    /\ type.absorbs = Carriers(type.events, "n")

Ordinary == Letters \ {"n", "h"}

(* An interface whose events carry neither a descriptor nor a new_id needs *)
(* no tables.                                                              *)
LEMMA OrdinaryEvents ==
    ASSUME NEW events \in Seq(Seq(Ordinary))
    PROVE  /\ events \in Seq(Seq(Letters))
           /\ Carriers(events, "h") = {} /\ Carriers(events, "n") = {}
  <1>1. Carriers(events, "h") = {} /\ Carriers(events, "n") = {}
    BY DEF Ordinary, Carriers
  <1>2. events \in Seq(Seq(Letters))
    BY DEF Ordinary
  <1> QED
    BY <1>1, <1>2

(* The interfaces without events.                                          *)
WithoutEvents == {"Compositor", "ShmPool", "DataDeviceManager", "Shell", "Region",
                  "Subcompositor", "Subsurface", "Fixes", "CursorShapeManager",
                  "CursorShapeDevice", "TabletManager", "IdleNotifier",
                  "SessionLockManager", "TextInputManager"}
LEMMA InterfacesWithoutEvents ==
    ASSUME NEW i \in WithoutEvents
    PROVE  InterfaceAgrees(Sig!Interfaces[i])
  <1>1. << >> \in Seq(Seq(Letters)) /\ Carriers(<< >>, "h") = {} /\ Carriers(<< >>, "n") = {}
    BY DEF Carriers
  <1>2. CASE i \in {"Compositor", "ShmPool", "DataDeviceManager", "Shell", "Region",
                    "Subcompositor", "Subsurface"}
    <2>1. /\ Sig!Interfaces[i].events = << >> /\ Sig!Interfaces[i].hasFD = {}
          /\ Sig!Interfaces[i].absorbs = {}
      BY <1>2, SMTT(60) DEF Sig!Interfaces, Sig!RequestsOnly, Sig!Both
    <2> QED
      BY <1>1, <2>1 DEF InterfaceAgrees
  <1>3. CASE i \in {"Fixes", "CursorShapeManager", "CursorShapeDevice", "TabletManager",
                    "IdleNotifier", "SessionLockManager", "TextInputManager"}
    <2>1. /\ Sig!Interfaces[i].events = << >> /\ Sig!Interfaces[i].hasFD = {}
          /\ Sig!Interfaces[i].absorbs = {}
      BY <1>3, SMTT(60) DEF Sig!Interfaces, Sig!RequestsOnly, Sig!Both
    <2> QED
      BY <1>1, <2>1 DEF InterfaceAgrees
  <1> QED
    BY <1>2, <1>3 DEF WithoutEvents

(* Those whose events are ordinary.                                        *)
WithOrdinaryEvents == {"Display", "Registry", "Callback", "Shm", "Buffer", "DataOffer",
                       "ShellSurface", "Surface", "Seat", "Pointer", "Touch", "Output",
                       "TabletTool", "Tablet", "PadRing", "PadStrip", "IdleNotification",
                       "SessionLock", "LockSurface", "TextInput"}
LEMMA InterfacesWithOrdinaryEvents ==
    ASSUME NEW i \in WithOrdinaryEvents
    PROVE  InterfaceAgrees(Sig!Interfaces[i])
  <1>1. CASE i \in {"Display", "Registry", "Callback", "Shm"}
    <2>1. /\ Sig!Interfaces[i].hasFD = {} /\ Sig!Interfaces[i].absorbs = {}
          /\ Sig!Interfaces[i].events \in {Sig!DisplayEvents, Sig!RegistryEvents,
                                           Sig!CallbackEvents, Sig!ShmEvents}
      BY <1>1 DEF Sig!Interfaces, Sig!Both
    <2>2. /\ Sig!DisplayEvents \in Seq(Seq(Ordinary))
          /\ Sig!RegistryEvents \in Seq(Seq(Ordinary))
          /\ Sig!CallbackEvents \in Seq(Seq(Ordinary))
          /\ Sig!ShmEvents \in Seq(Seq(Ordinary))
      BY DEF Sig!DisplayEvents, Sig!RegistryEvents, Sig!CallbackEvents, Sig!ShmEvents,
             Ordinary, Letters, Variable, Strings, References
    <2> QED
      BY <2>1, <2>2, OrdinaryEvents DEF InterfaceAgrees
  <1>2. CASE i \in {"Buffer", "DataOffer", "ShellSurface", "Surface"}
    <2>1. /\ Sig!Interfaces[i].hasFD = {} /\ Sig!Interfaces[i].absorbs = {}
          /\ Sig!Interfaces[i].events \in {Sig!BufferEvents, Sig!DataOfferEvents,
                                           Sig!ShellSurfaceEvents, Sig!SurfaceEvents}
      BY <1>2 DEF Sig!Interfaces, Sig!Both
    <2>2. /\ Sig!BufferEvents \in Seq(Seq(Ordinary))
          /\ Sig!DataOfferEvents \in Seq(Seq(Ordinary))
          /\ Sig!ShellSurfaceEvents \in Seq(Seq(Ordinary))
          /\ Sig!SurfaceEvents \in Seq(Seq(Ordinary))
      BY DEF Sig!BufferEvents, Sig!DataOfferEvents, Sig!ShellSurfaceEvents,
             Sig!SurfaceEvents, Ordinary, Letters, Variable, Strings, References
    <2> QED
      BY <2>1, <2>2, OrdinaryEvents DEF InterfaceAgrees
  <1>3. CASE i \in {"Seat", "Pointer", "Touch", "Output"}
    <2>1. /\ Sig!Interfaces[i].hasFD = {} /\ Sig!Interfaces[i].absorbs = {}
          /\ Sig!Interfaces[i].events \in {Sig!SeatEvents, Sig!PointerEvents,
                                           Sig!TouchEvents, Sig!OutputEvents}
      BY <1>3 DEF Sig!Interfaces, Sig!Both
    <2>2. /\ Sig!SeatEvents \in Seq(Seq(Ordinary))
          /\ Sig!PointerEvents \in Seq(Seq(Ordinary))
          /\ Sig!TouchEvents \in Seq(Seq(Ordinary))
          /\ Sig!OutputEvents \in Seq(Seq(Ordinary))
      BY DEF Sig!SeatEvents, Sig!PointerEvents, Sig!TouchEvents, Sig!OutputEvents, Ordinary,
             Letters, Variable, Strings, References
    <2> QED
      BY <2>1, <2>2, OrdinaryEvents DEF InterfaceAgrees
  <1>4. CASE i \in {"Tablet", "PadRing", "PadStrip"}
    <2>1. /\ Sig!Interfaces[i].hasFD = {} /\ Sig!Interfaces[i].absorbs = {}
          /\ Sig!Interfaces[i].events \in {Sig!TabletEvents, Sig!PadRingEvents,
                                           Sig!PadStripEvents}
      BY <1>4 DEF Sig!Interfaces, Sig!Both
    <2>2. /\ Sig!TabletEvents \in Seq(Seq(Ordinary))
          /\ Sig!PadRingEvents \in Seq(Seq(Ordinary))
          /\ Sig!PadStripEvents \in Seq(Seq(Ordinary))
      BY DEF Sig!TabletEvents, Sig!PadRingEvents, Sig!PadStripEvents, Ordinary, Letters,
             Variable, Strings, References
    <2> QED
      BY <2>1, <2>2, OrdinaryEvents DEF InterfaceAgrees
  <1>5. CASE i \in {"IdleNotification", "SessionLock", "LockSurface", "TextInput"}
    <2>1. /\ Sig!Interfaces[i].hasFD = {} /\ Sig!Interfaces[i].absorbs = {}
          /\ Sig!Interfaces[i].events \in {Sig!IdleNotificationEvents,
                                           Sig!SessionLockEvents, Sig!LockSurfaceEvents,
                                           Sig!TextInputEvents}
      BY <1>5 DEF Sig!Interfaces, Sig!Both
    <2>2. /\ Sig!IdleNotificationEvents \in Seq(Seq(Ordinary))
          /\ Sig!SessionLockEvents \in Seq(Seq(Ordinary))
          /\ Sig!LockSurfaceEvents \in Seq(Seq(Ordinary))
          /\ Sig!TextInputEvents \in Seq(Seq(Ordinary))
      BY DEF Sig!IdleNotificationEvents, Sig!SessionLockEvents, Sig!LockSurfaceEvents,
             Sig!TextInputEvents, Ordinary, Letters, Variable, Strings, References
    <2> QED
      BY <2>1, <2>2, OrdinaryEvents DEF InterfaceAgrees
  <1>6. CASE i = "TabletTool"
    <2> DEFINE events == Sig!TabletToolPresence \o Sig!TabletToolAxes
    <2>1. /\ Sig!Interfaces[i].hasFD = {} /\ Sig!Interfaces[i].absorbs = {}
          /\ Sig!Interfaces[i].events = events
      BY <1>6 DEF Sig!Interfaces, Sig!Both
    <2>2. Sig!TabletToolPresence \in Seq(Seq(Ordinary)) /\ Sig!TabletToolAxes \in Seq(Seq(Ordinary))
      BY DEF Sig!TabletToolPresence, Sig!TabletToolAxes, Ordinary, Letters, Variable, Strings,
             References
    <2>3. events \in Seq(Seq(Ordinary))
      BY <2>2
    <2> HIDE DEF events
    <2> QED
      BY <2>1, <2>3, OrdinaryEvents DEF InterfaceAgrees
  <1> QED
    BY <1>1, <1>2, <1>3, <1>4, <1>5, <1>6 DEF WithOrdinaryEvents

(* Those that have a table to keep in step: two with descriptors, four     *)
(* with objects the server introduces.                                     *)
LEMMA CarriersAre ==
    ASSUME NEW s \in Seq(Seq(Letters)), NEW m \in Nat, m = Len(s),
           NEW ops \in SUBSET (0 .. m - 1), NEW letter \in {"n", "h"},
           \A k \in 1 .. m : k - 1 \in ops =>
               s[k] \in Seq(Ordinary \cup {letter}) /\ Sig!Has(s[k], letter),
           \A k \in 1 .. m : k - 1 \notin ops => s[k] \in Seq(Ordinary)
    PROVE  \A l \in {"n", "h"} : Carriers(s, l) = IF l = letter THEN ops ELSE {}
  <1>1. ASSUME NEW op \in 0 .. m - 1, NEW l \in {"n", "h"}
        PROVE  Sig!Has(s[op + 1], l) <=> l = letter /\ op \in ops
    <2>1. op + 1 \in 1 .. m /\ (op + 1) - 1 = op
      OBVIOUS
    <2>2. CASE op \in ops
      <3>1. s[op + 1] \in Seq(Ordinary \cup {letter}) /\ Sig!Has(s[op + 1], letter)
        BY <2>1, <2>2
      <3>2. l # letter => l \notin Ordinary \cup {letter}
        BY DEF Ordinary
      <3>3. l # letter => ~Sig!Has(s[op + 1], l)
        BY <3>1, <3>2 DEF Sig!Has
      <3> QED
        BY <2>2, <3>1, <3>3
    <2>3. CASE op \notin ops
      <3>1. s[op + 1] \in Seq(Ordinary)
        BY <2>1, <2>3
      <3> QED
        BY <2>3, <3>1 DEF Sig!Has, Ordinary
    <2> QED
      BY <2>2, <2>3
  <1>2. \A l \in {"n", "h"} : Carriers(s, l) = {op \in 0 .. m - 1 : l = letter /\ op \in ops}
    BY <1>1 DEF Carriers, Sig!Has
  <1> QED
    BY <1>2

LEMMA DataSourceAgrees == InterfaceAgrees(Sig!Interfaces["DataSource"])
  <1> DEFINE s == Sig!DataSourceEvents
             ops == Sig!DataSourceHasFD
  <1>1. s \in Seq(Seq(Letters)) /\ Len(s) = 6
    BY DEF Sig!DataSourceEvents, Letters, Variable, Strings, References
  <1>2. /\ s[2] = <<"s", "h">> /\ s[1] \in Seq(Ordinary) /\ s[3] \in Seq(Ordinary)
        /\ s[4] \in Seq(Ordinary) /\ s[5] \in Seq(Ordinary) /\ s[6] \in Seq(Ordinary)
    BY DEF Sig!DataSourceEvents, Ordinary, Letters, Variable, Strings, References
  <1>3. /\ s[2] \in Seq(Ordinary \cup {"h"}) /\ Sig!Has(s[2], "h")
    BY <1>2 DEF Ordinary, Letters, Variable, Strings, References, Sig!Has
  <1>4. ops \in SUBSET (0 .. 6 - 1)
    BY DEF Sig!DataSourceHasFD
  <1>5. \A k \in 1 .. 6 : IF k - 1 \in ops THEN k \in {2} ELSE k \in {1, 3, 4, 5, 6}
    BY DEF Sig!DataSourceHasFD
  <1>6. /\ Sig!Interfaces["DataSource"].events = s
        /\ Sig!Interfaces["DataSource"].hasFD = ops
        /\ Sig!Interfaces["DataSource"].absorbs = {}
    BY DEF Sig!Interfaces, Sig!Both
  <1> HIDE DEF s, ops
  <1>7. \A k \in 1 .. 6 : k - 1 \in ops =>
            s[k] \in Seq(Ordinary \cup {"h"}) /\ Sig!Has(s[k], "h")
    BY <1>3, <1>5
  <1>8. \A k \in 1 .. 6 : k - 1 \notin ops => s[k] \in Seq(Ordinary)
    BY <1>2, <1>5
  <1>9. \A l \in {"n", "h"} : Carriers(s, l) = IF l = "h" THEN ops ELSE {}
    BY <1>1, <1>4, <1>7, <1>8, CarriersAre
  <1> QED
    BY <1>1, <1>6, <1>9 DEF InterfaceAgrees

LEMMA DataDeviceAgrees == InterfaceAgrees(Sig!Interfaces["DataDevice"])
  <1> DEFINE s == Sig!DataDeviceEvents
             ops == Sig!DataDeviceAbsorbs
  <1>1. s \in Seq(Seq(Letters)) /\ Len(s) = 6
    BY DEF Sig!DataDeviceEvents, Letters, Variable, Strings, References
  <1>2. /\ s[1] = <<"n">> /\ s[2] \in Seq(Ordinary) /\ s[3] \in Seq(Ordinary)
        /\ s[4] \in Seq(Ordinary) /\ s[5] \in Seq(Ordinary) /\ s[6] \in Seq(Ordinary)
    BY DEF Sig!DataDeviceEvents, Ordinary, Letters, Variable, Strings, References
  <1>3. /\ s[1] \in Seq(Ordinary \cup {"n"}) /\ Sig!Has(s[1], "n")
    BY <1>2 DEF Ordinary, Letters, Variable, Strings, References, Sig!Has
  <1>4. ops \in SUBSET (0 .. 6 - 1)
    BY DEF Sig!DataDeviceAbsorbs
  <1>5. \A k \in 1 .. 6 : IF k - 1 \in ops THEN k \in {1} ELSE k \in {2, 3, 4, 5, 6}
    BY DEF Sig!DataDeviceAbsorbs
  <1>6. /\ Sig!Interfaces["DataDevice"].events = s
        /\ Sig!Interfaces["DataDevice"].hasFD = {}
        /\ Sig!Interfaces["DataDevice"].absorbs = ops
    BY DEF Sig!Interfaces, Sig!Both
  <1> HIDE DEF s, ops
  <1>7. \A k \in 1 .. 6 : k - 1 \in ops =>
            s[k] \in Seq(Ordinary \cup {"n"}) /\ Sig!Has(s[k], "n")
    BY <1>3, <1>5
  <1>8. \A k \in 1 .. 6 : k - 1 \notin ops => s[k] \in Seq(Ordinary)
    BY <1>2, <1>5
  <1>9. \A l \in {"n", "h"} : Carriers(s, l) = IF l = "n" THEN ops ELSE {}
    BY <1>1, <1>4, <1>7, <1>8, CarriersAre
  <1> QED
    BY <1>1, <1>6, <1>9 DEF InterfaceAgrees

LEMMA KeyboardAgrees == InterfaceAgrees(Sig!Interfaces["Keyboard"])
  <1> DEFINE s == Sig!KeyboardEvents
             ops == Sig!KeyboardHasFD
  <1>1. s \in Seq(Seq(Letters)) /\ Len(s) = 6
    BY DEF Sig!KeyboardEvents, Letters, Variable, Strings, References
  <1>2. /\ s[1] = <<"u", "h", "u">> /\ s[2] \in Seq(Ordinary)
        /\ s[3] \in Seq(Ordinary) /\ s[4] \in Seq(Ordinary) /\ s[5] \in Seq(Ordinary)
        /\ s[6] \in Seq(Ordinary)
    BY DEF Sig!KeyboardEvents, Ordinary, Letters, Variable, Strings, References
  <1>3. /\ s[1] \in Seq(Ordinary \cup {"h"}) /\ Sig!Has(s[1], "h")
    BY <1>2 DEF Ordinary, Letters, Variable, Strings, References, Sig!Has
  <1>4. ops \in SUBSET (0 .. 6 - 1)
    BY DEF Sig!KeyboardHasFD
  <1>5. \A k \in 1 .. 6 : IF k - 1 \in ops THEN k \in {1} ELSE k \in {2, 3, 4, 5, 6}
    BY DEF Sig!KeyboardHasFD
  <1>6. /\ Sig!Interfaces["Keyboard"].events = s
        /\ Sig!Interfaces["Keyboard"].hasFD = ops
        /\ Sig!Interfaces["Keyboard"].absorbs = {}
    BY DEF Sig!Interfaces, Sig!Both
  <1> HIDE DEF s, ops
  <1>7. \A k \in 1 .. 6 : k - 1 \in ops =>
            s[k] \in Seq(Ordinary \cup {"h"}) /\ Sig!Has(s[k], "h")
    BY <1>3, <1>5
  <1>8. \A k \in 1 .. 6 : k - 1 \notin ops => s[k] \in Seq(Ordinary)
    BY <1>2, <1>5
  <1>9. \A l \in {"n", "h"} : Carriers(s, l) = IF l = "h" THEN ops ELSE {}
    BY <1>1, <1>4, <1>7, <1>8, CarriersAre
  <1> QED
    BY <1>1, <1>6, <1>9 DEF InterfaceAgrees

LEMMA TabletSeatAgrees == InterfaceAgrees(Sig!Interfaces["TabletSeat"])
  <1> DEFINE s == Sig!TabletSeatEvents
             ops == Sig!TabletSeatAbsorbs
  <1>1. s \in Seq(Seq(Letters)) /\ Len(s) = 3
    BY DEF Sig!TabletSeatEvents, Letters, Variable, Strings, References
  <1>2. /\ s[1] = <<"n">> /\ s[2] = <<"n">> /\ s[3] = <<"n">>
    BY DEF Sig!TabletSeatEvents, Ordinary, Letters, Variable, Strings, References
  <1>3. /\ s[1] \in Seq(Ordinary \cup {"n"}) /\ Sig!Has(s[1], "n")
        /\ s[2] \in Seq(Ordinary \cup {"n"}) /\ Sig!Has(s[2], "n")
        /\ s[3] \in Seq(Ordinary \cup {"n"}) /\ Sig!Has(s[3], "n")
    BY <1>2 DEF Ordinary, Letters, Variable, Strings, References, Sig!Has
  <1>4. ops \in SUBSET (0 .. 3 - 1)
    BY DEF Sig!TabletSeatAbsorbs
  <1>5. \A k \in 1 .. 3 : IF k - 1 \in ops THEN k \in {1, 2, 3} ELSE k \in {}
    BY DEF Sig!TabletSeatAbsorbs
  <1>6. /\ Sig!Interfaces["TabletSeat"].events = s
        /\ Sig!Interfaces["TabletSeat"].hasFD = {}
        /\ Sig!Interfaces["TabletSeat"].absorbs = ops
    BY DEF Sig!Interfaces, Sig!Both
  <1> HIDE DEF s, ops
  <1>7. \A k \in 1 .. 3 : k - 1 \in ops =>
            s[k] \in Seq(Ordinary \cup {"n"}) /\ Sig!Has(s[k], "n")
    BY <1>3, <1>5
  <1>8. \A k \in 1 .. 3 : k - 1 \notin ops => s[k] \in Seq(Ordinary)
    BY <1>2, <1>5
  <1>9. \A l \in {"n", "h"} : Carriers(s, l) = IF l = "n" THEN ops ELSE {}
    BY <1>1, <1>4, <1>7, <1>8, CarriersAre
  <1> QED
    BY <1>1, <1>6, <1>9 DEF InterfaceAgrees

LEMMA PadGroupAgrees == InterfaceAgrees(Sig!Interfaces["PadGroup"])
  <1> DEFINE s == Sig!PadGroupEvents
             ops == Sig!PadGroupAbsorbs
  <1>1. s \in Seq(Seq(Letters)) /\ Len(s) = 6
    BY DEF Sig!PadGroupEvents, Letters, Variable, Strings, References
  <1>2. /\ s[2] = <<"n">> /\ s[3] = <<"n">> /\ s[1] \in Seq(Ordinary)
        /\ s[4] \in Seq(Ordinary) /\ s[5] \in Seq(Ordinary) /\ s[6] \in Seq(Ordinary)
    BY DEF Sig!PadGroupEvents, Ordinary, Letters, Variable, Strings, References
  <1>3. /\ s[2] \in Seq(Ordinary \cup {"n"}) /\ Sig!Has(s[2], "n")
        /\ s[3] \in Seq(Ordinary \cup {"n"}) /\ Sig!Has(s[3], "n")
    BY <1>2 DEF Ordinary, Letters, Variable, Strings, References, Sig!Has
  <1>4. ops \in SUBSET (0 .. 6 - 1)
    BY DEF Sig!PadGroupAbsorbs
  <1>5. \A k \in 1 .. 6 : IF k - 1 \in ops THEN k \in {2, 3} ELSE k \in {1, 4, 5, 6}
    BY DEF Sig!PadGroupAbsorbs
  <1>6. /\ Sig!Interfaces["PadGroup"].events = s
        /\ Sig!Interfaces["PadGroup"].hasFD = {}
        /\ Sig!Interfaces["PadGroup"].absorbs = ops
    BY DEF Sig!Interfaces, Sig!Both
  <1> HIDE DEF s, ops
  <1>7. \A k \in 1 .. 6 : k - 1 \in ops =>
            s[k] \in Seq(Ordinary \cup {"n"}) /\ Sig!Has(s[k], "n")
    BY <1>3, <1>5
  <1>8. \A k \in 1 .. 6 : k - 1 \notin ops => s[k] \in Seq(Ordinary)
    BY <1>2, <1>5
  <1>9. \A l \in {"n", "h"} : Carriers(s, l) = IF l = "n" THEN ops ELSE {}
    BY <1>1, <1>4, <1>7, <1>8, CarriersAre
  <1> QED
    BY <1>1, <1>6, <1>9 DEF InterfaceAgrees

LEMMA PadAgrees == InterfaceAgrees(Sig!Interfaces["Pad"])
  <1> DEFINE s == Sig!PadEvents
             ops == Sig!PadAbsorbs
  <1>1. s \in Seq(Seq(Letters)) /\ Len(s) = 8
    BY DEF Sig!PadEvents, Letters, Variable, Strings, References
  <1>2. /\ s[1] = <<"n">> /\ s[2] \in Seq(Ordinary) /\ s[3] \in Seq(Ordinary)
        /\ s[4] \in Seq(Ordinary) /\ s[5] \in Seq(Ordinary) /\ s[6] \in Seq(Ordinary)
        /\ s[7] \in Seq(Ordinary) /\ s[8] \in Seq(Ordinary)
    BY DEF Sig!PadEvents, Ordinary, Letters, Variable, Strings, References
  <1>3. /\ s[1] \in Seq(Ordinary \cup {"n"}) /\ Sig!Has(s[1], "n")
    BY <1>2 DEF Ordinary, Letters, Variable, Strings, References, Sig!Has
  <1>4. ops \in SUBSET (0 .. 8 - 1)
    BY DEF Sig!PadAbsorbs
  <1>5. \A k \in 1 .. 8 : IF k - 1 \in ops THEN k \in {1} ELSE k \in {2, 3, 4, 5, 6, 7, 8}
    BY DEF Sig!PadAbsorbs
  <1>6. /\ Sig!Interfaces["Pad"].events = s
        /\ Sig!Interfaces["Pad"].hasFD = {}
        /\ Sig!Interfaces["Pad"].absorbs = ops
    BY DEF Sig!Interfaces, Sig!Both
  <1> HIDE DEF s, ops
  <1>7. \A k \in 1 .. 8 : k - 1 \in ops =>
            s[k] \in Seq(Ordinary \cup {"n"}) /\ Sig!Has(s[k], "n")
    BY <1>3, <1>5
  <1>8. \A k \in 1 .. 8 : k - 1 \notin ops => s[k] \in Seq(Ordinary)
    BY <1>2, <1>5
  <1>9. \A l \in {"n", "h"} : Carriers(s, l) = IF l = "n" THEN ops ELSE {}
    BY <1>1, <1>4, <1>7, <1>8, CarriersAre
  <1> QED
    BY <1>1, <1>6, <1>9 DEF InterfaceAgrees

WithTables == {"DataSource", "DataDevice", "Keyboard", "TabletSeat", "PadGroup", "Pad"}
LEMMA InterfacesWithTables ==
    ASSUME NEW i \in WithTables
    PROVE  InterfaceAgrees(Sig!Interfaces[i])
  BY DataSourceAgrees, DataDeviceAgrees, KeyboardAgrees, TabletSeatAgrees, PadGroupAgrees,
     PadAgrees DEF WithTables

(* Each of the three kinds of generated function answers for its opcodes.  *)
LEMMA EveryInterfaceAgrees ==
    ASSUME NEW i \in DOMAIN Sig!Interfaces
    PROVE  InterfaceAgrees(Sig!Interfaces[i])
  <1>1. i \in WithoutEvents \cup WithOrdinaryEvents \cup WithTables
    BY DEF Sig!Interfaces, WithoutEvents, WithOrdinaryEvents, WithTables
  <1> QED
    BY <1>1, InterfacesWithoutEvents, InterfacesWithOrdinaryEvents, InterfacesWithTables

LEMMA ShippedEventsAgree ==
    ASSUME NEW e \in Sig!ShippedEvents
    PROVE  Agrees(e)
  <1>1. PICK i \in DOMAIN Sig!Interfaces :
            \E op \in 0 .. Len(Sig!Interfaces[i].events) : e = Sig!Event(i, op)
    BY DEF Sig!ShippedEvents
  <1> DEFINE type == Sig!Interfaces[i]
             events == type.events
  <1>2. PICK op \in 0 .. Len(events) : e = Sig!Event(i, op)
    BY <1>1
  <1>3. /\ events \in Seq(Seq(Letters))
        /\ type.hasFD = Carriers(events, "h")
        /\ type.absorbs = Carriers(events, "n")
    BY EveryInterfaceAgrees DEF InterfaceAgrees
  <1>4. /\ e.sig = IF op < Len(events) THEN events[op + 1] ELSE << >>
        /\ e.dispatcher <=> events # << >>
        /\ e.hasFD <=> op \in Carriers(events, "h")
        /\ e.absorbs <=> op \in Carriers(events, "n")
    BY <1>2, <1>3 DEF Sig!Event
  <1> HIDE DEF type, events
  <1>5. Len(events) \in Nat /\ (events = << >> => Len(events) = 0) /\ op \in Nat
    BY <1>2, <1>3
  <1>6. CASE op < Len(events)
    <2>1. e.sig = events[op + 1] /\ op \in 0 .. Len(events) - 1 /\ e.dispatcher
      BY <1>4, <1>5, <1>6
    <2>2. /\ e.hasFD <=> (\E k \in 1 .. Len(e.sig) : e.sig[k] = "h")
          /\ e.absorbs <=> (\E k \in 1 .. Len(e.sig) : e.sig[k] = "n")
      BY <1>4, <2>1 DEF Carriers
    <2> QED
      BY <2>1, <2>2 DEF Agrees
  <1>7. CASE ~(op < Len(events))
    <2>1. e.sig = << >> /\ op \notin 0 .. Len(events) - 1
      BY <1>4, <1>5, <1>7
    <2>2. ~e.hasFD /\ ~e.absorbs
      BY <1>4, <2>1 DEF Carriers
    <2>3. ~\E k \in 1 .. Len(e.sig) : e.sig[k] \in {"h", "n"}
      BY <2>1
    <2> QED
      BY <2>2, <2>3 DEF Agrees
  <1> QED
    BY <1>6, <1>7

LEMMA GeneratedEventsAgree ==
    ASSUME NEW sig \in Seq(Letters)
    PROVE  Agrees(Sig!GeneratedEvent(sig))
  BY DEF Agrees, Sig!GeneratedEvent, Sig!Has

LEMMA BindingsAgree == Bindings => TablesAgree
  BY ShippedEventsAgree, GeneratedEventsAgree DEF Bindings, TablesAgree

(* In every state: HasFD and AbsorbNewIDs answer for the event in hand as  *)
(* its case in Dispatch would, for each opcode of the 40 interfaces of the *)
(* repository and for any signature the scanner is given.                  *)
THEOREM BindingsTablesAgree == Bindings => (Spec => []TableAgrees)
  <1> SUFFICES ASSUME Bindings PROVE Spec => []TableAgrees
    OBVIOUS
  <1>1. TablesAgree
    BY BindingsAgree
  <1>2. IInv /\ [Next]_vars => IInv'
    BY <1>1, NextIInv
  <1>3. IInv => TableAgrees
    BY <1>1 DEF IInv, Types, TablesAgree, TableAgrees
  <1> QED BY <1>2, <1>3, InitIInv, PTL DEF Spec

(* With the bindings of the repository, or any the scanner writes, no      *)
(* descriptor is lost and every introduced object has a proxy: nothing is  *)
(* assumed of the tables any more.                                         *)
THEOREM BindingsLoseNothing ==
  Bindings => (Spec => [](DescriptorFollowsSignature /\ IntroducedObjectsAreKnown))
  <1> SUFFICES ASSUME Bindings
               PROVE  Spec => [](DescriptorFollowsSignature /\ IntroducedObjectsAreKnown)
    OBVIOUS
  <1>1. TablesAgree
    BY BindingsAgree
  <1> QED
    BY <1>1, DescriptorsFollowSignatures, IntroductionsAreKnown, PTL
-----------------------------------------------------------------------------
(* The walk over the bytes.  Its invariant is apart from the one above and *)
(* needs no hypothesis on the tables.                                      *)
-----------------------------------------------------------------------------
(* A non-empty set of counterexamples has a least element.                 *)
LEMMA LeastCounterexample ==
    ASSUME NEW S, S \subseteq Nat, S # {}
    PROVE  \E x \in S : \A y \in S : ~(y < x)
  <1>1. PICK x \in S : \A y \in S : ~(<<y, x>> \in OpToRel(<, Nat))
    BY NatLessThanWellFounded, WFMin, Zenon
  <1>2. ASSUME NEW y \in S PROVE ~(y < x)
    <2>1. x \in Nat /\ y \in Nat
      OBVIOUS
    <2> QED
      BY <1>1, <2>1, Zenon DEF OpToRel
  <1> QED
    BY <1>2

(* A running sum s of the weights w, from b on.                            *)
Sums(s, w, n, b) ==
    s = [k \in 0 .. n |-> IF k = 0 THEN b ELSE s[k - 1] + w[k]]

LEMMA SumExists ==
    ASSUME NEW n \in Nat, NEW b \in Nat, NEW w, \A k \in 1 .. n : w[k] \in Nat
    PROVE  \E s : Sums(s, w, n, b)
  <1> DEFINE S == {m \in 0 .. n : ~\E s : s \in [0 .. m -> Nat] /\ Sums(s, w, m, b)}
  <1> SUFFICES ASSUME ~\E s : Sums(s, w, n, b) PROVE FALSE
    OBVIOUS
  <1>1. S # {} /\ S \subseteq Nat
    <2>1. n \in 0 .. n /\ 0 .. n \subseteq Nat
      OBVIOUS
    <2> QED
      BY <2>1
  <1>2. PICK x \in S : \A y \in S : ~(y < x)
    BY <1>1, LeastCounterexample
  <1>3. x # 0
    <2> DEFINE s == [k \in 0 .. 0 |-> b]
    <2>1. s \in [0 .. 0 -> Nat] /\ Sums(s, w, 0, b)
      BY DEF Sums
    <2> QED
      BY <2>1
  <1>4. x \in 1 .. n /\ x - 1 \in 0 .. n /\ x - 1 < x /\ x \in Nat
    BY <1>3
  <1>5. PICK s : s \in [0 .. x - 1 -> Nat] /\ Sums(s, w, x - 1, b)
    BY <1>2, <1>4
  <1> DEFINE t == [k \in 0 .. x |-> IF k = x THEN s[x - 1] + w[x] ELSE s[k]]
  <1>6. \A k \in 0 .. x - 1 : /\ s[k] = IF k = 0 THEN b ELSE s[k - 1] + w[k]
                              /\ s[k] \in Nat /\ k \in 0 .. x /\ k # x
    BY <1>4, <1>5 DEF Sums
  <1>7. w[x] \in Nat /\ x - 1 \in 0 .. x - 1
    BY <1>4
  <1>8. t \in [0 .. x -> Nat]
    <2>1. ASSUME NEW k \in 0 .. x PROVE t[k] \in Nat
      <3>1. k = x \/ k \in 0 .. x - 1
        BY <1>4
      <3> QED
        BY <1>6, <1>7, <3>1
    <2> QED
      BY <2>1
  <1>9. ASSUME NEW k \in 0 .. x
        PROVE  t[k] = IF k = 0 THEN b ELSE t[k - 1] + w[k]
    <2>1. CASE k = x
      BY <1>4, <1>6, <1>7, <2>1
    <2>2. CASE k \in 0 .. x - 1
      <3>1. t[k] = s[k]
        BY <1>6, <2>2
      <3>2. k # 0 => k - 1 \in 0 .. x - 1
        BY <1>4, <2>2
      <3>3. k # 0 => t[k - 1] = s[k - 1]
        BY <1>6, <3>2
      <3> QED
        BY <1>6, <2>2, <3>1, <3>3
    <2> QED
      BY <1>4, <2>1, <2>2
  <1>10. Sums(t, w, x, b)
    BY <1>9 DEF Sums
  <1> QED
    BY <1>8, <1>10

-----------------------------------------------------------------------------
(* The layout is a running sum of the sizes of the arguments.              *)
LEMMA OffsetFacts ==
    ASSUME NEW sig, NEW args, Len(sig) \in Nat,
           \A k \in 1 .. Len(sig) : ArgSize(sig[k], args[k]) \in Nat
    PROVE  /\ Offset(sig, args)[1] = 0
           /\ \A k \in 1 .. Len(sig) :
                Offset(sig, args)[k + 1] = Offset(sig, args)[k] + ArgSize(sig[k], args[k])
           /\ \A k \in 1 .. Len(sig) + 1 : Offset(sig, args)[k] \in Nat
  <1> DEFINE n == Len(sig)
  <1> DEFINE w == [k \in 1 .. n |-> ArgSize(sig[k], args[k])]
  <1> DEFINE o == Offset(sig, args)
  <1>1. PICK s : Sums(s, w, n, 0)
    BY SumExists
  <1> DEFINE g == [k \in 1 .. n + 1 |-> s[k - 1]]
  <1>2. g = [k \in 1 .. n + 1 |->
               IF k = 1 THEN 0 ELSE g[k - 1] + ArgSize(sig[k - 1], args[k - 1])]
    <2>1. ASSUME NEW k \in 1 .. n + 1
          PROVE  s[k - 1] = IF k = 1 THEN 0 ELSE g[k - 1] + ArgSize(sig[k - 1], args[k - 1])
      <3>1. k - 1 \in 0 .. n /\ (k # 1 => k - 1 \in 1 .. n + 1 /\ k - 1 \in 1 .. n)
        OBVIOUS
      <3>2. s[k - 1] = IF k - 1 = 0 THEN 0 ELSE s[k - 1 - 1] + w[k - 1]
        BY <1>1, <3>1 DEF Sums
      <3> QED
        BY <3>1, <3>2
    <2> QED
      BY <2>1
  <1>3. o = [k \in 1 .. n + 1 |->
               IF k = 1 THEN 0 ELSE o[k - 1] + ArgSize(sig[k - 1], args[k - 1])]
    <2> HIDE DEF g
    <2> QED
      BY <1>2 DEF Offset
  <1> HIDE DEF o, g
  <1>4. o[1] = 0
    BY <1>3
  <1>5. ASSUME NEW k \in 1 .. n PROVE o[k + 1] = o[k] + ArgSize(sig[k], args[k])
    <2>1. k + 1 \in 1 .. n + 1 /\ k + 1 # 1 /\ (k + 1) - 1 = k
      OBVIOUS
    <2> QED
      BY <1>3, <2>1
  <1>6. \A k \in 1 .. n + 1 : o[k] \in Nat
    <2> DEFINE S == {k \in 1 .. n + 1 : o[k] \notin Nat}
    <2> SUFFICES ASSUME S # {} PROVE FALSE
      OBVIOUS
    <2>1. S \subseteq Nat
      OBVIOUS
    <2>2. PICK x \in S : \A y \in S : ~(y < x)
      BY <2>1, LeastCounterexample
    <2>3. x # 1
      BY <1>4
    <2>4. x - 1 \in 1 .. n /\ x - 1 \in 1 .. n + 1 /\ x - 1 < x /\ (x - 1) + 1 = x
      BY <2>3
    <2>5. o[x - 1] \in Nat
      BY <2>2, <2>4
    <2>6. o[x] = o[x - 1] + ArgSize(sig[x - 1], args[x - 1])
      BY <1>5, <2>4
    <2> QED
      BY <2>4, <2>5, <2>6
  <1> QED
    BY ONLY <1>4, <1>5, <1>6 DEF o

-----------------------------------------------------------------------------
(* The contents the server can put into an argument.                       *)
LEMMA ContentFacts ==
    ASSUME NEW letter \in Letters, NEW c \in Contents(letter)
    PROVE  c \in [len : Nat, nul : BOOLEAN, null : BOOLEAN]
  <1>1. Lengths \subseteq Nat /\ 0 \in Nat
    BY EventDecoderAssumption
  <1>2. CASE letter \in Strings
    BY <1>1, <1>2 DEF Contents, Content
  <1>3. CASE letter = "a"
    BY <1>1, <1>3 DEF Contents, Content, Strings
  <1>4. CASE letter = "n"
    BY <1>1, <1>4 DEF Contents, Content, Strings
  <1>5. CASE letter \notin Strings \cup {"a", "n"}
    BY <1>1, <1>5 DEF Contents, Content
  <1> QED
    BY <1>2, <1>3, <1>4, <1>5

(* The bodies of an event: Bodies has this closed form.                    *)
LEMMA BodiesFacts ==
    ASSUME NEW sig \in Seq(Letters), NEW a \in Bodies(sig)
    PROVE  /\ a \in Seq([len : Nat, nul : BOOLEAN, null : BOOLEAN])
           /\ Len(a) = Len(sig)
           /\ \A k \in 1 .. Len(sig) : a[k] \in Contents(sig[k])
  <1> DEFINE n == Len(sig)
  <1> DEFINE R == [len : Nat, nul : BOOLEAN, null : BOOLEAN]
  <1> DEFINE g == [k \in 0 .. n |->
                    {q \in Seq(R) : Len(q) = k /\ \A j \in 1 .. k : q[j] \in Contents(sig[j])}]
  <1> DEFINE step(f, k) == {Append(q, b) : q \in f[k - 1], b \in Contents(sig[k])}
  <1>1. n \in Nat /\ \A k \in 1 .. n : sig[k] \in Letters
    OBVIOUS
  <1>2. \A k \in 1 .. n : Contents(sig[k]) \subseteq R
    BY <1>1, ContentFacts
  <1> HIDE DEF R
  <1>10. ASSUME NEW k \in 0 .. n
         PROVE  \A q : q \in g[k] <=> /\ q \in Seq(R) /\ Len(q) = k
                                      /\ \A j \in 1 .. k : q[j] \in Contents(sig[j])
    OBVIOUS
  <1>11. g = [k \in 0 .. n |-> g[k]]
    OBVIOUS
  <1> HIDE DEF g
  <1>3. g[0] = {<< >>}
    <2>1. 0 \in 0 .. n
      BY <1>1
    <2>2. \A q \in Seq(R) : Len(q) = 0 <=> q = << >>
      OBVIOUS
    <2>3. << >> \in Seq(R) /\ 1 .. 0 = {}
      OBVIOUS
    <2>4. \A q : q \in g[0] <=> q \in {<< >>}
      BY <1>10, <2>1, <2>2, <2>3
    <2> QED
      BY <2>4
  <1>4. ASSUME NEW k \in 1 .. n PROVE g[k] = step(g, k)
    <2>1. k \in 0 .. n /\ k - 1 \in 0 .. n /\ k - 1 \in Nat /\ k \in Nat /\ (k - 1) + 1 = k
      BY <1>1
    <2>2. ASSUME NEW q \in g[k] PROVE q \in step(g, k)
      <3>1. q \in Seq(R) /\ Len(q) = k /\ \A j \in 1 .. k : q[j] \in Contents(sig[j])
        BY <1>10, <2>1
      <3> DEFINE r == SubSeq(q, 1, k - 1)
      <3>2. r \in Seq(R) /\ Len(r) = k - 1 /\ \A j \in 1 .. k - 1 : r[j] = q[j] /\ j \in 1 .. k
        BY <2>1, <3>1
      <3> HIDE DEF r
      <3>7. \A j \in 1 .. k - 1 : r[j] \in Contents(sig[j])
        BY <3>1, <3>2
      <3>8. k - 1 \in 0 .. n
        BY <2>1
      <3>3. r \in g[k - 1]
        BY Zenon, <1>10, <3>2, <3>7, <3>8
      <3>4. k \in 1 .. k /\ q[k] \in Contents(sig[k])
        BY <2>1, <3>1
      <3>5. q = Append(r, q[k])
        BY <2>1, <3>1 DEF r
      <3>6. \E u \in g[k - 1], b \in Contents(sig[k]) : q = Append(u, b)
        BY <3>3, <3>4, <3>5
      <3> QED
        BY <3>6
    <2>3. ASSUME NEW q \in g[k - 1], NEW b \in Contents(sig[k])
          PROVE  Append(q, b) \in g[k]
      <3>1. q \in Seq(R) /\ Len(q) = k - 1 /\ \A j \in 1 .. k - 1 : q[j] \in Contents(sig[j])
        BY <1>10, <2>1
      <3>2. b \in R
        BY <1>2
      <3>3. Append(q, b) \in Seq(R) /\ Len(Append(q, b)) = k
        BY <2>1, <3>1, <3>2
      <3>4. ASSUME NEW j \in 1 .. k PROVE Append(q, b)[j] \in Contents(sig[j])
        <4>1. j = k \/ j \in 1 .. k - 1
          BY <2>1
        <4> QED
          BY <2>1, <3>1, <3>2, <4>1
      <3> QED
        BY <1>10, <2>1, <3>3, <3>4
    <2>4. \A q : q \in step(g, k) => \E u \in g[k - 1], b \in Contents(sig[k]) : q = Append(u, b)
      OBVIOUS
    <2>5. \A q : q \in g[k] <=> q \in step(g, k)
      <3>1. ASSUME NEW q \in step(g, k) PROVE q \in g[k]
        <4>1. PICK u \in g[k - 1], b \in Contents(sig[k]) : q = Append(u, b)
          BY <2>4
        <4> QED
          BY <2>3, <4>1
      <3> HIDE DEF step
      <3> QED
        BY <2>2, <3>1
    <2> HIDE DEF step
    <2> QED
      BY <2>5
  <1>5. g = [k \in 0 .. n |-> IF k = 0 THEN {<< >>} ELSE step(g, k)]
    <2> HIDE DEF step
    <2>1. ASSUME NEW k \in 0 .. n
          PROVE  g[k] = IF k = 0 THEN {<< >>} ELSE step(g, k)
      <3>1. k = 0 \/ k \in 1 .. n
        BY <1>1
      <3>2. k \in 1 .. n => k # 0
        OBVIOUS
      <3> QED
        BY <1>3, <1>4, <3>1, <3>2, Zenon
    <2> QED
      BY <1>11, <2>1, Zenon
  <1> DEFINE isBodies(f) == f = [k \in 0 .. n |-> IF k = 0 THEN {<< >>} ELSE step(f, k)]
  <1> DEFINE c == CHOOSE f : isBodies(f)
  <1>7. Bodies(sig) = c[n]
    BY DEF Bodies
  <1>6. c = [k \in 0 .. n |-> IF k = 0 THEN {<< >>} ELSE step(c, k)]
    <2> HIDE DEF step
    <2>1. isBodies(g)
      BY <1>5
    <2> HIDE DEF isBodies
    <2>2. isBodies(c)
      BY <2>1
    <2> USE DEF isBodies
    <2> QED
      BY <2>2
  <1> HIDE DEF c
  <1>8. \A k \in 0 .. n : c[k] = g[k]
    <2> DEFINE S == {k \in 0 .. n : c[k] # g[k]}
    <2> SUFFICES ASSUME S # {} PROVE FALSE
      OBVIOUS
    <2>1. S \subseteq Nat
      OBVIOUS
    <2>2. PICK x \in S : \A y \in S : ~(y < x)
      BY <2>1, LeastCounterexample
    <2>3. x # 0
      <3>1. 0 \in 0 .. n
        BY <1>1
      <3> HIDE DEF step
      <3>2. c[0] = {<< >>}
        BY <1>6, <3>1
      <3> QED
        BY <1>3, <3>2
    <2>4. x \in 1 .. n /\ x - 1 \in 0 .. n /\ x - 1 < x
      BY <2>3
    <2>5. c[x - 1] = g[x - 1]
      BY <2>2, <2>4
    <2>6. c[x] = step(c, x) /\ g[x] = step(g, x)
      <3>1. x \in 0 .. n
        OBVIOUS
      <3>2. g[x] = step(g, x)
        BY <1>4, <2>4
      <3> HIDE DEF step
      <3> QED
        BY <1>6, <2>3, <3>1, <3>2
    <2>7. step(c, x) = step(g, x)
      BY <2>5
    <2> HIDE DEF step
    <2> QED
      BY <2>6, <2>7
  <1>9. a \in g[n] /\ n \in 0 .. n
    BY <1>1, <1>7, <1>8
  <1> QED
    BY ONLY <1>1, <1>2, <1>9, <1>10 DEF R
-----------------------------------------------------------------------------
Off == Offset(event.sig, body)

MessageIsTyped ==
    /\ event \in Events /\ event.sig \in Seq(Letters)
    /\ \A k \in 1 .. Len(event.sig) : body[k] \in [len : Nat, nul : BOOLEAN, null : BOOLEAN]

(* Dispatch and AbsorbNewIDs are where the layout says, valid event or not.*)
Walk ==
    /\ pos = Off[arg]
    /\ \A k \in 1 .. Len(at) : at[k] = Off[k]

(* What Dispatch has decoded lay within the body and was proper, and only  *)
(* an invalid event is given up.                                           *)
Careful ==
    /\ pc = "route" => arg = 1
    /\ pc \in {"decode", "handled", "crashed"} =>
         /\ pos <= size
         /\ \A k \in 1 .. arg - 1 : Proper(event.sig[k], body[k])
    /\ pc \in {"handled", "crashed"} => ~More
    /\ pc = "recovered" => ~Valid

WInv == TypeOK /\ MessageIsTyped /\ Walk /\ Careful

(* The layout of the body at hand.                                         *)
LEMMA LayoutFacts ==
    ASSUME MessageIsTyped
    PROVE  /\ Len(event.sig) \in Nat /\ Off[1] = 0
           /\ \A k \in 1 .. Len(event.sig) :
                /\ ArgSize(event.sig[k], body[k]) \in Nat
                /\ Off[k + 1] = Off[k] + ArgSize(event.sig[k], body[k])
           /\ \A k \in 1 .. Len(event.sig) + 1 : Off[k] \in Nat
  <1>1. Len(event.sig) \in Nat
    BY DEF MessageIsTyped
  <1>2. ASSUME NEW k \in 1 .. Len(event.sig) PROVE ArgSize(event.sig[k], body[k]) \in Nat
    <2>1. body[k].len \in Nat
      BY DEF MessageIsTyped
    <2>2. RoundUp(body[k].len) \in Nat
      BY <2>1 DEF RoundUp
    <2> QED
      BY <2>2 DEF ArgSize
  <1> QED
    BY <1>1, <1>2, OffsetFacts DEF Off

LEMMA OffsetsAscend ==
    ASSUME MessageIsTyped, NEW j \in 1 .. Len(event.sig) + 1
    PROVE  \A k \in 1 .. Len(event.sig) + 1 : j <= k => Off[j] <= Off[k]
  <1> DEFINE n == Len(event.sig)
  <1> DEFINE S == {k \in 1 .. n + 1 : j <= k /\ ~(Off[j] <= Off[k])}
  <1> SUFFICES ASSUME S # {} PROVE FALSE
    OBVIOUS
  <1>1. /\ n \in Nat
        /\ \A k \in 1 .. n : /\ ArgSize(event.sig[k], body[k]) \in Nat
                             /\ Off[k + 1] = Off[k] + ArgSize(event.sig[k], body[k])
        /\ \A k \in 1 .. n + 1 : Off[k] \in Nat
    BY LayoutFacts
  <1>2. S \subseteq Nat
    BY <1>1
  <1>3. PICK x \in S : \A y \in S : ~(y < x)
    BY <1>2, LeastCounterexample
  <1>4. x # j
    BY <1>1
  <1>5. /\ x - 1 \in 1 .. n /\ x - 1 \in 1 .. n + 1 /\ x - 1 < x /\ (x - 1) + 1 = x
        /\ j <= x - 1 /\ x \in 1 .. n + 1
    BY <1>1, <1>4
  <1>6. Off[j] <= Off[x - 1]
    BY <1>3, <1>5
  <1>7. Off[x] = Off[x - 1] + ArgSize(event.sig[x - 1], body[x - 1])
    BY <1>1, <1>5
  <1>8. /\ Off[j] \in Nat /\ Off[x - 1] \in Nat /\ ArgSize(event.sig[x - 1], body[x - 1]) \in Nat
        /\ ~(Off[j] <= Off[x])
    BY <1>1, <1>5
  <1> QED
    BY <1>6, <1>7, <1>8

(* The argument to be read next and what it occupies.                      *)
LEMMA ReadingFacts ==
    ASSUME WInv, More
    PROVE  /\ arg \in 1 .. Len(event.sig) /\ arg + 1 \in 1 .. Len(event.sig) + 1
           /\ Letter \in Letters /\ Declared \in Nat
           /\ ArgSize(Letter, body[arg]) \in Nat
           /\ Off[arg + 1] = pos + ArgSize(Letter, body[arg])
           /\ Letter = "h" => ArgSize(Letter, body[arg]) = 0
           /\ Letter \in Variable =>
                /\ ArgSize(Letter, body[arg]) = 4 + PaddedLen(Declared)
                /\ Declared <= PaddedLen(Declared) /\ PaddedLen(Declared) \in Nat
           /\ Letter \notin Variable \cup {"h"} => ArgSize(Letter, body[arg]) = 4
           /\ Letter \in Variable => (Terminated <=> Proper(Letter, body[arg]))
           /\ Letter \notin Variable => Proper(Letter, body[arg])
           /\ Valid => pos + ArgSize(Letter, body[arg]) <= size /\ Proper(Letter, body[arg])
  <1>1. /\ Len(event.sig) \in Nat
        /\ \A k \in 1 .. Len(event.sig) :
              /\ ArgSize(event.sig[k], body[k]) \in Nat
              /\ Off[k + 1] = Off[k] + ArgSize(event.sig[k], body[k])
        /\ \A k \in 1 .. Len(event.sig) + 1 : Off[k] \in Nat
    BY LayoutFacts DEF WInv
  <1>2. arg \in 1 .. Len(event.sig) /\ arg + 1 \in 1 .. Len(event.sig) + 1
    BY <1>1 DEF WInv, TypeOK, More
  <1>3. Letter \in Letters /\ Declared \in Nat
    BY <1>2 DEF WInv, MessageIsTyped, Letter, Declared
  <1>4. ArgSize(Letter, body[arg]) \in Nat /\ Off[arg + 1] = pos + ArgSize(Letter, body[arg])
    BY <1>1, <1>2 DEF WInv, Walk, Letter
  <1>5. /\ PaddedLen(Declared) = RoundUp(Declared) /\ Declared <= PaddedLen(Declared)
        /\ PaddedLen(Declared) \in Nat
    BY <1>3 DEF PaddedLen, RoundUp
  <1>6. /\ Letter = "h" => ArgSize(Letter, body[arg]) = 0
        /\ Letter \in Variable => ArgSize(Letter, body[arg]) = 4 + PaddedLen(Declared)
        /\ Letter \notin Variable \cup {"h"} => ArgSize(Letter, body[arg]) = 4
    BY <1>5 DEF ArgSize, Variable, Strings, Declared
  <1>7. /\ Letter \in Variable => (Terminated <=> Proper(Letter, body[arg]))
        /\ Letter \notin Variable => Proper(Letter, body[arg])
    <2>1. body[arg].nul \in BOOLEAN
      BY <1>2 DEF WInv, MessageIsTyped
    <2> QED
      BY <1>3, <2>1 DEF Terminated, Proper, Variable, Strings, Declared
  <1>8. Valid => pos + ArgSize(Letter, body[arg]) <= size /\ Proper(Letter, body[arg])
    <2> SUFFICES ASSUME Valid PROVE pos + ArgSize(Letter, body[arg]) <= size /\ Proper(Letter, body[arg])
      OBVIOUS
    <2>1. size = Off[Len(event.sig) + 1] /\ \A k \in 1 .. Len(event.sig) : Proper(event.sig[k], body[k])
      BY DEF Valid, WellFormed, Size, Off
    <2>2. Len(event.sig) + 1 \in 1 .. Len(event.sig) + 1 /\ arg + 1 <= Len(event.sig) + 1
      BY <1>1, <1>2
    <2>3. Off[arg + 1] <= size
      BY <1>2, <2>1, <2>2, OffsetsAscend DEF WInv
    <2> QED
      BY <1>2, <1>4, <2>1, <2>3 DEF Letter
  <1> QED
    BY <1>2, <1>3, <1>4, <1>5, <1>6, <1>7, <1>8

-----------------------------------------------------------------------------
LEMMA InitWInv == Init => WInv
  <1> SUFFICES ASSUME Init PROVE WInv
    OBVIOUS
  <1>1. event \in Events /\ event.sig \in Seq(Letters) /\ body \in Bodies(event.sig)
    BY EventDecoderAssumption DEF Init
  <1>2. MessageIsTyped
    <2>1. /\ body \in Seq([len : Nat, nul : BOOLEAN, null : BOOLEAN])
          /\ Len(body) = Len(event.sig)
      BY <1>1, BodiesFacts
    <2> DEFINE R == [len : Nat, nul : BOOLEAN, null : BOOLEAN]
    <2>2. body \in Seq(R) /\ Len(body) = Len(event.sig)
      BY <2>1
    <2> HIDE DEF R
    <2>3. \A k \in 1 .. Len(event.sig) : body[k] \in R
      BY <2>2
    <2> QED
      BY <1>1, <2>3 DEF MessageIsTyped, R
  <1>3. Off[1] = 0 /\ Len(event.sig) \in Nat
    BY <1>2, LayoutFacts
  <1>4. size \in Nat
    BY EventDecoderAssumption DEF Init
  <1>5. TypeOK
    <2>1. introduced \in [1 .. Len(event.sig) -> {"no", "live", "zombie"}]
      BY DEF Init
    <2>2. at \in Seq(Nat) /\ Len(at) = arg - 1 /\ arg \in 1 .. Len(event.sig) + 1
      BY <1>3 DEF Init
    <2> QED
      BY <1>1, <1>4, <2>1, <2>2 DEF Init, TypeOK, Descriptor
  <1>6. Walk /\ Careful
    BY <1>3 DEF Init, Walk, Careful
  <1> QED
    BY <1>2, <1>5, <1>6 DEF WInv

(* A step that reads no argument.                                          *)
LEMMA MoveWInv ==
    ASSUME WInv, UNCHANGED <<message, arg, pos, at, introduced>>,
           pc' \in {"decode", "absorb"} \cup Returned \cup Failed,
           fd' \in Descriptor, fatal' \in BOOLEAN,
           pc' = "decode" => pc = "route",
           pc' \in {"handled", "crashed"} => pc = "decode" /\ ~More,
           pc' = "recovered" => ~Valid
    PROVE  WInv'
  <1>1. event' = event /\ body' = body /\ size' = size /\ zombie' = zombie /\ handler' = handler
    BY DEF message
  <1>2. Off' = Off /\ Valid' = Valid /\ More' = More
    BY <1>1 DEF Off, Offset, Valid, WellFormed, Size, Proper, More
  <1>3. TypeOK'
    BY <1>1 DEF WInv, TypeOK
  <1>4. MessageIsTyped' /\ Walk'
    BY <1>1, <1>2 DEF WInv, MessageIsTyped, Walk
  <1>5. (pos = 0 /\ arg = 1) \/ pc # "route"
    BY LayoutFacts DEF WInv, Walk, Careful
  <1>6. Careful'
    <2>1. size \in Nat
      BY DEF WInv, TypeOK
    <2>2. pc' # "route"
      BY DEF Returned, Failed
    <2>3. pc' \in {"decode", "handled", "crashed"} =>
            pos <= size /\ \A k \in 1 .. arg - 1 : Proper(event.sig[k], body[k])
      BY <1>5, <2>1 DEF WInv, Careful
    <2> QED
      BY <1>1, <1>2, <2>2, <2>3 DEF WInv, Careful, Proper
  <1> QED
    BY <1>3, <1>4, <1>6 DEF WInv

LEMMA FailWInv ==
    ASSUME WInv, NEW r \in Failed, Fail(r), UNCHANGED <<message, arg, pos, at, introduced>>,
           r = "crashed" => pc = "decode" /\ ~More,
           r = "recovered" => ~Valid
    PROVE  WInv'
  <1>1. /\ pc' \in Failed /\ pc' = r /\ pc' \notin {"decode", "handled"}
        /\ fd' \in Descriptor /\ fatal' \in BOOLEAN
    BY DEF Fail, Failed, Descriptor
  <1> QED
    BY <1>1, MoveWInv

(* A step that reads the argument at hand.                                 *)
LEMMA ReadWInv ==
    ASSUME WInv, pc \in {"decode", "absorb"}, More, NEW n, Advance(n),
           n = ArgSize(Letter, body[arg]),
           UNCHANGED <<message, pc, fd, fatal>>,
           introduced' \in [1 .. Len(event.sig) -> {"no", "live", "zombie"}],
           pc = "decode" => pos + n <= size /\ Proper(Letter, body[arg])
    PROVE  WInv'
  <1>1. event' = event /\ body' = body /\ size' = size /\ zombie' = zombie /\ handler' = handler
    BY DEF message
  <1>2. Off' = Off /\ Valid' = Valid
    BY <1>1 DEF Off, Offset, Valid, WellFormed, Size, Proper
  <1>3. /\ arg \in 1 .. Len(event.sig) /\ arg + 1 \in 1 .. Len(event.sig) + 1
        /\ n \in Nat /\ Off[arg + 1] = pos + n
    BY ReadingFacts
  <1>4. pos \in Nat /\ at \in Seq(Nat) /\ Len(at) = arg - 1 /\ Len(event.sig) \in Nat
    BY DEF WInv, TypeOK
  <1>5. pos' = pos + n /\ at' = Append(at, pos) /\ arg' = arg + 1 /\ pos' \in Nat
        /\ at' \in Seq(Nat) /\ Len(at') = arg
    BY <1>3, <1>4 DEF Advance
  <1>6. TypeOK'
    BY <1>1, <1>3, <1>5 DEF WInv, TypeOK
  <1>7. ASSUME NEW k \in 1 .. Len(at') PROVE at'[k] = Off[k]
    <2>1. k = arg \/ k \in 1 .. Len(at)
      BY <1>3, <1>4, <1>5
    <2> QED
      BY <1>3, <1>4, <1>5, <2>1 DEF WInv, Walk
  <1>8. MessageIsTyped' /\ Walk'
    BY <1>1, <1>2, <1>3, <1>5, <1>7 DEF WInv, MessageIsTyped, Walk
  <1>9. pc = "decode" => \A k \in 1 .. arg : Proper(event.sig[k], body[k])
    <2>1. \A k \in 1 .. arg : k = arg \/ k \in 1 .. arg - 1
      BY <1>3
    <2> QED
      BY <2>1 DEF WInv, Careful, Letter
  <1>10. Careful'
    BY <1>1, <1>2, <1>3, <1>5, <1>9 DEF WInv, Careful, Proper
  <1> QED
    BY <1>6, <1>8, <1>10 DEF WInv

-----------------------------------------------------------------------------
LEMMA RouteWInv == ASSUME WInv, Route PROVE WInv'
  <1>1. fd \in Descriptor /\ fatal \in BOOLEAN
    BY DEF WInv, TypeOK
  <1>2. Routed \in Descriptor /\ Closed(Routed) \in Descriptor /\ Ignored(Routed) \in Descriptor
    BY <1>1 DEF Routed, Closed, Ignored, Descriptor
  <1>3. CASE RouteToZombie
    <2>1. /\ UNCHANGED <<message, arg, pos, at, introduced>>
          /\ pc' \in {"absorb", "absorbed"} /\ fd' \in Descriptor /\ fatal' \in BOOLEAN
      BY <1>1, <1>2, <1>3 DEF RouteToZombie, Goes
    <2> QED
      BY <2>1, MoveWInv DEF Returned
  <1>4. CASE RouteToNoDispatcher
    BY <1>4, FailWInv DEF RouteToNoDispatcher, Failed
  <1>5. CASE UnknownOpcode
    BY <1>5, FailWInv DEF UnknownOpcode, Panic, Failed, Valid
  <1>6. CASE RouteToNoHandler
    <2>1. /\ UNCHANGED <<message, arg, pos, at, introduced>>
          /\ pc' = "unhandled" /\ fd' \in Descriptor /\ fatal' \in BOOLEAN
      BY <1>1, <1>2, <1>6 DEF RouteToNoHandler, Goes
    <2> QED
      BY <2>1, MoveWInv DEF Returned
  <1>7. CASE RouteToDispatch
    <2>1. /\ UNCHANGED <<message, arg, pos, at, introduced>> /\ pc = "route"
          /\ pc' = "decode" /\ fd' \in Descriptor /\ fatal' \in BOOLEAN
      BY <1>1, <1>2, <1>7 DEF RouteToDispatch, Goes
    <2> QED
      BY <2>1, MoveWInv
  <1> QED
    BY <1>3, <1>4, <1>5, <1>6, <1>7 DEF Route

(* A server that encoded the event correctly meets none of the panics.     *)
LEMMA PanicWInv ==
    ASSUME WInv, Truncated \/ DecodeBadVariable \/ AbsorbBadVariable
    PROVE  WInv'
  <1>1. More /\ Letter # "h" /\ Panic
    BY DEF Truncated, DecodeBadVariable, AbsorbBadVariable, Reading, Variable, Strings
  <1>2. /\ pos \in Nat /\ size \in Nat /\ Declared \in Nat
    BY <1>1, ReadingFacts DEF WInv, TypeOK
  <1>3. ASSUME Valid PROVE FALSE
    <2>1. /\ pos + ArgSize(Letter, body[arg]) <= size /\ Proper(Letter, body[arg])
          /\ ArgSize(Letter, body[arg]) \in Nat
          /\ Letter \in Variable =>
               /\ ArgSize(Letter, body[arg]) = 4 + PaddedLen(Declared)
               /\ Declared <= PaddedLen(Declared) /\ PaddedLen(Declared) \in Nat
               /\ Terminated
          /\ Letter \notin Variable => ArgSize(Letter, body[arg]) = 4
      BY <1>1, <1>3, ReadingFacts
    <2>2. Fits(4) /\ (Letter \in Variable => LengthFits /\ PaddingFits /\ Terminated)
      BY <1>2, <2>1 DEF Fits, LengthFits, PaddingFits
    <2> QED
      BY <2>2 DEF Truncated, DecodeBadVariable, AbsorbBadVariable, Reading
  <1> QED
    BY <1>1, <1>3, FailWInv DEF Panic, Failed

LEMMA DecodeWInv == ASSUME WInv, Decode PROVE WInv'
  <1>1. pc = "decode" /\ fd \in Descriptor /\ pos \in Nat /\ size \in Nat /\ event \in Events
        /\ introduced \in [1 .. Len(event.sig) -> {"no", "live", "zombie"}]
    BY DEF WInv, TypeOK, MessageIsTyped, Decode, DecodeWord, DecodeFD, DecodeNewID, DecodeVariable,
           DecodeBadVariable, Deliver, HandlerPanics, DropUnhandled, Decoded
  <1>2. CASE DecodeWord
    <2>1. More /\ Letter \notin Variable \cup {"h"} /\ Fits(4) /\ Reads(4)
      BY <1>2 DEF DecodeWord, Reading, Words, Variable, Strings
    <2>2. 4 = ArgSize(Letter, body[arg]) /\ Proper(Letter, body[arg])
      BY <2>1, ReadingFacts
    <2> QED
      BY <1>1, <2>1, <2>2, ReadWInv DEF Reads, Fits
  <1>3. CASE DecodeFD
    <2>1. More /\ Letter = "h" /\ Reads(0)
      BY <1>3 DEF DecodeFD, Reading
    <2>2. 0 = ArgSize(Letter, body[arg]) /\ Proper(Letter, body[arg])
      BY <2>1, ReadingFacts DEF Variable, Strings
    <2>3. pos + 0 <= size
      BY <1>1 DEF WInv, Careful
    <2> QED
      BY <1>1, <2>1, <2>2, <2>3, ReadWInv DEF Reads
  <1>4. CASE DecodeNewID
    <2>1. More /\ Letter \notin Variable \cup {"h"} /\ Fits(4) /\ Introduce("live")
      BY <1>4 DEF DecodeNewID, Reading, Variable, Strings
    <2>2. 4 = ArgSize(Letter, body[arg]) /\ Proper(Letter, body[arg])
      BY <2>1, ReadingFacts
    <2>3. introduced' \in [1 .. Len(event.sig) -> {"no", "live", "zombie"}]
      BY <1>1, <2>1 DEF Introduce
    <2> QED
      BY <1>1, <2>1, <2>2, <2>3, ReadWInv DEF Introduce, Fits
  <1>5. CASE DecodeVariable
    <2>1. /\ More /\ Letter \in Variable /\ PaddingFits /\ Terminated
          /\ Reads(4 + PaddedLen(Declared))
      BY <1>5 DEF DecodeVariable, Reading
    <2>2. 4 + PaddedLen(Declared) = ArgSize(Letter, body[arg]) /\ Proper(Letter, body[arg])
      BY <2>1, ReadingFacts
    <2> QED
      BY <1>1, <2>1, <2>2, ReadWInv DEF Reads, Fits, PaddingFits
  <1>6. CASE DecodeBadVariable
    BY <1>6, PanicWInv
  <1>7. CASE Deliver
    <2>1. /\ UNCHANGED <<message, arg, pos, at, introduced>> /\ ~More
          /\ pc' = "handled" /\ fd' \in Descriptor /\ fatal' = event.fails
      BY <1>1, <1>7 DEF Deliver, Completes, Decoded, Descriptor
    <2> QED
      BY <1>1, <2>1, MoveWInv, EventDecoderAssumption DEF Returned
  <1>8. CASE HandlerPanics
    BY <1>1, <1>8, FailWInv DEF HandlerPanics, Decoded, Failed
  <1>9. CASE DropUnhandled
    <2>1. /\ UNCHANGED <<message, arg, pos, at, introduced>>
          /\ pc' = "unhandled" /\ fd' \in Descriptor /\ fatal' = event.fails
      BY <1>1, <1>9 DEF DropUnhandled, Completes, Ignored, Closed, Descriptor
    <2> QED
      BY <1>1, <2>1, MoveWInv, EventDecoderAssumption DEF Returned
  <1> QED
    BY <1>2, <1>3, <1>4, <1>5, <1>6, <1>7, <1>8, <1>9 DEF Decode

LEMMA AbsorbWInv == ASSUME WInv, Absorb PROVE WInv'
  <1>1. pc = "absorb" /\ fd \in Descriptor /\ fatal \in BOOLEAN
        /\ introduced \in [1 .. Len(event.sig) -> {"no", "live", "zombie"}]
    BY DEF WInv, TypeOK, Absorb, AbsorbWord, AbsorbFD, AbsorbNewID, AbsorbVariable,
           AbsorbBadVariable, Absorbed
  <1>2. CASE AbsorbWord
    <2>1. More /\ Letter \notin Variable \cup {"h"} /\ Reads(4)
      BY <1>2 DEF AbsorbWord, Reading, Words, Variable, Strings
    <2>2. 4 = ArgSize(Letter, body[arg])
      BY <2>1, ReadingFacts
    <2> QED
      BY <1>1, <2>1, <2>2, ReadWInv DEF Reads
  <1>3. CASE AbsorbFD
    <2>1. More /\ Letter = "h" /\ Reads(0)
      BY <1>3 DEF AbsorbFD, Reading
    <2>2. 0 = ArgSize(Letter, body[arg])
      BY <2>1, ReadingFacts
    <2> QED
      BY <1>1, <2>1, <2>2, ReadWInv DEF Reads
  <1>4. CASE AbsorbNewID
    <2>1. More /\ Letter \notin Variable \cup {"h"} /\ Introduce("zombie")
      BY <1>4 DEF AbsorbNewID, Reading, Variable, Strings
    <2>2. 4 = ArgSize(Letter, body[arg])
      BY <2>1, ReadingFacts
    <2>3. introduced' \in [1 .. Len(event.sig) -> {"no", "live", "zombie"}]
      BY <1>1, <2>1 DEF Introduce
    <2> QED
      BY <1>1, <2>1, <2>2, <2>3, ReadWInv DEF Introduce
  <1>5. CASE AbsorbVariable
    <2>1. More /\ Letter \in Variable /\ Reads(4 + PaddedLen(Declared))
      BY <1>5 DEF AbsorbVariable, Reading
    <2>2. 4 + PaddedLen(Declared) = ArgSize(Letter, body[arg])
      BY <2>1, ReadingFacts
    <2> QED
      BY <1>1, <2>1, <2>2, ReadWInv DEF Reads
  <1>6. CASE AbsorbBadVariable
    BY <1>6, PanicWInv
  <1>7. CASE Absorbed
    <2>1. /\ UNCHANGED <<message, arg, pos, at, introduced>>
          /\ pc' = "absorbed" /\ fd' \in Descriptor /\ fatal' \in BOOLEAN
      BY <1>1, <1>7 DEF Absorbed, Goes
    <2> QED
      BY <2>1, MoveWInv DEF Returned
  <1> QED
    BY <1>2, <1>3, <1>4, <1>5, <1>6, <1>7 DEF Absorb

LEMMA NextWInv == WInv /\ [Next]_vars => WInv'
  <1> SUFFICES ASSUME WInv, [Next]_vars PROVE WInv'
    OBVIOUS
  <1>1. CASE UNCHANGED vars
    <2>1. /\ event' = event /\ body' = body /\ size' = size /\ zombie' = zombie
          /\ handler' = handler /\ pc' = pc /\ arg' = arg /\ pos' = pos /\ at' = at
          /\ fd' = fd /\ introduced' = introduced /\ fatal' = fatal
      BY <1>1 DEF vars, message
    <2>2. Off' = Off /\ Valid' = Valid /\ More' = More
      BY <2>1 DEF Off, Offset, Valid, WellFormed, Size, Proper, More
    <2>3. TypeOK' /\ MessageIsTyped'
      BY <2>1 DEF WInv, TypeOK, MessageIsTyped
    <2>4. Walk' /\ Careful'
      BY <2>1, <2>2 DEF WInv, Walk, Careful, Proper
    <2> QED
      BY <2>3, <2>4 DEF WInv
  <1> QED
    BY <1>1, RouteWInv, PanicWInv, DecodeWInv, AbsorbWInv DEF Next, Rest

LEMMA WalkInvariance == Spec => []WInv
  BY InitWInv, NextWInv, PTL DEF Spec

-----------------------------------------------------------------------------
(* The decoders keep their types, for events of any signature and bodies   *)
(* of any contents.                                                        *)
THEOREM TypeCorrect == Spec => []TypeOK
  <1>1. WInv => TypeOK
    BY DEF WInv
  <1> QED
    BY <1>1, WalkInvariance, PTL

(* For events of any signature: one that the server encoded correctly is   *)
(* never given up, and Dispatch and AbsorbNewIDs read each of its          *)
(* arguments where the server put it, up to the last byte.                 *)
THEOREM ValidEventsAreReadInPlace == Spec => []ValidEventIsReadInPlace
  <1>1. WInv => ValidEventIsReadInPlace
    <2> SUFFICES ASSUME WInv, Valid
                 PROVE  /\ pc # "recovered"
                        /\ \A k \in 1 .. Len(at) : at[k] = Off[k]
                        /\ arg > Len(event.sig) => pos = size
      BY DEF ValidEventIsReadInPlace, Off
    <2>1. size = Off[Len(event.sig) + 1]
      BY DEF Valid, WellFormed, Size, Off
    <2>2. arg \in 1 .. Len(event.sig) + 1 /\ Len(event.sig) \in Nat
      BY DEF WInv, TypeOK
    <2>3. arg > Len(event.sig) => arg = Len(event.sig) + 1
      BY <2>2
    <2> QED
      BY <2>1, <2>3 DEF WInv, Walk, Careful
  <1> QED
    BY <1>1, WalkInvariance, PTL

(* For events of any signature and whatever lengths the server declares: a *)
(* handler is only called with arguments that lay within the body, strings *)
(* terminated.                                                             *)
THEOREM HandlersSeeOnlyTheBody == Spec => []HandlerSeesOnlyTheBody
  <1>1. WInv => HandlerSeesOnlyTheBody
    <2> SUFFICES ASSUME WInv, pc \in {"handled", "crashed"}
                 PROVE  /\ Size(event.sig, body) <= size
                        /\ \A k \in 1 .. Len(event.sig) : Proper(event.sig[k], body[k])
      BY DEF HandlerSeesOnlyTheBody
    <2>1. arg \in 1 .. Len(event.sig) + 1 /\ Len(event.sig) \in Nat /\ ~More
      BY DEF WInv, TypeOK, Careful
    <2>2. arg = Len(event.sig) + 1 /\ arg - 1 = Len(event.sig)
      BY <2>1 DEF More
    <2> QED
      BY <2>2 DEF WInv, Walk, Careful, Size, Off
  <1> QED
    BY <1>1, WalkInvariance, PTL
=============================================================================
