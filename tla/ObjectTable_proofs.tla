------------------------- MODULE ObjectTable_proofs -------------------------
(***************************************************************************)
(* Proofs about the object table, for every number of proxies and every    *)
(* size of the two ID ranges.                                              *)
(***************************************************************************)
EXTENDS ObjectTable, TLAPS

(* The inductive invariant: the stack is sound only together with the      *)
(* types, with the counter bounding the registered client IDs, and with    *)
(* the proxies knowing their own IDs.                                      *)
IInv == TypeOK /\ FreeListSound /\ CounterCoversClientIDs /\ IdentityAgrees

(* A prefix of the stack, and the stack with one more ID, element by       *)
(* element.                                                                *)
LEMMA PrefixFacts ==
    ASSUME NEW S, NEW s \in Seq(S), NEW i \in 1 .. Len(s)
    PROVE  /\ SubSeq(s, 1, i - 1) \in Seq(S)
           /\ Len(SubSeq(s, 1, i - 1)) = i - 1
           /\ \A j \in 1 .. i - 1 : SubSeq(s, 1, i - 1)[j] = s[j]
OBVIOUS

LEMMA PushFacts ==
    ASSUME NEW S, NEW s \in Seq(S), NEW x \in S
    PROVE  /\ Append(s, x) \in Seq(S)
           /\ Len(Append(s, x)) = Len(s) + 1
           /\ \A j \in 1 .. Len(s) : Append(s, x)[j] = s[j]
           /\ Append(s, x)[Len(s) + 1] = x
OBVIOUS

-----------------------------------------------------------------------------
LEMMA InitIInv == Init => IInv
BY ObjectTableAssumption
   DEF Init, IInv, TypeOK, FreeListSound, CounterCoversClientIDs, IdentityAgrees,
       ClientIDs, IDs, DisplayID, Live

(* Binding p at n keeps the parts of the invariant that the table and the  *)
(* proxies carry.                                                          *)
LEMMA BindTable ==
    ASSUME IInv, NEW p \in Proxies, NEW n \in IDs, p \notin Registered, Bind(p, n)
    PROVE  /\ DOMAIN objects' = DOMAIN objects \cup {n}
           /\ objects' = [m \in DOMAIN objects' |-> objects'[m]]
           /\ \A m \in DOMAIN objects' : objects'[m] \in Proxies
           /\ IdentityAgrees'
           /\ pid' \in [Proxies -> 0 .. MaxID]
           /\ zombie' \in [Proxies -> BOOLEAN]
           /\ outcome' \in {"ok", "panic"}
<1>1. /\ DOMAIN objects' = DOMAIN objects \cup {n}
      /\ objects'[n] = p
      /\ \A m \in DOMAIN objects : m # n => objects'[m] = objects[m]
      /\ objects' = [m \in DOMAIN objects' |-> objects'[m]]
  BY DEF Bind, Bound
<1>2. \A m \in DOMAIN objects' : objects'[m] \in Proxies
  BY <1>1 DEF IInv, TypeOK
<1>3. /\ pid' \in [Proxies -> 0 .. MaxID]
      /\ pid'[p] = n
      /\ \A q \in Proxies : q # p => pid'[q] = pid[q]
  BY ObjectTableAssumption DEF Bind, IInv, TypeOK, IDs
<1>4. IdentityAgrees'
  <2> SUFFICES ASSUME NEW m \in DOMAIN objects' PROVE pid'[objects'[m]] = m
    BY DEF IdentityAgrees
  <2>1. CASE m = n
    BY <2>1, <1>1, <1>3
  <2>2. CASE m # n
    <3>1. m \in DOMAIN objects /\ objects'[m] = objects[m]
      BY <2>2, <1>1
    <3>2. objects[m] # p /\ objects[m] \in Proxies
      BY <3>1 DEF Registered, IInv, TypeOK
    <3> QED BY <3>1, <3>2, <1>3 DEF IInv, IdentityAgrees
  <2> QED BY <2>1, <2>2
<1> QED BY <1>1, <1>2, <1>3, <1>4 DEF Bind, IInv, TypeOK

LEMMA RegisterRecycledIInv ==
    ASSUME IInv, NEW p \in Proxies, RegisterRecycled(p)
    PROVE  IInv'
<1>1. PICK i \in 1 .. Len(freeIDs) :
          /\ TopUsable(i)
          /\ freeIDs' = SubSeq(freeIDs, 1, i - 1)
          /\ Bind(p, freeIDs[i])
  BY DEF RegisterRecycled
<1>2. freeIDs \in Seq(ClientIDs) /\ currentID \in ClientIDs /\ currentID' = currentID
  BY DEF IInv, TypeOK, RegisterRecycled
<1> DEFINE n == freeIDs[i]
<1>3. /\ n \in DisplayID + 1 .. currentID
      /\ n \in ClientIDs
  BY <1>2 DEF IInv, FreeListSound
<1>4. n \in IDs
  BY <1>3, ObjectTableAssumption DEF ClientIDs, IDs
<1>5. p \notin Registered
  BY DEF RegisterRecycled
<1> HIDE DEF n
<1>6. /\ DOMAIN objects' = DOMAIN objects \cup {n}
      /\ objects' = [m \in DOMAIN objects' |-> objects'[m]]
      /\ \A m \in DOMAIN objects' : objects'[m] \in Proxies
      /\ IdentityAgrees'
      /\ pid' \in [Proxies -> 0 .. MaxID]
      /\ zombie' \in [Proxies -> BOOLEAN]
      /\ outcome' \in {"ok", "panic"}
  <2>1. Bind(p, n)
    BY <1>1 DEF n
  <2> QED BY <2>1, <1>4, <1>5, BindTable
<1>7. /\ freeIDs' \in Seq(ClientIDs)
      /\ Len(freeIDs') = i - 1
      /\ \A j \in 1 .. i - 1 : freeIDs'[j] = freeIDs[j]
  BY <1>1, <1>2, PrefixFacts
<1>8. TypeOK'
  BY <1>2, <1>4, <1>6, <1>7 DEF IInv, TypeOK
<1>9. FreeListSound'
  <2>1. \A j, k \in 1 .. Len(freeIDs') : freeIDs'[j] = freeIDs'[k] => j = k
    BY <1>2, <1>7 DEF IInv, FreeListSound
  <2>2. ASSUME NEW j \in 1 .. Len(freeIDs')
        PROVE  freeIDs'[j] \notin DOMAIN objects' /\ freeIDs'[j] \in DisplayID + 1 .. currentID'
    <3>1. j \in 1 .. Len(freeIDs) /\ j # i /\ freeIDs'[j] = freeIDs[j]
      BY <1>2, <1>7
    <3>2. freeIDs[j] # n
      BY <3>1 DEF IInv, FreeListSound, n
    <3> QED BY <3>1, <3>2, <1>2, <1>6 DEF IInv, FreeListSound, Live
  <2> QED BY <2>1, <2>2 DEF FreeListSound, Live
<1>10. CounterCoversClientIDs'
  BY <1>2, <1>3, <1>6, ObjectTableAssumption
     DEF IInv, CounterCoversClientIDs, ClientIDs, DisplayID
<1> QED BY <1>6, <1>8, <1>9, <1>10 DEF IInv

LEMMA RegisterNewIInv ==
    ASSUME IInv, NEW p \in Proxies, RegisterNew(p)
    PROVE  IInv'
<1>1. PICK n \in currentID + 1 .. FirstServerID - 1 :
          /\ currentID' = n
          /\ Bind(p, n)
  BY DEF RegisterNew
<1>2. p \notin Registered /\ freeIDs' = << >>
  BY DEF RegisterNew
<1>3. /\ currentID \in ClientIDs
      /\ n \in IDs /\ n \in ClientIDs /\ currentID < n
  BY ObjectTableAssumption DEF IInv, TypeOK, IDs, ClientIDs
<1>4. /\ DOMAIN objects' = DOMAIN objects \cup {n}
      /\ objects' = [m \in DOMAIN objects' |-> objects'[m]]
      /\ \A m \in DOMAIN objects' : objects'[m] \in Proxies
      /\ IdentityAgrees'
      /\ pid' \in [Proxies -> 0 .. MaxID]
      /\ zombie' \in [Proxies -> BOOLEAN]
      /\ outcome' \in {"ok", "panic"}
  BY <1>1, <1>2, <1>3, BindTable
<1>5. TypeOK'
  BY <1>1, <1>2, <1>3, <1>4 DEF IInv, TypeOK
<1>6. FreeListSound'
  BY <1>2 DEF FreeListSound
<1>7. CounterCoversClientIDs'
  BY <1>1, <1>3, <1>4, ObjectTableAssumption
     DEF IInv, TypeOK, CounterCoversClientIDs, ClientIDs, IDs
<1> QED BY <1>4, <1>5, <1>6, <1>7 DEF IInv

(* Exhaustion is met only with the counter already at its limit.           *)
LEMMA CounterAtLimit ==
    ASSUME IInv, \A n \in currentID + 1 .. FirstServerID - 1 : Live(n)
    PROVE  currentID = FirstServerID - 1
<1> SUFFICES ASSUME currentID # FirstServerID - 1 PROVE FALSE
  OBVIOUS
<1>1. currentID \in 1 .. FirstServerID - 1
  BY DEF IInv, TypeOK, ClientIDs
<1>2. Live(currentID + 1) /\ currentID + 1 < FirstServerID
  BY <1>1, ObjectTableAssumption
<1> QED BY <1>1, <1>2, ObjectTableAssumption DEF IInv, CounterCoversClientIDs, Live

LEMMA RegisterExhaustedIInv ==
    ASSUME IInv, NEW p \in Proxies, RegisterExhausted(p)
    PROVE  IInv'
<1>1. /\ UNCHANGED <<objects, pid, zombie, currentID>>
      /\ freeIDs' = << >>
      /\ outcome' = "panic"
  BY CounterAtLimit DEF RegisterExhausted
<1>2. TypeOK'
  BY <1>1 DEF IInv, TypeOK
<1>3. FreeListSound' /\ CounterCoversClientIDs' /\ IdentityAgrees'
  BY <1>1 DEF IInv, FreeListSound, CounterCoversClientIDs, IdentityAgrees
<1> QED BY <1>2, <1>3 DEF IInv

LEMMA RegisterWithIDIInv ==
    ASSUME IInv, NEW p \in Proxies, NEW n \in IDs, RegisterWithID(p, n)
    PROVE  IInv'
<1>1. UNCHANGED <<freeIDs, currentID>> /\ p \notin Registered
  BY DEF RegisterWithID
<1>2. CASE Acceptable(n) /\ Bind(p, n)
  <2>1. /\ DOMAIN objects' = DOMAIN objects \cup {n}
        /\ objects' = [m \in DOMAIN objects' |-> objects'[m]]
        /\ \A m \in DOMAIN objects' : objects'[m] \in Proxies
        /\ IdentityAgrees'
        /\ pid' \in [Proxies -> 0 .. MaxID]
        /\ zombie' \in [Proxies -> BOOLEAN]
        /\ outcome' \in {"ok", "panic"}
    BY <1>1, <1>2, BindTable
  <2>2. n \in Int /\ n >= FirstServerID
    BY <1>2, ObjectTableAssumption DEF Acceptable, ServerIDs
  <2>3. TypeOK'
    BY <1>1, <2>1 DEF IInv, TypeOK
  <2>4. FreeListSound'
    BY <1>1, <2>1, <2>2, ObjectTableAssumption
       DEF IInv, TypeOK, FreeListSound, Live, ClientIDs
  <2>5. CounterCoversClientIDs'
    BY <1>1, <2>1, <2>2, ObjectTableAssumption DEF IInv, CounterCoversClientIDs
  <2> QED BY <2>1, <2>3, <2>4, <2>5 DEF IInv
<1>3. CASE outcome' = "panic" /\ UNCHANGED <<objects, pid, zombie>>
  BY <1>1, <1>3
     DEF IInv, TypeOK, FreeListSound, CounterCoversClientIDs, IdentityAgrees, Live
<1> QED BY <1>2, <1>3 DEF RegisterWithID

(* Removing an entry keeps what the table and the proxies carry.           *)
LEMMA WithoutTable ==
    ASSUME IInv, NEW n, objects' = Without(n), UNCHANGED <<pid, zombie, currentID>>
    PROVE  /\ DOMAIN objects' = DOMAIN objects \ {n}
           /\ objects' = [m \in DOMAIN objects' |-> objects'[m]]
           /\ \A m \in DOMAIN objects' : objects'[m] \in Proxies
           /\ IdentityAgrees' /\ CounterCoversClientIDs'
<1>1. /\ DOMAIN objects' = DOMAIN objects \ {n}
      /\ \A m \in DOMAIN objects' : objects'[m] = objects[m]
      /\ objects' = [m \in DOMAIN objects' |-> objects'[m]]
  BY DEF Without
<1> QED BY <1>1 DEF IInv, TypeOK, IdentityAgrees, CounterCoversClientIDs

LEMMA UnregisterIInv ==
    ASSUME IInv, NEW p \in Proxies, Unregister(p)
    PROVE  IInv'
<1>1. /\ objects' = Without(pid[p]) /\ outcome' = "ok"
      /\ UNCHANGED <<freeIDs, currentID, pid, zombie>>
  BY DEF Unregister
<1>2. /\ DOMAIN objects' = DOMAIN objects \ {pid[p]}
      /\ objects' = [m \in DOMAIN objects' |-> objects'[m]]
      /\ \A m \in DOMAIN objects' : objects'[m] \in Proxies
      /\ IdentityAgrees' /\ CounterCoversClientIDs'
  BY <1>1, WithoutTable
<1>3. TypeOK'
  BY <1>1, <1>2 DEF IInv, TypeOK
<1>4. FreeListSound'
  BY <1>1, <1>2 DEF IInv, FreeListSound, Live
<1> QED BY <1>2, <1>3, <1>4 DEF IInv

LEMMA DeleteIDIInv ==
    ASSUME IInv, NEW n \in IDs, DeleteID(n)
    PROVE  IInv'
<1>1. outcome' = "ok" /\ UNCHANGED <<currentID, pid, zombie>>
  BY DEF DeleteID
<1>2. CASE ~Live(n) /\ UNCHANGED <<objects, freeIDs>>
  BY <1>1, <1>2
     DEF IInv, TypeOK, FreeListSound, CounterCoversClientIDs, IdentityAgrees, Live
<1>3. CASE /\ Live(n)
           /\ objects' = Without(n)
           /\ freeIDs' = IF Recyclable(n) THEN Append(freeIDs, n) ELSE freeIDs
  <2>1. /\ DOMAIN objects' = DOMAIN objects \ {n}
        /\ objects' = [m \in DOMAIN objects' |-> objects'[m]]
        /\ \A m \in DOMAIN objects' : objects'[m] \in Proxies
        /\ IdentityAgrees' /\ CounterCoversClientIDs'
    BY <1>1, <1>3, WithoutTable
  <2>2. freeIDs \in Seq(ClientIDs)
    BY DEF IInv, TypeOK
  <2>3. CASE Recyclable(n)
    <3>1. n \in ClientIDs /\ n \in DisplayID + 1 .. currentID
      BY <1>3, <2>3, ObjectTableAssumption
         DEF Recyclable, ClientIDs, IDs, DisplayID, IInv, TypeOK, CounterCoversClientIDs, Live
    <3>2. /\ freeIDs' \in Seq(ClientIDs)
          /\ Len(freeIDs') = Len(freeIDs) + 1
          /\ \A j \in 1 .. Len(freeIDs) : freeIDs'[j] = freeIDs[j]
          /\ freeIDs'[Len(freeIDs) + 1] = n
      BY <1>3, <2>2, <2>3, <3>1, PushFacts
    <3>3. \A j \in 1 .. Len(freeIDs) : freeIDs[j] # n
      BY <1>3 DEF IInv, FreeListSound
    <3>4. \A j, k \in 1 .. Len(freeIDs') : freeIDs'[j] = freeIDs'[k] => j = k
      BY <2>2, <3>2, <3>3 DEF IInv, FreeListSound
    <3>5. \A j \in 1 .. Len(freeIDs') :
             freeIDs'[j] \notin DOMAIN objects' /\ freeIDs'[j] \in DisplayID + 1 .. currentID'
      BY <1>1, <2>1, <2>2, <3>1, <3>2 DEF IInv, FreeListSound, Live
    <3>6. TypeOK'
      BY <1>1, <2>1, <3>2 DEF IInv, TypeOK
    <3> QED BY <2>1, <3>4, <3>5, <3>6 DEF IInv, FreeListSound, Live
  <2>4. CASE ~Recyclable(n)
    <3>1. freeIDs' = freeIDs
      BY <1>3, <2>4
    <3>2. TypeOK'
      BY <1>1, <2>1, <3>1 DEF IInv, TypeOK
    <3>3. FreeListSound'
      BY <1>1, <2>1, <3>1 DEF IInv, FreeListSound, Live
    <3> QED BY <2>1, <3>2, <3>3 DEF IInv
  <2> QED BY <2>3, <2>4
<1> QED BY <1>2, <1>3 DEF DeleteID

LEMMA MarkZombieIInv ==
    ASSUME IInv, NEW p \in Proxies, MarkZombie(p)
    PROVE  IInv'
BY DEF MarkZombie, IInv, TypeOK, FreeListSound, CounterCoversClientIDs, IdentityAgrees, Live

-----------------------------------------------------------------------------
(* Every call of the table's interface keeps the invariant.                *)
LEMMA NextIInv == IInv /\ [Next]_vars => IInv'
<1> SUFFICES ASSUME IInv, [Next]_vars PROVE IInv'
  OBVIOUS
<1>1. ASSUME NEW p \in Proxies, Register(p) PROVE IInv'
  BY <1>1, RegisterRecycledIInv, RegisterNewIInv, RegisterExhaustedIInv DEF Register
<1>2. ASSUME NEW p \in Proxies, Unregister(p) PROVE IInv'
  BY <1>2, UnregisterIInv
<1>3. ASSUME NEW p \in Proxies, MarkZombie(p) PROVE IInv'
  BY <1>3, MarkZombieIInv
<1>4. ASSUME NEW p \in Proxies, NEW n \in IDs, RegisterWithID(p, n) PROVE IInv'
  BY <1>4, RegisterWithIDIInv
<1>5. ASSUME NEW n \in IDs, DeleteID(n) PROVE IInv'
  BY <1>5, DeleteIDIInv
<1>6. CASE UNCHANGED vars
  BY <1>6
     DEF vars, IInv, TypeOK, FreeListSound, CounterCoversClientIDs, IdentityAgrees, Live
<1> QED BY <1>1, <1>2, <1>3, <1>4, <1>5, <1>6 DEF Next

(* The table, the stack and the proxies stay well typed under any calls.   *)
THEOREM TypeCorrect == Spec => []TypeOK
<1>1. Spec => []IInv
  BY InitIInv, NextIInv, PTL DEF Spec
<1>2. IInv => TypeOK
  BY DEF IInv
<1> QED BY <1>1, <1>2, PTL

(* The recycle stack never holds an ID twice, one in use, the display's,   *)
(* or one from the server's range (Context.DeleteID, Context.Register).    *)
THEOREM FreeListIsSound == Spec => []FreeListSound
<1>1. Spec => []IInv
  BY InitIInv, NextIInv, PTL DEF Spec
<1>2. IInv => FreeListSound
  BY DEF IInv
<1> QED BY <1>1, <1>2, PTL

(* The ID a proxy writes into its requests is the ID the table routes its  *)
(* events by.                                                              *)
THEOREM IdentitiesAgree == Spec => []IdentityAgrees
<1>1. Spec => []IInv
  BY InitIInv, NextIInv, PTL DEF Spec
<1>2. IInv => IdentityAgrees
  BY DEF IInv
<1> QED BY <1>1, <1>2, PTL

-----------------------------------------------------------------------------
LEMMA NextReplacesOnlyZombies ==
    ASSUME IInv, Next
    PROVE  ReplacesOnlyZombies
<1> USE DEF ReplacesOnlyZombies
<1>1. ASSUME NEW p \in Proxies, NEW k, k \notin DOMAIN objects, Bind(p, k)
      PROVE  ReplacesOnlyZombies
  BY <1>1 DEF Bind, Bound
<1>2. ASSUME NEW k, objects' = Without(k)
      PROVE  ReplacesOnlyZombies
  BY <1>2 DEF Without
<1>3. ASSUME NEW p \in Proxies, RegisterRecycled(p)
      PROVE  ReplacesOnlyZombies
  BY <1>1, <1>3 DEF RegisterRecycled, TopUsable, Live
<1>4. ASSUME NEW p \in Proxies, RegisterNew(p)
      PROVE  ReplacesOnlyZombies
  BY <1>1, <1>4 DEF RegisterNew, Live
<1>5. ASSUME NEW p \in Proxies, NEW n \in IDs, RegisterWithID(p, n)
      PROVE  ReplacesOnlyZombies
  <2>1. CASE Acceptable(n) /\ Bind(p, n)
    BY <2>1 DEF Acceptable, Live, Bind, Bound
  <2>2. CASE UNCHANGED objects
    BY <2>2
  <2> QED BY <1>5, <2>1, <2>2 DEF RegisterWithID
<1>6. CASE UNCHANGED objects
  BY <1>6
<1>7. ASSUME NEW n \in IDs, DeleteID(n)
      PROVE  ReplacesOnlyZombies
  BY <1>2, <1>6, <1>7 DEF DeleteID
<1>8. ASSUME NEW p \in Proxies, RegisterExhausted(p) \/ MarkZombie(p)
      PROVE  ReplacesOnlyZombies
  BY <1>6, <1>8 DEF RegisterExhausted, MarkZombie
<1>9. ASSUME NEW p \in Proxies, Unregister(p)
      PROVE  ReplacesOnlyZombies
  BY <1>2, <1>9 DEF Unregister
<1> QED BY <1>3, <1>4, <1>5, <1>7, <1>8, <1>9 DEF Next, Register

(* No call hands the ID of a live object to another one; RegisterWithID    *)
(* may replace a zombie (Context.RegisterWithID).                          *)
THEOREM LiveObjectsKeepTheirIDs == Spec => OnlyZombiesReplaced
<1>1. Spec => []IInv
  BY InitIInv, NextIInv, PTL DEF Spec
<1>2. IInv /\ [Next]_vars => [ReplacesOnlyZombies]_vars
  BY NextReplacesOnlyZombies
<1> QED BY <1>1, <1>2, PTL DEF Spec, OnlyZombiesReplaced

-----------------------------------------------------------------------------
(* The refinement: each call changes the life of at most one client ID,    *)
(* along an edge of IDLifecycle.                                           *)
LEMMA IDStateAt ==
    ASSUME NEW n \in ClientIDs
    PROVE  IDState[n] = IF n \in DOMAIN objects THEN "held"
                        ELSE IF n \in SeqRange(freeIDs) THEN "ready"
                        ELSE IF n <= currentID THEN "gone"
                        ELSE "unused"
BY DEF IDState, Live

LEMMA InitRefines == Init => IDL!Init
<1> SUFFICES ASSUME Init PROVE IDL!Init
  OBVIOUS
<1>1. /\ DOMAIN objects = {1} /\ SeqRange(freeIDs) = {} /\ currentID = 1
  BY DEF Init, SeqRange, DisplayID
<1>2. \A n \in ClientIDs : IDState[n] = IF n = 1 THEN "held" ELSE "unused"
  BY <1>1, IDStateAt DEF ClientIDs
<1> QED BY <1>2 DEF IDL!Init, IDState, ClientIDs

(* IDState after a step, from the domain, the stack and the counter after  *)
(* it.                                                                     *)
LEMMA IDStateStep ==
    ASSUME NEW n \in ClientIDs, NEW v,
           \A m \in ClientIDs \ {n} : IDState'[m] = IDState[m],
           IDState'[n] = v
    PROVE  IDState' = [IDState EXCEPT ![n] = v]
BY DEF IDState

LEMMA RecycleRefines ==
    ASSUME IInv, NEW p \in Proxies, RegisterRecycled(p)
    PROVE  IDL!Next
<1>1. PICK i \in 1 .. Len(freeIDs) :
          /\ TopUsable(i)
          /\ freeIDs' = SubSeq(freeIDs, 1, i - 1)
          /\ Bind(p, freeIDs[i])
  BY DEF RegisterRecycled
<1> DEFINE n == freeIDs[i]
<1>2. freeIDs \in Seq(ClientIDs) /\ n \in ClientIDs /\ currentID' = currentID
  BY DEF IInv, TypeOK, RegisterRecycled
<1>3. n \notin DOMAIN objects /\ n \in SeqRange(freeIDs)
  BY DEF IInv, FreeListSound, Live, SeqRange
<1>4. DOMAIN objects' = DOMAIN objects \cup {n}
  BY <1>1 DEF Bind, Bound
<1>5. SeqRange(freeIDs') = SeqRange(freeIDs) \ {n}
  <2>1. i = Len(freeIDs)
    BY <1>1, <1>2 DEF TopUsable, IInv, FreeListSound
  <2>2. /\ Len(freeIDs') = i - 1
        /\ \A j \in 1 .. i - 1 : freeIDs'[j] = freeIDs[j]
    BY <1>1, <1>2, PrefixFacts
  <2>3. DOMAIN freeIDs' = 1 .. i - 1 /\ DOMAIN freeIDs = 1 .. i
    BY <1>1, <1>2, <2>1
  <2>4. \A j \in 1 .. i - 1 : freeIDs[j] # n
    BY <1>2, <2>1 DEF IInv, FreeListSound
  <2>5. \A j \in 1 .. i : j \in 1 .. i - 1 \/ j = i
    BY <1>2
  <2>6. \A j \in 1 .. i - 1 : j \in 1 .. i
    BY <1>2
  <2> QED BY <2>2, <2>3, <2>4, <2>5, <2>6 DEF SeqRange
<1> HIDE DEF n
<1>6. IDState[n] = "ready" /\ IDState'[n] = "held"
  BY <1>2, <1>3, <1>4 DEF IDState, Live
<1>7. \A m \in ClientIDs \ {n} : IDState'[m] = IDState[m]
  BY <1>2, <1>4, <1>5 DEF IDState, Live
<1>8. IDL!Recycle(n)
  BY <1>2, <1>6, <1>7, IDStateStep DEF IDL!Recycle
<1> QED BY <1>2, <1>8 DEF IDL!Next, ClientIDs

LEMMA IntroduceRefines ==
    ASSUME IInv, NEW p \in Proxies, RegisterNew(p)
    PROVE  IDL!Next
<1>1. PICK n \in currentID + 1 .. FirstServerID - 1 :
          /\ ~Live(n)
          /\ \A m \in currentID + 1 .. n - 1 : Live(m)
          /\ currentID' = n
          /\ Bind(p, n)
  BY DEF RegisterNew
<1>2. n \in ClientIDs /\ currentID \in ClientIDs /\ freeIDs \in Seq(ClientIDs)
  BY ObjectTableAssumption DEF IInv, TypeOK, ClientIDs
<1>3. DOMAIN objects' = DOMAIN objects \cup {n}
  BY <1>1 DEF Bind, Bound
<1>4. SeqRange(freeIDs) = {} /\ SeqRange(freeIDs') = {}
  BY <1>2 DEF RegisterNew, NoneUsable, IInv, FreeListSound, SeqRange
<1>5. n = currentID + 1
  <2> SUFFICES ASSUME n # currentID + 1 PROVE FALSE
    OBVIOUS
  <2>1. currentID + 1 \in currentID + 1 .. n - 1 /\ currentID + 1 < FirstServerID
    BY <1>2, ObjectTableAssumption DEF ClientIDs
  <2>2. currentID + 1 \in DOMAIN objects
    BY <1>1, <2>1 DEF Live
  <2> QED BY <1>2, <2>1, <2>2 DEF IInv, CounterCoversClientIDs, ClientIDs
<1>6. IDState[n] = "unused" /\ IDState'[n] = "held"
  BY <1>1, <1>2, <1>3, <1>4, <1>5, ObjectTableAssumption DEF IDState, ClientIDs, Live
<1>7. \A m \in ClientIDs \ {n} : IDState'[m] = IDState[m]
  <2> SUFFICES ASSUME NEW m \in ClientIDs \ {n} PROVE IDState'[m] = IDState[m]
    OBVIOUS
  <2>1. m <= currentID <=> m <= n
    BY <1>2, <1>5 DEF ClientIDs
  <2> QED BY <1>1, <1>3, <1>4, <2>1 DEF IDState, Live
<1>8. \A m \in 1 .. n - 1 : IDState[m] # "unused"
  <2> SUFFICES ASSUME NEW m \in 1 .. n - 1 PROVE IDState[m] # "unused"
    OBVIOUS
  <2>1. m \in ClientIDs /\ m <= currentID
    BY <1>2, <1>5, ObjectTableAssumption DEF ClientIDs
  <2> QED BY <2>1, IDStateAt
<1>9. IDL!Introduce(n)
  BY <1>2, <1>6, <1>7, <1>8, IDStateStep DEF IDL!Introduce
<1> QED BY <1>2, <1>9 DEF IDL!Next, ClientIDs

LEMMA ExhaustedRefines ==
    ASSUME IInv, NEW p \in Proxies, RegisterExhausted(p)
    PROVE  UNCHANGED IDState
<1>1. currentID' = currentID /\ objects' = objects
  BY CounterAtLimit DEF RegisterExhausted
<1>2. SeqRange(freeIDs) = {} /\ SeqRange(freeIDs') = {}
  BY DEF RegisterExhausted, NoneUsable, IInv, TypeOK, FreeListSound, SeqRange
<1> QED BY <1>1, <1>2 DEF IDState, Live

LEMMA RegisterWithIDRefines ==
    ASSUME IInv, NEW p \in Proxies, NEW n \in IDs, RegisterWithID(p, n)
    PROVE  UNCHANGED IDState
<1>1. UNCHANGED <<freeIDs, currentID>>
  BY DEF RegisterWithID
<1>2. \A m \in ClientIDs : m \in DOMAIN objects' <=> m \in DOMAIN objects
  <2>1. CASE Acceptable(n) /\ Bind(p, n)
    <3>1. DOMAIN objects' = DOMAIN objects \cup {n}
      BY <2>1 DEF Bind, Bound
    <3>2. n \notin ClientIDs
      BY <2>1, ObjectTableAssumption DEF Acceptable, ServerIDs, ClientIDs
    <3> QED BY <3>1, <3>2
  <2>2. CASE UNCHANGED objects
    BY <2>2
  <2> QED BY <2>1, <2>2 DEF RegisterWithID
<1> QED BY <1>1, <1>2 DEF IDState, Live

LEMMA UnregisterRefines ==
    ASSUME IInv, NEW p \in Proxies, Unregister(p)
    PROVE  [IDL!Next]_IDState
<1> DEFINE n == pid[p]
<1>1. DOMAIN objects' = DOMAIN objects \ {n} /\ UNCHANGED <<freeIDs, currentID>>
  BY DEF Unregister, Without
<1> HIDE DEF n
<1>2. CASE n \in ClientIDs /\ n \in DOMAIN objects
  <2>1. n \notin SeqRange(freeIDs) /\ n <= currentID
    BY <1>2, ObjectTableAssumption
       DEF IInv, TypeOK, FreeListSound, Live, SeqRange, CounterCoversClientIDs, ClientIDs
  <2>2. IDState[n] = "held" /\ IDState'[n] = "gone"
    BY <1>1, <1>2, <2>1 DEF IDState, Live
  <2>3. \A m \in ClientIDs \ {n} : IDState'[m] = IDState[m]
    BY <1>1 DEF IDState, Live
  <2>4. IDL!Drop(n)
    BY <1>2, <2>2, <2>3, IDStateStep DEF IDL!Drop
  <2> QED BY <1>2, <2>4 DEF IDL!Next, ClientIDs
<1>3. CASE ~(n \in ClientIDs /\ n \in DOMAIN objects)
  <2>1. \A m \in ClientIDs : m \in DOMAIN objects' <=> m \in DOMAIN objects
    BY <1>1, <1>3
  <2> QED BY <1>1, <2>1 DEF IDState, Live
<1> QED BY <1>2, <1>3

LEMMA DeleteIDRefines ==
    ASSUME IInv, NEW n \in IDs, DeleteID(n)
    PROVE  [IDL!Next]_IDState
<1>1. UNCHANGED currentID
  BY DEF DeleteID
<1>2. CASE UNCHANGED <<objects, freeIDs>>
  BY <1>1, <1>2 DEF IDState, Live
<1>3. CASE /\ Live(n)
           /\ objects' = Without(n)
           /\ freeIDs' = IF Recyclable(n) THEN Append(freeIDs, n) ELSE freeIDs
  <2>1. n \in DOMAIN objects /\ DOMAIN objects' = DOMAIN objects \ {n}
    BY <1>3 DEF Without, Live
  <2>2. freeIDs \in Seq(ClientIDs) /\ n \notin SeqRange(freeIDs)
    BY <2>1 DEF IInv, TypeOK, FreeListSound, Live, SeqRange
  <2>3. CASE Recyclable(n)
    <3>1. n \in ClientIDs /\ n # 1
      BY <2>3, ObjectTableAssumption DEF Recyclable, ClientIDs, IDs, DisplayID
    <3>2. SeqRange(freeIDs') = SeqRange(freeIDs) \cup {n}
      <4>1. freeIDs' = Append(freeIDs, n)
        BY <1>3, <2>3
      <4>2. DOMAIN freeIDs = 1 .. Len(freeIDs) /\ DOMAIN freeIDs' = 1 .. Len(freeIDs) + 1
        BY <2>2, <3>1, <4>1
      <4>3. /\ \A j \in 1 .. Len(freeIDs) : freeIDs'[j] = freeIDs[j]
            /\ freeIDs'[Len(freeIDs) + 1] = n
        BY <2>2, <3>1, <4>1, PushFacts
      <4>4. 1 .. Len(freeIDs) + 1 = 1 .. Len(freeIDs) \cup {Len(freeIDs) + 1}
        BY <2>2
      <4> QED BY <4>2, <4>3, <4>4 DEF SeqRange
    <3>3. IDState[n] = "held" /\ IDState'[n] = "ready"
      BY <2>1, <3>1, <3>2 DEF IDState, Live
    <3>4. \A m \in ClientIDs \ {n} : IDState'[m] = IDState[m]
      BY <1>1, <2>1, <3>2 DEF IDState, Live
    <3>5. IDL!Acknowledge(n)
      BY <3>1, <3>3, <3>4, IDStateStep DEF IDL!Acknowledge
    <3> QED BY <3>1, <3>5 DEF IDL!Next, ClientIDs
  <2>4. CASE ~Recyclable(n) /\ n \in ClientIDs
    <3>1. freeIDs' = freeIDs /\ n <= currentID
      BY <1>3, <2>1, <2>4, ObjectTableAssumption DEF IInv, CounterCoversClientIDs, ClientIDs
    <3>2. IDState[n] = "held" /\ IDState'[n] = "gone"
      BY <1>1, <2>1, <2>2, <2>4, <3>1 DEF IDState, Live
    <3>3. \A m \in ClientIDs \ {n} : IDState'[m] = IDState[m]
      BY <1>1, <2>1, <3>1 DEF IDState, Live
    <3>4. IDL!Drop(n)
      BY <2>4, <3>2, <3>3, IDStateStep DEF IDL!Drop
    <3> QED BY <2>4, <3>4 DEF IDL!Next, ClientIDs
  <2>5. CASE ~Recyclable(n) /\ n \notin ClientIDs
    <3>1. freeIDs' = freeIDs
      BY <1>3, <2>5
    <3>2. \A m \in ClientIDs : m \in DOMAIN objects' <=> m \in DOMAIN objects
      BY <2>1, <2>5
    <3> QED BY <1>1, <3>1, <3>2 DEF IDState, Live
  <2> QED BY <2>3, <2>4, <2>5
<1> QED BY <1>2, <1>3 DEF DeleteID

LEMMA NextRefines == IInv /\ [Next]_vars => [IDL!Next]_IDState
<1> SUFFICES ASSUME IInv, [Next]_vars PROVE [IDL!Next]_IDState
  OBVIOUS
<1>1. ASSUME NEW p \in Proxies, Register(p) PROVE [IDL!Next]_IDState
  BY <1>1, RecycleRefines, IntroduceRefines, ExhaustedRefines DEF Register
<1>2. ASSUME NEW p \in Proxies, Unregister(p) PROVE [IDL!Next]_IDState
  BY <1>2, UnregisterRefines
<1>3. ASSUME NEW p \in Proxies, MarkZombie(p) PROVE [IDL!Next]_IDState
  BY <1>3 DEF MarkZombie, IDState, Live
<1>4. ASSUME NEW p \in Proxies, NEW n \in IDs, RegisterWithID(p, n)
      PROVE  [IDL!Next]_IDState
  BY <1>4, RegisterWithIDRefines
<1>5. ASSUME NEW n \in IDs, DeleteID(n) PROVE [IDL!Next]_IDState
  BY <1>5, DeleteIDRefines
<1>6. CASE UNCHANGED vars
  BY <1>6 DEF vars, IDState, Live
<1> QED BY <1>1, <1>2, <1>3, <1>4, <1>5, <1>6 DEF Next

(* The table, the recycle stack and the counter implement the abstract     *)
(* life of client IDs: ascending and gapless introduction, reuse only      *)
(* after the server's acknowledgement.                                     *)
THEOREM TableRefinesIDLifecycle == Spec => RefinesIDLifecycle
<1>1. Spec => []IInv
  BY InitIInv, NextIInv, PTL DEF Spec
<1> QED BY <1>1, InitRefines, NextRefines, PTL DEF Spec, RefinesIDLifecycle, IDL!Spec

=============================================================================
