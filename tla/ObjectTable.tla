---------------------------- MODULE ObjectTable ----------------------------
(***************************************************************************)
(* The object table of a client connection: Context.objects, the recycle   *)
(* stack Context.freeIDs, the counter Context.currentID, and the two       *)
(* fields of every BaseProxy that decide who answers to an ID              *)
(* (client/context.go, client/common.go).                                  *)
(*                                                                         *)
(* One goroutine owns a Context, so every method is one atomic step.  The  *)
(* environment here is unconstrained: the application creates, destroys    *)
(* and unregisters proxies whenever it likes, and the peer may send any    *)
(* delete_id or new_id it likes.  Module Lifecycle restricts both.         *)
(***************************************************************************)
EXTENDS Integers, Sequences

CONSTANTS
    Proxies,        \* the proxy structs of the program
    Display,        \* the wl_display proxy, registered first by NewDisplay
    FirstServerID,  \* the first ID of the server's range, 0xff000000
    MaxID           \* the last ID a 32-bit word can hold

ASSUME ObjectTableAssumption ==
    /\ Display \in Proxies
    /\ FirstServerID \in Nat /\ MaxID \in Nat
    /\ 2 < FirstServerID /\ FirstServerID <= MaxID

DisplayID == 1
ClientIDs == 1 .. FirstServerID - 1
ServerIDs == FirstServerID .. MaxID
IDs == 1 .. MaxID

VARIABLES
    objects,    \* Context.objects: a function from the registered IDs to proxies
    freeIDs,    \* Context.freeIDs: a stack, its top is the last element
    currentID,  \* Context.currentID: the highest client ID ever handed out
    pid,        \* BaseProxy.id of each proxy; 0 in a zero-valued struct
    zombie,     \* BaseProxy.zombie of each proxy
    outcome     \* how the last call ended: "ok", or "panic"

vars == <<objects, freeIDs, currentID, pid, zombie, outcome>>

Registered == {objects[n] : n \in DOMAIN objects}
Live(n) == n \in DOMAIN objects
SeqRange(s) == {s[i] : i \in DOMAIN s}

(* The table after proxy p has been bound to n, or after n was removed.    *)
Bound(n, p) == [m \in DOMAIN objects \cup {n} |-> IF m = n THEN p ELSE objects[m]]
Without(n) == [m \in DOMAIN objects \ {n} |-> objects[m]]

-----------------------------------------------------------------------------
(* NewDisplay on a fresh Context: ID 1 is the display.                     *)
Init ==
    /\ objects = [n \in {DisplayID} |-> Display]
    /\ freeIDs = << >>
    /\ currentID = DisplayID
    /\ pid = [p \in Proxies |-> IF p = Display THEN DisplayID ELSE 0]
    /\ zombie = [p \in Proxies |-> FALSE]
    /\ outcome = "ok"

(* Operators named Wrong... are plausible bugs; they show that a property  *)
(* can fail and take no part in the specification.                         *)
WrongBindNoSetID(p, n) ==
    /\ objects' = Bound(n, p)
    /\ zombie' = [zombie EXCEPT ![p] = FALSE]
    /\ outcome' = "ok"
    /\ UNCHANGED pid

(* SetID, SetContext and the map insertion shared by Register and          *)
(* RegisterWithID.  A struct that is not in the table is (re)allocated by  *)
(* the New... constructor, so the proxy it becomes is not a zombie.        *)
Bind(p, n) ==
    /\ objects' = Bound(n, p)
    /\ pid' = [pid EXCEPT ![p] = n]
    /\ zombie' = [zombie EXCEPT ![p] = FALSE]
    /\ outcome' = "ok"

(* Register pops the stack until it meets an ID nobody holds ...           *)
TopUsable(i) ==
    /\ i \in 1 .. Len(freeIDs)
    /\ ~Live(freeIDs[i])
    /\ \A j \in i + 1 .. Len(freeIDs) : Live(freeIDs[j])

RegisterRecycled(p) ==
    /\ p \notin Registered
    /\ \E i \in 1 .. Len(freeIDs) :
         /\ TopUsable(i)
         /\ freeIDs' = SubSeq(freeIDs, 1, i - 1)
         /\ Bind(p, freeIDs[i])
    /\ UNCHANGED currentID

(* ... and grows the counter, skipping IDs in use, once the stack is       *)
(* empty.                                                                  *)
NoneUsable == \A i \in 1 .. Len(freeIDs) : Live(freeIDs[i])

WrongRegisterFirstFit(p) ==
    /\ p \notin Registered
    /\ NoneUsable
    /\ freeIDs' = << >>
    /\ \E n \in ClientIDs :
         /\ ~Live(n)
         /\ \A m \in 1 .. n - 1 : Live(m)
         /\ currentID' = IF n > currentID THEN n ELSE currentID
         /\ Bind(p, n)

RegisterNew(p) ==
    /\ p \notin Registered
    /\ NoneUsable
    /\ freeIDs' = << >>
    /\ \E n \in currentID + 1 .. FirstServerID - 1 :
         /\ ~Live(n)
         /\ \A m \in currentID + 1 .. n - 1 : Live(m)
         /\ currentID' = n
         /\ Bind(p, n)

(* Register panics when the counter has reached the server's range.        *)
RegisterExhausted(p) ==
    /\ p \notin Registered
    /\ NoneUsable
    /\ \A n \in currentID + 1 .. FirstServerID - 1 : Live(n)
    /\ freeIDs' = << >>
    /\ currentID' = FirstServerID - 1
    /\ outcome' = "panic"
    /\ UNCHANGED <<objects, pid, zombie>>

Register(p) == RegisterRecycled(p) \/ RegisterNew(p) \/ RegisterExhausted(p)

(* RegisterWithID: a server ID that is free, or held by a zombie.          *)
WrongAcceptLive(n) == n \in ServerIDs
WrongAcceptUnusedOnly(n) == n \in ServerIDs /\ ~Live(n)
Acceptable(n) == n \in ServerIDs /\ (Live(n) => zombie[objects[n]])

RegisterWithID(p, n) ==
    /\ p \notin Registered
    /\ \/ /\ Acceptable(n)
          /\ Bind(p, n)
       \/ /\ ~Acceptable(n)
          /\ outcome' = "panic"
          /\ UNCHANGED <<objects, pid, zombie>>
    /\ UNCHANGED <<freeIDs, currentID>>

(* Unregister deletes whatever the table holds at the proxy's own ID.      *)
Unregister(p) ==
    /\ objects' = Without(pid[p])
    /\ outcome' = "ok"
    /\ UNCHANGED <<freeIDs, currentID, pid, zombie>>

(* wl_display.delete_id: forget the ID and, if it belongs to the client    *)
(* and is not the display's, push it for Register.  An unknown ID is       *)
(* ignored.                                                                *)
WrongRecycleServerIDs(n) == n > DisplayID
Recyclable(n) == n > DisplayID /\ n < FirstServerID

WrongDeleteUnknownID(n) ==
    /\ objects' = Without(n)
    /\ freeIDs' = IF Recyclable(n) THEN Append(freeIDs, n) ELSE freeIDs
    /\ outcome' = "ok"
    /\ UNCHANGED <<currentID, pid, zombie>>

DeleteID(n) ==
    /\ \/ /\ Live(n)
          /\ objects' = Without(n)
          /\ freeIDs' = IF Recyclable(n) THEN Append(freeIDs, n) ELSE freeIDs
       \/ /\ ~Live(n)
          /\ UNCHANGED <<objects, freeIDs>>
    /\ outcome' = "ok"
    /\ UNCHANGED <<currentID, pid, zombie>>

(* The local half of every destructor.                                     *)
MarkZombie(p) ==
    /\ zombie' = [zombie EXCEPT ![p] = TRUE]
    /\ outcome' = "ok"
    /\ UNCHANGED <<objects, freeIDs, currentID, pid>>

Next ==
    \/ \E p \in Proxies : Register(p) \/ Unregister(p) \/ MarkZombie(p)
    \/ \E p \in Proxies, n \in IDs : RegisterWithID(p, n)
    \/ \E n \in IDs : DeleteID(n)

Spec == Init /\ [][Next]_vars

-----------------------------------------------------------------------------
TypeOK ==
    /\ DOMAIN objects \subseteq IDs
    /\ \A n \in DOMAIN objects : objects[n] \in Proxies
    /\ objects = [n \in DOMAIN objects |-> objects[n]]
    /\ freeIDs \in Seq(ClientIDs)
    /\ currentID \in ClientIDs
    /\ pid \in [Proxies -> 0 .. MaxID]
    /\ zombie \in [Proxies -> BOOLEAN]
    /\ outcome \in {"ok", "panic"}

(* The recycle stack holds no ID twice, none that is still registered,     *)
(* none the counter has not reached, and never the display's: whatever     *)
(* the order of delete_id, registrations and removals, the ID that         *)
(* Register pops is nobody else's.                                         *)
FreeListSound ==
    /\ \A i, j \in 1 .. Len(freeIDs) : freeIDs[i] = freeIDs[j] => i = j
    /\ \A i \in 1 .. Len(freeIDs) :
         /\ ~Live(freeIDs[i])
         /\ freeIDs[i] \in DisplayID + 1 .. currentID

(* No client ID above the counter is registered, so growing the counter    *)
(* never meets an ID in use.                                               *)
CounterCoversClientIDs ==
    \A n \in DOMAIN objects : n < FirstServerID => n <= currentID

(* A registered proxy knows the ID it is registered at, and is registered  *)
(* once: requests carry pid and events are routed by objects, and the two  *)
(* never disagree.                                                         *)
IdentityAgrees ==
    \A n \in DOMAIN objects : pid[objects[n]] = n

(* What a step may never do: hand an ID whose holder is live to another    *)
(* proxy.  Only a zombie, and only in the server's range, is replaced.     *)
ReplacesOnlyZombies ==
    \A n \in DOMAIN objects :
       (n \in DOMAIN objects' /\ objects'[n] # objects[n])
          => (n \in ServerIDs /\ zombie[objects[n]])
OnlyZombiesReplaced == [][ReplacesOnlyZombies]_vars

(* The life of a client ID, read off the table, the stack and the counter. *)
IDState ==
    [n \in ClientIDs |-> IF Live(n) THEN "held"
                         ELSE IF n \in SeqRange(freeIDs) THEN "ready"
                         ELSE IF n <= currentID THEN "gone"
                         ELSE "unused"]

IDL == INSTANCE IDLifecycle WITH LastClientID <- FirstServerID - 1, state <- IDState

(* The three structures together keep the promise of IDLifecycle: client   *)
(* IDs enter use in ascending order without gaps, and an ID is used again  *)
(* only after delete_id; no other order of calls brings one back.          *)
RefinesIDLifecycle == IDL!Spec

=============================================================================
