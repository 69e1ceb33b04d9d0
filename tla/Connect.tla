------------------------------ MODULE Connect ------------------------------
(***************************************************************************)
(* Connect and unixConnFromFD (client/context.go): where a connection's    *)
(* socket comes from, and what becomes of the descriptor that the parent   *)
(* process passed down and named in WAYLAND_SOCKET.                        *)
(*                                                                         *)
(* A descriptor is a number in a table the whole process shares: once      *)
(* closed, the number is given to whoever opens a file next.  So each      *)
(* system call of Connect is a step of its own, and between two of them    *)
(* other goroutines open and close files of their own.  Calls of Connect   *)
(* follow one another; two at once are outside this model.  The number     *)
(* that the parent names is open when the process starts.                  *)
(***************************************************************************)
EXTENDS Integers, FiniteSetsExt

CONSTANT Numbers    \* the descriptor numbers the process may use

ASSUME ConnectAssumption == Numbers # {} /\ Numbers \subseteq Nat \ {0}

(* The values of WAYLAND_SOCKET: a number, or one of these.                *)
Unset == 0
Malformed == -1     \* text that is no number, or a negative one

VARIABLES
    files,      \* the descriptor table: from the open numbers to their owners
    socketEnv,  \* WAYLAND_SOCKET
    displayEnv, \* WAYLAND_DISPLAY, as the kind of name it holds
    runtimeDir, \* XDG_RUNTIME_DIR is set
    gift,       \* what the parent put at the number it named
    pc,         \* the call of Connect in progress
    fd,         \* its local variables: the number adopted,
    conn,       \* the number of the socket made so far, or None
    failing,    \* and whether an error has been met
    displays    \* the numbers held by the connections handed out

env == <<socketEnv, displayEnv, runtimeDir>>
locals == <<fd, conn, failing>>
vars == <<files, env, gift, pc, locals, displays>>

None == 0
Owners == {"inherited",     \* passed down by the parent
           "connecting",    \* made by the call in progress
           "display",       \* held by the Context of a Display
           "other"}         \* opened by the rest of the process
Gifts == {"unix",           \* a Unix stream socket
          "socket",         \* a socket of another family or type
          "file",           \* no socket
          "none"}           \* no number was named
Names == {"empty", "relative", "absolute"}
Steps == {"idle", "dup", "close", "discard", "unset", "dial"}

IsOpen(n) == n \in DOMAIN files
Opened(n, owner) ==
    [m \in DOMAIN files \cup {n} |-> IF m = n THEN owner ELSE files[m]]
Closed(n) == [m \in DOMAIN files \ {n} |-> files[m]]

(* The kernel hands out the lowest free number, if there is one.           *)
Full == Numbers \subseteq DOMAIN files
Lowest == Min(Numbers \ DOMAIN files)

Init ==
    /\ socketEnv \in Numbers \cup {Unset, Malformed}
    /\ gift \in IF socketEnv \in Numbers THEN Gifts \ {"none"} ELSE {"none"}
    /\ files = [n \in {socketEnv} \cap Numbers |-> "inherited"]
    /\ displayEnv \in Names
    /\ runtimeDir \in BOOLEAN
    /\ pc = "idle"
    /\ fd = None /\ conn = None /\ failing = FALSE
    /\ displays = {}

-----------------------------------------------------------------------------
(* Entry: an explicit address never looks at WAYLAND_SOCKET; an empty one  *)
(* does, and a malformed value is an error that leaves everything alone.   *)
WrongAdopts(addr) == addr = "empty" /\ socketEnv # Unset
Adopts(addr) == addr = "empty" /\ socketEnv \in Numbers
Refuses(addr) == addr = "empty" /\ socketEnv = Malformed

(* WAYLAND_DISPLAY or wayland-0 stands in for an empty address, and a      *)
(* relative one needs XDG_RUNTIME_DIR.                                     *)
Name(addr) == IF addr # "empty" THEN addr
              ELSE IF displayEnv = "empty" THEN "relative" ELSE displayEnv
Resolved(addr) == Name(addr) = "absolute" \/ runtimeDir

Call(addr) ==
    /\ pc = "idle"
    /\ \/ /\ Adopts(addr)
          /\ pc' = "dup" /\ fd' = socketEnv
       \/ /\ ~Adopts(addr) /\ ~Refuses(addr) /\ Resolved(addr)
          /\ pc' = "dial" /\ UNCHANGED fd
       \/ /\ ~Adopts(addr) /\ (Refuses(addr) \/ ~Resolved(addr))
          /\ UNCHANGED <<pc, fd>>
    /\ UNCHANGED <<files, env, gift, conn, failing, displays>>

(* net.FileConn duplicates the descriptor of a socket, or fails.           *)
IsSocket == IsOpen(fd) /\ gift \in {"unix", "socket"}
FileConn ==
    /\ pc = "dup"
    /\ \/ /\ IsSocket /\ ~Full
          /\ conn' = Lowest
          /\ files' = Opened(Lowest, "connecting")
          /\ UNCHANGED failing
       \/ failing' = TRUE /\ UNCHANGED <<files, conn>>
    /\ pc' = "close"
    /\ UNCHANGED <<env, gift, fd, displays>>

(* file.Close gives the number up whether or not it reports an error.  The *)
(* connection is discarded if it does, or if it is not a Unix stream.      *)
Foreign == gift # "unix"

WrongForgetsDiscard ==
    /\ pc = "close"
    /\ files' = Closed(fd)
    /\ \E closeErr \in BOOLEAN : failing' = (failing \/ closeErr \/ Foreign)
    /\ pc' = "unset"
    /\ UNCHANGED <<env, gift, fd, conn, displays>>

CloseFile ==
    /\ pc = "close"
    /\ files' = Closed(fd)
    /\ \E closeErr \in BOOLEAN :
         LET failed == failing \/ closeErr \/ Foreign IN
           /\ failing' = failed
           /\ pc' = IF failed /\ conn # None THEN "discard" ELSE "unset"
    /\ UNCHANGED <<env, gift, fd, conn, displays>>

Discard ==
    /\ pc = "discard"
    /\ files' = Closed(conn)
    /\ conn' = None
    /\ pc' = "unset"
    /\ UNCHANGED <<env, gift, fd, failing, displays>>

(* Unsetenv on success and on failure, and the return.                     *)
HandOut(n) == files' = Opened(n, "display") /\ displays' = displays \cup {n}

WrongUnsetsOnSuccess ==
    /\ pc = "unset"
    /\ IF failing THEN UNCHANGED <<socketEnv, files, displays>>
                  ELSE socketEnv' = Unset /\ HandOut(conn)
    /\ pc' = "idle" /\ fd' = None /\ conn' = None /\ failing' = FALSE
    /\ UNCHANGED <<displayEnv, runtimeDir, gift>>

WrongClosesAgain ==
    /\ pc = "unset"
    /\ socketEnv' = Unset
    /\ IF failing THEN files' = Closed(fd) /\ UNCHANGED displays ELSE HandOut(conn)
    /\ pc' = "idle" /\ fd' = None /\ conn' = None /\ failing' = FALSE
    /\ UNCHANGED <<displayEnv, runtimeDir, gift>>

Unsetenv ==
    /\ pc = "unset"
    /\ socketEnv' = Unset
    /\ IF failing THEN UNCHANGED <<files, displays>> ELSE HandOut(conn)
    /\ pc' = "idle" /\ fd' = None /\ conn' = None /\ failing' = FALSE
    /\ UNCHANGED <<displayEnv, runtimeDir, gift>>

DialUnix ==
    /\ pc = "dial"
    /\ \/ ~Full /\ HandOut(Lowest)
       \/ UNCHANGED <<files, displays>>
    /\ pc' = "idle"
    /\ UNCHANGED <<env, gift, locals>>

-----------------------------------------------------------------------------
(* The application closes a connection: Context.Close.                     *)
CloseDisplay(n) ==
    /\ n \in displays
    /\ displays' = displays \ {n}
    /\ files' = Closed(n)
    /\ UNCHANGED <<env, gift, pc, locals>>

(* The rest of the process, at any moment.                                 *)
OtherOpens ==
    /\ ~Full
    /\ files' = Opened(Lowest, "other")
    /\ UNCHANGED <<env, gift, pc, locals, displays>>

OtherCloses(n) ==
    /\ IsOpen(n) /\ files[n] = "other"
    /\ files' = Closed(n)
    /\ UNCHANGED <<env, gift, pc, locals, displays>>

-----------------------------------------------------------------------------
Connecting ==
    \/ \E addr \in Names : Call(addr)
    \/ FileConn \/ CloseFile \/ Discard \/ Unsetenv \/ DialUnix

Next ==
    \/ Connecting
    \/ \E n \in Numbers : CloseDisplay(n) \/ OtherCloses(n)
    \/ OtherOpens

Spec == Init /\ [][Next]_vars

-----------------------------------------------------------------------------
TypeOK ==
    /\ DOMAIN files \subseteq Numbers
    /\ \A n \in DOMAIN files : files[n] \in Owners
    /\ socketEnv \in Numbers \cup {Unset, Malformed}
    /\ displayEnv \in Names /\ runtimeDir \in BOOLEAN
    /\ gift \in Gifts
    /\ pc \in Steps
    /\ fd \in Numbers \cup {None} /\ conn \in Numbers \cup {None}
    /\ failing \in BOOLEAN
    /\ displays \subseteq Numbers

(* Every connection handed out holds an open descriptor of its own, and a  *)
(* call that has returned leaves none behind: the duplicate is in a        *)
(* Display or closed, and the inherited one is closed once its name is     *)
(* gone.                                                                   *)
DescriptorsHaveOwners ==
    /\ {n \in DOMAIN files : files[n] = "display"} = displays
    /\ \A n \in DOMAIN files :
         /\ files[n] = "connecting" => pc # "idle" /\ conn = n
         /\ files[n] = "inherited" => socketEnv = n

(* Between calls WAYLAND_SOCKET never names a number that has been closed  *)
(* or given to someone else, so a later Connect or a child process cannot  *)
(* take it for the parent's socket (context.go:249-251).                   *)
NameIsNeverStale ==
    (pc = "idle" /\ socketEnv \in Numbers)
        => IsOpen(socketEnv) /\ files[socketEnv] = "inherited"

(* No step of Connect closes or takes over a descriptor of the rest of the *)
(* process or of an earlier connection, although numbers are reused while  *)
(* it runs.                                                                *)
OthersAreLeftAlone ==
    [][Connecting
          => \A n \in DOMAIN files :
               files[n] \in {"other", "display"} => n \in DOMAIN files' /\ files'[n] = files[n]]_vars

=============================================================================
