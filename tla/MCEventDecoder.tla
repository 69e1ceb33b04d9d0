--------------------------- MODULE MCEventDecoder ---------------------------
(* EventDecoder on the events of the shipped bindings and on those of any  *)
(* protocol the scanner could be given.                                    *)
EXTENDS EventDecoder, Signatures

CONSTANTS
    SigLetters, MaxArgs     \* the signatures of an unknown protocol

(* At most one descriptor, as in every Wayland event.                      *)
AnySignatures ==
    {s \in UNION {[1 .. n -> SigLetters] : n \in 0 .. MaxArgs} :
        \A j, k \in 1 .. Len(s) : s[j] = "h" /\ s[k] = "h" => j = k}
AllEvents == ShippedEvents \cup {GeneratedEvent(s) : s \in AnySignatures}
=============================================================================
