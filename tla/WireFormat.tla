----------------------------- MODULE WireFormat -----------------------------
(***************************************************************************)
(* The layout both ends of the connection agree on: what the arguments of  *)
(* a message occupy in its body and where each one starts.  It is the      *)
(* peer's side (libwayland), stated apart from the arithmetic of the       *)
(* bindings, so that EventDecoder and RequestEncoder have something to     *)
(* agree with.                                                             *)
(*                                                                         *)
(* The content of an argument is a record: len is the length a string or   *)
(* an array is sent with (a string's counts its NUL), nul says that a NUL  *)
(* lies within a string, null that an object or new_id is zero.            *)
(***************************************************************************)
EXTENDS Naturals, Sequences

Strings == {"s", "?s"}
Variable == Strings \cup {"a"}
References == {"o", "?o", "n"}
Letters == {"u", "i", "f", "h"} \cup Variable \cup References

Content(lens, nul, null) == [len : lens, nul : nul, null : null]

(* The bytes of `length' bytes rounded up to whole words.                  *)
RoundUp(length) == 4 * ((length + 3) \div 4)

ArgSize(letter, content) ==
    CASE letter = "h" -> 0
      [] letter \in Variable -> 4 + RoundUp(content.len)
      [] OTHER -> 4

(* Offset(sig, body)[k] is where argument k starts; the last entry is the  *)
(* size of the whole body.                                                 *)
Offset(sig, body) ==
    LET o[k \in 1 .. Len(sig) + 1] ==
            IF k = 1 THEN 0 ELSE o[k - 1] + ArgSize(sig[k - 1], body[k - 1])
    IN  o
Size(sig, body) == Offset(sig, body)[Len(sig) + 1]

(* A string that is not null ends in a NUL; only "?s" may be null.         *)
Proper(letter, content) ==
    CASE letter = "s" -> content.len > 0 /\ content.nul
      [] letter = "?s" -> content.len > 0 => content.nul
      [] OTHER -> TRUE
WellFormed(sig, body, size) ==
    /\ size = Size(sig, body)
    /\ \A k \in 1 .. Len(sig) : Proper(sig[k], body[k])
=============================================================================
