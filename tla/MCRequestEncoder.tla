-------------------------- MODULE MCRequestEncoder --------------------------
(* RequestEncoder on the request methods of the shipped bindings.          *)
EXTENDS RequestEncoder, Signatures

(* Short strings with every remainder, and lengths that carry each frame   *)
(* across the limit of the size field and past it to where it has wrapped. *)
TestLengths == 0 .. 5 \cup 65496 .. 65536
=============================================================================
