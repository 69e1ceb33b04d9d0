---------------------------- MODULE MCRoundtrip ----------------------------
(* Roundtrip on a small instance.                                          *)
EXTENDS Roundtrip
=============================================================================
