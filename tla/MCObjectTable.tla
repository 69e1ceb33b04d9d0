--------------------------- MODULE MCObjectTable ---------------------------
(* ObjectTable on a small instance: three client IDs, two server IDs.      *)
EXTENDS ObjectTable, TLC

(* The proxies other than the display are interchangeable.                 *)
ProxySymmetry == Permutations(Proxies \ {Display})

=============================================================================
