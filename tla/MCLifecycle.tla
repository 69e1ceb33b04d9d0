---------------------------- MODULE MCLifecycle ----------------------------
(* Lifecycle on small instances.                                           *)
EXTENDS Lifecycle, TLC

(* The objects other than the display are interchangeable.                 *)
ProxySymmetry == Permutations(Proxies \ {Display})

=============================================================================
