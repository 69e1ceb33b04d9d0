----------------------------- MODULE MCConnect -----------------------------
(* Connect on a small descriptor table.                                    *)
EXTENDS Connect
=============================================================================
