--------------------------- MODULE MCFrameWriter ---------------------------
(* FrameWriter on a small instance.                                        *)
EXTENDS FrameWriter
=============================================================================
