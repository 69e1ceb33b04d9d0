--------------------------- MODULE MCFrameReader ---------------------------
(* FrameReader on small instances.                                         *)
EXTENDS FrameReader

FramesWith(bodies, senders) == [body : bodies, fd : BOOLEAN, sender : senders]

(* Two frames of any sender, and three between which descriptors are put   *)
(* back.                                                                   *)
ShortScripts ==
    [1 .. 2 -> FramesWith({0, 1}, SenderKinds)]
        \cup [1 .. 3 -> FramesWith({0}, {"aware", "zombie"})]
=============================================================================
