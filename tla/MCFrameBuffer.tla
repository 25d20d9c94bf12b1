--------------------------- MODULE MCFrameBuffer ---------------------------
(***************************************************************************)
(* The SED1376 framebuffer of 80 KB (EmRegsSED1376.h FRAMEBUFFER_SIZE).    *)
(* Offsets: a long at 1022 crosses from page 0 to page 1, a long at 8190  *)
(* from page 7 to page 8 and so from bitmap byte 0 to byte 1, 1025 is an  *)
(* odd byte alone in page 1, and 81916 is the last long of the region.     *)
(***************************************************************************)
EXTENDS FrameBuffer

MCOffsets == {1022, 1025, 8190, 81916}
MCValues == {0, 1}
MCChunkImages ==
    {[p \in Pages |-> 0], [p \in Pages |-> IF p \in {1, 79} THEN 1 ELSE 0]}

=============================================================================
