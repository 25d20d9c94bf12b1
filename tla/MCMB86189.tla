----------------------------- MODULE MCMB86189 -----------------------------
(***************************************************************************)
(* Model-checking instance of MB86189.  The write buffer is scaled from    *)
(* 512 to 8 bytes and DATA_SIZE_MASK from 0x3ff to 15 (twice the buffer    *)
(* minus one, as in the code), so that transfers of 0 bytes, an odd size,  *)
(* exactly the buffer and sizes the clamp must cut all occur.  The FIFO    *)
(* is scaled from 8 words to 3: the handlers only compare its size with    *)
(* the depth; 3 words reach the full-FIFO drop and outlast the 1- and      *)
(* 3-byte transfers, so queued words both complete and overfill a TPC.     *)
(* The flag writes are the two extremes: none and all three bits.          *)
(***************************************************************************)
EXTENDS MB86189

MCReadTpcs == {2}
MCWriteTpcs == {13}
MCTransferSizes == {0, 1, 3, 8, 11}
MCDataSizeMask == 15
MCBufferCapacity == 8
MCFifoDepth == 3
MCDataOutSizes == {3, 8}
MCFlagWrites == {{}, {"RDY", "SIF", "PIN"}}

=============================================================================
