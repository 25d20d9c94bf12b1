----------------------------- MODULE MCSonyDSP -----------------------------
(***************************************************************************)
(* SonyDSP instantiated for TLC.  A card of 3 blocks of 2 pages (real      *)
(* images have thousands of blocks of 16 or 32 pages; the handlers only    *)
(* compare against the geometry, so a small one reaches every branch).    *)
(* The shared-memory arguments of the passing runs are at the edges the   *)
(* handlers test:                                                          *)
(*   0x3fff  -> byte 0x7ffe, below the window                              *)
(*   0x7ffa  -> byte 0xfff4, a range running past 0x10000                  *)
(*   0xc000  -> 0x18000 wraps to byte 0x8000 in the uint16 shmBase         *)
(***************************************************************************)
EXTENDS SonyDSP

MCBlocksTotal == 3
MCPagesPerBlock == 2
MCBlockArgs == {2, 3}
\* first = last, two pages, first > last, last beyond the block
MCPageRanges == {<<0, 0>>, <<0, 1>>, <<1, 0>>, <<1, 2>>}
MCShmArgs == {16383, 32762, 49152}
MCUnknownCmds == {4660}    \* 0x1234
MCMaskValues == {{}, {"MS_EJECT"}, {"IPC_DONE", "MS_INSERT", "MS_EJECT"}}
\* Offsets the violation runs add: 0x4180 (byte 0x8300, not 1 KB aligned),
\* 0x6b00 (byte 0xd600: the boot block blob ends exactly at 0x10000).
MCUnalignedShmArgs == {16768}
MCEndShmArgs == {27392}
MCDirtyShmArgs == MCUnalignedShmArgs \cup MCEndShmArgs

\* CPU data writes: a long at 0x83fe crosses from page 32 to page 33, one at
\* 0xfffe runs past the region (bus error), 0xffff is the last byte.
MCCpuAddrs == {33790, 65534, 65535}

\* For the card-presence run: arguments that make every storage command
\* return early, so that the interrupt inputs can range freely.
MCCardPageRanges == {<<1, 2>>}
=============================================================================
