------------------------------- MODULE MCNand -------------------------------
(***************************************************************************)
(* Nand instantiated for TLC.  A small-page K9 layout scaled down: pages  *)
(* of 4 + 1 bytes (512 + 16), addressed in areas A/B/C, 4 pages per block, *)
(* 3 blocks, and 2-bit "bytes" so that, as on the real chip, the address   *)
(* is one column byte and two row bytes (12 pages need 2 row bytes of 2    *)
(* bits).  A savestate page of 20 bytes holds 4 flash pages, so the       *)
(* 60-byte device has 3 savestate pages: one dirtyPages word of 4 bits in  *)
(* the passing run, one word of exactly 3 bits in the nand_oob run (the    *)
(* exact multiple every power-of-two part has).                            *)
(* The chip has both addressing features (areas and the second read      *)
(* command), and one program or erase per behaviour (MaxWrites = 1), so    *)
(* that the safety invariants and the liveness property fit one run.      *)
(* MCNand_EveryBlockErasable.cfg takes 5 blocks (20 pages): 5 row bits,   *)
(* which nandInit's formula gives 2 two-bit bytes, as it gives 2 bytes to  *)
(* the 17 row bits of a 131072-page chip.                                  *)
(***************************************************************************)
EXTENDS Nand

MCFlags == {"AREAS"}
\* Row addresses 0, 2, 8, 10 (8: the last block), all inside the device.
MCAddrValues == {0, 2}
\* Row byte 3 names the pages 12..15 beyond the device.
MCWideAddrValues == {0, 3}
\* A chip with both addressing features: areas and the second read command.
MCBothFlags == {"AREAS", "SECOND_READ"}
MCUnknownCmds == {66}
=============================================================================
