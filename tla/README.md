# TLA+ models of the CloudpilotEmu storage peripherals

This directory holds TLA+ models of the peripheral state machines of CloudpilotEmu, and of its database backup, checked with TLC. The models are translated from the C++ under `src/src/cloudpilot/emulator/hardware/`, `src/src/cloudpilot/emulator/DbBackup.cpp` and `src/src/uarm/uarm/`. `PROJECT.json` records three things:
- which definition models which source lines;
- every TLC run, with its mutants;
- the findings and the hazards.

## The system and its parts

CloudpilotEmu emulates Palm OS devices. Two emulated peripherals give the guest OS access to a Memory Stick card. Both drive the same card engine, `MemoryStick`:

* **MB86189** (`EmRegsMB86189.cpp`) is the Fujitsu host controller of the PEG-T/NR CLIEs. The CPU writes a TPC (transfer protocol command) to MSCMD. Data moves through MSDATA, a 16-bit FIFO and a 512-byte write buffer.
  - When the write buffer is full, the controller hands the TPC to the card engine.
  - For a read TPC, the controller streams the engine's output back.
  - It latches RDY/SIF/PIN interrupt flags in MSICS. It drives an IRQ line through an `irqChange` callback, gated by INTEN.
  - MSCS carries the reset bit. The card-detect GPIO reaches the controller through `NotifyGpioChanged`.
* **Sony DSP** (`clie/EmRegsSonyDSP.cpp`) is the DSP of the later CLIEs. The firmware talks to it by IPC:
  - It writes ARG registers, then a command to IPC_COMMAND. `IpcDispatch` runs the command synchronously, writes IPC_STATUS and the RESULT registers, and raises `INT_IPC_DONE`.
  - Block data moves through a 32 KB shared-memory window at 0x8000..0xffff of the DSP region.
  - Every byte written there must be marked in a dirty-page bitmap of 1 KB pages, so that the savestate writer persists it.
  - Mount and unmount raise `INT_MS_INSERT` / `INT_MS_EJECT`. The IRQ line is `INT_STATUS & INT_MASK`, and every change of it is dispatched through `irqChange`.
* **MemoryStick** (`MemoryStick.h`; `MemoryStick.cpp` is not in the repository) is the card engine. It holds the register file (block, page, OOB bytes), executes TPCs, and has `PreparePage`, `ProgramPage` and `EraseBlock`.

* **NAND** (`uarm/uarm/nand.cpp`) is the K9 NAND flash of the uARM (PXA-based) core. The guest sends command, address and data cycles through `nandWrite` and reads through `nandRead`.
  - A command byte selects the state: read in area A/B/C, read ID, status, program setup/confirm, erase setup/confirm, reset, and the second read command `0x30` on chips that have it.
  - Address bytes fill `addrBytes`; the page address and the column are decoded little-endian from it.
  - Reads, programs and erases set `busyCt`. The SoC calls `nandPeriodic` on every tick while `nandTaskRequired` holds; it counts `busyCt` down and calls the ready callback when it reaches 0.
  - Programs and erases mark savestate pages of 4224 bytes in the `dirtyPages` bitmap.
  - An unknown command, or a busy command issued while busy, reaches `ERR`, which stops the emulator.

* **Framebuffer** (`EmRegsFrameBuffer.cpp`) is the SED1376 video memory. Every CPU store through `SetByte`/`SetWord`/`SetLong` marks the 1 KB page of its offset in a dirty-page bitmap (`markDirty`), and the savestate writer stores only the marked pages. Loading an old-format savestate copies the whole framebuffer from the chunk and sets the bitmap.
* **Database backup** (`DbBackup.cpp`) exports the Palm databases into a zip archive. The front end calls `Init`, then loops while `IsInProgress`, calling `Save` or `Skip` for the current database, and fetches the archive with `GetArchive`.

The two Memory Stick controllers never run on the same device, so they are modelled as separate modules. Each is composed with the part of the card engine it uses. The NAND chip shares no state with them.

## Modules

| Module | Models | State (VARIABLES) | Actions |
|---|---|---|---|
| `MB86189` | `EmRegsMB86189` plus the engine's TPC interface | `state`, `mscs`/`msics` bits, FIFO contents, write buffer, read index, transfer size, TPC type, IRQ line and the dispatched line, the data the CPU wrote | one per register handler (`MscmdWrite`, `MsdataWrite`, `MsdataRead`, `MscsWrite`, `MsicsRead`, `MsicsWriteLow/High/Word`, `MsppcdRead`), `NotifyGpioChanged`, `Reset`; the operators `SaveChunk` and `LoadChunk` are `DoSave`/`DoSaveLoad` and `Load` |
| `MCMB86189` | constants for TLC | | |
| `SonyDSP` | `EmRegsSonyDSP` plus the engine's register file | `status` (IPC_STATUS), `results` (RESULT_1/2), `intStatus`, `intMask`, `ext` (last dispatched IRQ level), `mounted`, `saved` (savedArguments[0]), `ms` (engine block/page/OOB), `dirty` (the 64-bit page bitmap), `last` (ghost: what the last command touched) | `IpcCmdWrite` (the whole of `IpcDispatch` with each `DoCmd*`), `StdWrite` (a CPU store anywhere in the region, with `DoStdWrite`'s page marking), `IpcStatusWrite`, `IrqMaskWrite`, `ResetWrite`, `Mount`, `Unmount`, `Reset`, `Persist`; `SaveChunk`/`LoadChunk` (the `regsSonyDsp` chunk of `DoSave`/`Load`) |
| `MCSonyDSP` | constants for TLC | | |
| `Nand` | `nand.cpp` | `state`, `area`, `addrBytesRxed` (with its 0xfe/0xff markers), `addrBytes`, `pageNo`, `pageOfst`, `busyCt`, `rdy` (the last ready callback), `bufPage` (which page the page buffer holds), `dirtyPages`, `dirty` (pages written since the last save), `writeCnt` (bound), `halted` (`ERR` reached), `last` (ghost: what the step loaded, programmed, erased or read) | one per command byte of `nandWrite` (`CmdRead`, `CmdEraseSetup`/`CmdProgramSetup`/`CmdReadIdSetup` (through `CmdSetup`), `CmdStatus`, `CmdReset`, `CmdReadConfirm`, `CmdEraseConfirm`, `CmdProgramConfirm`, `CmdUnknown`), `AddrWrite`, `DataWriteFirst`/`DataWriteNext`, `ReadIdData`, `ReadDataFirst`/`ReadDataNext`, `Periodic`, `Persist`, `Stopped`; the operators `SaveChunk` and `LoadChunk` are `nandSave` and `nandLoad` |
| `MCNand` | constants for TLC | | |
| `FrameBuffer` | `EmRegsFrameBuffer` | `fb` (page contents), `dirty` (the set bits of `dirtyPages`), `saved` (the image the savestate writer stored) | `SetLong`, `SetWord`, `SetByte`, `Load`, `Persist` |
| `MCFrameBuffer` | constants for TLC | | |
| `DbBackup` | `DbBackup` | `state`, `databases`, `currentDb` (an index; `Len + 1` is `end()`), `entries` (the zip stream), `archive`/`copied` (the buffer `GetArchive` copied), `visited` and `inits` (ghosts) | `InitFailed`, `InitBackup`, `Save(ok)`, `Skip`, `GetArchive` |
| `DbBackupSpec` | what `DbBackup` promises its caller | `phase`, `todo` (databases still to hand out), `handled` | `Start`, `Step` |
| `MCDbBackup` | constants for TLC | | |

Data is abstracted to what the properties tell apart:
- **Page contents.** A page is the number of the page it came from.
- **OOB bytes.** They are the number `Oob(block, page)`.
- **Shared-memory accesses.** They are recorded as the set of 1 KB pages they touch.
- **Framebuffer contents.** A 1 KB page holds the value of the last store to any of its bytes, from {0, 1}.
- **Databases.** A database is a model value, and a zip entry is the database it was opened for plus whether its export succeeded.
- **Savestates.** A savestate chunk is a record with one field per value that `DoSaveLoad` writes. Each value has the encoding the code gives it: register words built from their bit masks, IRQ bits as the `irqStat` byte, states and areas as their enum values, and raw fixed-size buffers. Loading decodes each field the way the handlers read it back, for example `mscmd >> 12` and `& DATA_SIZE_MASK`.
- **MSCS.** `mscsRead` is kept as the set of status flags it reports (RBF, RBE, DRQ). All three are in the register's high byte, which matters for byte reads through `compositeRegisterRead`.

Control is kept whole. That covers every guard, early return and failure status of the handlers, in the code's order. Examples:
- the memset and dirty marking before `PreparePage` in `DoCmdReadBootBlock`;
- the register copy in `DoCmdReadBlockOob`;
- the 1→0 edge test of MSCS.RST.

Every handler is one action, including the `RaiseInt` that `IpcCmdWrite` performs after `IpcDispatch`.

The card engine is modelled from the spec, because its source is absent. These definitions are marked `spec_modelled` in `PROJECT.json`:
- geometry checks against `BlocksTotal`/`PagesPerBlock`, which are 0 while no card is mounted;
- `PreparePage` loads the OOB register;
- TPC output is a nondeterministic choice from a small set of buffers.

`Persist` (in `SonyDSP`, `Nand` and `FrameBuffer`) also has no source in the repository. It stands for the savestate writer that consumes and clears the dirty bitmap. The front end that drives `DbBackup` is not in the repository either: the model lets it make any sequence of calls that keeps the code's `EmAssert`s.

In `Nand`, a page's contents are abstracted to the page number they came from, so the model tracks which page the buffer holds (`bufPage`) and which pages were written. A byte is `ByteBits` = 2 bits wide instead of 8, so that address bytes, the `addrBytesRxed` count and the little-endian decode keep the code's shape at a geometry of 12 pages of 5 bytes. `ERR` is the variable `halted` plus a stuttering step `Stopped`, because the emulator stops there.

## Runs

The passing runs check safety invariants and action properties over every interleaving of CPU register accesses, card insertion and removal, and hardware reset.

| Run | Checks | Shows |
|---|---|---|
| `mb86189` | `TypeOK`, `NoWriteOverrun`, `WriteDataIntegrity`, `MscsReportsBuffer`, `SavestateRoundTrip` | Over any mix of FIFO-queued and streamed words, the 512-byte write buffer is never overrun, and the engine gets exactly the bytes written, high byte first. MSCS's RBE and RBF flags, read as a word or as the flag byte, never promise data that MSDATA cannot deliver; the uint32 difference behind them never wraps. In every reachable state, including the middle of a TPC, the chunk `DoSave` writes restores every register, the state, the FIFO and the buffers when it is loaded into a fresh controller (spec §8, property 8). |
| `sonydsp_ipc` | `TypeOK`, `ShmAccessInBounds`, `ResultsOnlyOnSuccess` | Every IPC command stays inside the shared-memory window, including arguments below the window, at its end, and ones that wrap in the uint16 `shmBase`. A failed or busy command never shows a result. |
| `sonydsp_card` | `CardBitsMatchMount`, `CpuWritesMarked`, `SavestateRoundTrip` | Mount, unmount, reset and the mask and status writes keep `INT_MS_INSERT`/`INT_MS_EJECT` consistent with the mount state. A CPU store of 1, 2 or 4 bytes, including a long that crosses a 1 KB page and the last bytes of the region, marks every page it changes. In every reachable state, including between an escape and its write-block, the `regsSonyDsp` chunk restores `savedArguments[0]`, `isMounted` and the engine cursor into a reset DSP, whether or not that DSP has a card. |
| `nand` | `TypeOK`, `ReadyLineMatchesBusy`, `DirtyCoversWrites`, `SavestateRoundTrip`, `BusyEventuallyReady` | On a chip with areas and the second read command, with in-range addresses, over any order of command, address and data cycles and periodic ticks, the following hold. The last ready callback always matches `busyCt`. Every page programmed or erased since the last save is marked in `dirtyPages`. The `nandSave` chunk restores the whole command state, busy count included. Under weak fairness of `nandPeriodic`, every busy period ends with a ready callback unless the emulator stopped. |
| `framebuffer` | `TypeOK`, `StoredImageCurrent` | Over byte, word and long stores (one long crossing pages 0/1, one crossing bitmap bytes 0/1, the last long of the region), old-format loads and saves, every page whose contents differ from the stored image is marked, so incremental saves lose nothing. |
| `dbbackup` | `TypeOK`, `IteratorValid`, `Refinement` | For empty, one- and three-database lists, failed `Init`s and any mix of successful and failed `Save`s and `Skip`s, `IsInProgress` is never true at `end()`, and a finished backup moved past every database once, in order. `DbBackup` implements `DbBackupSpec` under the mapping `phase` ← `state`, `todo` ← `SubSeq(databases, currentDb, Len(databases))`, `handled` ← `visited`. The run stops once the caller has nothing left to call, so deadlock is not checked. |

Each violation run checks one property that the spec states of the program. TLC finds a trace in which the code breaks it. `PROJECT.json` → `findings` explains each one.

| Run | Property | What the trace shows |
|---|---|---|
| `mb86189_irq` | `IrqLineReported` | The level last given to `irqChange` is not always `INTEN && flags`. A flag latched while INTEN was clear keeps INT low after INTEN is set, because `UpdateIrqLine` returns early (line 190). |
| `sonydsp_dirty` | `DirtyMapCorrect` | `MarkRangeDirty` is inclusive of `(base+size)>>10`. A boot-block blob ending at 0x10000 marks page 64 of a 64-page bitmap (line 289). |
| `sonydsp_results` | `ResultsReflectEngine` | `MS_READ_BLOCK` of a block past the card reports success. The result of `PreparePage` is ignored (line 622). |
| `sonydsp_irq_edge` | `IrqEdgeNotified` | `Mount` clears `INT_MS_EJECT` without a dispatch. With only EJECT unmasked, the line falls silently (line 244). |
| `nand_oob` | `AccessInBounds` | `AccessInBounds` is the memory safety of the data array, the page buffer and the `dirtyPages` words. The run's bitmap is one word of exactly 3 savestate pages, the exact multiple every power-of-two part has. With address bytes that reach rows past the device, erase confirm takes the row address without a bound check, so an erase of a block past the device is carried out (line 138). The trace's erase also sets bitmap bits 3..4 past the word. Erasing the last block inside the device (rows 8..11) alone sets bit 3, because the erase marks its savestate pages up to and including the page after the block (line 142); that was checked with in-range address bytes. |
| `nand_rows` | `EveryBlockErasable` | On a 20-page device with 2-bit bytes, 5 row bits are needed, but `nandInit`'s formula counts the index of the top bit rather than the bit count, and gives 2 bytes, which reach only 16 pages. The violation is in the initial state (line 491). With 8-bit bytes the same happens at 257–512 and at 65537–131072 pages, a 64 MB small-page K9 included. |

Several hazards found while modelling are covered by these properties but their runs show a different trace first: the MB86189 reset that clears INT without an edge (line 159), the DSP single-page read that leaves a page unmarked (line 627), `MS_READ_BLOCK_OOB` reading a copy of the registers (line 713), and, under `AccessInBounds`, the NAND program past the device (line 319) and the area C read that starts past the page buffer (line 403). A NAND read of a page past the device is refused without reloading the buffer, so the next read serves the page loaded before (line 376). No run checks it: it needs rows past the device, and the only run that reaches them checks memory safety, which the stale read does not break. They are in `PROJECT.json` → `hazards`.

Every property of a passing run has a mutant in `PROJECT.json`. A mutant replaces one mapped definition with a plausible bug, and TLC finds the property violated:

| Mutant | Property it violates |
|---|---|
| transfer size not capped at 512 | `NoWriteOverrun` |
| word stored low byte first | `WriteDataIntegrity` |
| FIFO overflow checked after the push | `TypeOK` |
| status not masked | `TypeOK` (sonydsp_ipc) |
| results not cleared | `ResultsOnlyOnSuccess` |
| read-block without window check | `ShmAccessInBounds` |
| mount that keeps EJECT | `CardBitsMatchMount` |
| address byte accepted past the address length | `TypeOK` |
| periodic tick that does not call the ready callback | `ReadyLineMatchesBusy` |
| program marks the page number, not its byte offset | `DirtyCoversWrites` |
| periodic tick that stops counting at 1 | `BusyEventuallyReady` |
| RBF reported with one word left instead of two | `MscsReportsBuffer` |
| DSP store marks only the page of its first word | `CpuWritesMarked` |
| framebuffer long store marks only the page of its first word | `StoredImageCurrent` |
| old-format load sets one bitmap byte per page instead of per 8 pages | `TypeOK` (framebuffer) |
| backup end test off by one | `IteratorValid` |
| backup iterator incremented twice | `TypeOK` (dbbackup) |
| `Init` in progress even on an empty list | `Refinement` |
| MSICS flags kept unshifted, on the INTEN bit | `SavestateRoundTrip` (mb86189) |
| `busyCt` left out of the NAND chunk | `SavestateRoundTrip` (nand) |
| DSP chunk of the current version refused (`>=` for `>`) | `SavestateRoundTrip` (sonydsp_card) |

## Bounds and why they are enough

* **MB86189.** These values take each branch of `GetTransferSize`, `FifoWrite`, `msdataRead` and `FinishTpc` at its boundary, including the 512 clamp scaled down:
  - transfer sizes {0, 1, 3, 8, 11} with a data-size mask of 15 (odd, even, zero, over the mask);
  - a write buffer of 8 bytes, standing for the code's 512;
  - output buffers of 3 and 8 bytes.

  The FIFO is 3 words deep instead of 8 for state-space reasons. The overflow check compares against the depth constant, so the full FIFO is still reached.
* **SonyDSP.** A card of 3 blocks of 2 pages. Block arguments are 2 (last valid) and 3 (first invalid). The page ranges cover equal, ascending, descending and past-the-block. The shared-memory arguments 0x3fff, 0x7ffa and 0xc000 hit each window check and the uint16 wrap. The violation runs add 0x4180 (unaligned) and 0x6b00 (blob ending at 0x10000). Both these values and the 1 KB page size are those of the code. The window and the bitmap are modelled at full size, as page numbers 0..63.
* **Nand.** 3 blocks of 4 pages of 5 bytes, with 2-bit bytes: one column byte and two row bytes, so that the `addrBytesRxed` count and the multi-byte decode are exercised. Address bytes {0, 2} keep every row in range for the passing run; the violation runs use {0, 3}, which reaches rows past the device. Savestate pages are 20 bytes, 4 flash pages each, so the 60-byte device has 3 savestate pages and a program or erase marks one or two of them. The passing run has 4-bit bitmap words (one word, one spare bit); the `nand_oob` run has 3-bit words, so that the bitmap is filled exactly, as on a power-of-two part. The busy counts 3/2/1 keep the order of erase, program and read busy periods. `MaxWrites` = 1 allows one program or erase per behaviour. The invariants are about the last write, and every mutant of them breaks within one write. Two writes together with the liveness check took 4.5 minutes. The chip has both flags, so the `0x30` confirm, the 0xfe marker and areas B/C all occur. The `nand_oob` run keeps `MaxWrites` = 2. The `nand_rows` run takes 5 blocks (20 pages) and shows the `pageAddrBytes` shortfall of `nandInit`.
* **SonyDSP CPU stores.** The card run adds store addresses 33790 (a long crossing from page 32 into page 33), 65534 (the last word) and 65535 (the last byte). Word and long stores at odd addresses are left out, because the 68000 raises an address error for them.
* **FrameBuffer.** The region is the real 80 KB with 1 KB pages. The offsets 1022, 1025, 8190 and 81916 give a long crossing pages 0 and 1, an odd byte, a long crossing bitmap bytes 0 and 1, and the last long. 80 KB is a multiple of 8 KB, so `Load`'s `framebufferSize / 1024 / 8` sets every page; a size that is not would leave the last pages unmarked (a hazard in `PROJECT.json`).
* **DbBackup.** The lists `<<>>`, `<<a>>` and `<<a, b, c>>` take the empty-list shortcut of `Init`, the end test after one step and after a mix of steps. `MaxInits` = 2 lets a failed `Init` be followed by a successful one.
* The passing runs reach between 323 and 2.7 million distinct states, each in under two minutes.

## Fairness

The Memory Stick controllers are driven entirely by the guest CPU, and the code promises no progress that the CPU does not cause, so their modules assume no fairness.

`FrameBuffer` and `DbBackup` assume no fairness either: stores, saves and the backup calls all happen only when the guest or the front end makes them, and their properties are safety properties.

`Nand` assumes weak fairness of `Periodic` only. The SoC schedules `nandPeriodic` on every tick while `nandTaskRequired` reports a non-zero `busyCt`, so a busy chip is ticked until it is ready. The guest is given no fairness: `BusyEventuallyReady` must hold whatever the guest does meanwhile, including issuing commands that reach `ERR`.

## Not modelled, and why

* The `MemoryStick` card engine: its block map, its TPC decoder and its card image. `MemoryStick.cpp` is not in the repository, so only the interface that the controllers use is modelled, from the spec.
* `Fifo.h` is absent. MB86189 constructs `fifo{4}` but tests `Size() == 8`, and which one is the capacity cannot be settled. This is recorded as a hazard.
* Of the Sony DSP: `Remount` (it only calls the engine), `IrqStatusWrite` (it only logs: the CPU cannot clear `INT_STATUS` bits by writing them), the register reads with no side effect (other than MSCS), and logging. Its registers are saved with the memory region and its dirty bitmap, which `CpuWritesMarked` and `DirtyMapCorrect` cover; the `regsSonyDsp` chunk is modelled. The logical-block arguments of `MS_WRITE_BLOCK` only reach the engine's block map, so the model keeps `savedArguments[0]` and nothing more, and the chunk carries only that one of the six.
* The two `MS_WRITE_BLOCK` layouts are the reverse of the spec's description (§ IPC dispatch). The spec says the primary layout reads every operand from the argument registers and the alternate layout re-uses the escaped old and logical block. In the code, the primary opcode reads `savedArguments[0]` and `[2]` (lines 647-648) and the alternate one reads `ARG_1`..`ARG_6`. The model follows the code. No run checks this disagreement, because a property could only restate the two branches against the spec's sentence. It is recorded with the stale-`savedArguments` hazard in `PROJECT.json`.
* `nandSecondReadyCbkSet` (a second receiver of the same callbacks) and `nandIsReady` of `nand.cpp` are not modelled. `nandLoad` restores `busyCt` without calling the ready callbacks or `rescheduleCb`, and whether the machine then polls `nandTaskRequired` is decided outside the repository; `Persist` stands for the savestate writer. The chip geometries of `nand.h` are not in the repository. The `nand_oob` run scales the exact-multiple geometry that every power-of-two part has, at which `dirtyPages` overflows (line 142).
* The framebuffer's reads, and `GetRealAddress`, which hands out a raw pointer whose writes are not marked. Its callers are outside the repository (a hazard in `PROJECT.json`).
* `DbBackup`'s zip contents, database names and file suffixes. Whether the front end calls `GetArchive` only after `IsDone` is decided outside the repository, so the archive cached by an early call is a hazard, not a property.
* The CLIE USB stub (`EmRegsUsbCLIE.cpp`). It is four byte registers whose only behaviour is that a store of 0xFB at offset 2 sets `dataRead` to 0xC0 before the store itself. The register layout (`HwrUsbCLIEType`) is in a header that is not in the repository, so what the store at offset 2 overwrites cannot be settled.
* `main.cpp` and the SDL front end are I/O glue with no protocol state.

## Plan for later work

1. `MemoryStickBlocks`: the card engine's block map, driven by `SonyDSP`'s erase and write-block. It would check that the logical-to-physical map stays a bijection, and would cover the stale `savedArguments` hazard.
2. An abstract IPC specification: one atomic "command → status, results, dirty pages" step. `SonyDSP` would be shown to refine it with `INSTANCE ... WITH`, as `DbBackup` refines `DbBackupSpec`. The same would be done for the MB86189 TPC protocol.
3. Savestate load as an action (restore in the middle of a running session) rather than a round trip into a fresh controller. This needs the interrupt controller's own savestate, which is outside the repository.
