------------------------------ MODULE SonyDSP ------------------------------
(***************************************************************************)
(* Host controller B: the DSP/IPC front end of the Sony CLIE Memory Stick  *)
(* (src/cloudpilot/emulator/hardware/clie/EmRegsSonyDSP.cpp).             *)
(*                                                                         *)
(* A write to IPC_COMMAND runs one IPC command to completion (IpcDispatch) *)
(* against the card engine; bulk data moves through the shared-memory     *)
(* window at 0x8000..0xffff of the register space.  The CPU's register     *)
(* accesses, card insertion and removal and emulator resets interleave    *)
(* freely; each is one atomic step.                                        *)
(*                                                                         *)
(* Data abstraction.  Argument registers are whatever the CPU stored last, *)
(* so each command takes its arguments as inputs from small sets.  The     *)
(* contents of the window are not kept; what is kept is which 1 KB pages  *)
(* the dirty-page bitmap marks (dirty) and, for the last command, the byte *)
(* range of the window it touched and the pages it wrote.  The             *)
(* card engine (MemoryStick.cpp is not part of the repository) is modelled *)
(* from the spec: page and block operations succeed exactly when a card is *)
(* mounted and the cursor is inside the geometry; the OOB bytes of page p  *)
(* of block b are a tag Oob(b, p) of the page.  RESULT_3..6 are only      *)
(* ever cleared and are left out.  Every register write of the handlers  *)
(* (WRITE_REGISTER) marks the register's own page, 0 or 3, in the same     *)
(* bitmap; those bits are always set with the write and are left out, so  *)
(* dirty holds the bits of the window and of the CPU's own data writes.   *)
(***************************************************************************)
EXTENDS Naturals, FiniteSets

CONSTANTS
    BlocksTotal,     \* MemoryStick::BlocksTotal() of the mounted image
    PagesPerBlock,   \* MemoryStick::PagesPerBlock() of the mounted image
    BlockArgs,       \* block numbers the CPU passes in argument registers
    PageRanges,      \* <<first page, last page>> pairs the CPU passes
    ShmArgs,         \* shared-memory word offsets the CPU passes
    UnknownCmds,     \* opcodes IpcDispatch does not know
    AccessSizes,     \* sizes of the CPU's writes to INT_MASK and IPC_STATUS
    MaskValues,      \* values the CPU writes to INT_MASK
    CpuAddrs         \* region offsets the CPU writes data at through StdWrite

ASSUME BlocksTotal \in Nat \ {0} /\ PagesPerBlock \in 1..255
ASSUME BlockArgs \cup ShmArgs \subseteq 0..65535
ASSUME PageRanges \subseteq (0..65535) \X (0..65535)
ASSUME CpuAddrs \subseteq 0..65535

\* Opcodes and constants of the anonymous namespace of EmRegsSonyDSP.cpp.
IPC_COMMAND_UPLOAD_TYPE_1 == 54           \* 0x0036
IPC_COMMAND_UPLOAD_TYPE_2 == 3205         \* 0x0c85
IPC_COMMAND_DSP_INIT == 55                \* 0x0037
IPC_COMMAND_ESCAPE == 2048                \* 0x0800
IPC_COMMAND_ESCAPE_ALT == 51200           \* 0xc800
IPC_COMMAND_MS_SENSE == 7681              \* 0x1e01
IPC_COMMAND_MS_READ_BOOT_BLOCK == 8705    \* 0x2201
IPC_COMMAND_MS_READ_BOOT_BLOCK_ALT == 27137 \* 0x6a01
IPC_COMMAND_MS_READ_OOB == 14849          \* 0x3a01
IPC_COMMAND_MS_READ_OOB_ALT == 6657       \* 0x1a01
IPC_COMMAND_MS_ERASE_BLOCK == 12801       \* 0x3201
IPC_COMMAND_MS_ERASE_BLOCK_ALT == 4609    \* 0x1201
IPC_COMMAND_MS_READ_BLOCK_OOB == 13825    \* 0x3601
IPC_COMMAND_MS_READ_BLOCK_OOB_ALT == 5633 \* 0x1601
IPC_COMMAND_MS_READ_BLOCK == 9729         \* 0x2601
IPC_COMMAND_MS_READ_BLOCK_ALT == 1537     \* 0x0601
IPC_COMMAND_MS_WRITE_BLOCK == 10753       \* 0x2a01
IPC_COMMAND_MS_WRITE_BLOCK_ALT == 2561    \* 0x0a01

IPC_STATUS_MASK == 64512                  \* 0xfc00
SHM_SPACE_START == 32768                  \* 0x8000
SHM_SPACE_SIZE == 32768                   \* 0x8000
SHM_BOOT_BLOCK_BASE == 18 * 512
SHM_GET_BOOT_BLOCK_BLOB_SIZE == 10752     \* 0x2a00
ADDRESS_SPACE_SIZE == 65536               \* register space incl. the window
BOOT_BLOCK == 0
BOOT_BLOCK_BACKUP == 1

IntBits == {"IPC_DONE", "MS_INSERT", "MS_EJECT"}
Word16 == 0..65535

\* Pages of the dirty-page bitmap: one bit per 1 KB of the register space.
BitmapPages == 0..(ADDRESS_SPACE_SIZE \div 1024) - 1
WindowPages == (SHM_SPACE_START \div 1024)..(ADDRESS_SPACE_SIZE \div 1024) - 1

\* The first two OOB bytes of a page, (oob[0] << 8) | oob[1], as an
\* injective tag of the page; the registers hold zeros after a reset.
Oob(b, p) == 1 + 256 * b + p
NoOob == 0

VARIABLES
    status,      \* IPC_STATUS
    results,     \* <<IPC_RESULT_1, IPC_RESULT_2>>
    intStatus,   \* INT_STATUS
    intMask,     \* INT_MASK
    ext,         \* the level last dispatched through irqChange
    mounted,     \* isMounted
    saved,       \* savedArguments[0], the old block of a later write-block
    ms,          \* the engine's registers: [block, page, oob]
    dirty,       \* pages whose bit is set in regsDirtyPages
    last         \* ghost: the outcome of the last IPC command (Outcome)

vars == <<status, results, intStatus, intMask, ext, mounted, saved, ms, dirty, last>>

(***************************************************************************)
(* The card engine, from the spec (MemoryStick.h: PreparePage,             *)
(* ProgramPage, EraseBlock, BlocksTotal, PagesPerBlock).                   *)
(***************************************************************************)
EngineBlocks == IF mounted THEN BlocksTotal ELSE 0
EnginePages == IF mounted THEN PagesPerBlock ELSE 0
PageOk(b, p) == b < EngineBlocks /\ p < EnginePages
BlockOk(b) == b < EngineBlocks

(***************************************************************************)
(* Helpers of EmRegsSonyDSP.                                               *)
(***************************************************************************)

\* Mutant: the (cmd << 10) form of the upload opcodes, without its mask.
StatusHiUnmasked(cmd) == cmd * 1024

\* cmd & IPC_STATUS_MASK
StatusHi(cmd) == (cmd \div 1024) * 1024

\* uint16 shmBase = READ_REGISTER(arg) * 2
ShmBase(arg) == (arg * 2) % 65536

\* GetIrqLine: INT_STATUS & INT_MASK
Line(s, m) == s \cap m # {}

\* RaiseInt / ClearInt: update INT_STATUS and dispatch a change of the line.
RaiseInt(s, bits) ==
    /\ intStatus' = s \cup bits
    /\ ext' = IF Line(s \cup bits, intMask) # Line(s, intMask)
              THEN Line(s \cup bits, intMask) ELSE ext

ClearInt(bits) ==
    /\ intStatus' = intStatus \ bits
    /\ ext' = IF Line(intStatus \ bits, intMask) # Line(intStatus, intMask)
              THEN Line(intStatus \ bits, intMask) ELSE ext

\* The pages MarkRangeDirty(base, size) marks: base >> 10 to (base + size) >> 10.
MarkRangeDirty(base, size) == (base \div 1024)..((base + size) \div 1024)

\* The pages the bytes [base, base + size) lie in.
PagesOf(base, size) ==
    IF size = 0 THEN {} ELSE (base \div 1024)..((base + size - 1) \div 1024)

\* The outcome of a command: the block MS_READ_BLOCK_OOB named (NoBlock for
\* any other command), whether every engine call it made succeeded (ok), the
\* 1 KB pages of the register space it read or wrote in the window (rw), the
\* pages it wrote (wr) and the IPC_STATUS it left (st); cpu is the pages
\* of the last data write of the CPU itself (DoStdWrite).
NoBlock == 65536
Outcome(cmd, b, ok, rw, wr, st) ==
    [oobBlock |-> IF cmd \in {IPC_COMMAND_MS_READ_BLOCK_OOB, IPC_COMMAND_MS_READ_BLOCK_OOB_ALT}
                  THEN b ELSE NoBlock,
     ok |-> ok, rw |-> rw, wr |-> wr, st |-> st, cpu |-> {}]

\* Set the cursor to (b, p) and PreparePage: the OOB of the page is loaded
\* into the registers when the page exists.
Prepare(r, b, p) ==
    [r EXCEPT !.block = b, !.page = p,
              !.oob = IF PageOk(b, p) THEN Oob(b, p) ELSE r.oob]

InitMs == [block |-> 0, page |-> 0, oob |-> NoOob]
NoCmd == Outcome(0, 0, TRUE, {}, {}, IPC_STATUS_MASK)

(***************************************************************************)
(* The IPC commands.  Each handler first writes the busy status            *)
(* (cmd & IPC_STATUS_MASK) | 1 and leaves it there on every early return.  *)
(***************************************************************************)

\* Mutant: the results are not cleared before a command that then fails.
BusyKeepResults(cmd, b) ==
    /\ status' = StatusHi(cmd) + 1
    /\ last' = Outcome(cmd, b, TRUE, {}, {}, StatusHi(cmd) + 1)
    /\ UNCHANGED <<results, ms, dirty, saved>>

\* An early return: only the busy status and the cleared results remain.
Busy(cmd, b) ==
    /\ status' = StatusHi(cmd) + 1
    /\ results' = <<0, 0>>
    /\ last' = Outcome(cmd, b, TRUE, {}, {}, StatusHi(cmd) + 1)
    /\ UNCHANGED <<ms, dirty, saved>>

\* A command that completes with status st, touched [lo, hi), wrote wr.
Done(cmd, b, ok, lo, hi, wr, st) ==
    /\ status' = st
    /\ last' = Outcome(cmd, b, ok, PagesOf(lo, hi - lo), wr, st)
    /\ UNCHANGED saved

DoCmdReadBootBlock(cmd, a1) ==
    LET shm == ShmBase(a1)
        off == shm - SHM_SPACE_START
        lo == SHM_SPACE_START + off
        ok0 == PageOk(BOOT_BLOCK, 0)
        ok == ok0 /\ PageOk(BOOT_BLOCK, 1)
    IN  IF shm < SHM_SPACE_START \/ off + SHM_GET_BOOT_BLOCK_BLOB_SIZE > SHM_SPACE_SIZE
        THEN Busy(cmd, BOOT_BLOCK)
        ELSE /\ dirty' = dirty \cup MarkRangeDirty(SHM_SPACE_SIZE + off,
                                                   SHM_GET_BOOT_BLOCK_BLOB_SIZE)
             /\ ms' = IF ok0 THEN Prepare(Prepare(ms, BOOT_BLOCK, 0), BOOT_BLOCK, 1)
                             ELSE Prepare(ms, BOOT_BLOCK, 0)
             /\ results' = <<0, IF ~ok THEN 0
                                ELSE IF cmd = IPC_COMMAND_MS_READ_BOOT_BLOCK_ALT
                                     THEN 16384 ELSE BOOT_BLOCK_BACKUP>>
             /\ Done(cmd, BOOT_BLOCK, ok, lo, lo + SHM_GET_BOOT_BLOCK_BLOB_SIZE,
                     PagesOf(lo, SHM_GET_BOOT_BLOCK_BLOB_SIZE),
                     StatusHi(cmd) + IF ok THEN 0 ELSE 1)

DoCmdReadOob(cmd, a3) ==
    LET shm == ShmBase(a3)
        off == shm - SHM_SPACE_START
        lo == SHM_SPACE_START + off
        n == EngineBlocks
    IN  IF shm < SHM_SPACE_START \/ off + 4 * n > SHM_SPACE_SIZE
        THEN Busy(cmd, 0)
        ELSE /\ ms' = IF n = 0 THEN [ms EXCEPT !.page = 0] ELSE Prepare(ms, n - 1, 0)
             /\ dirty' = dirty \cup MarkRangeDirty(lo, 4 * n)
             /\ results' = <<0, 0>>
             /\ Done(cmd, 0, TRUE, lo, lo + 4 * n, PagesOf(lo, 4 * n), StatusHi(cmd))

EraseBlock(cmd, a1) ==
    /\ ms' = [ms EXCEPT !.block = a1]
    /\ results' = <<0, 0>>
    /\ UNCHANGED dirty
    /\ Done(cmd, a1, BlockOk(a1), 0, 0, {}, StatusHi(cmd) + IF BlockOk(a1) THEN 0 ELSE 1)

\* The registers are copied, the copy's cursor is set, but PreparePage works
\* on the engine's own registers; RESULT_1 is taken from the copy.
DoCmdReadBlockOob(cmd, a1) ==
    LET copy == [ms EXCEPT !.block = a1, !.page = 0]
    IN  IF ~PageOk(ms.block, ms.page)
        THEN Busy(cmd, a1)
        ELSE /\ ms' = Prepare(ms, ms.block, ms.page)
             /\ results' = <<copy.oob, 0>>
             /\ UNCHANGED dirty
             /\ Done(cmd, a1, TRUE, 0, 0, {}, StatusHi(cmd))

\* Mutant: the shared-memory size check of DoCmdReadBlock is dropped.
DoCmdReadBlockUnbounded(cmd, b, a2, first, lastPage) ==
    LET shm == ShmBase(a2)
        off == shm - SHM_SPACE_START
        lo == SHM_SPACE_START + off
        n == lastPage - first + 1
        ok == PageOk(b, first)
    IN  IF lastPage < first \/ lastPage >= EnginePages \/ shm < SHM_SPACE_START
        THEN Busy(cmd, b)
        ELSE /\ ms' = Prepare(ms, b, lastPage)
             /\ dirty' = dirty \cup MarkRangeDirty(lo, (lastPage - first) * 512)
             /\ results' = <<0, 0>>
             /\ Done(cmd, b, ok, lo, lo + 512 * n,
                     IF ok THEN PagesOf(lo, 512 * n) ELSE {}, StatusHi(cmd))

DoCmdReadBlock(cmd, b, a2, first, lastPage) ==
    LET shm == ShmBase(a2)
        off == shm - SHM_SPACE_START
        lo == SHM_SPACE_START + off
        n == lastPage - first + 1
        ok == PageOk(b, first)
    IN  IF lastPage < first \/ lastPage >= EnginePages
           \/ shm < SHM_SPACE_START \/ off + 512 * n > SHM_SPACE_SIZE
        THEN Busy(cmd, b)
        ELSE /\ ms' = Prepare(ms, b, lastPage)
             /\ dirty' = dirty \cup MarkRangeDirty(lo, (lastPage - first) * 512)
             /\ results' = <<0, 0>>
             /\ Done(cmd, b, ok, lo, lo + 512 * n,
                     IF ok THEN PagesOf(lo, 512 * n) ELSE {}, StatusHi(cmd))

DoCmdWriteBlock(cmd, b, a, first, lastPage, oldBlock) ==
    LET shm == ShmBase(a)
        off == shm - SHM_SPACE_START
        lo == SHM_SPACE_START + off + first * 512
    IN  IF \/ oldBlock >= EngineBlocks /\ oldBlock # 65535
           \/ b >= EngineBlocks
           \/ first > lastPage
           \/ lastPage >= EnginePages
           \/ shm < SHM_SPACE_START
           \/ off + 512 * EnginePages > SHM_SPACE_SIZE
        THEN Busy(cmd, b)
        ELSE /\ ms' = [ms EXCEPT !.block = b, !.page = lastPage]
             /\ results' = <<0, 0>>
             /\ UNCHANGED dirty
             /\ Done(cmd, b, TRUE, lo, lo + 512 * (lastPage - first + 1), {}, StatusHi(cmd))

\* Any other opcode, and the firmware commands that only set a status.
SetStatus(cmd, st) ==
    /\ results' = <<0, 0>>
    /\ UNCHANGED <<ms, dirty>>
    /\ Done(cmd, 0, TRUE, 0, 0, {}, st)

\* The escape opcodes snapshot the arguments for a later write-block.
Escape(cmd, a1) ==
    /\ saved' = a1
    /\ results' = <<0, 0>>
    /\ last' = Outcome(cmd, 0, TRUE, {}, {}, status)
    /\ UNCHANGED <<status, ms, dirty>>

IsEscape(cmd) == cmd \in {IPC_COMMAND_ESCAPE, IPC_COMMAND_ESCAPE_ALT}

\* The switch of IpcDispatch, with the argument registers as inputs.
Command(cmd) ==
    CASE cmd \in {IPC_COMMAND_UPLOAD_TYPE_1, IPC_COMMAND_DSP_INIT} ->
            SetStatus(cmd, (cmd * 1024) % 65536)  \* (cmd << 10) & mask
      [] cmd = IPC_COMMAND_UPLOAD_TYPE_2 -> SetStatus(cmd, IPC_STATUS_MASK)
      [] cmd = IPC_COMMAND_MS_SENSE -> SetStatus(cmd, StatusHi(cmd))
      [] cmd \in {IPC_COMMAND_MS_READ_BOOT_BLOCK, IPC_COMMAND_MS_READ_BOOT_BLOCK_ALT} ->
            \E a1 \in ShmArgs : DoCmdReadBootBlock(cmd, a1)
      [] cmd \in {IPC_COMMAND_MS_READ_OOB, IPC_COMMAND_MS_READ_OOB_ALT} ->
            \E a3 \in ShmArgs : DoCmdReadOob(cmd, a3)
      [] cmd \in {IPC_COMMAND_MS_ERASE_BLOCK, IPC_COMMAND_MS_ERASE_BLOCK_ALT} ->
            \E a1 \in BlockArgs : EraseBlock(cmd, a1)
      [] cmd \in {IPC_COMMAND_MS_READ_BLOCK_OOB, IPC_COMMAND_MS_READ_BLOCK_OOB_ALT} ->
            \E a1 \in BlockArgs : DoCmdReadBlockOob(cmd, a1)
      [] cmd \in {IPC_COMMAND_MS_READ_BLOCK, IPC_COMMAND_MS_READ_BLOCK_ALT} ->
            \E b \in BlockArgs, a2 \in ShmArgs, r \in PageRanges :
                DoCmdReadBlock(cmd, b, a2, r[1], r[2])
      [] IsEscape(cmd) ->
            \E a1 \in BlockArgs \cup {65535} : Escape(cmd, a1)
      [] cmd = IPC_COMMAND_MS_WRITE_BLOCK ->
            \E b \in BlockArgs, a2 \in ShmArgs, r \in PageRanges :
                DoCmdWriteBlock(cmd, b, a2, r[1], r[2], saved)
      [] cmd = IPC_COMMAND_MS_WRITE_BLOCK_ALT ->
            \E b \in BlockArgs, a4 \in ShmArgs, r \in PageRanges,
               old \in BlockArgs \cup {65535} :
                DoCmdWriteBlock(cmd, b, a4, r[1], r[2], old)
      [] OTHER -> SetStatus(cmd, StatusHi(cmd) + 15)

KnownCmds ==
    {IPC_COMMAND_UPLOAD_TYPE_1, IPC_COMMAND_UPLOAD_TYPE_2, IPC_COMMAND_DSP_INIT,
     IPC_COMMAND_ESCAPE, IPC_COMMAND_ESCAPE_ALT, IPC_COMMAND_MS_SENSE,
     IPC_COMMAND_MS_READ_BOOT_BLOCK, IPC_COMMAND_MS_READ_BOOT_BLOCK_ALT,
     IPC_COMMAND_MS_READ_OOB, IPC_COMMAND_MS_READ_OOB_ALT,
     IPC_COMMAND_MS_ERASE_BLOCK, IPC_COMMAND_MS_ERASE_BLOCK_ALT,
     IPC_COMMAND_MS_READ_BLOCK_OOB, IPC_COMMAND_MS_READ_BLOCK_OOB_ALT,
     IPC_COMMAND_MS_READ_BLOCK, IPC_COMMAND_MS_READ_BLOCK_ALT,
     IPC_COMMAND_MS_WRITE_BLOCK, IPC_COMMAND_MS_WRITE_BLOCK_ALT}

\* IpcCmdWrite (a 16-bit write to IPC_COMMAND) and IpcDispatch: clear the
\* results, run the command, raise IPC_DONE unless it was an escape.
IpcCmdWrite(cmd) ==
    /\ Command(cmd)
    /\ IF IsEscape(cmd) THEN UNCHANGED <<intStatus, ext>>
                        ELSE RaiseInt(intStatus, {"IPC_DONE"})
    /\ UNCHANGED <<intMask, mounted>>

\* IpcStatusWrite: the value is stored; a 16-bit write also acks IPC_DONE.
IpcStatusWrite(size, v) ==
    /\ status' = v
    /\ IF size = 2 THEN ClearInt({"IPC_DONE"}) ELSE UNCHANGED <<intStatus, ext>>
    /\ UNCHANGED <<results, intMask, mounted, saved, ms, dirty, last>>

\* IrqMaskWrite: only a 16-bit write dispatches a change of the line.
IrqMaskWrite(size, m) ==
    /\ intMask' = m
    /\ ext' = IF size = 2 /\ Line(intStatus, m) # Line(intStatus, intMask)
              THEN Line(intStatus, m) ELSE ext
    /\ UNCHANGED <<status, results, intStatus, mounted, saved, ms, dirty, last>>

ResetWrite ==
    /\ status' = IPC_STATUS_MASK
    /\ UNCHANGED <<results, intStatus, intMask, ext, mounted, saved, ms, dirty, last>>

\* MarkPageDirty(offset): bit (offset >> 10) & 7 of byte offset >> 13 is
\* bit offset >> 10 of the bitmap.
MarkPageDirty(offset) == offset \div 1024

\* Mutant: a 32-bit write marks the page of its first word only.
DoStdWriteFirstWord(addr, size) ==
    /\ addr + size <= ADDRESS_SPACE_SIZE
    /\ dirty' = dirty \cup {MarkPageDirty(addr)}
    /\ last' = [last EXCEPT !.cpu = PagesOf(addr, size)]

\* DoStdWrite: a write past the region is a bus error and stores nothing;
\* otherwise the bytes are stored and the page of the offset is marked, and
\* for a 32-bit write the page of its second word too.
DoStdWrite(addr, size) ==
    /\ addr + size <= ADDRESS_SPACE_SIZE
    /\ dirty' = dirty \cup {MarkPageDirty(addr)}
                      \cup (IF size = 4 THEN {MarkPageDirty(addr + 2)} ELSE {})
    /\ last' = [last EXCEPT !.cpu = PagesOf(addr, size)]

\* StdWrite: the handler of every offset without a handler of its own (the
\* argument registers and the window).  The 68000 raises an address error
\* for a word or long access at an odd address before the handler runs.
StdWrite(addr, size) ==
    /\ size = 1 \/ addr % 2 = 0
    /\ DoStdWrite(addr, size)
    /\ UNCHANGED <<status, results, intStatus, intMask, ext, mounted, saved, ms>>

\* Mutant: Mount raises INSERT without clearing EJECT.
MountKeepEject ==
    /\ ~mounted
    /\ mounted' = TRUE
    /\ RaiseInt(intStatus, {"MS_INSERT"})
    /\ UNCHANGED <<status, results, intMask, saved, ms, dirty, last>>

\* Mount: EJECT is cleared without a dispatch, then INSERT is raised.
Mount ==
    /\ ~mounted
    /\ mounted' = TRUE
    /\ RaiseInt(intStatus \ {"MS_EJECT"}, {"MS_INSERT"})
    /\ UNCHANGED <<status, results, intMask, saved, ms, dirty, last>>

Unmount ==
    /\ mounted
    /\ mounted' = FALSE
    /\ RaiseInt(intStatus \ {"MS_INSERT"}, {"MS_EJECT"})
    /\ UNCHANGED <<status, results, intMask, saved, ms, dirty, last>>

\* Reset(true): registers zeroed, every page dirty, no dispatch.
Reset ==
    /\ status' = IPC_STATUS_MASK
    /\ results' = <<0, 0>>
    /\ intStatus' = IF mounted THEN {"MS_INSERT"} ELSE {"MS_EJECT"}
    /\ intMask' = {}
    /\ saved' = 0
    /\ ms' = InitMs
    /\ dirty' = BitmapPages
    /\ last' = NoCmd
    /\ UNCHANGED <<ext, mounted>>

\* The savestate writer stores the dirty pages and clears the bitmap.
Persist ==
    /\ dirty' = {}
    /\ last' = [last EXCEPT !.wr = {}, !.cpu = {}]
    /\ UNCHANGED <<status, results, intStatus, intMask, ext, mounted, saved, ms>>

(***************************************************************************)
(* The regsSonyDsp savestate chunk.  The registers travel with the memory *)
(* region; the chunk carries the engine's own chunk, the version, the six  *)
(* savedArguments packed in pairs and isMounted.  Only savedArguments[0]   *)
(* is modelled (the other five are stored the same way and the model does *)
(* not read them).                                                         *)
(***************************************************************************)
SavestateVersion == 1

\* The fields of the DSP the chunks have to carry.
Dsp == [saved |-> saved, mounted |-> mounted, ms |-> ms]

\* DoSave: memoryStick.Save, the version, then DoSaveLoad's fields.
SaveChunk ==
    [engine |-> ms, version |-> SavestateVersion,
     savedArguments |-> saved, isMounted |-> mounted]

\* Mutant: the version test refuses the current version as well.
LoadChunkRefuseCurrent(c, cur) ==
    IF c.version >= SavestateVersion
    THEN [cur EXCEPT !.ms = c.engine]
    ELSE [saved |-> c.savedArguments, mounted |-> c.isMounted, ms |-> c.engine]

\* Load into a DSP whose fields are cur: memoryStick.Load first; a chunk of
\* a newer version is refused (NotifyError) after the engine is restored;
\* otherwise DoSaveLoad reads savedArguments and isMounted back.
LoadChunk(c, cur) ==
    IF c.version > SavestateVersion
    THEN [cur EXCEPT !.ms = c.engine]
    ELSE [saved |-> c.savedArguments, mounted |-> c.isMounted, ms |-> c.engine]

\* A DSP as Reset(true) leaves it, with the card in or out.
FreshDsp(m) == [saved |-> 0, mounted |-> m, ms |-> InitMs]

Init ==
    /\ status = IPC_STATUS_MASK
    /\ results = <<0, 0>>
    /\ intStatus = {"MS_EJECT"}
    /\ intMask = {}
    /\ ext = FALSE
    /\ mounted = FALSE
    /\ saved = 0
    /\ ms = InitMs
    /\ dirty = BitmapPages
    /\ last = NoCmd

\* Everything but the emulator's hardware reset.
CpuNext ==
    \/ \E cmd \in KnownCmds \cup UnknownCmds : IpcCmdWrite(cmd)
    \/ \E size \in AccessSizes : IpcStatusWrite(size, 0)
    \/ \E size \in AccessSizes, m \in MaskValues : IrqMaskWrite(size, m)
    \/ ResetWrite
    \/ \E addr \in CpuAddrs, size \in {1, 2, 4} : StdWrite(addr, size)
    \/ Mount
    \/ Unmount
    \/ Persist

Next == CpuNext \/ Reset

Spec == Init /\ [][Next]_vars
CpuSpec == Init /\ [][CpuNext]_vars

-----------------------------------------------------------------------------
TypeOK ==
    /\ status \in Word16
    /\ results \in Word16 \X Word16
    /\ intStatus \subseteq IntBits /\ intMask \subseteq IntBits
    /\ ext \in BOOLEAN /\ mounted \in BOOLEAN
    /\ saved \in Word16
    /\ ms \in [block : Word16, page : 0..255, oob : Word16]
    /\ last.ok \in BOOLEAN /\ last.st \in Word16
    /\ last.oobBlock \in Word16 \cup {NoBlock}

\* Memory safety of the window: every command that moves data between the
\* card and shared memory (boot block blob, OOB table, block read, block
\* write) stays inside 0x8000..0xffff, whatever uint16 offset the CPU passes
\* and however the shmBase * 2 wraps.
ShmAccessInBounds ==
    last.rw \subseteq WindowPages

\* IpcDispatch clears the RESULT registers before every command, so a
\* result the CPU can read belongs to a command that reported success and
\* whose engine calls all succeeded; a failed command never leaves the
\* results of an earlier one behind.
ResultsOnlyOnSuccess ==
    results # <<0, 0>> => last.st % 16 = 0 /\ last.ok

\* Mount, Unmount and Reset keep the card-presence interrupt bits in step
\* with isMounted: INSERT only while a card is in, EJECT only while none is.
CardBitsMatchMount ==
    /\ "MS_INSERT" \in intStatus => mounted
    /\ "MS_EJECT" \in intStatus => ~mounted

\* Every 1 KB page of the region that a command wrote is marked in the
\* dirty bitmap until the savestate writer takes it, and no bit outside the
\* 64-page bitmap is ever set (MarkRangeDirty and its callers).
DirtyMapCorrect == last.wr \subseteq dirty /\ dirty \subseteq BitmapPages

\* A storage command reports success (low status bits 0) only when every
\* card operation it issued succeeded (spec: arguments are validated
\* against the geometry, failures return busy status), and MS_READ_BLOCK_OOB
\* then returns in RESULT_1 the OOB of page 0 of the block in ARG_1.
ResultsReflectEngine ==
    /\ last.st % 16 = 0 => last.ok
    /\ last.oobBlock # NoBlock /\ last.st % 16 = 0 => results[1] = Oob(last.oobBlock, 0)

\* The CPU's own data writes into the region (block data it places in the
\* window for MS_WRITE_BLOCK, arguments) are persisted: every page a byte
\* of such a write landed in stays marked until the savestate writer takes
\* it, including a 32-bit write that crosses a 1 KB page (DoStdWrite).
CpuWritesMarked == last.cpu \subseteq dirty

\* A savestate taken at any point restores, into a freshly reset DSP with
\* or without a card, the escaped old block a later MS_WRITE_BLOCK reads,
\* isMounted (which Reset and the INSERT/EJECT bits follow) and the
\* engine's cursor (EmRegsSonyDSP::DoSave, Load, DoSaveLoad).
SavestateRoundTrip ==
    \A m \in BOOLEAN : LoadChunk(SaveChunk, FreshDsp(m)) = Dsp

\* The level last dispatched through irqChange is the level GetIrqLine
\* reports (spec: edge-triggered notification of every change).
IrqEdgeNotified == ext = Line(intStatus, intMask)

=============================================================================
