------------------------------ MODULE MB86189 ------------------------------
(***************************************************************************)
(* Host controller A: the MB86189 Memory Stick host controller register    *)
(* interface (src/cloudpilot/emulator/hardware/EmRegsMB86189.cpp).         *)
(*                                                                         *)
(* Every CPU register access is one atomic step: the emulator handles a    *)
(* load or store inline, so a handler runs to completion before the next   *)
(* access.  The interleaving that matters is the order of the CPU's        *)
(* accesses (MSCMD, MSDATA, MSCS, MSICS, MSPPCD), the GPIO callback and    *)
(* emulator resets.                                                        *)
(*                                                                         *)
(* Data abstraction.  The card engine (MemoryStick) is modelled from the   *)
(* spec, since MemoryStick.cpp is not part of the repository: ExecuteTpc   *)
(* on a read yields an output buffer of some size (or none) and may fire   *)
(* the engine's irq event.  A word written to MSDATA carries as its value  *)
(* its position among the words accepted since the last TPC finished, so  *)
(* byte k of that stream is the number k (the high byte of word w is 2w,   *)
(* the low byte 2w+1); what a write TPC hands to the engine can then be    *)
(* compared with what the CPU wrote.  Register bits that no handler reads  *)
(* back are left out (MSPPCD contents, MSCS low bits other than RST).      *)
(***************************************************************************)
EXTENDS Naturals, Sequences, FiniteSets

LOCAL FSE == INSTANCE FiniteSetsExt

CONSTANTS
    ReadTpcs,        \* TPC ids (MSCMD >> 12) that GetTpcType classifies as read
    WriteTpcs,       \* TPC ids that GetTpcType classifies as write
    TransferSizes,   \* values of MSCMD & DATA_SIZE_MASK the CPU writes
    DataSizeMask,    \* DATA_SIZE_MASK (0x03ff)
    BufferCapacity,  \* sizeof(writeBuffer) and the clamp of GetTransferSize (512)
    FifoDepth,       \* the FIFO depth at which MSDATA writes are dropped (8)
    DataOutSizes,    \* sizes of the engine's read output buffer
    FlagWrites       \* values the CPU writes to the high byte of MSICS

ASSUME ReadTpcs \cap WriteTpcs = {} /\ ReadTpcs \cup WriteTpcs \subseteq 1..15
ASSUME TransferSizes \subseteq 0..DataSizeMask
ASSUME BufferCapacity \in Nat \ {0} /\ FifoDepth \in Nat \ {0}
ASSUME DataOutSizes \subseteq Nat

IrqBits == {"RDY", "SIF", "PIN"}     \* IRQ_RDY, IRQ_SIF, IRQ_PIN
States == {"idle", "tpcWrite", "tpcRead"}

ASSUME FlagWrites \subseteq SUBSET IrqBits

\* The engine's output buffer: GetDataOut() may be null.
NoData == [null |-> TRUE, size |-> 0]
DataOuts == {NoData} \cup {[null |-> FALSE, size |-> s] : s \in DataOutSizes}

VARIABLES
    mscmd,           \* reg.mscmd as [tpc, size]: bits 15..12 and 9..0
    rst,             \* reg.mscs & MSCS_RST
    inten,           \* reg.msics & MSICS_INTEN
    irq,             \* [stat: irqStat, flags: high byte of reg.msics,
                     \*  int: reg.mscs & MSCS_INT, ext: last irqChange level]
    state,           \* EmRegsMB86189::state
    fifo,            \* fifo contents, oldest first
    writeBuffer,     \* writeBuffer[0 .. writeBufferSize - 1]
    readBufferIndex, \* readBufferIndex
    dataOut,         \* MemoryStick output buffer (GetDataOut, GetDataOutSize)
    accepted,        \* ghost: number of MSDATA words accepted since the last TPC ended
    lastExec         \* ghost: data and count of the last write ExecuteTpc

vars == <<mscmd, rst, inten, irq, state, fifo, writeBuffer, readBufferIndex,
          dataOut, accepted, lastExec>>

Min2(a, b) == IF a <= b THEN a ELSE b

(***************************************************************************)
(* Helpers of EmRegsMB86189.                                               *)
(***************************************************************************)

\* Bug variant: the size field without the 512-byte cap.
GetTransferSizeUncapped(cmd) == cmd.size

\* GetTransferSize: the size field of MSCMD, capped at the buffer size.
GetTransferSize(cmd) ==
    IF cmd.size > BufferCapacity THEN BufferCapacity ELSE cmd.size

\* MemoryStick::GetTpcType, read from the high nibble of MSCMD.
GetTpcType(tpc) == IF tpc \in ReadTpcs THEN "read" ELSE "write"

\* UpdateIrqLine: only while MSICS_INTEN is set, INT follows irqStat and a
\* change of INT is dispatched to irqChange.
UpdateIrqLine(i, en) ==
    IF ~en THEN i
    ELSE LET line == i.stat # {}
         IN  [i EXCEPT !.int = line, !.ext = IF line # i.int THEN line ELSE @]

\* RaiseIrq: latch the bits, update the line, copy the bits into MSICS.
RaiseIrq(i, bits, en) ==
    LET j == UpdateIrqLine([i EXCEPT !.stat = @ \cup bits], en)
    IN  [j EXCEPT !.flags = @ \cup bits]

\* NegateIrq: unlatch the bits and update the line.
NegateIrq(i, bits, en) == UpdateIrqLine([i EXCEPT !.stat = @ \ bits], en)

\* ClearIrqFlags: clear the bits in the high byte of MSICS only.
ClearIrqFlags(i, bits) == [i EXCEPT !.flags = @ \ bits]

\* The two bytes FifoWrite stores for word w, high byte first.
WordBytes(w) == <<2 * w, 2 * w + 1>>

\* The bytes of a sequence of words, in the order FifoWrite stores them.
RECURSIVE StreamBytes(_)
StreamBytes(ws) ==
    IF ws = <<>> THEN <<>> ELSE WordBytes(Head(ws)) \o StreamBytes(Tail(ws))

\* Bug variant: the low byte stored first.
StoreWordLowFirst(wb, w, size) ==
    IF Len(wb) + 1 >= size THEN Append(wb, WordBytes(w)[2])
    ELSE wb \o <<WordBytes(w)[2], WordBytes(w)[1]>>

\* FifoWrite while a TPC runs: store the high byte, stop if the transfer is
\* complete, else store the low byte.
StoreWord(wb, w, size) ==
    IF Len(wb) + 1 >= size THEN Append(wb, WordBytes(w)[1])
    ELSE wb \o WordBytes(w)

(***************************************************************************)
(* FinishTpc, with the engine calls it makes: ExecuteTpc of the write      *)
(* buffer for a write TPC (which may fire memoryStick.irq, routed to       *)
(* RaiseIrq(IRQ_SIF)), FinishReadTpc for a read TPC; then the FIFO is      *)
(* cleared and SetState(idle) raises IRQ_RDY.  st, cmd, wb and i are the   *)
(* state, command, write buffer and IRQ state at the time of the call.     *)
(***************************************************************************)
FinishTpc(st, cmd, wb, i) ==
    \E sif \in BOOLEAN :
        LET i1 == IF st = "tpcWrite" /\ sif THEN RaiseIrq(i, {"SIF"}, inten) ELSE i
        IN  /\ lastExec' = IF st = "tpcWrite"
                           THEN [data |-> wb, count |-> GetTransferSize(cmd)]
                           ELSE lastExec
            /\ dataOut' = IF st = "tpcWrite" THEN dataOut ELSE NoData
            /\ fifo' = <<>>
            /\ state' = "idle"
            /\ irq' = RaiseIrq(i1, {"RDY"}, inten)
            /\ writeBuffer' = wb
            /\ accepted' = 0

\* ResetHostController and the memoryStick.Reset it calls, as the record of
\* the state it leaves; MSCS = 0x0a05 clears INT without an irqChange.
ResetIrq(i) == [i EXCEPT !.stat = {}, !.flags = {}, !.int = FALSE]

ResetHostController ==
    /\ mscmd' = [tpc |-> 0, size |-> 0]
    /\ rst' = FALSE
    /\ state' = "idle"
    /\ dataOut' = NoData
    /\ fifo' = <<>>
    /\ writeBuffer' = <<>>
    /\ readBufferIndex' = 0
    /\ accepted' = 0

(***************************************************************************)
(* Initial state: the registers as Reset(true) leaves them after           *)
(* construction; no irqChange has been dispatched.                         *)
(***************************************************************************)
Init ==
    /\ mscmd = [tpc |-> 0, size |-> 0]
    /\ rst = FALSE
    /\ inten = FALSE
    /\ irq = [stat |-> {}, flags |-> {}, int |-> FALSE, ext |-> FALSE]
    /\ state = "idle"
    /\ fifo = <<>>
    /\ writeBuffer = <<>>
    /\ readBufferIndex = 0
    /\ dataOut = NoData
    /\ accepted = 0
    /\ lastExec = [data |-> <<>>, count |-> 0]

(***************************************************************************)
(* BeginTpc, called with the new command and the IRQ state: enter tpcRead  *)
(* or tpcWrite and reset both buffer cursors.  A read runs ExecuteTpc at   *)
(* once (the engine fills its output buffer and may fire its irq); a write *)
(* of size 0 finishes at once; any other write drains the FIFO into the    *)
(* write buffer, finishing if the queued words already complete it.       *)
(***************************************************************************)
BeginTpc(cmd, i0) ==
    LET n == GetTransferSize(cmd)
        queued == StreamBytes(fifo)
    IN
    /\ readBufferIndex' = 0
    /\ IF GetTpcType(cmd.tpc) = "read"
       THEN \E out \in DataOuts, sif \in BOOLEAN :
                /\ state' = "tpcRead"
                /\ dataOut' = out
                /\ irq' = IF sif THEN RaiseIrq(i0, {"SIF"}, inten) ELSE i0
                /\ writeBuffer' = <<>>
                /\ UNCHANGED <<fifo, accepted, lastExec>>
       ELSE IF n = 0 \/ Len(queued) >= n
       THEN FinishTpc("tpcWrite", cmd, SubSeq(queued, 1, n), i0)
       ELSE /\ state' = "tpcWrite"
            /\ writeBuffer' = queued
            /\ fifo' = <<>>
            /\ irq' = i0
            /\ UNCHANGED <<dataOut, accepted, lastExec>>

\* mscmdWrite: ignored while a TPC runs; otherwise clear IRQ_SIF and IRQ_RDY
\* in MSICS, store the command and BeginTpc.
MscmdWrite(tpc, size) ==
    LET cmd == [tpc |-> tpc, size |-> size]
    IN  /\ state = "idle"
        /\ mscmd' = cmd
        /\ UNCHANGED <<rst, inten>>
        /\ BeginTpc(cmd, ClearIrqFlags(irq, {"SIF", "RDY"}))

\* Bug variant: the overflow check one word late (Size() > 8).
FifoWriteLateOverflow(w) ==
    LET wb == StoreWord(writeBuffer, w, GetTransferSize(mscmd))
    IN
    IF state # "idle"
    THEN IF Len(wb) >= GetTransferSize(mscmd)
         THEN FinishTpc(state, mscmd, wb, irq)
         ELSE /\ writeBuffer' = wb
              /\ accepted' = accepted + 1
              /\ UNCHANGED <<irq, state, fifo, dataOut, lastExec>>
    ELSE /\ Len(fifo) <= FifoDepth
         /\ fifo' = Append(fifo, w)
         /\ accepted' = accepted + 1
         /\ UNCHANGED <<irq, state, writeBuffer, dataOut, lastExec>>

(***************************************************************************)
(* FifoWrite of word w.  While a TPC runs the word goes into the write     *)
(* buffer (finishing the TPC once GetTransferSize bytes are in); while     *)
(* idle it is queued, or dropped with a log message if the FIFO already    *)
(* holds FifoDepth words.                                                  *)
(***************************************************************************)
FifoWrite(w) ==
    LET wb == StoreWord(writeBuffer, w, GetTransferSize(mscmd))
    IN
    IF state # "idle"
    THEN IF Len(wb) >= GetTransferSize(mscmd)
         THEN FinishTpc(state, mscmd, wb, irq)
         ELSE /\ writeBuffer' = wb
              /\ accepted' = accepted + 1
              /\ UNCHANGED <<irq, state, fifo, dataOut, lastExec>>
    ELSE /\ Len(fifo) < FifoDepth
         /\ fifo' = Append(fifo, w)
         /\ accepted' = accepted + 1
         /\ UNCHANGED <<irq, state, writeBuffer, dataOut, lastExec>>

\* msdataWrite of a word: FifoWrite.
MsdataWrite ==
    /\ FifoWrite(accepted)
    /\ UNCHANGED <<mscmd, rst, inten, readBufferIndex>>

(***************************************************************************)
(* msdataRead: during a read TPC return the next two bytes of the engine's *)
(* output (or skip two bytes if it has none) and finish the TPC once       *)
(* min(GetTransferSize, GetDataOutSize) bytes are consumed.                *)
(***************************************************************************)
MsdataRead ==
    LET idx == IF dataOut.null THEN readBufferIndex + 2
               ELSE IF readBufferIndex >= dataOut.size THEN readBufferIndex
               ELSE Min2(readBufferIndex + 2, dataOut.size)
    IN
    /\ state = "tpcRead"
    /\ readBufferIndex' = idx
    /\ UNCHANGED <<mscmd, rst, inten>>
    /\ IF idx >= Min2(GetTransferSize(mscmd), dataOut.size)
       THEN FinishTpc(state, mscmd, writeBuffer, irq)
       ELSE UNCHANGED <<irq, state, fifo, writeBuffer, dataOut, accepted, lastExec>>

(***************************************************************************)
(* mscsWrite: only the low byte is written.  RST going from set to clear   *)
(* (((old ^ new) & old) & MSCS_RST) runs ResetHostController and raises    *)
(* IRQ_RDY.                                                                *)
(***************************************************************************)
MscsWrite(newRst) ==
    /\ UNCHANGED <<inten, lastExec>>
    /\ IF rst /\ ~newRst
       THEN /\ ResetHostController
            /\ irq' = RaiseIrq(ResetIrq(irq), {"RDY"}, inten)
       ELSE /\ rst' = newRst
            /\ UNCHANGED <<mscmd, irq, state, fifo, writeBuffer, readBufferIndex,
                           dataOut, accepted>>

(***************************************************************************)
(* msicsRead: NegateIrq(IRQ_SIF | IRQ_RDY | IRQ_PIN).                      *)
(***************************************************************************)
MsicsRead ==
    /\ irq' = NegateIrq(irq, IrqBits, inten)
    /\ UNCHANGED <<mscmd, rst, inten, state, fifo, writeBuffer, readBufferIndex,
                   dataOut, accepted, lastExec>>

(***************************************************************************)
(* msicsWrite of the low byte (size 1 at base + 1): sets INTEN; of the     *)
(* high byte (size 1 at base): overwrites the latched flags; of the word   *)
(* (size 2, value & 0x00ff): sets INTEN and clears every flag.  The line   *)
(* is not re-evaluated.                                                    *)
(***************************************************************************)
MsicsWriteLow(en) ==
    /\ inten' = en
    /\ UNCHANGED <<mscmd, rst, irq, state, fifo, writeBuffer, readBufferIndex,
                   dataOut, accepted, lastExec>>

MsicsWriteHigh(bits) ==
    /\ irq' = [irq EXCEPT !.flags = bits]
    /\ UNCHANGED <<mscmd, rst, inten, state, fifo, writeBuffer, readBufferIndex,
                   dataOut, accepted, lastExec>>

MsicsWriteWord(en) ==
    /\ inten' = en
    /\ irq' = [irq EXCEPT !.flags = {}]
    /\ UNCHANGED <<mscmd, rst, state, fifo, writeBuffer, readBufferIndex,
                   dataOut, accepted, lastExec>>

(***************************************************************************)
(* msppcdRead: ClearIrqFlags(IRQ_PIN).                                     *)
(***************************************************************************)
MsppcdRead ==
    /\ irq' = ClearIrqFlags(irq, {"PIN"})
    /\ UNCHANGED <<mscmd, rst, inten, state, fifo, writeBuffer, readBufferIndex,
                   dataOut, accepted, lastExec>>

(***************************************************************************)
(* mscsRead: the status flags the CPU polls before MSDATA.  RBF and RBE    *)
(* compare GetDataOutSize() - readBufferIndex, a uint32 difference: below  *)
(* zero it wraps to 2^32 minus the excess, which is neither 0 nor below 4  *)
(* for any index the handlers reach.  The flags are kept as a set of       *)
(* names; all three lie in the high byte of MSCS.                          *)
(***************************************************************************)
DataOutLeftZero == readBufferIndex = dataOut.size

DataOutLeftAtLeast(n) ==
    readBufferIndex > dataOut.size \/ dataOut.size - readBufferIndex >= n

\* Mutant: RBF reported once one word (2 bytes) is left instead of two.
MscsFlagsRbfOneWord ==
    {f \in {"RBF", "RBE", "DRQ"} :
        \/ f = "RBF" /\ state = "tpcRead" /\ DataOutLeftAtLeast(2)
        \/ f = "RBE" /\ (state # "tpcRead" \/ DataOutLeftZero)
        \/ f = "DRQ" /\ state # "idle"}

MscsFlags ==
    {f \in {"RBF", "RBE", "DRQ"} :
        \/ f = "RBF" /\ state = "tpcRead" /\ DataOutLeftAtLeast(4)
        \/ f = "RBE" /\ (state # "tpcRead" \/ DataOutLeftZero)
        \/ f = "DRQ" /\ state # "idle"}

\* compositeRegisterRead of high-byte flags: a word read returns them, a
\* byte read only at the register's own (high) address, a long read 0.
CompositeRegisterReadFlags(flags, atBase, size) ==
    IF size = 2 \/ (size = 1 /\ atBase) THEN flags ELSE {}

MscsRead(atBase, size) == CompositeRegisterReadFlags(MscsFlags, atBase, size)

(***************************************************************************)
(* Savestate: DoSave writes SAVESTATE_VERSION and DoSaveLoad's fields into *)
(* the regsMB86189 chunk, after memoryStick.Save has written the engine's  *)
(* chunk; Load reads them back through the same DoSaveLoad.  The registers *)
(* are saved as the 16-bit words the handlers keep them in, irqStat as its *)
(* byte, the state as its enum value and the write buffer raw, all 512     *)
(* bytes of it.  Bytes of the raw buffer past writeBufferSize are stale;   *)
(* they are written as 0 here, since nothing reads them back.  The low     *)
(* bits of MSCS and MSICS the model does not keep are written as 0 too.    *)
(***************************************************************************)
SavestateVersion == 1

\* IRQ_RDY, IRQ_SIF and IRQ_PIN.
IrqMask == [RDY |-> 128, SIF |-> 64, PIN |-> 16]

\* State : uint8 { idle = 0, tpcWrite = 1, tpcRead = 2 }.
StateByte == [idle |-> 0, tpcWrite |-> 1, tpcRead |-> 2]

Bit(flag, mask) == IF flag THEN mask ELSE 0

IsSet(x, mask) == (x \div mask) % 2 = 1

\* irqStat: the OR of the latched bits' masks.
IrqByte(bits) == FSE!MapThenSumSet(LAMBDA b : IrqMask[b], bits)

IrqBitsOf(x) == {b \in IrqBits : IsSet(x, IrqMask[b])}

\* reg.mscmd: the TPC id in bits 15..12, the size in the low bits.
MscmdWord(cmd) == cmd.tpc * 4096 + cmd.size

\* reg.mscs: MSCS_INT and MSCS_RST.
MscsWord(r, int) == Bit(int, 32768) + Bit(r, 128)

\* Mutant: the flags kept in the low byte of MSICS (bits instead of
\* bits << 8), where IRQ_RDY shares its bit with MSICS_INTEN.
MsicsWordUnshifted(en, flags) == IrqByte(flags) + Bit(en, 128)

\* reg.msics: TransferIrqFlags keeps the flags in the high byte, beside
\* MSICS_INTEN in the low byte.
MsicsWord(en, flags) == IrqByte(flags) * 256 + Bit(en, 128)

\* The fields of the controller the chunk has to carry.
Controller ==
    [mscmd |-> mscmd, rst |-> rst, inten |-> inten, stat |-> irq.stat,
     flags |-> irq.flags, int |-> irq.int, state |-> state, fifo |-> fifo,
     writeBuffer |-> writeBuffer, readBufferIndex |-> readBufferIndex,
     dataOut |-> dataOut]

\* DoSave: the engine's chunk, the version, then DoSaveLoad's fields.
SaveChunk ==
    [engine |-> dataOut,
     version |-> SavestateVersion,
     mscmd |-> MscmdWord(mscmd), mscs |-> MscsWord(rst, irq.int),
     msics |-> MsicsWord(inten, irq.flags),
     irqStat |-> IrqByte(irq.stat), stateByte |-> StateByte[state],
     writeBufferSize |-> Len(writeBuffer),
     readBufferIndex |-> readBufferIndex,
     writeBuffer |-> [k \in 1..BufferCapacity |->
                          IF k <= Len(writeBuffer) THEN writeBuffer[k] ELSE 0],
     fifo |-> fifo]

(***************************************************************************)
(* Load into a controller whose fields are cur: memoryStick.Load first;    *)
(* a chunk of a newer version is refused (NotifyError) after the engine    *)
(* is already restored; otherwise DoSaveLoad reads every field back and    *)
(* the state byte is cast to State.                                        *)
(***************************************************************************)
LoadChunk(c, cur) ==
    IF c.version > SavestateVersion
    THEN [cur EXCEPT !.dataOut = c.engine]
    ELSE [mscmd |-> [tpc |-> c.mscmd \div 4096,
                     size |-> c.mscmd % (DataSizeMask + 1)],
          rst |-> IsSet(c.mscs, 128), int |-> IsSet(c.mscs, 32768),
          inten |-> IsSet(c.msics, 128),
          flags |-> IrqBitsOf(c.msics \div 256),
          stat |-> IrqBitsOf(c.irqStat),
          state |-> CHOOSE s \in States : StateByte[s] = c.stateByte,
          fifo |-> c.fifo,
          writeBuffer |-> [k \in 1..c.writeBufferSize |-> c.writeBuffer[k]],
          readBufferIndex |-> c.readBufferIndex,
          dataOut |-> c.engine]

\* The controller as Reset(true) leaves a freshly constructed one.
FreshController ==
    [mscmd |-> [tpc |-> 0, size |-> 0], rst |-> FALSE, inten |-> FALSE,
     stat |-> {}, flags |-> {}, int |-> FALSE, state |-> "idle",
     fifo |-> <<>>, writeBuffer |-> <<>>, readBufferIndex |-> 0,
     dataOut |-> NoData]

(***************************************************************************)
(* NotifyGpioChanged (called by the board on a card-detect GPIO edge):     *)
(* RaiseIrq(IRQ_PIN).                                                      *)
(***************************************************************************)
NotifyGpioChanged ==
    /\ irq' = RaiseIrq(irq, {"PIN"}, inten)
    /\ UNCHANGED <<mscmd, rst, inten, state, fifo, writeBuffer, readBufferIndex,
                   dataOut, accepted, lastExec>>

(***************************************************************************)
(* Reset: MSICS = 0, then ResetHostController and memoryStick.Reset.       *)
(***************************************************************************)
Reset ==
    /\ ResetHostController
    /\ inten' = FALSE
    /\ irq' = ResetIrq(irq)
    /\ UNCHANGED lastExec

\* The steps between two emulator resets: register accesses and the GPIO
\* callback.
CpuNext ==
    \/ \E t \in ReadTpcs \cup WriteTpcs, s \in TransferSizes : MscmdWrite(t, s)
    \/ MsdataWrite
    \/ MsdataRead
    \/ \E b \in BOOLEAN : MscsWrite(b)
    \/ MsicsRead
    \/ \E b \in BOOLEAN : MsicsWriteLow(b)
    \/ \E bits \in FlagWrites : MsicsWriteHigh(bits)
    \/ \E b \in BOOLEAN : MsicsWriteWord(b)
    \/ MsppcdRead
    \/ NotifyGpioChanged

Next == CpuNext \/ Reset

Spec == Init /\ [][Next]_vars

CpuSpec == Init /\ [][CpuNext]_vars

(***************************************************************************)
(* Properties.                                                             *)
(***************************************************************************)

TypeOK ==
    /\ mscmd \in [tpc : 0..15, size : 0..DataSizeMask]
    /\ rst \in BOOLEAN /\ inten \in BOOLEAN
    /\ irq \in [stat : SUBSET IrqBits, flags : SUBSET IrqBits,
                int : BOOLEAN, ext : BOOLEAN]
    /\ state \in States
    /\ fifo \in Seq(Nat) /\ Len(fifo) <= FifoDepth
    /\ writeBuffer \in Seq(Nat)
    /\ readBufferIndex \in Nat
    /\ dataOut \in DataOuts
    /\ accepted \in Nat
    /\ lastExec \in [data : Seq(Nat), count : Nat]

(* FifoWrite stores writeBuffer[writeBufferSize++] with no bounds check of  *)
(* its own: the write buffer never holds more than its 512 bytes, whatever *)
(* size field the CPU wrote to MSCMD and however the words were split      *)
(* between the FIFO and direct streaming.                                  *)
NoWriteOverrun == Len(writeBuffer) <= BufferCapacity

(* The data a write TPC hands to MemoryStick::ExecuteTpc is exactly the    *)
(* first GetTransferSize bytes the CPU wrote to MSDATA since the previous  *)
(* TPC ended (queued in the FIFO before MSCMD or streamed after it), high  *)
(* byte first, with nothing left over from an earlier TPC.                 *)
WriteDataIntegrity ==
    /\ Len(lastExec.data) = lastExec.count
    /\ \A k \in 1..lastExec.count : lastExec.data[k] = k - 1

(* What MSCS reports agrees with what MSDATA delivers: whether the driver *)
(* polls MSCS with a word read or a read of its flag byte, with RBE clear  *)
(* the next msdataRead returns a byte of the engine's output, and with RBF *)
(* set the next two reads return four bytes of it, whatever sequence of    *)
(* TPCs, short or missing output buffers, resets and reads led there       *)
(* (mscsRead, compositeRegisterRead, msdataRead, FinishTpc).               *)
MscsReportsBuffer ==
    \A flags \in {MscsRead(TRUE, 1), MscsRead(TRUE, 2)} :
        /\ "RBE" \notin flags =>
               state = "tpcRead" /\ ~dataOut.null /\ readBufferIndex < dataOut.size
        /\ "RBF" \in flags =>
               state = "tpcRead" /\ ~dataOut.null /\ readBufferIndex + 4 <= dataOut.size

(* Spec 8.8: a savestate taken at any point, mid-TPC included (words     *)
(* queued in the FIFO, a write buffer part-filled, a read cursor inside   *)
(* the engine's output, IRQ bits latched), loaded into a freshly          *)
(* constructed controller, restores every register, the state and the    *)
(* buffered data (DoSave, DoSaveLoad, Load, the register bit layout).     *)
SavestateRoundTrip == LoadChunk(SaveChunk, FreshController) = Controller

(* The spec: the IRQ line is the OR of the latched bits gated by the      *)
(* MSICS enable bit, and every change of it is dispatched through          *)
(* irqChange, so the level the interrupt controller last saw is that line *)
(* (UpdateIrqLine, msicsWrite, ResetHostController).                       *)
IrqLineReported == irq.ext = (inten /\ irq.stat # {})

=============================================================================
