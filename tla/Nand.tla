-------------------------------- MODULE Nand --------------------------------
(***************************************************************************)
(* The K9 NAND flash of the uARM core (src/src/uarm/uarm/nand.cpp).  The   *)
(* guest drives the chip through nandWrite (command, address and data      *)
(* cycles) and nandRead; the scheduler calls nandPeriodic while the chip   *)
(* is busy, and the ready callbacks report the R/B line.  Page contents   *)
(* are abstracted to the number of the page a byte comes from: the model  *)
(* tracks which page the page buffer holds and which pages are written.   *)
(* A byte is ByteBits bits wide (8 in the code) so that the address        *)
(* arithmetic keeps its shape at a small geometry.                         *)
(***************************************************************************)
EXTENDS Integers, FiniteSets

CONSTANTS
    BytesPerPage,      \* main plus spare (528 on a small-page K9)
    PagesPerBlockLg2,
    BlocksPerDevice,
    Flags,             \* subset of {"AREAS", "SECOND_READ"}
    DevIdLen,
    ByteBits,          \* 8 in the code
    StorageBytes,      \* 4224 in the code: the savestate page size
    DirtyWordBits,     \* 32 in the code: bits per word of dirtyPages
    EraseBusy, ProgramBusy, ReadBusy,  \* 100, 10, 1 ticks in the code
    AddrValues,        \* address bytes the guest sends
    UnknownCmds,       \* command bytes the code does not know
    MaxWrites          \* bound on writeCnt

ASSUME /\ BytesPerPage > 1 /\ BlocksPerDevice > 0
       /\ Flags \subseteq {"AREAS", "SECOND_READ"}
       /\ ByteBits > 0 /\ StorageBytes > 0 /\ DirtyWordBits > 0

States == {"Reset", "ReadId", "ProgramAddrRxing", "ProgramDataRxing",
           "EraseAddrRxing", "Reading", "StatusReading"}
Areas == {"A", "B", "C"}
ByteMax == 2 ^ ByteBits

\* 31 - __builtin_clz(x): the index of the highest set bit of x > 0.
RECURSIVE Log2Floor(_)
Log2Floor(x) == IF x < 2 THEN 0 ELSE 1 + Log2Floor(x \div 2)

\* Geometry derived in nandInit.
NandPages == BlocksPerDevice * 2 ^ PagesPerBlockLg2
NandSz == BytesPerPage * NandPages
AddrT == Log2Floor(BytesPerPage - 1) - (IF "AREAS" \in Flags THEN 1 ELSE 0)
ByteAddrBytes == (AddrT + ByteBits - 1) \div ByteBits
AreaSize == 2 ^ AddrT
PageAddrBytes == (Log2Floor(NandPages - 1) + ByteBits - 1) \div ByteBits
AddrBytesTotal == ByteAddrBytes + PageAddrBytes
DirtyWords == (NandSz + StorageBytes * DirtyWordBits - 1) \div (StorageBytes * DirtyWordBits)

Pages == 0 .. NandPages - 1
NoPage == -1
MarkerFE == 254    \* addrBytesRxed special values
MarkerFF == 255

VARIABLES
    state, area, addrBytesRxed, addrBytes,
    pageNo, pageOfst, busyCt,
    rdy,          \* the level the ready callbacks were last told
    bufPage,      \* the page pageBuf was filled from, NoPage if 0xff-filled
    dirtyPages,   \* set bits of dirtyPages, as storage page numbers
    dirty, writeCnt,
    halted,       \* ERR or the unknown-command loop stopped the emulator
    last          \* ghost: data pages the last step read or wrote

vars == <<state, area, addrBytesRxed, addrBytes, pageNo, pageOfst, busyCt,
          rdy, bufPage, dirtyPages, dirty, writeCnt, halted, last>>

Quiet == [load |-> NoPage, prog |-> NoPage, erase |-> {}, rd |-> -1]

\* nandPrvGetAddrValLE: addrBytes[start .. start+n-1], least significant first.
RECURSIVE AddrValLE(_, _, _)
AddrValLE(ab, start, n) ==
    IF n = 0 THEN 0 ELSE ab[start] + ByteMax * AddrValLE(ab, start + 1, n - 1)

GetPageAddr(ofst) == AddrValLE(addrBytes, ofst, PageAddrBytes)
GetByteAddr == AddrValLE(addrBytes, 0, ByteAddrBytes)

StorageOf(byte) == byte \div StorageBytes

\* nandPrvBusy: a second busy period while one is running is an ERR.
Busy(count) ==
    IF busyCt # 0
    THEN halted' = TRUE /\ UNCHANGED <<busyCt, rdy>>
    ELSE busyCt' = count /\ rdy' = FALSE /\ UNCHANGED halted

\* The offset a page access starts at for the current area (reads and
\* programs both add the byte address).
AreaOffset(a) == CASE a = "A" -> 0 [] a = "B" -> AreaSize [] a = "C" -> 2 * AreaSize

IdleStates == {"Reset", "Reading", "ReadId", "StatusReading"}

-----------------------------------------------------------------------------
(* nandInit: the chip comes up idle and busy for one tick.                 *)
Init ==
    /\ state = "Reset" /\ area = "A" /\ addrBytesRxed = 0
    /\ addrBytes = [i \in 0 .. AddrBytesTotal - 1 |-> 0]
    /\ pageNo = 0 /\ pageOfst = 0
    /\ busyCt = 1 /\ rdy = FALSE
    /\ bufPage = NoPage
    /\ dirtyPages = {} /\ dirty = FALSE /\ writeCnt = 0
    /\ halted = FALSE
    /\ last = Quiet

Live == ~halted

\* Commands that only select a state (0x00, 0x01, 0x50, 0x60, 0x80, 0x90,
\* 0x70, 0xff) and clear the address counter.
\* 0x00 / 0x01 / 0x50: read from area A, B or C.
CmdRead(a) ==
    /\ Live
    /\ a = "A" \/ "AREAS" \in Flags
    /\ area' = a /\ state' = "Reading" /\ addrBytesRxed' = 0
    /\ last' = Quiet
    /\ UNCHANGED <<addrBytes, pageNo, pageOfst, busyCt, rdy, bufPage,
                   dirtyPages, dirty, writeCnt, halted>>

\* 0x60, 0x80, 0x90: only accepted from an idle or reading state.
CmdSetup(next) ==
    /\ Live
    /\ state \in IdleStates
    /\ state' = next /\ addrBytesRxed' = 0
    /\ last' = Quiet
    /\ UNCHANGED <<area, addrBytes, pageNo, pageOfst, busyCt, rdy, bufPage,
                   dirtyPages, dirty, writeCnt, halted>>

CmdEraseSetup == CmdSetup("EraseAddrRxing")      \* 0x60

CmdProgramSetup == CmdSetup("ProgramAddrRxing")  \* 0x80

CmdReadIdSetup == CmdSetup("ReadId")             \* 0x90

\* 0x70 from any state; 0xff also selects area A.
CmdStatus ==
    /\ Live
    /\ state' = "StatusReading" /\ addrBytesRxed' = 0
    /\ last' = Quiet
    /\ UNCHANGED <<area, addrBytes, pageNo, pageOfst, busyCt, rdy, bufPage,
                   dirtyPages, dirty, writeCnt, halted>>

CmdReset ==
    /\ Live
    /\ area' = "A" /\ state' = "Reset" /\ addrBytesRxed' = 0
    /\ last' = Quiet
    /\ UNCHANGED <<addrBytes, pageNo, pageOfst, busyCt, rdy, bufPage,
                   dirtyPages, dirty, writeCnt, halted>>

\* 0x30: second read command, on chips that have one.
CmdReadConfirm ==
    /\ Live
    /\ "SECOND_READ" \in Flags /\ addrBytesRxed = AddrBytesTotal
    /\ addrBytesRxed' = MarkerFE
    /\ last' = Quiet
    /\ UNCHANGED <<state, area, addrBytes, pageNo, pageOfst, busyCt, rdy,
                   bufPage, dirtyPages, dirty, writeCnt, halted>>

\* Unknown command: the code prints and spins in while (1).
CmdUnknown ==
    /\ Live
    /\ halted' = TRUE /\ last' = Quiet
    /\ UNCHANGED <<state, area, addrBytesRxed, addrBytes, pageNo, pageOfst,
                   busyCt, rdy, bufPage, dirtyPages, dirty, writeCnt>>

LeaveAreaB == area' = IF area = "B" THEN "A" ELSE area

\* nandPrvBlockErase: no bound check on the block, inclusive last storage page.
BlockEraseAddr == GetPageAddr(0)
BlockErasePages == BlockEraseAddr .. BlockEraseAddr + 2 ^ PagesPerBlockLg2 - 1
BlockEraseDirty ==
    StorageOf(BlockEraseAddr * BytesPerPage)
      .. StorageOf(BlockEraseAddr * BytesPerPage + BytesPerPage * 2 ^ PagesPerBlockLg2)

\* The checks 0xd0 makes before erasing: exactly two address bytes, and
\* nandPrvBlockErase's alignment check of the row address.
EraseConfirmAccepted ==
    /\ state = "EraseAddrRxing" /\ addrBytesRxed = 2
    /\ BlockEraseAddr % 2 ^ PagesPerBlockLg2 = 0

\* 0xd0: confirm erase.  Area B reverts to A even when the command fails.
CmdEraseConfirm ==
    /\ Live
    /\ LeaveAreaB
    /\ \/ /\ ~EraseConfirmAccepted
          /\ last' = Quiet
          /\ UNCHANGED <<state, addrBytesRxed, addrBytes, pageNo, pageOfst,
                         busyCt, rdy, bufPage, dirtyPages, dirty, writeCnt, halted>>
       \/ /\ EraseConfirmAccepted
          /\ writeCnt < MaxWrites
          /\ dirtyPages' = dirtyPages \cup BlockEraseDirty
          /\ dirty' = TRUE /\ writeCnt' = writeCnt + 1
          /\ Busy(EraseBusy)
          /\ state' = "Reset" /\ addrBytesRxed' = 0
          /\ last' = [Quiet EXCEPT !.erase = BlockErasePages]
          /\ UNCHANGED <<addrBytes, pageNo, pageOfst, bufPage>>

\* nandPrvPageProgram: AND the buffer into the page, mark its storage page.
\* Mutant: the page number not scaled by the page size.
ProgramDirtyUnscaled == {StorageOf(pageNo)}
ProgramDirty == {StorageOf(pageNo * BytesPerPage)}

\* 0x10: confirm program.
CmdProgramConfirm ==
    /\ Live
    /\ LeaveAreaB
    /\ \/ /\ state # "ProgramDataRxing"
          /\ last' = Quiet
          /\ UNCHANGED <<state, addrBytesRxed, addrBytes, pageNo, pageOfst,
                         busyCt, rdy, bufPage, dirtyPages, dirty, writeCnt, halted>>
       \/ /\ state = "ProgramDataRxing"
          /\ writeCnt < MaxWrites
          /\ dirtyPages' = dirtyPages \cup ProgramDirty
          /\ dirty' = TRUE /\ writeCnt' = writeCnt + 1
          /\ Busy(ProgramBusy)
          /\ state' = "Reset" /\ addrBytesRxed' = 0
          /\ last' = [Quiet EXCEPT !.prog = pageNo]
          /\ UNCHANGED <<addrBytes, pageNo, pageOfst, bufPage>>

\* Mutant: the address cycle without the "ignore extra bytes" checks.
AddrWriteUnbounded(v) ==
    /\ Live
    /\ state \in {"ReadId", "ProgramAddrRxing", "Reading", "EraseAddrRxing"}
    /\ addrBytes' = [addrBytes EXCEPT ![addrBytesRxed] = v]
    /\ addrBytesRxed' = addrBytesRxed + 1
    /\ IF state = "Reading" /\ addrBytesRxed = AddrBytesTotal - 1
       THEN Busy(ReadBusy)
       ELSE UNCHANGED <<busyCt, rdy, halted>>
    /\ last' = Quiet
    /\ UNCHANGED <<state, area, pageNo, pageOfst, bufPage, dirtyPages, dirty, writeCnt>>

\* Address cycle (cle = 0, ale = 1).  Bytes past what the state takes are
\* ignored; the byte that completes a read address starts a busy period.
AddrWrite(v) ==
    /\ Live
    /\ \/ state = "ReadId" /\ addrBytesRxed < 1
       \/ state \in {"ProgramAddrRxing", "Reading"} /\ addrBytesRxed < AddrBytesTotal
       \/ state = "EraseAddrRxing" /\ addrBytesRxed < PageAddrBytes
    /\ addrBytes' = [addrBytes EXCEPT ![addrBytesRxed] = v]
    /\ addrBytesRxed' = addrBytesRxed + 1
    /\ IF state = "Reading" /\ addrBytesRxed = AddrBytesTotal - 1
       THEN Busy(ReadBusy)
       ELSE UNCHANGED <<busyCt, rdy, halted>>
    /\ last' = Quiet
    /\ UNCHANGED <<state, area, pageNo, pageOfst, bufPage, dirtyPages, dirty, writeCnt>>

\* nandPrvAcceptProgramData: bytes past the end of the page are ignored.
AcceptProgramData(ofst) ==
    IF ofst < BytesPerPage
    THEN pageOfst' = ofst + 1 /\ bufPage' = NoPage
    ELSE pageOfst' = ofst /\ UNCHANGED bufPage

\* First data cycle after a program address: the state and the page number
\* are committed before the page number is checked.
DataWriteFirst ==
    /\ Live
    /\ state = "ProgramAddrRxing" /\ addrBytesRxed = AddrBytesTotal
    /\ state' = "ProgramDataRxing"
    /\ pageNo' = GetPageAddr(ByteAddrBytes)
    /\ IF pageNo' >= NandPages
       THEN UNCHANGED <<area, pageOfst, bufPage>>
       ELSE /\ LeaveAreaB
            /\ AcceptProgramData(AreaOffset(area) + GetByteAddr)
    /\ last' = Quiet
    /\ UNCHANGED <<addrBytesRxed, addrBytes, busyCt, rdy, dirtyPages, dirty,
                   writeCnt, halted>>

DataWriteNext ==
    /\ Live
    /\ state = "ProgramDataRxing" /\ pageOfst < BytesPerPage
    /\ AcceptProgramData(pageOfst)
    /\ last' = Quiet
    /\ UNCHANGED <<state, area, addrBytesRxed, addrBytes, pageNo, busyCt, rdy,
                   dirtyPages, dirty, writeCnt, halted>>

\* Data read in READ ID: the id index is kept in addrBytes[0].
ReadIdData ==
    /\ Live
    /\ state = "ReadId" /\ addrBytesRxed = 1 /\ addrBytes[0] < DevIdLen
    /\ addrBytes' = [addrBytes EXCEPT ![0] = @ + 1]
    /\ last' = Quiet
    /\ UNCHANGED <<state, area, addrBytesRxed, pageNo, pageOfst, busyCt, rdy,
                   bufPage, dirtyPages, dirty, writeCnt, halted>>

\* Bounds on the read cursor: the largest offset an address selects, and
\* one page past the device for a sequential read.
OfstCap == 2 * AreaSize + ByteMax
PageCap == NandPages + 1
AddrPages == ByteMax ^ PageAddrBytes

\* Serve one byte at offset ofst of page pn, whose data is in the buffer
\* (buf) and was loaded in this step if loaded # NoPage.  At the end of the
\* page the next page is loaded first, with no bound check.
Serve(pn, ofst, ar, buf, loaded) ==
    IF ofst = BytesPerPage
    THEN LET first == IF ar = "C" THEN 2 * AreaSize ELSE 0 IN
         /\ pageNo' = pn + 1 /\ pageOfst' = first + 1 /\ bufPage' = pn + 1
         /\ last' = [Quiet EXCEPT !.load = pn + 1, !.rd = first]
    ELSE /\ pageNo' = pn /\ pageOfst' = ofst + 1 /\ bufPage' = buf
         /\ last' = [Quiet EXCEPT !.load = loaded, !.rd = ofst]

\* Data read in READING, first byte after the address: the page number and
\* the marker are latched before the bound check.
ReadDataFirst ==
    /\ Live
    /\ state = "Reading"
    /\ \/ addrBytesRxed = MarkerFE
       \/ "SECOND_READ" \notin Flags /\ addrBytesRxed = AddrBytesTotal
    /\ addrBytesRxed' = MarkerFF
    /\ LET pn == GetPageAddr(ByteAddrBytes) IN
       IF pn >= NandPages
       THEN /\ pageNo' = pn /\ last' = Quiet
            /\ UNCHANGED <<area, pageOfst, bufPage>>
       ELSE /\ LeaveAreaB
            /\ Serve(pn, AreaOffset(area) + GetByteAddr, area', pn, pn)
    /\ UNCHANGED <<state, addrBytes, busyCt, rdy, dirtyPages, dirty, writeCnt, halted>>

\* Later data reads in READING.
ReadDataNext ==
    /\ Live
    /\ state = "Reading" /\ addrBytesRxed = MarkerFF
    /\ pageOfst < OfstCap /\ pageNo < PageCap
    /\ Serve(pageNo, pageOfst, area, bufPage, NoPage)
    /\ UNCHANGED <<state, area, addrBytesRxed, addrBytes, busyCt, rdy,
                   dirtyPages, dirty, writeCnt, halted>>

\* Mutant: the ready callback is not called at the end of the busy period.
PeriodicNoReady ==
    /\ Live
    /\ busyCt > 0
    /\ busyCt' = busyCt - 1
    /\ last' = Quiet
    /\ UNCHANGED <<state, area, addrBytesRxed, addrBytes, pageNo, pageOfst,
                   rdy, bufPage, dirtyPages, dirty, writeCnt, halted>>

\* Mutant: the count stops one tick early (busyCt > 1).
PeriodicStuck ==
    /\ Live
    /\ busyCt > 1
    /\ busyCt' = busyCt - 1
    /\ rdy' = (busyCt = 1 \/ rdy)
    /\ last' = Quiet
    /\ UNCHANGED <<state, area, addrBytesRxed, addrBytes, pageNo, pageOfst,
                   bufPage, dirtyPages, dirty, writeCnt, halted>>

\* nandPeriodic: count the busy period down; report ready at zero.
Periodic ==
    /\ Live
    /\ busyCt > 0
    /\ busyCt' = busyCt - 1
    /\ rdy' = (busyCt = 1 \/ rdy)
    /\ last' = Quiet
    /\ UNCHANGED <<state, area, addrBytesRxed, addrBytes, pageNo, pageOfst,
                   bufPage, dirtyPages, dirty, writeCnt, halted>>

\* The savestate writer takes the dirty pages and calls nandSetDirty(false).
Persist ==
    /\ Live
    /\ dirtyPages' = {} /\ dirty' = FALSE
    /\ last' = Quiet
    /\ UNCHANGED <<state, area, addrBytesRxed, addrBytes, pageNo, pageOfst,
                   busyCt, rdy, bufPage, writeCnt, halted>>

\* After ERR or the unknown-command loop nothing happens any more.
Stopped == halted /\ UNCHANGED vars

GuestNext ==
    \/ CmdRead("A") \/ CmdRead("B") \/ CmdRead("C")
    \/ CmdEraseSetup \/ CmdProgramSetup \/ CmdReadIdSetup
    \/ CmdStatus \/ CmdReset \/ CmdReadConfirm
    \/ CmdEraseConfirm \/ CmdProgramConfirm
    \/ UnknownCmds # {} /\ CmdUnknown
    \/ \E v \in AddrValues : AddrWrite(v)
    \/ DataWriteFirst \/ DataWriteNext
    \/ ReadIdData \/ ReadDataFirst \/ ReadDataNext

Next == GuestNext \/ Periodic \/ Persist \/ Stopped

\* The SoC reschedules the NAND task while nandTaskRequired, so the tick
\* cannot be postponed for ever.
Spec == Init /\ [][Next]_vars /\ WF_vars(Periodic)

-----------------------------------------------------------------------------
(***************************************************************************)
(* Savestate: nandSave writes NAND::DoSaveLoad's fields into the nand      *)
(* chunk and nandLoad reads them back through the same DoSaveLoad (a      *)
(* chunk of another version is not returned, and the chip is left as it   *)
(* is).  The state and area are saved as their enum values, addrBytes as  *)
(* its raw 8 bytes.  The flash data, the dirty map and the page buffer are *)
(* saved by their owners, not in this chunk; the geometry comes from      *)
(* nandInit.                                                               *)
(***************************************************************************)
AddrBytesSize == 8     \* sizeof(addrBytes)

ASSUME AddrBytesTotal <= AddrBytesSize

\* enum K9nandState and enum K9nandArea, in declaration order.
StateByte == [Reset |-> 0, ReadId |-> 1, ProgramAddrRxing |-> 2,
              ProgramDataRxing |-> 3, EraseAddrRxing |-> 4, Reading |-> 5,
              StatusReading |-> 6]
AreaByte == [A |-> 0, B |-> 1, C |-> 2]

\* The runtime state the chunk has to carry.
Chip ==
    [state |-> state, area |-> area, addrBytesRxed |-> addrBytesRxed,
     addrBytes |-> addrBytes, pageNo |-> pageNo, pageOfst |-> pageOfst,
     busyCt |-> busyCt]

\* nandSave: state8, area8 and addrBytesRxed packed, the address bytes,
\* pageNo, pageOfst and busyCt.
SaveChunk ==
    [version |-> 0,
     state8 |-> StateByte[state], area8 |-> AreaByte[area],
     addrBytesRxed |-> addrBytesRxed,
     addrBytes |-> [k \in 0 .. AddrBytesSize - 1 |->
                       IF k < AddrBytesTotal THEN addrBytes[k] ELSE 0],
     pageNo |-> pageNo, pageOfst |-> pageOfst, busyCt |-> busyCt]

\* Mutant: busyCt left out of DoSaveLoad, so the chip keeps its own.
LoadChunkNoBusy(c, cur) ==
    IF c.version # 0 THEN cur
    ELSE [state |-> CHOOSE x \in States : StateByte[x] = c.state8,
          area |-> CHOOSE a \in Areas : AreaByte[a] = c.area8,
          addrBytesRxed |-> c.addrBytesRxed,
          addrBytes |-> [i \in 0 .. AddrBytesTotal - 1 |-> c.addrBytes[i]],
          pageNo |-> c.pageNo, pageOfst |-> c.pageOfst, busyCt |-> cur.busyCt]

\* nandLoad into a chip whose runtime state is cur: the enum bytes are cast
\* back to K9nandState and K9nandArea.
LoadChunk(c, cur) ==
    IF c.version # 0 THEN cur
    ELSE [state |-> CHOOSE x \in States : StateByte[x] = c.state8,
          area |-> CHOOSE a \in Areas : AreaByte[a] = c.area8,
          addrBytesRxed |-> c.addrBytesRxed,
          addrBytes |-> [i \in 0 .. AddrBytesTotal - 1 |-> c.addrBytes[i]],
          pageNo |-> c.pageNo, pageOfst |-> c.pageOfst, busyCt |-> c.busyCt]

\* The chip as nandInit leaves it: zeroed by memset, busy for one tick.
FreshChip ==
    [state |-> "Reset", area |-> "A", addrBytesRxed |-> 0,
     addrBytes |-> [i \in 0 .. AddrBytesTotal - 1 |-> 0],
     pageNo |-> 0, pageOfst |-> 0, busyCt |-> 1]

-----------------------------------------------------------------------------
TypeOK ==
    /\ state \in States /\ area \in Areas
    /\ addrBytesRxed \in (0 .. AddrBytesTotal) \cup {MarkerFE, MarkerFF}
    /\ addrBytes \in [0 .. AddrBytesTotal - 1 -> 0 .. ByteMax + DevIdLen]
    /\ pageNo \in 0 .. AddrPages + PageCap /\ pageOfst \in 0 .. OfstCap
    /\ busyCt \in 0 .. EraseBusy /\ rdy \in BOOLEAN
    /\ bufPage \in {NoPage} \cup 0 .. AddrPages + PageCap
    /\ dirty \in BOOLEAN /\ writeCnt \in 0 .. MaxWrites /\ halted \in BOOLEAN

\* The ready callbacks always report what nandIsReady would answer: every
\* busy period started by nandPrvBusy ends with a ready callback from
\* nandPeriodic, across erase, program, read-address and init busy periods.
ReadyLineMatchesBusy == rdy = (busyCt = 0)

\* Every savestate page holding a byte that program or erase changed is
\* marked in dirtyPages until the savestate writer has taken it.
WrittenStorage(pages) ==
    UNION {StorageOf(p * BytesPerPage) .. StorageOf((p + 1) * BytesPerPage - 1) : p \in pages}
DirtyCoversWrites ==
    WrittenStorage(last.erase \cup ({last.prog} \ {NoPage})) \subseteq dirtyPages

\* Memory safety of the chip's buffers: program and erase only write pages
\* of the data array, a read only copies pages of the device into the page
\* buffer, a read cycle only serves bytes of the page buffer, and no bit is
\* set outside the dirtyPages words nandInit allocated, whatever address and
\* column bytes the guest sent.
AccessInBounds ==
    /\ last.prog = NoPage \/ last.prog \in Pages
    /\ last.erase \subseteq Pages
    /\ last.load = NoPage \/ last.load \in Pages
    /\ last.rd < BytesPerPage
    /\ dirtyPages \subseteq 0 .. DirtyWords * DirtyWordBits - 1

\* The guest can erase every block: nandInit's pageAddrBytes holds the row
\* address of every page of the device, and once the erase address phase
\* has taken its pageAddrBytes bytes (further ones are ignored) naming an
\* aligned block, 0xd0, which insists on exactly two bytes, accepts it.
EveryBlockErasable ==
    /\ NandPages <= AddrPages
    /\ (/\ state = "EraseAddrRxing" /\ addrBytesRxed = PageAddrBytes
        /\ BlockEraseAddr % 2 ^ PagesPerBlockLg2 = 0) => EraseConfirmAccepted

\* A savestate taken at any point of a command (mid-address, mid-program,
\* mid-read, during a busy period or with the 0xfe/0xff address markers)
\* and loaded into a freshly initialised chip restores its whole command
\* state, the pending busy count included (nandSave, nandLoad, DoSaveLoad).
SavestateRoundTrip == LoadChunk(SaveChunk, FreshChip) = Chip

\* Once the chip is busy it eventually reports ready (or the emulator stops).
BusyEventuallyReady == (busyCt > 0) ~> (rdy \/ halted)
=============================================================================
