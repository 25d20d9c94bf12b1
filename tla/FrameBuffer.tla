---------------------------- MODULE FrameBuffer ----------------------------
(***************************************************************************)
(* The framebuffer region of the SED1376 devices                           *)
(* (src/cloudpilot/emulator/hardware/EmRegsFrameBuffer.cpp).  The CPU      *)
(* writes the framebuffer through SetByte/SetWord/SetLong; every write     *)
(* marks the 1 KB page of its offset in the region's dirty-page bitmap     *)
(* (markDirty), and the savestate writer stores the marked pages only.     *)
(* Loading a savestate of the older format copies the whole framebuffer    *)
(* from the chunk and marks the pages that must be stored again.           *)
(*                                                                         *)
(* Data abstraction.  A page holds the value of the last write to any of  *)
(* its bytes; saved is the image of the region the savestate writer has   *)
(* stored.  The bitmap is kept as the set of its set bit indices.          *)
(***************************************************************************)
EXTENDS Naturals, FiniteSets

CONSTANTS
    FramebufferSize,   \* EmMemory::GetRegionSize(framebuffer): 80 KB on the SED1376
    Offsets,           \* offsets into the region the CPU writes at
    Values,            \* values a write stores; 0 is the cleared framebuffer
    ChunkImages        \* framebuffers an old-format savestate chunk may hold

ASSUME /\ FramebufferSize % 1024 = 0 /\ FramebufferSize > 0
       /\ Offsets \subseteq 0 .. FramebufferSize - 4
       /\ 0 \in Values

Pages == 0 .. FramebufferSize \div 1024 - 1

ASSUME ChunkImages \subseteq [Pages -> Values]

VARIABLES
    fb,      \* the page contents of the framebuffer
    dirty,   \* the set bits of dirtyPages: bit i of byte j is page 8 * j + i
    saved    \* the page image the savestate writer last stored

vars == <<fb, dirty, saved>>

\* The bit markDirty(offset) sets: bit (offset >> 10) & 7 of byte offset >> 13.
MarkDirty(offset) == (offset \div 8192) * 8 + ((offset \div 1024) % 8)

\* The pages the n bytes at offset lie in, as EmMemDoPut8/16/32 writes them.
Touched(offset, n) == {(offset + i) \div 1024 : i \in 0 .. n - 1}

\* Write value v to the n bytes at offset.
Put(offset, n, v) ==
    fb' = [p \in Pages |-> IF p \in Touched(offset, n) THEN v ELSE fb[p]]

\* The 68000 raises an address error for a word or long access at an odd
\* address, so these handlers only see even offsets.
WordOffsets == {o \in Offsets : o % 2 = 0}

\* Initialize: the region is cleared; the bitmap is left alone.
Init ==
    /\ fb = [p \in Pages |-> 0]
    /\ dirty = {}
    /\ saved = [p \in Pages |-> 0]

\* Mutant: only the page of the first word of a long is marked.
SetLongFirstWord(offset, v) ==
    /\ Put(offset, 4, v)
    /\ dirty' = dirty \cup {MarkDirty(offset)}
    /\ UNCHANGED saved

SetLong(offset, v) ==
    /\ Put(offset, 4, v)
    /\ dirty' = dirty \cup {MarkDirty(offset), MarkDirty(offset + 2)}
    /\ UNCHANGED saved

SetWord(offset, v) ==
    /\ Put(offset, 2, v)
    /\ dirty' = dirty \cup {MarkDirty(offset)}
    /\ UNCHANGED saved

SetByte(offset, v) ==
    /\ Put(offset, 1, v)
    /\ dirty' = dirty \cup {MarkDirty(offset)}
    /\ UNCHANGED saved

\* Mutant: memset over framebufferSize / 1024 bytes, one per page.
LoadMarkedBytePerPage == 0 .. (FramebufferSize \div 1024) * 8 - 1

\* The bits of memset(dirtyPages, 0xff, framebufferSize / 1024 / 8).
LoadMarked == 0 .. ((FramebufferSize \div 1024) \div 8) * 8 - 1

\* Load with a regsFrameBuffer chunk of a supported version: the
\* framebuffer is taken from the chunk and the bitmap bytes are set.  (No
\* chunk, or a newer version, returns before anything changes.)
Load(img) ==
    /\ fb' = img
    /\ dirty' = dirty \cup LoadMarked
    /\ UNCHANGED saved

\* The savestate writer (EmMemory, outside this file) stores the marked
\* pages and clears the bitmap.
Persist ==
    /\ saved' = [p \in Pages |-> IF p \in dirty THEN fb[p] ELSE saved[p]]
    /\ dirty' = {}
    /\ UNCHANGED fb

Next ==
    \/ \E o \in WordOffsets, v \in Values : SetLong(o, v) \/ SetWord(o, v)
    \/ \E o \in Offsets, v \in Values : SetByte(o, v)
    \/ \E img \in ChunkImages : Load(img)
    \/ Persist

Spec == Init /\ [][Next]_vars

-----------------------------------------------------------------------------
TypeOK ==
    /\ fb \in [Pages -> Values] /\ saved \in [Pages -> Values]
    /\ dirty \subseteq Pages

\* Incremental persistence is lossless: a page whose contents differ from
\* the stored image is marked in the bitmap, whatever mix of byte, word and
\* long writes, page-crossing writes and old-format loads came before, so
\* the next save stores it (markDirty, SetLong, Load).
StoredImageCurrent ==
    \A p \in Pages : saved[p] # fb[p] => p \in dirty

=============================================================================
