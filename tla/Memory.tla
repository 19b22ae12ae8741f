------------------------------- MODULE Memory ------------------------------
(***************************************************************************)
(* vl_memory.c: allocations with a header in front of the caller's memory, *)
(* which for an aligned allocation lies at a distance from what malloc     *)
(* returned.  malloc and realloc are external: they return any address     *)
(* that is a multiple of the default alignment, or fail.  The unit is half *)
(* of the header.                                                          *)
(***************************************************************************)
EXTENDS Integers, Sequences

CONSTANTS
    Origins,        \* addresses malloc may return
    Aligns,         \* alignments asked for
    MaxLength       \* bound of the model on a request

VARIABLES
    block,          \* the allocation, or NoBlock
    kept            \* the caller's cells that must have survived (history)

memVars == <<block, kept>>

HeaderSize == 2
DefaultAlign == 2       \* VL_DEFAULT_MEMORY_ALIGN
NoBlock == [origin |-> -1]
Crashed == [origin |-> -2]      \* NULL was dereferenced; nothing follows
Junk == -1

\* Cells of the allocation, counted from origin; room is its size.
Image(room) == [x \in 0..(room - 1) |-> Junk]

\* The caller's address in an aligned allocation.
UserAddress(origin, align) ==
    LET end == origin + align + HeaderSize IN end - (end % align)

Room(size, align) ==
    IF align <= DefaultAlign THEN size + HeaderSize ELSE size + align + HeaderSize
HeadOffset(origin, align) ==
    IF align <= DefaultAlign THEN 0 ELSE UserAddress(origin, align) - HeaderSize - origin

\* vlMemAlloc, vlMemAllocAligned.
MemAllocAligned(size, align, origin) ==
    [origin |-> origin, room |-> Room(size, align), mem |-> Image(Room(size, align)),
     length |-> size, headOffset |-> HeadOffset(origin, align),
     alignment |-> IF align <= DefaultAlign THEN DefaultAlign ELSE align]

User(b) == b.origin + b.headOffset + HeaderSize
UserCell(b, i) == b.mem[b.headOffset + HeaderSize + i - 1]

\* realloc: the cells that fit stay at their distance from the origin.
Moved(mem, room) == [x \in 0..(room - 1) |-> IF x \in DOMAIN mem THEN mem[x] ELSE Junk]

Smaller(a, b) == IF a < b THEN a ELSE b

\* vlMemRealloc: the distance of the header changes with the new address, and
\* what is kept of header and cells is moved along.
MemRealloc(b, size, origin) ==
    LET room == Room(size, b.alignment)
        mem == Moved(b.mem, room)
        to == HeadOffset(origin, b.alignment)
        n == HeaderSize + Smaller(b.length, size)
        shifted == [x \in DOMAIN mem |->
                      IF x \in to..(to + n - 1) THEN mem[x - to + b.headOffset] ELSE mem[x]]
    IN  [b EXCEPT !.origin = origin, !.room = room, !.length = size, !.headOffset = to,
                  !.mem = IF to = b.headOffset THEN mem ELSE shifted]

Fill(b) == [b EXCEPT !.mem = [x \in DOMAIN @ |->
              IF x \in (b.headOffset + HeaderSize)..(b.headOffset + HeaderSize + b.length - 1)
              THEN x - b.headOffset - HeaderSize + 1 ELSE @[x]]]

----------------------------------------------------------------------------

MemInit == block = NoBlock /\ kept = 0

\* The caller writes 1, 2, ... into its cells.
Alloc(size, align, origin) ==
    /\ block = NoBlock
    /\ block' = Fill(MemAllocAligned(size, align, origin))
    /\ kept' = size

Held == block \notin {NoBlock, Crashed}

Realloc(size, origin) ==
    /\ Held
    /\ block' = MemRealloc(block, size, origin)
    /\ kept' = Smaller(kept, size)

\* vlMemRealloc when realloc fails: an aligned block is left as it was; of any
\* other the new length is written through the NULL that came back.
ReallocFails ==
    /\ Held
    /\ block' = IF block.alignment > DefaultAlign THEN block ELSE Crashed
    /\ UNCHANGED kept

\* vlMemClone; the program goes on with the clone.
Clone(origin) ==
    /\ Held
    /\ LET new == MemAllocAligned(block.length, block.alignment, origin)
           at == new.headOffset + HeaderSize
       IN  block' = [new EXCEPT !.mem = [x \in DOMAIN @ |->
                       IF x \in at..(at + block.length - 1)
                       THEN UserCell(block, x - at + 1) ELSE @[x]]]
    /\ UNCHANGED kept

\* vlMemFree gives back the address the header leads to.
Free == Held /\ block' = NoBlock /\ kept' = 0

MemNext ==
    \/ \E size \in 1..MaxLength, align \in Aligns, o \in Origins : Alloc(size, align, o)
    \/ \E size \in 1..MaxLength, o \in Origins : Realloc(size, o)
    \/ ReallocFails
    \/ \E o \in Origins : Clone(o)
    \/ Free

MemSpec == MemInit /\ [][MemNext]_memVars

\* The inductive invariant of a block: its room and the place of its header follow from
\* address, length and alignment, and the cells kept are the ones written.
BlockInv(b, n) ==
    /\ b \in [origin : Origins, room : Nat, mem : [0..(b.room - 1) -> Int], length : Nat,
              headOffset : Int, alignment : Nat \ {0}]
    /\ b.room = Room(b.length, b.alignment)
    /\ b.headOffset = HeadOffset(b.origin, b.alignment)
    /\ b.alignment >= DefaultAlign
    /\ n \in 0..b.length
    /\ \A i \in 1..n : UserCell(b, i) = i
MemInv == Held => BlockInv(block, kept)

\* Wherever malloc and realloc put a block, the caller's address is aligned, the
\* header and the caller's cells lie inside the allocation, and the cells kept
\* by every resize are the ones written.
MemorySound ==
    Held =>
      /\ User(block) % block.alignment = 0
      /\ block.headOffset >= 0
      /\ block.headOffset + HeaderSize + block.length <= block.room
      /\ \A i \in 1..kept : UserCell(block, i) = i

\* When the underlying realloc fails, vlMemRealloc returns NULL and the original block
\* remains valid.  (Violated by a block of the default alignment.)
ReallocKeepsBlock == block # Crashed

============================================================================
