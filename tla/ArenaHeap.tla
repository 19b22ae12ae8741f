----------------------------- MODULE ArenaHeap -----------------------------
(***************************************************************************)
(* A caller of vl_arena.c that allocates, resizes, extends and frees       *)
(* blocks and remembers what it put in them.                               *)
(***************************************************************************)
EXTENDS Arena

CONSTANTS
    InitialSize,    \* of vlArenaInit
    MaxCapacity,    \* bound of the model on the memory
    MaxSize,        \* bound of the model on the size of a request
    Marks           \* what the caller puts in its cells

VARIABLES
    arena,
    blocks,         \* from the caller's pointers to the cells written (history)
    astray          \* the kind of call that has damaged what the caller holds,
                    \* or "no": "resized" or "prepended" (history)

heapVars == <<arena, blocks, astray>>

HeapInit == arena = NewArena(InitialSize) /\ blocks = << >> /\ astray = "no"

Fill(mark, n) == [i \in 1..n |-> mark]
Adopt(r, held, cells) ==
    /\ r.arena.cap <= MaxCapacity
    /\ arena' = [r.arena EXCEPT !.mem = Write(@, r.ptr, cells)]
    /\ blocks' = held @@ (r.ptr :> cells)

Allocate(n, mark) ==
    /\ Adopt(MemAlloc(arena, n), blocks, Fill(mark, n))
    /\ UNCHANGED astray

FreeBlock(p) ==
    /\ arena' = MemFree(arena, p)
    /\ blocks' = Without(blocks, p)
    /\ UNCHANGED astray

\* Where the code goes wrong: the size of the block, or room behind it, decides.
Unharmed(p, n) ==
    n < Len(blocks[p]) \/ (n > MemSize(arena, p) /\ FitsInPlace(arena, p, n))
Harm(p, n) == IF Unharmed(p, n) THEN "no" ELSE "resized"

\* The caller takes the result for the same block with n cells, and reads them.
Resized(p, r, cells) ==
    /\ r.arena.cap <= MaxCapacity
    /\ arena' = r.arena
    /\ blocks' = Without(blocks, p) @@ (r.ptr :> cells)

Resize(p, n) ==
    LET r == MemRealloc(arena, p, n)
        kept == SubSeq(blocks[p], 1, IF n < Len(blocks[p]) THEN n ELSE Len(blocks[p]))
    IN  /\ Resized(p, r, kept)
        /\ astray' = Harm(p, n)

\* The offset of a source inside the arena is moved by the length, which is right
\* only for a source in the block itself: from any other block vlArenaMemPrepend
\* reads that many cells too far.
Prepend(p, src, cells) ==
    /\ Resized(p, MemPrepend(arena, p, src), cells \o blocks[p])
    /\ astray' = IF Unharmed(p, Len(blocks[p]) + Len(cells)) /\ src.at \notin {0, p}
                 THEN "prepended" ELSE Harm(p, Len(blocks[p]) + Len(cells))

AppendTo(p, src, cells) ==
    /\ Resized(p, MemAppend(arena, p, src), blocks[p] \o cells)
    /\ astray' = Harm(p, Len(blocks[p]) + Len(cells))

ReserveMemory(n) ==
    /\ ArenaReserve(arena, n).cap <= MaxCapacity
    /\ arena' = ArenaReserve(arena, n)
    /\ UNCHANGED <<blocks, astray>>

ClearArena == arena' = ArenaClear(arena) /\ blocks' = << >> /\ UNCHANGED astray

\* A block is extended once it holds what was asked for.
Whole(p) == Len(blocks[p]) = MemSize(arena, p)

HeapNext ==
    /\ astray = "no"
    /\ \/ \E n \in 1..MaxSize, mark \in Marks : Allocate(n, mark)
       \/ \E p \in DOMAIN blocks : FreeBlock(p)
       \/ \E p \in DOMAIN blocks, n \in 1..MaxSize : Resize(p, n)
       \/ \E p \in {q \in DOMAIN blocks : Whole(q)}, mark \in Marks :
            \/ Prepend(p, Outside(<<mark>>), <<mark>>)
            \/ AppendTo(p, Outside(<<mark>>), <<mark>>)
       \/ \E p \in {q \in DOMAIN blocks : Whole(q)}, q \in DOMAIN blocks :
            \/ Prepend(p, Inside(q, 1), <<blocks[q][1]>>)
            \/ AppendTo(p, Inside(q, 1), <<blocks[q][1]>>)
       \/ \E n \in {1, MaxSize} : ReserveMemory(n)
       \/ ClearArena

HeapSpec == HeapInit /\ [][HeapNext]_heapVars

----------------------------------------------------------------------------

Cells(offset, n) == offset..(offset + n - 1)
BlockCells(p) == Cells(p - Header, arena.mem[p - Header])
FreeCells == UNION {Cells(o, arena.free[o]) : o \in DOMAIN arena.free}

Intact(p) == \A i \in DOMAIN blocks[p] : arena.mem[p + i - 1] = blocks[p][i]

\* However blocks are cut, resized in place, merged and cut again, every cell
\* belongs to exactly one block or free node, no two free nodes touch, and the
\* cells of a block are what its owner wrote.  Nothing is claimed after one of
\* three calls the code gets wrong: vlArenaMemRealloc that moves a block,
\* vlArenaMemRealloc that keeps its size (ContentsPreserved says what it should
\* do), and vlArenaMemPrepend from another block of the arena (PrependedFromArena).
HeapSound ==
    astray = "no" =>
      /\ \A p \in DOMAIN blocks :
            /\ Intact(p)
            /\ Len(blocks[p]) <= MemSize(arena, p)
            /\ BlockCells(p) \cap FreeCells = {}
            /\ \A q \in DOMAIN blocks \ {p} : BlockCells(p) \cap BlockCells(q) = {}
      /\ UNION {BlockCells(p) : p \in DOMAIN blocks} \cup FreeCells = 0..(arena.cap - 1)
      /\ TotalFree(arena.free) = Cardinality(FreeCells)
      /\ \A o \in DOMAIN arena.free : o + arena.free[o] \notin DOMAIN arena.free

\* vl_arena.h:292: "The contents of the memory block pointed to by 'ptr' are
\* preserved up to the lesser of the new and old sizes".  vlArenaMemRealloc copies
\* a block it moves from its header on, and returns the header's offset for an
\* unchanged size.
ContentsPreserved == astray = "resized" => \A p \in DOMAIN blocks : Intact(p)

\* vl_arena.h:333: vlArenaMemPrepend "handles the case wherein the specified source
\* pointer resides within the arena": the new front is what the source held.
PrependedFromArena == astray = "prepended" => \A p \in DOMAIN blocks : Intact(p)

============================================================================
