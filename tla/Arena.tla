------------------------------- MODULE Arena -------------------------------
(***************************************************************************)
(* vl_arena.c: blocks cut out of one piece of memory that doubles, and an  *)
(* ordered set of free nodes.  An arena is a record: its capacity, the     *)
(* free nodes as a function from offset to size, and the memory.  The unit *)
(* of memory is sizeof(vl_memsize_t): a block is one cell with its size,   *)
(* header included, and the cells of the caller.  Memory that is free is   *)
(* not told apart.                                                         *)
(***************************************************************************)
EXTENDS Integers, Sequences, FiniteSets, SequencesExt, TLC

Header == 1
Junk == -1

Without(f, x) == [y \in DOMAIN f \ {x} |-> f[y]]
Least(S) == CHOOSE x \in S : \A y \in S : x <= y

Write(mem, at, cells) ==
    [x \in DOMAIN mem |-> IF x - at + 1 \in DOMAIN cells THEN cells[x - at + 1] ELSE mem[x]]
\* Past the end of the memory there is junk too.
Read(mem, at, n) ==
    [i \in 1..n |-> IF at + i - 1 \in DOMAIN mem THEN mem[at + i - 1] ELSE Junk]

\* vlArenaInit.
NewArena(size) ==
    [cap |-> size, free |-> (0 :> size), mem |-> [x \in 0..(size - 1) |-> Junk]]

\* vlArenaClear.
ArenaClear(a) == NewArena(a.cap)

\* vlArenaClone.
ArenaClone(src, dest) ==
    [dest EXCEPT !.cap = src.cap, !.free = src.free, !.mem = src.mem]

----------------------------------------------------------------------------
(* The free set. *)

\* vlSetInsert with vl_ArenaNodeCompare: a node at the same offset stays.
AddFree(f, offset, size) == IF offset \in DOMAIN f THEN f ELSE f @@ (offset :> size)

\* Phase 1 of vl_HeapCoalesce: the last node of the run that starts at r.
RECURSIVE Rightmost(_, _)
Rightmost(f, r) == IF r + f[r] \in DOMAIN f THEN Rightmost(f, r + f[r]) ELSE r

\* Phase 2: a node that ends where r starts swallows it, and so on.
RECURSIVE MergeLeft(_, _)
MergeLeft(f, r) ==
    LET lefts == {l \in DOMAIN f : l < r /\ l + f[l] = r}
        l == CHOOSE l \in lefts : TRUE
    IN  IF lefts = {} THEN f
        ELSE MergeLeft([Without(f, r) EXCEPT ![l] = @ + f[r]], l)

\* Faulty variant: only the neighbour to the left is looked for.
HeapCoalesceLeft(f, r) == MergeLeft(f, r)

HeapCoalesce(f, r) == MergeLeft(f, Rightmost(f, r))

Release(a, offset, size) ==
    [a EXCEPT !.free = HeapCoalesce(AddFree(@, offset, size), offset),
              !.mem = Write(@, offset, [i \in 1..size |-> Junk])]

\* vlArenaTotalFree.
RECURSIVE TotalFree(_)
TotalFree(f) ==
    IF DOMAIN f = {} THEN 0
    ELSE LET o == Least(DOMAIN f) IN f[o] + TotalFree(Without(f, o))

----------------------------------------------------------------------------
(* Growth and allocation. *)

RECURSIVE Doubled(_, _)
Doubled(size, beyond) == IF size <= beyond THEN Doubled(2 * size, beyond) ELSE size

\* The new memory is free but for its last `kept` cells.
Grow(a, cap, kept) ==
    LET b == [a EXCEPT !.cap = cap,
                       !.mem = [x \in 0..(cap - 1) |-> IF x < a.cap THEN @[x] ELSE Junk]]
    IN  Release(b, a.cap, cap - a.cap - kept)

\* vlArenaReserve: it grows whatever is free.
ArenaReserve(a, n) ==
    LET free == TotalFree(a.free)
        short == IF n <= free THEN n ELSE n - free
    IN  Grow(a, Doubled(a.cap, short + a.cap), 0)

\* A block of n cells at an offset, header written; the caller's pointer.
Block(a, offset, n) ==
    [arena |-> [a EXCEPT !.mem = Write(@, offset, <<n>>)], ptr |-> offset + Header]

\* vlArenaMemAlloc: the first node that is large enough gives up its last
\* cells, or goes if it fits; else the memory grows.
MemAlloc(a, size) ==
    LET n == size + Header
        fits == {o \in DOMAIN a.free : a.free[o] >= n}
        o == Least(fits)
        cap == Doubled(a.cap, n + a.cap)
    IN  IF size = 0 THEN [arena |-> a, ptr |-> 0]
        ELSE IF fits = {} THEN Block(Grow(a, cap, n), cap - n, n)
        ELSE IF a.free[o] = n THEN Block([a EXCEPT !.free = Without(@, o)], o, n)
        ELSE Block([a EXCEPT !.free[o] = @ - n], o + a.free[o] - n, n)

\* vlArenaMemSize.
MemSize(a, ptr) == a.mem[ptr - Header] - Header

\* vlArenaMemFree.
MemFree(a, ptr) ==
    LET offset == ptr - Header
    IN  IF a.mem[offset] = 0 THEN a ELSE Release(a, offset, a.mem[offset])

\* The block can grow into the free node behind it.
FitsInPlace(a, ptr, size) ==
    LET orig == a.mem[ptr - Header]
        right == ptr - Header + orig
    IN  right \in DOMAIN a.free /\ a.free[right] + orig >= size + Header

GrowInPlace(a, offset, n, orig) ==
    LET right == offset + orig
        rest == Without(a.free, right)
        left == a.free[right] + orig - n
    IN  Block([a EXCEPT !.free = IF left = 0 THEN rest
                                 ELSE AddFree(rest, offset + n, left)], offset, n)

\* vlArenaMemRealloc.  For an unchanged size it returns the offset of the
\* header; to move a block it asks for one header more and copies the block
\* from its header on.
MemRealloc(a, ptr, size) ==
    LET offset == ptr - Header
        n == size + Header
        orig == a.mem[offset]
        new == MemAlloc(a, n)
        copied == [new.arena EXCEPT !.mem = Write(@, new.ptr, Read(@, offset, orig))]
    IN  IF n = orig THEN [arena |-> a, ptr |-> offset]
        ELSE IF n < orig THEN Block(Release(a, offset + n, orig - n), offset, n)
        ELSE IF FitsInPlace(a, ptr, size) THEN GrowInPlace(a, offset, n, orig)
        ELSE [arena |-> MemFree(copied, ptr), ptr |-> new.ptr]

\* A source of cells: the caller's own, or an offset in the arena, which is
\* remembered across the reallocation.
Outside(cells) == [at |-> 0, cells |-> cells]
Inside(at, n) == [at |-> at, cells |-> [i \in 1..n |-> Junk]]
Fetch(mem, src, at) ==
    IF src.at = 0 THEN src.cells ELSE Read(mem, at, Len(src.cells))

\* vlArenaMemPrepend: an offset in the arena is moved by the length.
MemPrepend(a, ptr, src) ==
    LET n == Len(src.cells)
        orig == MemSize(a, ptr)
        r == MemRealloc(a, ptr, n + orig)
        shifted == Write(r.arena.mem, r.ptr + n, Read(r.arena.mem, r.ptr, orig))
    IN  [arena |-> [r.arena EXCEPT
            !.mem = Write(shifted, r.ptr, Fetch(shifted, src, src.at + n))],
         ptr |-> r.ptr]

\* vlArenaMemAppend.
MemAppend(a, ptr, src) ==
    LET n == Len(src.cells)
        orig == MemSize(a, ptr)
        r == MemRealloc(a, ptr, n + orig)
    IN  [arena |-> [r.arena EXCEPT
            !.mem = Write(@, r.ptr + orig, Fetch(@, src, src.at))],
         ptr |-> r.ptr]

============================================================================
