----------------------------- MODULE FixedPool -----------------------------
(***************************************************************************)
(* vl_pool.c: elements of one size in blocks that double, a stack of       *)
(* returned indices, and a counter per block that does two jobs: it counts *)
(* the elements out of the block, and it names the next one to cut.  That  *)
(* is sound only because nothing is cut while a returned index is left.    *)
(*                                                                         *)
(* A pool is a record so that the containers built on it can hold one.  An *)
(* index is <<block, slot>>; the block list runs from the last block to    *)
(* the first, as lookupHead and nextLookup do.                             *)
(***************************************************************************)
EXTENDS Integers, Sequences, FiniteSets

CONSTANTS
    DefaultSize,    \* VL_POOL_DEFAULT_SIZE as the size of the first blocks
    TableSize,      \* VL_POOL_DEFAULT_SIZE as the size of table and stack
    MaxBlocks       \* bound of the model: blocks of a pool

VARIABLES
    pool,           \* the pool in use
    spare,          \* another initialised pool, the target of Clone
    live            \* the indices taken and not returned (history)

vars == <<pool, spare, live>>

----------------------------------------------------------------------------

\* vl_PoolNodeNew: one more block, twice as large the next time; the lookup
\* table doubles when it is full.  tableRoom is the memory behind the table,
\* lookupCapacity what the pool believes it to be; table says whose capacity
\* that is: its own, or one a clone copied and did not make room for (history).
NodeNew(p) ==
    LET grows == Len(p.blocks) >= p.lookupCapacity
    IN  [p EXCEPT !.blocks = Append(@, [taken |-> 0, size |-> p.growth]),
                  !.growth = 2 * @,
                  !.lookupCapacity = IF grows THEN 2 * @ ELSE @,
                  !.tableRoom = IF grows THEN 2 * p.lookupCapacity ELSE @,
                  !.table = IF grows THEN "own" ELSE @]

\* vlPoolInitAligned: the second block is as large as the first.
FreshPool ==
    [NodeNew([blocks |-> << >>, growth |-> DefaultSize, free |-> << >>,
              freeCapacity |-> TableSize, lookupCapacity |-> TableSize,
              tableRoom |-> TableSize, table |-> "own"])
        EXCEPT !.growth = DefaultSize]

Bump(p, b, n) == [p EXCEPT !.blocks[b].taken = p.blocks[b].taken + n]

\* The blocks that are not used up, and the one the list meets first.
Unspent(p) == {b \in DOMAIN p.blocks : p.blocks[b].taken < p.blocks[b].size}
FirstUnspent(p) == CHOOSE b \in Unspent(p) : \A c \in Unspent(p) : c <= b

\* Faulty variant: an element is cut although returned ones are left.
TakeCutsFirst(p) ==
    LET q == IF Unspent(p) = {} THEN NodeNew(p) ELSE p
        b == FirstUnspent(q)
    IN  [pool |-> Bump(q, b, 1), idx |-> <<b, q.blocks[b].taken>>]

\* vlPoolTake: the index returned last; else the next element of a block with
\* room; else the first of a new block.
Take(p) ==
    IF p.free # << >>
      THEN LET idx == p.free[Len(p.free)]
           IN  [pool |-> Bump([p EXCEPT !.free = SubSeq(@, 1, Len(@) - 1)],
                              idx[1], 1),
                idx |-> idx]
      ELSE LET q == IF Unspent(p) = {} THEN NodeNew(p) ELSE p
               b == FirstUnspent(q)
           IN  [pool |-> Bump(q, b, 1), idx |-> <<b, q.blocks[b].taken>>]

\* vlPoolReturn: the block counts one less, the index goes on the stack, which
\* doubles when it is full.
Return(p, idx) ==
    [Bump(p, idx[1], -1) EXCEPT
        !.free = Append(@, idx),
        !.freeCapacity = IF Len(p.free) >= @ THEN 2 * @ ELSE @]

\* vlPoolClear: every block is empty again, and so is the stack.
Clear(p) ==
    [p EXCEPT !.blocks = [b \in DOMAIN p.blocks |-> [p.blocks[b] EXCEPT !.taken = 0]],
              !.free = << >>]

\* vlPoolReset: all blocks but the oldest are freed.
Reset(p) ==
    [p EXCEPT !.blocks = << [p.blocks[1] EXCEPT !.taken = 0] >>,
              !.growth = p.blocks[1].size,
              !.free = << >>]

\* The room vlPoolReserve counts: elements not out, recycled ones included.
Available(p) ==
    LET room[b \in 0..Len(p.blocks)] ==
          IF b = 0 THEN 0
          ELSE room[b - 1] + p.blocks[b].size - p.blocks[b].taken
    IN  room[Len(p.blocks)]

\* One round of vlPoolReserve(n); it runs until n elements are available.
Reserve(p, n) == IF Available(p) < n THEN NodeNew(p) ELSE p

\* vlPoolClone(src, dest) into a pool that is reset first.  lookupCapacity is
\* copied before it is compared, so the table of dest is never enlarged: the
\* blocks that do not fit are written behind it.
Clone(src, dest) ==
    [Reset(dest) EXCEPT
        !.blocks = src.blocks,
        !.growth = src.growth,
        !.free = src.free,
        !.freeCapacity = IF @ < src.freeCapacity THEN src.freeCapacity ELSE @,
        !.lookupCapacity = src.lookupCapacity,
        !.table = IF src.lookupCapacity > dest.tableRoom THEN "copied" ELSE "own"]

\* The blocks of the pool are inside the memory of its table.
InTable(p) == Len(p.blocks) <= p.tableRoom

----------------------------------------------------------------------------

Init ==
    /\ pool = FreshPool
    /\ spare = FreshPool
    /\ live = {}

TakeElement ==
    /\ Len(Take(pool).pool.blocks) <= MaxBlocks
    /\ pool' = Take(pool).pool
    /\ live' = live \cup {Take(pool).idx}
    /\ UNCHANGED spare

\* The header leaves it undefined to return what is not out.
ReturnElement(idx) ==
    /\ idx \in live
    /\ pool' = Return(pool, idx)
    /\ live' = live \ {idx}
    /\ UNCHANGED spare

ClearPool == pool' = Clear(pool) /\ live' = {} /\ UNCHANGED spare

ResetPool == pool' = Reset(pool) /\ live' = {} /\ UNCHANGED spare

\* vlPoolFree, and vlPoolInitAligned on the same object.
FreePool == pool' = FreshPool /\ live' = {} /\ UNCHANGED spare

ReservePool(n) ==
    /\ Len(Reserve(pool, n).blocks) <= MaxBlocks
    /\ pool' = Reserve(pool, n)
    /\ UNCHANGED <<spare, live>>

\* The program goes on with the copy and keeps the original as the next target.
ClonePool ==
    /\ pool' = Clone(pool, spare)
    /\ spare' = pool
    /\ UNCHANGED live

\* Nothing is said of what a program does after a write behind the table.
Next ==
    /\ InTable(pool)
    /\ \/ TakeElement
       \/ \E idx \in live : ReturnElement(idx)
       \/ ClearPool
       \/ ResetPool
       \/ FreePool
       \/ \E n \in 1..3 : ReservePool(n)
       \/ ClonePool

Spec == Init /\ [][Next]_vars

----------------------------------------------------------------------------

Recycled(p) == {p.free[i] : i \in DOMAIN p.free}
LiveIn(b) == {idx \in live : idx[1] = b}
RecycledIn(p, b) == {idx \in Recycled(p) : idx[1] = b}

\* A pool as memory: a block at least, its stack inside its memory, and its table if
\* the capacity is its own.
Shape(p) ==
    /\ p \in [blocks : Seq([taken : Nat, size : Nat \ {0}]), growth : Nat \ {0},
              free : Seq(Nat \X Nat), freeCapacity : Nat \ {0},
              lookupCapacity : Nat \ {0}, tableRoom : Nat \ {0}, table : {"own", "copied"}]
    /\ p.blocks # << >>
    /\ Len(p.blocks) <= p.lookupCapacity
    /\ p.table = "own" => p.lookupCapacity <= p.tableRoom
    /\ Len(p.free) <= p.freeCapacity

\* The first n elements of a block.
FirstOf(b, n) == {<<b, s>> : s \in 0..(n - 1)}

\* The inductive invariant of the elements: out and recycled ones lie in blocks that
\* exist and are told apart, and in each block they are the first n, of which the
\* counter counts the ones out.
Cut(p, out) ==
    /\ out \subseteq (DOMAIN p.blocks) \X Nat
    /\ \A i \in DOMAIN p.free : p.free[i] \in (DOMAIN p.blocks) \X Nat /\ p.free[i] \notin out
    /\ \A i, j \in DOMAIN p.free : p.free[i] = p.free[j] => i = j
    /\ \A b \in DOMAIN p.blocks :
        \E n \in 0..p.blocks[b].size :
            /\ {idx \in out : idx[1] = b} \cup RecycledIn(p, b) = FirstOf(b, n)
            /\ p.blocks[b].taken = Cardinality({idx \in out : idx[1] = b})

PoolInv == Shape(pool) /\ Shape(spare) /\ Cut(pool, live)

\* What the counter of a block means: it counts the elements out, and the
\* elements out or recycled are the first ones of the block without a gap, so
\* that it names an element never handed out when the stack is empty.
CounterSound ==
    \A b \in DOMAIN pool.blocks :
        LET cut == Cardinality(LiveIn(b)) + Cardinality(RecycledIn(pool, b))
        IN  /\ pool.blocks[b].taken = Cardinality(LiveIn(b))
            /\ cut <= pool.blocks[b].size
            /\ LiveIn(b) \cup RecycledIn(pool, b) = {<<b, s>> : s \in 0..(cut - 1)}

\* vlPoolTake never hands out an element that is out, whatever mix of returns,
\* clears, resets, reserves and clones came before; a recycled index is on the
\* stack once and inside a block that still exists; the stack is never indexed
\* past its memory, and the table is not unless its capacity was copied from a
\* pool with a larger one (see TableInMemory).
FixedPoolSound ==
    /\ Take(pool).idx \notin live
    /\ live \cap Recycled(pool) = {}
    /\ Cardinality(Recycled(pool)) = Len(pool.free)
    /\ CounterSound
    /\ Len(pool.free) <= pool.freeCapacity
    /\ pool.table = "own" => InTable(pool)

\* vlPoolClone clones the entirety of an initialised pool into another initialised
\* one, or a new one: every block of a pool is inside the memory of its table.
\* (Violated: lookupCapacity is copied before it is compared, so the table of the
\* target stays as it is.)
TableInMemory == InTable(pool)

============================================================================
