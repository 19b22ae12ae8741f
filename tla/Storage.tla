------------------------------ MODULE Storage ------------------------------
(***************************************************************************)
(* The allocators that hand out memory one element or one block at a time, *)
(* and the sequences kept in such memory, each as a system of its own:     *)
(* subject says which one a behaviour is about, and the state of that one  *)
(* is in s1 to s4.                                                         *)
(***************************************************************************)
EXTENDS Integers, FiniteSets

CONSTANTS
    FirstSize, FirstTable, MaxBlocks,   \* of the fixed pool
    Origins, Aligns, MaxLength,         \* of the aligned allocations
    Items, MaxElements,                 \* of deque, queue, buffer and stack
    BufferSize, MaxCapacity, MaxSize

\* malloc returns multiples of the default alignment, which is two units of the model.
ASSUME StorageAssumption ==
    /\ FirstSize \in Nat \ {0} /\ FirstTable \in Nat \ {0}
    /\ \A o \in Origins : o \in Nat /\ o % 2 = 0
    /\ Aligns \subseteq Nat \ {0}
    /\ MaxLength \in Nat
    /\ BufferSize \in Nat \ {0} /\ MaxSize \in Nat

VARIABLES subject, s1, s2, s3, s4
state == <<subject, s1, s2, s3, s4>>

Pool == INSTANCE FixedPool WITH
    pool <- s1, spare <- s2, live <- s3, DefaultSize <- FirstSize, TableSize <- FirstTable
Mem == INSTANCE Memory WITH block <- s1, kept <- s2
Deq == INSTANCE Deque WITH
    seq <- s1, contents <- s2, Values <- Items, DefaultSize <- FirstSize, TableSize <- FirstTable
Stk == INSTANCE Stack WITH
    buffer <- s1, text <- s2, stack <- s3, levels <- s4, InitialSize <- BufferSize, Marks <- Items

Unused(n) == (n <= 3 => s4 = 0) /\ (n <= 2 => s3 = 0) /\ (n = 1 => s2 = 0)

StorageInit ==
    \/ subject = "pool" /\ Pool!Init /\ Unused(3)
    \/ subject = "memory" /\ Mem!MemInit /\ Unused(2)
    \/ subject = "deque" /\ Deq!SeqInit /\ Unused(2)
    \/ subject = "buffer" /\ Stk!BufInit /\ s3 = 0 /\ s4 = 0
    \/ subject = "stack" /\ Stk!StackInit /\ s1 = 0 /\ s2 = 0

StorageNext ==
    \/ subject = "pool" /\ Pool!Next /\ UNCHANGED <<subject, s4>>
    \/ subject = "memory" /\ Mem!MemNext /\ UNCHANGED <<subject, s3, s4>>
    \/ subject = "deque" /\ Deq!SeqNext /\ UNCHANGED <<subject, s3, s4>>
    \/ subject = "buffer" /\ Stk!BufNext /\ UNCHANGED <<subject, s3, s4>>
    \/ subject = "stack" /\ Stk!StackNext /\ UNCHANGED <<subject, s1, s2>>

StorageSpec == StorageInit /\ [][StorageNext]_state

----------------------------------------------------------------------------

\* The fixed pool (vl_pool.c) never hands out an element that is in use, and its stack
\* stays inside its memory, as its table does until the pool is cloned from one with a
\* larger table.
FixedPoolSound == subject = "pool" => Pool!FixedPoolSound

\* An aligned heap block (vl_memory.c) is aligned, inside its allocation, and keeps its
\* contents.
MemorySound == subject = "memory" => Mem!MemorySound

\* What an allocator hands out is nobody else's, inside its memory, and kept.
AllocatorsSound == FixedPoolSound /\ MemorySound

\* Deque, queue, stack and buffer hold what was put in, in order, at every cursor; how
\* much vlBufferCopy copies is not part of it.
SequencesSound ==
    /\ subject = "deque" => Deq!SeqSound
    /\ subject = "buffer" => Stk!BufferSound
    /\ subject = "stack" => Stk!StackSound

\* The blocks of a pool, cloned ones included, are inside the memory of its lookup
\* table.  (Violated.)
TableInMemory == subject = "pool" => Pool!TableInMemory

\* A reallocation that fails leaves the original block valid.  (Violated.)
ReallocKeepsBlock == subject = "memory" => Mem!ReallocKeepsBlock

\* A copy from a buffer that is too short goes up to the end of the source.  (Violated.)
CopiesToTheEnd == subject = "buffer" => Stk!CopiesToTheEnd

\* The inductive invariant of allocators and sequences.
StorageInv ==
    /\ subject = "pool" => Pool!PoolInv
    /\ subject = "memory" => Mem!MemInv
    /\ subject = "deque" => Deq!SeqInv
    /\ subject = "buffer" => Stk!BufInv
    /\ subject = "stack" => Stk!StackInv

============================================================================
