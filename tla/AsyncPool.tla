------------------------------- MODULE AsyncPool -------------------------------
(***************************************************************************)
(* vl_async_pool: a lock-free pool of fixed-size elements.                 *)
(*                                                                         *)
(* Recycled elements sit on a Treiber stack whose top is a tagged pointer  *)
(* (freeStack); fresh ones are cut from the primary block by a CAS on its  *)
(* `taken` counter; a new block is chained in under a spin flag.  Take and *)
(* Return may run concurrently in any number of threads, one atomic access *)
(* per step; Clear, Reset and Free run only while nobody else is inside    *)
(* the pool, as the header requires of the callers.                        *)
(*                                                                         *)
(* An element is a pair <<block, slot>>.  The header word `next` in front  *)
(* of each element is the function `link`.                                 *)
(***************************************************************************)
EXTENDS Integers, FiniteSets

CONSTANTS
    Threads,        \* client threads
    NULL,           \* the null pointer
    BlockMinShift,  \* VL_ASYNC_POOL_BLOCK_MIN_SHIFT (4 in the code)
    BlockMaxShift,  \* VL_ASYNC_POOL_BLOCK_MAX_SHIFT (16 in the code)
    LengthModulus,  \* freeLength is an unsigned word of this size
    SpuriousCAS,    \* may a weak compare-exchange fail for no reason?
    Maintenance,    \* which of "clear", "reset", "free" the clients call
    MaxBlocks,      \* bound: blocks ever allocated
    SlotBound,      \* bound: slots of the largest block within MaxBlocks
    MaxTag,         \* bound: no operation starts at this free stack tag
    MaxHeld         \* bound: elements held or being taken at any time

-------------------------------------------------------------------------------
\* Growth of the block list.

\* The shift of the block allocated when `ordinal` blocks exist already.
BlockShift(ordinal) ==
    IF 2^ordinal >= 2^BlockMaxShift
    THEN BlockMaxShift
    ELSE IF ordinal > 0 THEN ordinal - 1 ELSE ordinal

\* The number of elements of that block.
BlockElements(ordinal) == 2^BlockMinShift * 2^BlockShift(ordinal)

Block   == 1 .. MaxBlocks
Slot    == 0 .. SlotBound - 1
Element == Block \X Slot
Pointer == Element \cup {NULL}

ASSUME PoolAssumption ==
    /\ NULL \notin Element /\ NULL \notin Block
    /\ IsFiniteSet(Threads)
    /\ LengthModulus \in Nat \ {0}
    /\ SpuriousCAS \in BOOLEAN
    /\ Maintenance \subseteq {"clear", "reset", "free"}
    /\ MaxBlocks \in Nat \ {0} /\ SlotBound \in Nat \ {0}
    /\ MaxTag \in Nat /\ MaxHeld \in Nat
    /\ \A o \in 0 .. MaxBlocks - 1 : BlockElements(o) \in 1 .. SlotBound

-------------------------------------------------------------------------------
VARIABLES
    freeStack,      \* [ptr, tag]: top of the free stack
    freeLength,     \* the pool's count of recycled elements
    link,           \* link[e]: the `next` word in the header of element e
    primaryBlock,   \* the block fresh elements come from
    allocatingFlag, \* the spin flag around block allocation
    totalBlocks,    \* blocks allocated so far; Reset does not lower it
    nextBlock,      \* nextBlock[b], prevBlock[b]: the block list
    prevBlock,
    elements,       \* elements[b]: capacity of block b
    taken,          \* taken[b]: fresh elements handed out of block b
    open,           \* FALSE once vlAsyncPoolFree has run
    live,           \* blocks allocated and not yet freed
    pc,             \* where each thread is
    freeTop,        \* Take, Return: the loaded top of the free stack
    next,           \* Take: the loaded topNode->next
    block,          \* Take: the loaded primary block; Allocate: the new one
    blockTaken,     \* Take: the loaded taken counter
    node,           \* Return: the element being returned
    owned,          \* owned[t]: elements returned to t by Take
    rank            \* auxiliary: depth of an element in the free stack,
                    \* counted from the bottom; 0 when it is not there

shared == <<freeStack, freeLength, link>>
blocks == <<primaryBlock, allocatingFlag, totalBlocks, nextBlock, prevBlock,
            elements, taken, open, live>>
locals == <<freeTop, next, block, blockTaken, node>>
vars   == <<freeStack, freeLength, link, primaryBlock, allocatingFlag,
            totalBlocks, nextBlock, prevBlock, elements, taken, open, live,
            pc, freeTop, next, block, blockTaken, node, owned, rank>>

NullTop == [ptr |-> NULL, tag |-> 0]

\* vlAsyncPoolInitAligned: an empty stack, and the first block allocated.
Init ==
    /\ freeStack = NullTop
    /\ freeLength = 0
    /\ link = [e \in Element |-> NULL]
    /\ primaryBlock = 1
    /\ allocatingFlag = FALSE
    /\ totalBlocks = 1
    /\ nextBlock = [b \in Block |-> NULL]
    /\ prevBlock = [b \in Block |-> NULL]
    /\ elements = [b \in Block |-> IF b = 1 THEN BlockElements(0) ELSE 0]
    /\ taken = [b \in Block |-> 0]
    /\ open = TRUE
    /\ live = {1}
    /\ pc = [t \in Threads |-> "idle"]
    /\ freeTop = [t \in Threads |-> NullTop]
    /\ next = [t \in Threads |-> NULL]
    /\ block = [t \in Threads |-> NULL]
    /\ blockTaken = [t \in Threads |-> 0]
    /\ node = [t \in Threads |-> NULL]
    /\ owned = [t \in Threads |-> {}]
    /\ rank = [e \in Element |-> 0]

Goto(t, from, to) == pc[t] = from /\ pc' = [pc EXCEPT ![t] = to]

\* Mutant: the tag is carried over unchanged.
RetaggedSameTag(expected, ptr) == [ptr |-> ptr, tag |-> expected.tag]

\* The tagged pointer a successful vlAtomicPtrCompareExchange installs.
Retagged(expected, ptr) == [ptr |-> ptr, tag |-> expected.tag + 1]

\* Mutant: a signed counter that does not wrap.
CountSigned(n) == n

\* freeLength is unsigned.
Count(n) == n % LengthModulus

\* The height of the free stack is the rank of its top.
Height == IF freeStack.ptr = NULL THEN 0 ELSE rank[freeStack.ptr]

AllocPc  == {"alloc_primary", "alloc_publish", "alloc_link", "alloc_release"}
TakePc   == {"take_load", "take_next", "take_cas", "take_sub", "take_block",
             "take_taken", "take_bump", "alloc_flag"} \cup AllocPc
ReturnPc == {"ret_load", "ret_link", "ret_cas", "ret_add"}

\* What a thread holds: what it owns, what a Take has won and not yet
\* delivered, and what a Return has not yet put on the stack.
Held(t) ==
    owned[t]
        \cup (IF pc[t] = "take_sub" THEN {freeTop[t].ptr} ELSE {})
        \cup (IF pc[t] \in {"ret_load", "ret_link", "ret_cas"} THEN {node[t]}
              ELSE {})

\* Elements held, plus the ones about to be (a bound of the model).
HeldOrTaking ==
    Cardinality(UNION {Held(t) : t \in Threads})
        + Cardinality({t \in Threads : pc[t] \in TakePc \ {"take_sub"}})

Idle == \A t \in Threads : pc[t] = "idle"

-------------------------------------------------------------------------------
\* vlAsyncPoolTake

BeginTake(t) ==
    /\ open
    /\ freeStack.tag < MaxTag /\ HeldOrTaking < MaxHeld
    /\ Goto(t, "idle", "take_load")
    /\ UNCHANGED <<shared, blocks, locals, owned, rank>>

\* Load the free stack; a null top means: cut a fresh element.
TakeLoad(t) ==
    /\ Goto(t, "take_load",
            IF freeStack.ptr # NULL THEN "take_next" ELSE "take_block")
    /\ freeTop' = [freeTop EXCEPT ![t] = freeStack]
    /\ UNCHANGED <<shared, blocks, next, block, blockTaken, node, owned, rank>>

\* Read topNode->next.  The top may have been taken meanwhile, and even be
\* on its way back: the word read may be stale, the CAS decides.
TakeNext(t) ==
    /\ Goto(t, "take_next", "take_cas")
    /\ next' = [next EXCEPT ![t] = link[freeTop[t].ptr]]
    /\ UNCHANGED <<shared, blocks, freeTop, block, blockTaken, node, owned, rank>>

\* The compare-exchange that pops the stack.
TakeCas(t) ==
    /\ Goto(t, "take_cas", "take_sub")
    /\ freeStack = freeTop[t]
    /\ freeStack' = Retagged(freeTop[t], next[t])
    /\ rank' = [rank EXCEPT ![freeTop[t].ptr] = 0]
    /\ next' = [next EXCEPT ![t] = NULL]
    /\ UNCHANGED <<freeLength, link, blocks, freeTop, block, blockTaken, node, owned>>

TakeCasFails(t) ==
    /\ Goto(t, "take_cas", "take_load")
    /\ freeStack # freeTop[t] \/ SpuriousCAS
    /\ freeTop' = [freeTop EXCEPT ![t] = NullTop]
    /\ next' = [next EXCEPT ![t] = NULL]
    /\ UNCHANGED <<shared, blocks, block, blockTaken, node, owned, rank>>

\* Mutant: the element is delivered without lowering freeLength.
TakeSubUncounted(t) ==
    /\ Goto(t, "take_sub", "idle")
    /\ owned' = [owned EXCEPT ![t] = @ \cup {freeTop[t].ptr}]
    /\ freeTop' = [freeTop EXCEPT ![t] = NullTop]
    /\ UNCHANGED <<shared, blocks, next, block, blockTaken, node, rank>>

\* Lower freeLength (it may wrap below zero) and deliver the element.
TakeSub(t) ==
    /\ Goto(t, "take_sub", "idle")
    /\ freeLength' = Count(freeLength - 1)
    /\ owned' = [owned EXCEPT ![t] = @ \cup {freeTop[t].ptr}]
    /\ freeTop' = [freeTop EXCEPT ![t] = NullTop]
    /\ UNCHANGED <<freeStack, link, blocks, next, block, blockTaken, node, rank>>

TakeBlock(t) ==
    /\ Goto(t, "take_block", "take_taken")
    /\ block' = [block EXCEPT ![t] = primaryBlock]
    /\ UNCHANGED <<shared, blocks, freeTop, next, blockTaken, node, owned, rank>>

\* Load block->taken; a full block means: allocate, then start over.
TakeTaken(t) ==
    LET full == taken[block[t]] >= elements[block[t]] IN
    /\ Goto(t, "take_taken", IF full THEN "alloc_flag" ELSE "take_bump")
    /\ blockTaken' = [blockTaken EXCEPT ![t] = IF full THEN 0 ELSE taken[block[t]]]
    /\ block' = [block EXCEPT ![t] = IF full THEN NULL ELSE @]
    /\ UNCHANGED <<shared, blocks, freeTop, next, node, owned, rank>>

\* Mutant: a plain store in place of the compare-exchange.
TakeBumpStores(t) ==
    /\ Goto(t, "take_bump", "idle")
    /\ taken' = [taken EXCEPT ![block[t]] = blockTaken[t] + 1]
    /\ owned' = [owned EXCEPT ![t] = @ \cup {<<block[t], blockTaken[t]>>}]
    /\ block' = [block EXCEPT ![t] = NULL]
    /\ blockTaken' = [blockTaken EXCEPT ![t] = 0]
    /\ UNCHANGED <<shared, primaryBlock, allocatingFlag, totalBlocks, nextBlock,
                   prevBlock, elements, open, live, freeTop, next, node, rank>>

\* The compare-exchange that claims slot blockTaken of the block.
TakeBump(t) ==
    /\ Goto(t, "take_bump", "idle")
    /\ taken[block[t]] = blockTaken[t]
    /\ taken' = [taken EXCEPT ![block[t]] = blockTaken[t] + 1]
    /\ owned' = [owned EXCEPT ![t] = @ \cup {<<block[t], blockTaken[t]>>}]
    /\ block' = [block EXCEPT ![t] = NULL]
    /\ blockTaken' = [blockTaken EXCEPT ![t] = 0]
    /\ UNCHANGED <<shared, primaryBlock, allocatingFlag, totalBlocks, nextBlock,
                   prevBlock, elements, open, live, freeTop, next, node, rank>>

TakeBumpFails(t) ==
    /\ Goto(t, "take_bump", "take_load")
    /\ taken[block[t]] # blockTaken[t] \/ SpuriousCAS
    /\ block' = [block EXCEPT ![t] = NULL]
    /\ blockTaken' = [blockTaken EXCEPT ![t] = 0]
    /\ UNCHANGED <<shared, blocks, freeTop, next, node, owned, rank>>

-------------------------------------------------------------------------------
\* vlAsyncPoolAllocate, called by Take when the loaded block was full.  The
\* flag serialises allocators; the emptiness of the primary block is not
\* looked at again under it.

AllocFlag(t) ==
    /\ Goto(t, "alloc_flag", "alloc_primary")
    /\ ~allocatingFlag
    /\ allocatingFlag' = TRUE
    /\ UNCHANGED <<shared, primaryBlock, totalBlocks, nextBlock, prevBlock,
                   elements, taken, open, live, locals, owned, rank>>

AllocFlagFails(t) ==
    /\ Goto(t, "alloc_flag", "take_load")
    /\ allocatingFlag \/ SpuriousCAS
    /\ UNCHANGED <<shared, blocks, locals, owned, rank>>

\* A block is chained after the primary one (after a Clear): step to it.
AllocAdvance(t) ==
    /\ Goto(t, "alloc_primary", "alloc_release")
    /\ nextBlock[primaryBlock] # NULL
    /\ primaryBlock' = nextBlock[primaryBlock]
    /\ UNCHANGED <<shared, allocatingFlag, totalBlocks, nextBlock, prevBlock,
                   elements, taken, open, live, locals, owned, rank>>

\* Otherwise build a block behind the primary one.  Its address is new.
AllocNew(t) ==
    LET new == totalBlocks + 1 IN
    /\ Goto(t, "alloc_primary", "alloc_publish")
    /\ nextBlock[primaryBlock] = NULL
    /\ totalBlocks < MaxBlocks
    /\ block' = [block EXCEPT ![t] = new]
    /\ totalBlocks' = new
    /\ live' = live \cup {new}
    /\ prevBlock' = [prevBlock EXCEPT ![new] = primaryBlock]
    /\ nextBlock' = [nextBlock EXCEPT ![new] = NULL]
    /\ elements' = [elements EXCEPT ![new] = BlockElements(totalBlocks)]
    /\ taken' = [taken EXCEPT ![new] = 0]
    /\ UNCHANGED <<shared, primaryBlock, allocatingFlag, open, freeTop, next,
                   blockTaken, node, owned, rank>>

\* The new block becomes primary before its predecessor points to it.
AllocPublish(t) ==
    /\ Goto(t, "alloc_publish", "alloc_link")
    /\ primaryBlock' = block[t]
    /\ UNCHANGED <<shared, allocatingFlag, totalBlocks, nextBlock, prevBlock,
                   elements, taken, open, live, locals, owned, rank>>

\* Mutant: the old primary block is not linked to the new one.
AllocLinkForgotten(t) ==
    /\ Goto(t, "alloc_link", "alloc_release")
    /\ block' = [block EXCEPT ![t] = NULL]
    /\ UNCHANGED <<shared, blocks, freeTop, next, blockTaken, node, owned, rank>>

AllocLink(t) ==
    /\ Goto(t, "alloc_link", "alloc_release")
    /\ nextBlock' = [nextBlock EXCEPT ![prevBlock[block[t]]] = block[t]]
    /\ block' = [block EXCEPT ![t] = NULL]
    /\ UNCHANGED <<shared, primaryBlock, allocatingFlag, totalBlocks, prevBlock,
                   elements, taken, open, live, freeTop, next, blockTaken, node,
                   owned, rank>>

\* Mutant: the flag stays set.
AllocReleaseForgotten(t) ==
    /\ Goto(t, "alloc_release", "take_load")
    /\ UNCHANGED <<shared, blocks, locals, owned, rank>>

AllocRelease(t) ==
    /\ Goto(t, "alloc_release", "take_load")
    /\ allocatingFlag' = FALSE
    /\ UNCHANGED <<shared, primaryBlock, totalBlocks, nextBlock, prevBlock,
                   elements, taken, open, live, locals, owned, rank>>

-------------------------------------------------------------------------------
\* vlAsyncPoolReturn

BeginReturn(t, e) ==
    /\ open
    /\ freeStack.tag < MaxTag
    /\ e \in owned[t]
    /\ Goto(t, "idle", "ret_load")
    /\ node' = [node EXCEPT ![t] = e]
    /\ owned' = [owned EXCEPT ![t] = @ \ {e}]
    /\ UNCHANGED <<shared, blocks, freeTop, next, block, blockTaken, rank>>

ReturnLoad(t) ==
    /\ Goto(t, "ret_load", "ret_link")
    /\ freeTop' = [freeTop EXCEPT ![t] = freeStack]
    /\ UNCHANGED <<shared, blocks, next, block, blockTaken, node, owned, rank>>

ReturnLink(t) ==
    /\ Goto(t, "ret_link", "ret_cas")
    /\ link' = [link EXCEPT ![node[t]] = freeTop[t].ptr]
    /\ UNCHANGED <<freeStack, freeLength, blocks, locals, owned, rank>>

ReturnCas(t) ==
    /\ Goto(t, "ret_cas", "ret_add")
    /\ freeStack = freeTop[t]
    /\ freeStack' = Retagged(freeTop[t], node[t])
    /\ rank' = [rank EXCEPT ![node[t]] = Height + 1]
    /\ freeTop' = [freeTop EXCEPT ![t] = NullTop]
    /\ node' = [node EXCEPT ![t] = NULL]
    /\ UNCHANGED <<freeLength, link, blocks, next, block, blockTaken, owned>>

\* Mutant: the top reloaded by the failed exchange is tried again without
\* storing it in node->next.
ReturnCasFailsNoRelink(t) ==
    /\ pc[t] = "ret_cas" /\ UNCHANGED pc
    /\ freeStack # freeTop[t]
    /\ freeTop' = [freeTop EXCEPT ![t] = freeStack]
    /\ UNCHANGED <<shared, blocks, next, block, blockTaken, node, owned, rank>>

ReturnCasFails(t) ==
    /\ Goto(t, "ret_cas", "ret_load")
    /\ freeStack # freeTop[t] \/ SpuriousCAS
    /\ freeTop' = [freeTop EXCEPT ![t] = NullTop]
    /\ UNCHANGED <<shared, blocks, next, block, blockTaken, node, owned, rank>>

ReturnAdd(t) ==
    /\ Goto(t, "ret_add", "idle")
    /\ freeLength' = Count(freeLength + 1)
    /\ UNCHANGED <<freeStack, link, blocks, locals, owned, rank>>

-------------------------------------------------------------------------------
\* Maintenance: only while no thread is inside the pool.

\* The blocks met from `start` along a chain of block pointers.
ChainFrom(chain, start) ==
    {b \in Block : \A S \in SUBSET Block :
        (/\ start \in S
         /\ \A c \in S : chain[c] \in S \cup {NULL}) => b \in S}

Rewound(chain) == [b \in Block |-> IF b \in chain THEN 0 ELSE taken[b]]

\* Mutant: the recycled elements stay on the stack.
EmptyStackKeepsTop ==
    /\ freeLength' = 0
    /\ owned' = [t \in Threads |-> {}]
    /\ UNCHANGED <<freeStack, rank>>

\* Drop the free stack, and with it every element the clients still hold.
EmptyStack ==
    /\ freeLength' = 0
    /\ freeStack' = NullTop
    /\ owned' = [t \in Threads |-> {}]
    /\ rank' = [e \in Element |-> 0]

\* vlAsyncPoolClear: rewind the blocks from the primary back to the first.
Clear ==
    LET chain == ChainFrom(prevBlock, primaryBlock) IN
    /\ open /\ Idle /\ "clear" \in Maintenance
    /\ taken' = Rewound(chain)
    /\ \E first \in chain : prevBlock[first] = NULL /\ primaryBlock' = first
    /\ EmptyStack
    /\ UNCHANGED <<link, allocatingFlag, totalBlocks, nextBlock, prevBlock,
                   elements, open, live, pc, locals>>

\* Mutant: the first block keeps pointing to the second.
ResetKeepsNext ==
    LET chain == ChainFrom(prevBlock, primaryBlock) IN
    /\ open /\ Idle /\ "reset" \in Maintenance
    /\ taken' = Rewound(chain)
    /\ live' = live \ {b \in chain : prevBlock[b] # NULL}
    /\ \E first \in chain : prevBlock[first] = NULL /\ primaryBlock' = first
    /\ EmptyStack
    /\ UNCHANGED <<link, allocatingFlag, totalBlocks, nextBlock, prevBlock,
                   elements, open, pc, locals>>

\* vlAsyncPoolReset: free the blocks from the primary back to the first.
Reset ==
    LET chain == ChainFrom(prevBlock, primaryBlock) IN
    /\ open /\ Idle /\ "reset" \in Maintenance
    /\ taken' = Rewound(chain)
    /\ live' = live \ {b \in chain : prevBlock[b] # NULL}
    /\ \E first \in chain :
        /\ prevBlock[first] = NULL
        /\ primaryBlock' = first
        /\ nextBlock' = [nextBlock EXCEPT ![first] = NULL]
    /\ EmptyStack
    /\ UNCHANGED <<link, allocatingFlag, totalBlocks, prevBlock, elements, open,
                   pc, locals>>

\* vlAsyncPoolFree: free the blocks from the primary one forward.
Free ==
    /\ open /\ Idle /\ "free" \in Maintenance
    /\ open' = FALSE
    /\ live' = live \ ChainFrom(nextBlock, primaryBlock)
    /\ owned' = [t \in Threads |-> {}]
    /\ UNCHANGED <<shared, primaryBlock, allocatingFlag, totalBlocks, nextBlock,
                   prevBlock, elements, taken, pc, locals, rank>>

-------------------------------------------------------------------------------
Step(t) ==
    \/ TakeLoad(t) \/ TakeNext(t) \/ TakeCas(t) \/ TakeCasFails(t)
    \/ TakeSub(t) \/ TakeBlock(t) \/ TakeTaken(t) \/ TakeBump(t)
    \/ TakeBumpFails(t) \/ AllocFlag(t) \/ AllocFlagFails(t)
    \/ AllocAdvance(t) \/ AllocNew(t) \/ AllocPublish(t) \/ AllocLink(t)
    \/ AllocRelease(t) \/ ReturnLoad(t) \/ ReturnLink(t) \/ ReturnCas(t)
    \/ ReturnCasFails(t) \/ ReturnAdd(t)

Next ==
    \/ \E t \in Threads : BeginTake(t) \/ Step(t)
    \/ \E t \in Threads, e \in Element : BeginReturn(t, e)
    \/ Clear \/ Reset \/ Free

Spec == Init /\ [][Next]_vars

\* Every thread inside the pool keeps being scheduled.
FairSpec == Spec /\ \A t \in Threads : WF_vars(Step(t))

-------------------------------------------------------------------------------
\* Properties.

\* The types of the pool's fields and of each thread's local variables.
TypeOK ==
    /\ freeStack \in [ptr : Pointer, tag : Nat]
    /\ freeLength \in 0 .. LengthModulus - 1
    /\ link \in [Element -> Pointer]
    /\ primaryBlock \in Block
    /\ allocatingFlag \in BOOLEAN
    /\ totalBlocks \in Block
    /\ nextBlock \in [Block -> Block \cup {NULL}]
    /\ prevBlock \in [Block -> Block \cup {NULL}]
    /\ elements \in [Block -> 0 .. SlotBound]
    /\ taken \in [Block -> Nat]
    /\ open \in BOOLEAN
    /\ live \subseteq Block
    /\ pc \in [Threads -> {"idle"} \cup TakePc \cup ReturnPc]
    /\ freeTop \in [Threads -> [ptr : Pointer, tag : Nat]]
    /\ next \in [Threads -> Pointer]
    /\ block \in [Threads -> Block \cup {NULL}]
    /\ blockTaken \in [Threads -> Nat]
    /\ node \in [Threads -> Pointer]
    /\ owned \in [Threads -> SUBSET Element]
    /\ rank \in [Element -> Nat]

\* The words chained from freeStack.ptr form a list that ends: each element of
\* it points to the one below, the bottom one to nothing, none is met twice.
FreeListIntact ==
    /\ freeStack.ptr = NULL => \A e \in Element : rank[e] = 0
    /\ freeStack.ptr # NULL => /\ rank[freeStack.ptr] > 0
                               /\ \A e \in Element : rank[e] <= Height
    /\ \A e \in Element : rank[e] = 1 => link[e] = NULL
    /\ \A e \in Element : rank[e] > 1 => /\ link[e] # NULL
                                         /\ rank[link[e]] = rank[e] - 1
    /\ \A e, f \in Element : rank[e] = rank[f] /\ rank[e] > 0 => e = f

\* No element is ever held by two threads, nor held while it can be taken off
\* the free stack: Take never hands out memory somebody still uses.
ExclusiveOwnership ==
    /\ \A t, u \in Threads : t # u => Held(t) \cap Held(u) = {}
    /\ \A t \in Threads : \A e \in Held(t) : rank[e] = 0
    /\ \A t \in Threads : pc[t] = "take_sub" => freeTop[t].ptr \notin owned[t]
    /\ \A t \in Threads : pc[t] \in {"ret_load", "ret_link", "ret_cas"}
                            => node[t] \notin owned[t]

\* Exactly the elements cut from a block are held or recycled: Take and Return
\* lose none of them, and none exists beyond the block's counter.
ElementsAccounted ==
    open => \A e \in Element :
        e[2] < taken[e[1]] <=> \/ rank[e] > 0
                               \/ \E t \in Threads : e \in Held(t)

\* The ABA hazard: when the pop's compare-exchange is about to succeed, the
\* next pointer it installs is the top's current one, however often the top
\* was taken and returned since it was read.
PopInstallsNext ==
    \A t \in Threads :
        pc[t] = "take_cas" /\ freeTop[t] = freeStack
            => next[t] = link[freeStack.ptr]

\* What the program counter says about a thread's local variables.
LocalsInv ==
    \A t \in Threads :
        /\ pc[t] \in {"take_next", "take_cas", "take_sub"} => freeTop[t].ptr # NULL
        /\ pc[t] \in {"ret_load", "ret_link", "ret_cas"} => node[t] # NULL
        /\ pc[t] \in {"take_taken", "take_bump", "alloc_publish", "alloc_link"}
               => block[t] # NULL
        /\ pc[t] = "take_bump" => blockTaken[t] \in Slot
        /\ pc[t] = "ret_cas" => link[node[t]] = freeTop[t].ptr

\* A tag names one state of the free stack: a snapshot is no newer than the
\* stack, and one that carries the current tag is the current top.
TagsInv ==
    \A t \in Threads :
        pc[t] \in {"take_next", "take_cas", "ret_link", "ret_cas"} =>
            /\ freeTop[t].tag <= freeStack.tag
            /\ freeTop[t].tag = freeStack.tag => freeTop[t] = freeStack

\* No block pointer leads beyond the blocks allocated so far, and nothing has
\* been cut from the blocks to come.
BlocksInv ==
    /\ primaryBlock <= totalBlocks
    /\ \A b \in Block : nextBlock[b] # NULL => nextBlock[b] <= totalBlocks
    /\ \A b \in Block : prevBlock[b] # NULL => prevBlock[b] <= totalBlocks
    /\ \A t \in Threads : block[t] # NULL => block[t] <= totalBlocks
    /\ \A b \in Block : b > totalBlocks => taken[b] = 0

\* What is held or recycled has been cut from its block.
CutInv ==
    \A e \in Element :
        (rank[e] > 0 \/ \E t \in Threads : e \in Held(t)) => e[2] < taken[e[1]]

\* The inductive invariant behind exclusive ownership: everything a step of
\* any thread needs to know so that no compare-exchange hands out an element
\* twice.
PoolInv ==
    /\ TypeOK /\ LocalsInv /\ TagsInv /\ BlocksInv /\ CutInv
    /\ FreeListIntact /\ ExclusiveOwnership /\ PopInstallsNext

\* Once no operation is under way freeLength is the length of the free stack,
\* although Take may lower it before the Return it took from has raised it.
FreeLengthSettles ==
    Idle /\ open =>
        freeLength = Cardinality({e \in Element : rank[e] > 0}) % LengthModulus

\* The free stack and freeLength agree with what the callers hold: nothing
\* cut from a block is lost, and the counter catches up between operations.
ElementsCounted == ElementsAccounted /\ FreeLengthSettles

\* A block ahead of the primary one (reached again after a Clear) has no
\* element out: stepping to it can only cut elements nobody has.
AheadBlocksUnused ==
    \A b \in ChainFrom(nextBlock, primaryBlock) \ {primaryBlock} : taken[b] = 0

\* No block the pool has allocated drops out of its block list, which reads the
\* same in both directions: Clear goes back by prev, Allocate forward by next.
BlocksReachable ==
    open /\ ~allocatingFlag =>
        /\ live \subseteq ChainFrom(prevBlock, primaryBlock)
                           \cup ChainFrom(nextBlock, primaryBlock)
        /\ \A b \in live : prevBlock[b] # NULL => nextBlock[prevBlock[b]] = b

\* Every block the pool can step to, forward or back, is still allocated:
\* Reset leaves no pointer to a block it has freed.
NoDanglingBlock ==
    open => (ChainFrom(prevBlock, primaryBlock)
                \cup ChainFrom(nextBlock, primaryBlock)) \subseteq live

\* At most one thread is between taking and dropping the allocation flag.
OneAllocator ==
    /\ Cardinality({t \in Threads : pc[t] \in AllocPc}) <= 1
    /\ allocatingFlag <=> \E t \in Threads : pc[t] \in AllocPc

\* One thread at a time extends the block list, and no block drops out of it.
BlocksSound == OneAllocator /\ BlocksReachable

\* After Clear, Reset and Free no pointer leads to freed memory, nothing is out
\* of a block the pool will step to, and no element survives in a stack.
MaintenanceSound == NoDanglingBlock /\ AheadBlocksUnused /\ ElementsAccounted

\* vl_async_pool.h of Reset: "This frees all allocated blocks of nodes up to the
\* first."  (Violated after a Clear, which leaves blocks ahead of the primary one.)
ResetFrees == [][Reset => Cardinality(live') = 1]_vars

\* The blocks from the primary one back to the first, and from it forward.
Behind == ChainFrom(prevBlock, primaryBlock)
Ahead  == ChainFrom(nextBlock, primaryBlock)

\* The block list: a block follows only the block it was chained behind, every
\* block but the first was chained behind an older one, and what can be reached
\* from a live block is live.
ListInv ==
    /\ live \subseteq 1 .. totalBlocks
    /\ prevBlock[1] = NULL
    /\ \A b \in 2 .. totalBlocks : prevBlock[b] # NULL
    /\ \A b \in Block : prevBlock[b] # NULL => prevBlock[b] < b
    /\ \A b \in Block : nextBlock[b] # NULL => prevBlock[nextBlock[b]] = b
    /\ open => /\ Behind \subseteq live
               /\ \A b \in live : nextBlock[b] # NULL => nextBlock[b] \in live

\* The holder of the allocation flag is alone, and finds the list as it left it.
AllocInv ==
    /\ \A t, u \in Threads : pc[t] \in AllocPc /\ pc[u] \in AllocPc => t = u
    /\ allocatingFlag <=> \E t \in Threads : pc[t] \in AllocPc
    /\ \A t \in Threads :
        /\ pc[t] # "idle" => open
        /\ pc[t] = "alloc_publish" => /\ block[t] \in live
                                      /\ prevBlock[block[t]] = primaryBlock
                                      /\ nextBlock[primaryBlock] = NULL
                                      /\ nextBlock[block[t]] = NULL
        /\ pc[t] = "alloc_link" => /\ block[t] = primaryBlock
                                   /\ prevBlock[block[t]] # NULL
                                   /\ nextBlock[block[t]] = NULL
                                   /\ nextBlock[prevBlock[block[t]]] = NULL

\* Elements are cut only from the primary block and the ones behind it.
CutBehindInv ==
    /\ \A b \in Block \ Behind : taken[b] = 0
    /\ \A t \in Threads : pc[t] \in {"take_taken", "take_bump"} => block[t] \in Behind

\* Every live block is on the list, or about to be published; its predecessor
\* points to it, or is about to.  Reset may leave live blocks off the list.
OnListInv ==
    open /\ "reset" \notin Maintenance =>
        \A b \in live :
            /\ \/ b \in Behind \cup Ahead
               \/ \E t \in Threads : pc[t] = "alloc_publish" /\ block[t] = b
            /\ \/ prevBlock[b] = NULL \/ nextBlock[prevBlock[b]] = b
               \/ \E t \in Threads : pc[t] \in {"alloc_publish", "alloc_link"} /\ block[t] = b

\* freeLength lags behind the stack by the pops and pushes under way.
Stacked  == {e \in Element : rank[e] > 0}
Popped   == {t \in Threads : pc[t] = "take_sub"}
Pushed   == {t \in Threads : pc[t] = "ret_add"}
LengthInv == freeLength = Count(Cardinality(Stacked) + Cardinality(Popped)
                                                     - Cardinality(Pushed))

\* The inductive invariant behind the block list and the counters.
PoolListInv ==
    PoolInv /\ ListInv /\ AllocInv /\ CutBehindInv /\ OnListInv /\ LengthInv
                /\ ElementsAccounted

\* The pool implements the abstract one: an element changes hands exactly at
\* the successful compare-exchanges.
Abstract == INSTANCE ElementPool
                WITH Elements <- Element, held <- [t \in Threads |-> Held(t)]
ImplementsElementPool == Abstract!Spec

\* The pool is lock-free, not wait-free (vl_async_pool.h:44): a single thread may
\* lose its compare-exchange again and again, but only to threads that finish.
\* While there is always some call under way, calls go on being completed: no
\* state is a dead end, and no cycle of retries (a lost compare-exchange, a full
\* block, an allocation flag held by another) leads nowhere.  Fairness is needed
\* because the holder of the allocation flag makes the others spin.
Busy       == \E t \in Threads : pc[t] # "idle"
Completion == \E t \in Threads : pc[t] # "idle" /\ pc'[t] = "idle"
SystemProgress == <>[]Busy => []<><<Completion>>_vars
===============================================================================
