---------------------------- MODULE AsyncPoolProofs ----------------------------
(***************************************************************************)
(* Proofs about AsyncPool, for any number of threads and blocks.           *)
(***************************************************************************)
EXTENDS AsyncPool, TLAPS

\* An unsigned counter stays within its word.
LEMMA CountRange == \A n \in Int : Count(n) \in 0 .. LengthModulus - 1
  BY PoolAssumption DEF Count

\* The values a tagged pointer takes are tagged pointers.
LEMMA TaggedPointers ==
  /\ NullTop \in [ptr : Pointer, tag : Nat]
  /\ \A x \in [ptr : Pointer, tag : Nat], p \in Pointer :
        /\ Retagged(x, p) \in [ptr : Pointer, tag : Nat]
        /\ Retagged(x, p).ptr = p
        /\ Retagged(x, p).tag = x.tag + 1
        /\ x.ptr \in Pointer /\ x.tag \in Nat
  BY DEF NullTop, Retagged, Pointer

\* Type correctness of the pool: every step of Take, Allocate, Return and of
\* the maintenance calls keeps the fields of the pool and the locals of each
\* thread within their types.
LEMMA TypeInit == Init => TypeOK
<1> SUFFICES ASSUME Init PROVE TypeOK
  OBVIOUS
<1>1. 1 \in Block /\ BlockElements(0) \in 0 .. SlotBound
  BY PoolAssumption DEF Block
<1>2. elements \in [Block -> 0 .. SlotBound]
  BY <1>1, PoolAssumption DEF Init
<1>3. freeLength \in 0 .. LengthModulus - 1
  BY PoolAssumption DEF Init
<1>4. QED BY <1>1, <1>2, <1>3, TaggedPointers DEF Init, TypeOK, Pointer

\* Every step keeps the types.
LEMMA TypeStep == TypeOK /\ LocalsInv /\ [Next]_vars => TypeOK'
<1> SUFFICES ASSUME TypeOK, LocalsInv, [Next]_vars PROVE TypeOK'
  OBVIOUS
<1> USE PoolAssumption, CountRange, TaggedPointers
<1>1. ASSUME NEW t \in Threads, BeginTake(t) \/ Step(t) PROVE TypeOK'
  <2> USE DEF TypeOK, Goto, shared, blocks, locals, TakePc, AllocPc, ReturnPc
  <2>1. CASE BeginTake(t) BY <2>1 DEF BeginTake
  <2>2. CASE TakeLoad(t) BY <2>2 DEF TakeLoad
  <2>3. CASE TakeNext(t) BY <2>3 DEF TakeNext, LocalsInv, Pointer
  <2>4. CASE TakeCas(t)
    <3>1. freeStack' \in [ptr : Pointer, tag : Nat] BY <2>4 DEF TakeCas
    <3>2. QED BY <2>4, <3>1 DEF TakeCas, Pointer
  <2>5. CASE TakeCasFails(t) BY <2>5 DEF TakeCasFails, NullTop, Pointer
  <2>6. CASE TakeSub(t) BY <2>6 DEF TakeSub, LocalsInv, NullTop, Pointer
  <2>7. CASE TakeBlock(t) BY <2>7 DEF TakeBlock
  <2>8. CASE TakeTaken(t) BY <2>8 DEF TakeTaken, LocalsInv
  <2>9. CASE TakeBump(t) BY <2>9 DEF TakeBump, LocalsInv, Element, Slot
  <2>10. CASE TakeBumpFails(t) BY <2>10 DEF TakeBumpFails
  <2>11. CASE AllocFlag(t) BY <2>11 DEF AllocFlag
  <2>12. CASE AllocFlagFails(t) BY <2>12 DEF AllocFlagFails
  <2>13. CASE AllocAdvance(t) BY <2>13 DEF AllocAdvance
  <2>14. CASE AllocNew(t)
    <3>1. totalBlocks + 1 \in Block BY <2>14 DEF AllocNew, Block
    <3>2. BlockElements(totalBlocks) \in 0 .. SlotBound
      <4>1. totalBlocks \in 0 .. MaxBlocks - 1 BY <2>14 DEF AllocNew, Block
      <4>2. BlockElements(totalBlocks) \in 1 .. SlotBound BY <4>1
      <4>3. QED BY <4>2
    <3> DEFINE n == BlockElements(totalBlocks)
    <3>3. elements' \in [Block -> 0 .. SlotBound]
      <4>1. elements' = [elements EXCEPT ![totalBlocks + 1] = n]
        BY <2>14 DEF AllocNew
      <4>2. n \in 0 .. SlotBound BY <3>2
      <4> HIDE DEF n
      <4>3. QED BY <3>1, <4>1, <4>2
    <3>4. QED BY <2>14, <3>1, <3>3 DEF AllocNew
  <2>15. CASE AllocPublish(t) BY <2>15 DEF AllocPublish, LocalsInv
  <2>16. CASE AllocLink(t) BY <2>16 DEF AllocLink, LocalsInv
  <2>17. CASE AllocRelease(t) BY <2>17 DEF AllocRelease
  <2>18. CASE ReturnLoad(t) BY <2>18 DEF ReturnLoad
  <2>19. CASE ReturnLink(t) BY <2>19 DEF ReturnLink
  <2>20. CASE ReturnCas(t)
    <3>1. Height + 1 \in Nat BY DEF Height, Pointer
    <3>2. freeStack' \in [ptr : Pointer, tag : Nat] BY <2>20 DEF ReturnCas
    <3>3. QED BY <2>20, <3>1, <3>2 DEF ReturnCas, Pointer
  <2>21. CASE ReturnCasFails(t) BY <2>21 DEF ReturnCasFails, NullTop, Pointer
  <2>22. CASE ReturnAdd(t) BY <2>22 DEF ReturnAdd
  <2>23. QED BY <1>1, <2>1, <2>2, <2>3, <2>4, <2>5, <2>6, <2>7, <2>8, <2>9,
                <2>10, <2>11, <2>12, <2>13, <2>14, <2>15, <2>16, <2>17, <2>18,
                <2>19, <2>20, <2>21, <2>22 DEF Step
<1>2. ASSUME NEW t \in Threads, NEW e \in Element, BeginReturn(t, e) PROVE TypeOK'
  BY <1>2 DEF TypeOK, Goto, shared, blocks, TakePc, ReturnPc, BeginReturn, Pointer
<1>3. CASE Clear
  BY <1>3 DEF Clear, TypeOK, ChainFrom, Rewound, EmptyStack, NullTop, Pointer, locals
<1>4. CASE Reset
  BY <1>4 DEF Reset, TypeOK, ChainFrom, Rewound, EmptyStack, NullTop, Pointer, locals
<1>5. CASE Free
  BY <1>5 DEF Free, TypeOK, shared, locals
<1>6. CASE UNCHANGED vars
  BY <1>6 DEF TypeOK, vars
<1>7. QED BY <1>1, <1>2, <1>3, <1>4, <1>5, <1>6 DEF Next

-------------------------------------------------------------------------------
\* The invariants of the local variables, the tags and the block pointers are
\* kept because each is about one thread, or about a field that only a
\* compare-exchange or the holder of the allocation flag changes.
LEMMA LocalsStep == TypeOK /\ LocalsInv /\ BlocksInv /\ ExclusiveOwnership /\ [Next]_vars => LocalsInv'
<1> SUFFICES ASSUME TypeOK, LocalsInv, BlocksInv, ExclusiveOwnership, [Next]_vars PROVE LocalsInv'
  OBVIOUS
<1> USE PoolAssumption
<1>1. ASSUME NEW t \in Threads, BeginTake(t) \/ Step(t) PROVE LocalsInv'
  <2> USE DEF LocalsInv, TypeOK, Goto, shared, blocks, locals
  <2>1. CASE BeginTake(t) BY <2>1 DEF BeginTake, TakePc
  <2>2. CASE TakeLoad(t) BY <2>2 DEF TakeLoad
  <2>3. CASE TakeNext(t) BY <2>3 DEF TakeNext
  <2>4. CASE TakeCas(t) BY <2>4 DEF TakeCas
  <2>5. CASE TakeCasFails(t) BY <2>5 DEF TakeCasFails
  <2>6. CASE TakeSub(t) BY <2>6 DEF TakeSub
  <2>7. CASE TakeBlock(t) BY <2>7 DEF TakeBlock, Block
  <2>8. CASE TakeTaken(t) BY <2>8 DEF TakeTaken, Slot, Block
  <2>9. CASE TakeBump(t) BY <2>9 DEF TakeBump
  <2>10. CASE TakeBumpFails(t) BY <2>10 DEF TakeBumpFails
  <2>11. CASE AllocFlag(t) BY <2>11 DEF AllocFlag
  <2>12. CASE AllocFlagFails(t) BY <2>12 DEF AllocFlagFails
  <2>13. CASE AllocAdvance(t) BY <2>13 DEF AllocAdvance
  <2>14. CASE AllocNew(t)
    <3>1. totalBlocks + 1 \in Block BY <2>14 DEF AllocNew, Block
    <3>2. block' = [block EXCEPT ![t] = totalBlocks + 1] BY <2>14 DEF AllocNew
    <3>3. totalBlocks + 1 # NULL BY <3>1
    <3>4. QED BY <2>14, <3>2, <3>3 DEF AllocNew
  <2>15. CASE AllocPublish(t) BY <2>15 DEF AllocPublish
  <2>16. CASE AllocLink(t) BY <2>16 DEF AllocLink
  <2>17. CASE AllocRelease(t) BY <2>17 DEF AllocRelease
  <2>18. CASE ReturnLoad(t) BY <2>18 DEF ReturnLoad
  <2>19. CASE ReturnLink(t)
    <3>1. \A u \in Threads : u # t /\ pc[u] = "ret_cas" => node[u] # node[t]
      BY <2>19 DEF ReturnLink, ExclusiveOwnership, Held
    <3>2. QED BY <2>19, <3>1 DEF ReturnLink, Pointer
  <2>20. CASE ReturnCas(t) BY <2>20 DEF ReturnCas
  <2>21. CASE ReturnCasFails(t) BY <2>21 DEF ReturnCasFails
  <2>22. CASE ReturnAdd(t) BY <2>22 DEF ReturnAdd
  <2>23. QED BY <1>1, <2>1, <2>2, <2>3, <2>4, <2>5, <2>6, <2>7, <2>8, <2>9,
          <2>10, <2>11, <2>12, <2>13, <2>14, <2>15, <2>16, <2>17, <2>18,
          <2>19, <2>20, <2>21, <2>22 DEF Step
<1>2. ASSUME NEW t \in Threads, NEW e \in Element, BeginReturn(t, e) PROVE LocalsInv'
  BY <1>2 DEF LocalsInv, TypeOK, Goto, shared, blocks, BeginReturn
<1>3. CASE Clear \/ Reset \/ Free
  BY <1>3 DEF Clear, Reset, Free, LocalsInv, TypeOK, locals, Idle, EmptyStack
<1>4. CASE UNCHANGED vars
  BY <1>4 DEF LocalsInv, vars
<1>5. QED BY <1>1, <1>2, <1>3, <1>4 DEF Next

\* A snapshot of the free stack never runs ahead of it.
LEMMA TagsStep == TypeOK /\ TagsInv /\ [Next]_vars => TagsInv'
<1> SUFFICES ASSUME TypeOK, TagsInv, [Next]_vars PROVE TagsInv'
  OBVIOUS
<1> USE TaggedPointers
<1>1. ASSUME NEW t \in Threads, BeginTake(t) \/ Step(t) PROVE TagsInv'
  <2> USE DEF TagsInv, TypeOK, Goto, shared, blocks, locals
  <2>1. CASE BeginTake(t) BY <2>1 DEF BeginTake
  <2>2. CASE TakeLoad(t) BY <2>2 DEF TakeLoad
  <2>3. CASE TakeNext(t) BY <2>3 DEF TakeNext
  <2>4. CASE TakeCas(t) BY <2>4 DEF TakeCas
  <2>5. CASE TakeCasFails(t) BY <2>5 DEF TakeCasFails
  <2>6. CASE TakeSub(t) BY <2>6 DEF TakeSub
  <2>7. CASE TakeBlock(t) BY <2>7 DEF TakeBlock
  <2>8. CASE TakeTaken(t) BY <2>8 DEF TakeTaken
  <2>9. CASE TakeBump(t) BY <2>9 DEF TakeBump
  <2>10. CASE TakeBumpFails(t) BY <2>10 DEF TakeBumpFails
  <2>11. CASE AllocFlag(t) BY <2>11 DEF AllocFlag
  <2>12. CASE AllocFlagFails(t) BY <2>12 DEF AllocFlagFails
  <2>13. CASE AllocAdvance(t) BY <2>13 DEF AllocAdvance
  <2>14. CASE AllocNew(t) BY <2>14 DEF AllocNew
  <2>15. CASE AllocPublish(t) BY <2>15 DEF AllocPublish
  <2>16. CASE AllocLink(t) BY <2>16 DEF AllocLink
  <2>17. CASE AllocRelease(t) BY <2>17 DEF AllocRelease
  <2>18. CASE ReturnLoad(t) BY <2>18 DEF ReturnLoad
  <2>19. CASE ReturnLink(t) BY <2>19 DEF ReturnLink
  <2>20. CASE ReturnCas(t) BY <2>20 DEF ReturnCas
  <2>21. CASE ReturnCasFails(t) BY <2>21 DEF ReturnCasFails
  <2>22. CASE ReturnAdd(t) BY <2>22 DEF ReturnAdd
  <2>23. QED BY <1>1, <2>1, <2>2, <2>3, <2>4, <2>5, <2>6, <2>7, <2>8, <2>9,
          <2>10, <2>11, <2>12, <2>13, <2>14, <2>15, <2>16, <2>17, <2>18,
          <2>19, <2>20, <2>21, <2>22 DEF Step
<1>2. ASSUME NEW t \in Threads, NEW e \in Element, BeginReturn(t, e) PROVE TagsInv'
  BY <1>2 DEF TagsInv, TypeOK, Goto, shared, blocks, BeginReturn
<1>3. CASE Clear \/ Reset \/ Free
  BY <1>3 DEF Clear, Reset, Free, TagsInv, TypeOK, locals, Idle
<1>4. CASE UNCHANGED vars
  BY <1>4 DEF TagsInv, vars
<1>5. QED BY <1>1, <1>2, <1>3, <1>4 DEF Next

\* Block pointers stay within the blocks allocated.
LEMMA BlocksStep == TypeOK /\ LocalsInv /\ BlocksInv /\ [Next]_vars => BlocksInv'
<1> SUFFICES ASSUME TypeOK, LocalsInv, BlocksInv, [Next]_vars PROVE BlocksInv'
  OBVIOUS
<1> USE PoolAssumption
<1>1. ASSUME NEW t \in Threads, BeginTake(t) \/ Step(t) PROVE BlocksInv'
  <2> USE DEF BlocksInv, TypeOK, Goto, shared, blocks, locals, Block
  <2>1. CASE BeginTake(t) BY <2>1 DEF BeginTake
  <2>2. CASE TakeLoad(t) BY <2>2 DEF TakeLoad
  <2>3. CASE TakeNext(t) BY <2>3 DEF TakeNext
  <2>4. CASE TakeCas(t) BY <2>4 DEF TakeCas
  <2>5. CASE TakeCasFails(t) BY <2>5 DEF TakeCasFails
  <2>6. CASE TakeSub(t) BY <2>6 DEF TakeSub
  <2>7. CASE TakeBlock(t) BY <2>7 DEF TakeBlock
  <2>8. CASE TakeTaken(t) BY <2>8 DEF TakeTaken, LocalsInv
  <2>9. CASE TakeBump(t) BY <2>9 DEF TakeBump, LocalsInv
  <2>10. CASE TakeBumpFails(t) BY <2>10 DEF TakeBumpFails
  <2>11. CASE AllocFlag(t) BY <2>11 DEF AllocFlag
  <2>12. CASE AllocFlagFails(t) BY <2>12 DEF AllocFlagFails
  <2>13. CASE AllocAdvance(t) BY <2>13 DEF AllocAdvance
  <2>14. CASE AllocNew(t)
    <3>1. totalBlocks + 1 \in Block BY <2>14 DEF AllocNew
    <3>2. /\ totalBlocks' = totalBlocks + 1
          /\ block' = [block EXCEPT ![t] = totalBlocks + 1]
          /\ nextBlock' = [nextBlock EXCEPT ![totalBlocks + 1] = NULL]
          /\ prevBlock' = [prevBlock EXCEPT ![totalBlocks + 1] = primaryBlock]
          /\ taken' = [taken EXCEPT ![totalBlocks + 1] = 0]
          /\ primaryBlock' = primaryBlock
      BY <2>14 DEF AllocNew
    <3>3. \A u \in Threads : block'[u] # NULL => block'[u] <= totalBlocks'
      <4> TAKE u \in Threads
      <4>1. CASE u = t
        <5>1. block'[u] = totalBlocks + 1 BY <3>1, <3>2, <4>1 DEF TypeOK
        <5>2. QED BY <5>1, <3>2
      <4>2. CASE u # t
        <5>1. block'[u] = block[u] BY <3>2, <4>2 DEF TypeOK
        <5>2. block[u] # NULL => block[u] \in Int /\ block[u] <= totalBlocks
          BY DEF TypeOK, BlocksInv, Block
        <5>3. totalBlocks \in Int BY DEF TypeOK, Block
        <5>4. QED BY <5>1, <5>2, <5>3, <3>2
      <4>3. QED BY <4>1, <4>2
    <3>4. \A b \in Block : nextBlock'[b] # NULL => nextBlock'[b] <= totalBlocks'
      <4> TAKE b \in Block
      <4>1. CASE b = totalBlocks + 1
        <5>1. nextBlock'[b] = NULL BY <3>1, <3>2, <4>1 DEF TypeOK
        <5>2. QED BY <5>1, <3>2
      <4>2. CASE b # totalBlocks + 1
        <5>1. nextBlock'[b] = nextBlock[b] BY <3>2, <4>2 DEF TypeOK
        <5>2. nextBlock[b] # NULL => nextBlock[b] \in Int /\ nextBlock[b] <= totalBlocks
          BY DEF TypeOK, BlocksInv, Block
        <5>3. totalBlocks \in Int BY DEF TypeOK, Block
        <5>4. QED BY <5>1, <5>2, <5>3, <3>2
      <4>3. QED BY <4>1, <4>2
    <3>5. \A b \in Block : prevBlock'[b] # NULL => prevBlock'[b] <= totalBlocks'
      <4> TAKE b \in Block
      <4>1. CASE b = totalBlocks + 1
        <5>1. prevBlock'[b] = primaryBlock BY <3>1, <3>2, <4>1 DEF TypeOK
        <5>2. QED BY <5>1, <3>2
      <4>2. CASE b # totalBlocks + 1
        <5>1. prevBlock'[b] = prevBlock[b] BY <3>2, <4>2 DEF TypeOK
        <5>2. prevBlock[b] # NULL => prevBlock[b] \in Int /\ prevBlock[b] <= totalBlocks
          BY DEF TypeOK, BlocksInv, Block
        <5>3. totalBlocks \in Int BY DEF TypeOK, Block
        <5>4. QED BY <5>1, <5>2, <5>3, <3>2
      <4>3. QED BY <4>1, <4>2
    <3>6. \A b \in Block : b > totalBlocks' => taken'[b] = 0
      BY <3>1, <3>2
    <3>7. QED BY <3>2, <3>3, <3>4, <3>5, <3>6
  <2>15. CASE AllocPublish(t) BY <2>15 DEF AllocPublish, LocalsInv
  <2>16. CASE AllocLink(t) BY <2>16 DEF AllocLink, LocalsInv
  <2>17. CASE AllocRelease(t) BY <2>17 DEF AllocRelease
  <2>18. CASE ReturnLoad(t) BY <2>18 DEF ReturnLoad
  <2>19. CASE ReturnLink(t) BY <2>19 DEF ReturnLink
  <2>20. CASE ReturnCas(t) BY <2>20 DEF ReturnCas
  <2>21. CASE ReturnCasFails(t) BY <2>21 DEF ReturnCasFails
  <2>22. CASE ReturnAdd(t) BY <2>22 DEF ReturnAdd
  <2>23. QED BY <1>1, <2>1, <2>2, <2>3, <2>4, <2>5, <2>6, <2>7, <2>8, <2>9,
          <2>10, <2>11, <2>12, <2>13, <2>14, <2>15, <2>16, <2>17, <2>18,
          <2>19, <2>20, <2>21, <2>22 DEF Step
<1>2. ASSUME NEW t \in Threads, NEW e \in Element, BeginReturn(t, e) PROVE BlocksInv'
  BY <1>2 DEF BlocksInv, shared, blocks, BeginReturn
<1>3. CASE Clear \/ Reset
  <2>1. \A b \in ChainFrom(prevBlock, primaryBlock) : b \in 1 .. totalBlocks
    <3>1. 1 .. totalBlocks \in SUBSET Block BY DEF TypeOK, Block
    <3>2. primaryBlock \in 1 .. totalBlocks BY DEF TypeOK, Block, BlocksInv
    <3>3. \A c \in 1 .. totalBlocks : prevBlock[c] \in (1 .. totalBlocks) \cup {NULL}
      BY DEF TypeOK, Block, BlocksInv
    <3>4. QED BY <3>1, <3>2, <3>3 DEF ChainFrom
  <2>2. primaryBlock' \in 1 .. totalBlocks
    BY <1>3, <2>1 DEF Clear, Reset
  <2>3. \A b \in Block : taken'[b] = 0 \/ taken'[b] = taken[b]
    BY <1>3 DEF Clear, Reset, Rewound
  <2>4. \A b \in Block : nextBlock'[b] = NULL \/ nextBlock'[b] = nextBlock[b]
    BY <1>3 DEF Clear, Reset, TypeOK
  <2>5. UNCHANGED <<totalBlocks, prevBlock, block>>
    BY <1>3 DEF Clear, Reset, locals
  <2>6. QED BY <2>2, <2>3, <2>4, <2>5 DEF BlocksInv, TypeOK, Block
<1>4. CASE Free
  BY <1>4 DEF Free, BlocksInv, locals
<1>5. CASE UNCHANGED vars
  BY <1>5 DEF BlocksInv, vars
<1>6. QED BY <1>1, <1>2, <1>3, <1>4, <1>5 DEF Next

-------------------------------------------------------------------------------
\* Most steps neither touch the stack nor move an element between threads.
Quiet ==
    /\ UNCHANGED <<freeStack, link, rank, taken>>
    /\ \A u \in Threads : Held(u)' = Held(u)

\* The steps that do.
Moves(t) == TakeCas(t) \/ TakeBump(t) \/ ReturnLink(t) \/ ReturnCas(t)

\* Every step is quiet, moves one element, or is a maintenance call.
LEMMA StepKinds ==
  TypeOK /\ BlocksInv /\ [Next]_vars =>
      Quiet \/ (\E t \in Threads : Moves(t)) \/ Clear \/ Reset \/ Free
<1> SUFFICES ASSUME TypeOK, BlocksInv, [Next]_vars,
                    ~ \E t \in Threads : Moves(t), ~Clear, ~Reset, ~Free
             PROVE  Quiet
  OBVIOUS
<1> USE DEF Quiet
<1>1. ASSUME NEW t \in Threads, BeginTake(t) \/ Step(t) PROVE Quiet
  <2> USE DEF Held, TypeOK, Goto, shared, blocks, locals
  <2>1. CASE BeginTake(t) BY <2>1 DEF BeginTake
  <2>2. CASE TakeLoad(t) BY <2>2 DEF TakeLoad
  <2>3. CASE TakeNext(t) BY <2>3 DEF TakeNext
  <2>4. CASE TakeCasFails(t) BY <2>4 DEF TakeCasFails
  <2>5. CASE TakeSub(t) BY <2>5 DEF TakeSub
  <2>6. CASE TakeBlock(t) BY <2>6 DEF TakeBlock
  <2>7. CASE TakeTaken(t) BY <2>7 DEF TakeTaken
  <2>8. CASE TakeBumpFails(t) BY <2>8 DEF TakeBumpFails
  <2>9. CASE AllocFlag(t) BY <2>9 DEF AllocFlag
  <2>10. CASE AllocFlagFails(t) BY <2>10 DEF AllocFlagFails
  <2>11. CASE AllocAdvance(t) BY <2>11 DEF AllocAdvance
  <2>12. CASE AllocNew(t)
    <3>1. taken[totalBlocks + 1] = 0 BY <2>12, PoolAssumption DEF AllocNew, BlocksInv, Block
    <3>2. taken' = taken BY <2>12, <3>1 DEF AllocNew
    <3>3. QED BY <2>12, <3>2 DEF AllocNew
  <2>13. CASE AllocPublish(t) BY <2>13 DEF AllocPublish
  <2>14. CASE AllocLink(t) BY <2>14 DEF AllocLink
  <2>15. CASE AllocRelease(t) BY <2>15 DEF AllocRelease
  <2>16. CASE ReturnLoad(t) BY <2>16 DEF ReturnLoad
  <2>17. CASE ReturnCasFails(t) BY <2>17 DEF ReturnCasFails
  <2>18. CASE ReturnAdd(t) BY <2>18 DEF ReturnAdd
  <2>19. QED BY <1>1, <2>1, <2>2, <2>3, <2>4, <2>5, <2>6, <2>7, <2>8, <2>9,
                <2>10, <2>11, <2>12, <2>13, <2>14, <2>15, <2>16, <2>17, <2>18
             DEF Step, Moves
<1>2. ASSUME NEW t \in Threads, NEW e \in Element, BeginReturn(t, e) PROVE Quiet
  BY <1>2 DEF BeginReturn, Held, TypeOK, Goto, shared, blocks
<1>3. CASE UNCHANGED vars
  BY <1>3 DEF vars, Held
<1>4. QED BY <1>1, <1>2, <1>3 DEF Next

\* How the three compare-exchanges move an element.
LEMMA TakeCasMoves ==
  ASSUME NEW t \in Threads, TypeOK, LocalsInv, FreeListIntact, ExclusiveOwnership,
         PopInstallsNext, TakeCas(t)
  PROVE  /\ freeStack.ptr \in Element /\ rank[freeStack.ptr] > 0
         /\ freeStack'.ptr = link[freeStack.ptr]
         /\ rank' = [rank EXCEPT ![freeStack.ptr] = 0]
         /\ UNCHANGED <<link, taken>>
         /\ \A u \in Threads : freeStack.ptr \notin Held(u)
         /\ Held(t)' = Held(t) \cup {freeStack.ptr}
         /\ \A u \in Threads : u # t => Held(u)' = Held(u)
<1>1. freeTop[t] = freeStack /\ freeStack.ptr \in Element
  BY DEF TakeCas, LocalsInv, TypeOK, Pointer, Goto
<1>2. rank[freeStack.ptr] > 0
  BY <1>1, PoolAssumption DEF FreeListIntact
<1>3. freeStack'.ptr = link[freeStack.ptr]
  BY <1>1, TaggedPointers DEF TakeCas, PopInstallsNext, Goto, TypeOK
<1>4. \A u \in Threads : freeStack.ptr \notin Held(u)
  BY <1>1, <1>2 DEF ExclusiveOwnership, TypeOK
<1>5. /\ rank' = [rank EXCEPT ![freeStack.ptr] = 0]
      /\ UNCHANGED <<link, taken>>
  BY <1>1 DEF TakeCas, blocks
<1>6. Held(t)' = Held(t) \cup {freeStack.ptr}
  BY <1>1 DEF TakeCas, Held, Goto, TypeOK, blocks
<1>7. \A u \in Threads : u # t => Held(u)' = Held(u)
  BY DEF TakeCas, Held, Goto, TypeOK, blocks
<1>8. QED BY <1>1, <1>2, <1>3, <1>4, <1>5, <1>6, <1>7

\* A fresh element: cut from the primary block, it was nobody's.
LEMMA TakeBumpMoves ==
  ASSUME NEW t \in Threads, TypeOK, LocalsInv, CutInv, TakeBump(t)
  PROVE  LET e == <<block[t], blockTaken[t]>>
         IN  /\ e \in Element
             /\ rank[e] = 0
             /\ \A u \in Threads : e \notin Held(u)
             /\ Held(t)' = Held(t) \cup {e}
             /\ \A u \in Threads : u # t => Held(u)' = Held(u)
             /\ taken' = [taken EXCEPT ![block[t]] = @ + 1]
             /\ taken[block[t]] = blockTaken[t]
             /\ UNCHANGED <<freeStack, link, rank>>
<1> DEFINE e == <<block[t], blockTaken[t]>>
<1>1. e \in Element
  BY DEF TakeBump, LocalsInv, TypeOK, Goto, Element
<1>2. /\ taken[block[t]] = blockTaken[t] /\ taken' = [taken EXCEPT ![block[t]] = @ + 1]
      /\ UNCHANGED <<freeStack, link, rank>>
  BY DEF TakeBump, shared, TypeOK
<1>3. ~(e[2] < taken[e[1]])
  BY <1>2 DEF TypeOK
<1>4. rank[e] = 0 /\ \A u \in Threads : e \notin Held(u)
  <2>1. ~(rank[e] > 0 \/ \E u \in Threads : e \in Held(u))
    BY <1>1, <1>3 DEF CutInv
  <2>2. rank[e] \in Nat BY <1>1 DEF TypeOK
  <2>3. QED BY <2>1, <2>2
<1>5. Held(t)' = Held(t) \cup {e}
  BY DEF TakeBump, Held, Goto, TypeOK
<1>6. \A u \in Threads : u # t => Held(u)' = Held(u)
  BY DEF TakeBump, Held, Goto, TypeOK
<1>7. QED BY <1>1, <1>2, <1>4, <1>5, <1>6

\* A push puts the returned element on top.
LEMMA ReturnCasMoves ==
  ASSUME NEW t \in Threads, TypeOK, LocalsInv, ExclusiveOwnership, ReturnCas(t)
  PROVE  /\ node[t] \in Element /\ node[t] \in Held(t) /\ rank[node[t]] = 0
         /\ link[node[t]] = freeStack.ptr
         /\ freeStack'.ptr = node[t]
         /\ rank' = [rank EXCEPT ![node[t]] = Height + 1]
         /\ UNCHANGED <<link, taken>>
         /\ Held(t)' = Held(t) \ {node[t]}
         /\ \A u \in Threads : u # t => Held(u)' = Held(u)
<1>1. node[t] \in Element /\ link[node[t]] = freeStack.ptr
  BY DEF ReturnCas, LocalsInv, TypeOK, Pointer, Goto
<1>2. node[t] \in Held(t)
  BY DEF ReturnCas, Held, Goto
<1>3. rank[node[t]] = 0
  BY <1>2 DEF ExclusiveOwnership
<1>4. freeStack'.ptr = node[t]
  BY <1>1, TaggedPointers DEF ReturnCas, TypeOK
<1>5. /\ rank' = [rank EXCEPT ![node[t]] = Height + 1]
      /\ UNCHANGED <<link, taken>>
  BY DEF ReturnCas, blocks
<1>6. Held(t)' = Held(t) \ {node[t]}
  BY DEF ReturnCas, Held, Goto, TypeOK, blocks, ExclusiveOwnership
<1>7. \A u \in Threads : u # t => Held(u)' = Held(u)
  BY DEF ReturnCas, Held, Goto, TypeOK, blocks
<1>8. QED BY <1>1, <1>2, <1>3, <1>4, <1>5, <1>6, <1>7

\* Relinking touches only an element that is off the stack.
LEMMA ReturnLinkMoves ==
  ASSUME NEW t \in Threads, TypeOK, LocalsInv, ExclusiveOwnership, ReturnLink(t)
  PROVE  /\ node[t] \in Element /\ rank[node[t]] = 0
         /\ link' = [link EXCEPT ![node[t]] = freeTop[t].ptr]
         /\ UNCHANGED <<freeStack, rank, taken>>
         /\ \A u \in Threads : Held(u)' = Held(u)
<1>1. node[t] \in Element
  BY DEF ReturnLink, LocalsInv, TypeOK, Pointer, Goto
<1>2. node[t] \in Held(t)
  BY DEF ReturnLink, Held, Goto
<1>3. rank[node[t]] = 0
  BY <1>2 DEF ExclusiveOwnership
<1>4. /\ link' = [link EXCEPT ![node[t]] = freeTop[t].ptr]
      /\ UNCHANGED <<freeStack, rank, taken>>
  BY DEF ReturnLink, blocks
<1>5. \A u \in Threads : Held(u)' = Held(u)
  BY DEF ReturnLink, Held, Goto, TypeOK, locals
<1>6. QED BY <1>1, <1>3, <1>4, <1>5

\* The maintenance calls leave nothing held and nothing on the stack.
LEMMA MaintenanceEmpties ==
  ASSUME TypeOK, Clear \/ Reset \/ Free
  PROVE  /\ \A u \in Threads : Held(u)' = {}
         /\ Clear \/ Reset => freeStack'.ptr = NULL /\ \A e \in Element : rank'[e] = 0
         /\ Free => UNCHANGED <<freeStack, link, rank, taken>>
         /\ UNCHANGED <<pc, freeTop, node, next, link>> /\ Idle
  BY DEF Clear, Reset, Free, EmptyStack, NullTop, Held, Idle, locals, shared

-------------------------------------------------------------------------------
\* The free stack stays a list: a pop uncovers the element below, a push links
\* a new top to the old one, and only an element off the stack is relinked.
LEMMA FreeListStep == PoolInv /\ [Next]_vars => FreeListIntact'
<1> SUFFICES ASSUME PoolInv, [Next]_vars PROVE FreeListIntact'
  OBVIOUS
<1> USE PoolAssumption DEF PoolInv
<1>1. CASE Quiet
  BY <1>1 DEF Quiet, FreeListIntact, Height
<1>2. ASSUME NEW t \in Threads, TakeCas(t) PROVE FreeListIntact'
  <2> DEFINE top == freeStack.ptr
  <2>1. /\ top \in Element /\ rank[top] > 0 /\ freeStack'.ptr = link[top]
        /\ rank' = [rank EXCEPT ![top] = 0] /\ link' = link
    BY <1>2, TakeCasMoves
  <2>2. \A e \in Element : e # top => rank[e] < rank[top]
    <3> TAKE e \in Element
    <3>1. Height = rank[top] BY <2>1 DEF Height
    <3>2. rank[e] <= rank[top] /\ (rank[e] = rank[top] => e = top)
      BY <2>1, <3>1 DEF FreeListIntact
    <3>3. rank[e] \in Nat /\ rank[top] \in Nat BY <2>1 DEF TypeOK
    <3> HIDE DEF top
    <3>4. QED BY <3>2, <3>3
  <2>3. \A e \in Element : rank'[e] = IF e = top THEN 0 ELSE rank[e]
    BY <2>1 DEF TypeOK
  <2>4. link[top] \in Pointer BY <2>1 DEF TypeOK
  <2>5. CASE rank[top] = 1
    <3>1. link[top] = NULL /\ \A e \in Element : rank'[e] = 0
      BY <2>1, <2>2, <2>3, <2>5 DEF FreeListIntact, TypeOK
    <3>2. QED BY <2>1, <3>1 DEF FreeListIntact, Height
  <2>6. CASE rank[top] > 1
    <3>1. link[top] \in Element /\ rank[link[top]] = rank[top] - 1 /\ link[top] # top
      BY <2>1, <2>4, <2>6 DEF FreeListIntact, Pointer, TypeOK
    <3>2. Height' = rank[top] - 1
      BY <2>1, <2>3, <3>1 DEF Height
    <3>3. \A e \in Element : rank'[e] <= Height'
      BY <2>2, <2>3, <2>6, <3>2, <2>1 DEF TypeOK
    <3>4. rank'[freeStack'.ptr] > 0 /\ freeStack'.ptr # NULL
      <4>1. rank'[link[top]] = rank[top] - 1 BY <2>3, <3>1
      <4>2. rank[top] \in Nat BY <2>1 DEF TypeOK
      <4>3. QED BY <2>1, <2>6, <3>1, <4>1, <4>2
    <3>5. \A e \in Element : rank'[e] > 1 => link'[e] # NULL /\ rank'[link'[e]] = rank'[e] - 1
      <4> SUFFICES ASSUME NEW e \in Element, rank'[e] > 1
                   PROVE  link[e] # NULL /\ rank'[link[e]] = rank'[e] - 1
        BY <2>1
      <4>1. e # top /\ rank[e] > 1 /\ rank'[e] = rank[e] BY <2>3
      <4>2. link[e] # NULL /\ rank[link[e]] = rank[e] - 1 /\ link[e] \in Element
        BY <4>1 DEF FreeListIntact, TypeOK, Pointer
      <4>3. link[e] # top BY <2>1, <2>2, <4>1, <4>2 DEF TypeOK
      <4>4. QED BY <2>3, <4>1, <4>2, <4>3
    <3>6. /\ \A e \in Element : rank'[e] = 1 => link'[e] = NULL
          /\ \A e, f \in Element : rank'[e] = rank'[f] /\ rank'[e] > 0 => e = f
      BY <2>1, <2>3 DEF FreeListIntact
    <3>7. QED BY <3>3, <3>4, <3>5, <3>6 DEF FreeListIntact
  <2>7. QED BY <2>1, <2>5, <2>6 DEF TypeOK
<1>3. ASSUME NEW t \in Threads, TakeBump(t) PROVE FreeListIntact'
  BY <1>3, TakeBumpMoves DEF FreeListIntact, Height
<1>4. ASSUME NEW t \in Threads, ReturnLink(t) PROVE FreeListIntact'
  <2>1. /\ node[t] \in Element /\ rank[node[t]] = 0
        /\ link' = [link EXCEPT ![node[t]] = freeTop[t].ptr]
        /\ UNCHANGED <<freeStack, rank>>
    BY <1>4, ReturnLinkMoves
  <2>2. \A e \in Element : rank[e] > 0 => link'[e] = link[e]
    BY <2>1 DEF TypeOK
  <2>3. QED BY <2>1, <2>2 DEF FreeListIntact, Height, TypeOK
<1>5. ASSUME NEW t \in Threads, ReturnCas(t) PROVE FreeListIntact'
  <2> DEFINE n == node[t]
  <2>1. /\ n \in Element /\ rank[n] = 0 /\ link[n] = freeStack.ptr
        /\ freeStack'.ptr = n /\ rank' = [rank EXCEPT ![n] = Height + 1] /\ link' = link
    BY <1>5, ReturnCasMoves
  <2>2. Height \in Nat /\ \A e \in Element : rank[e] <= Height
    BY DEF Height, FreeListIntact, TypeOK, Pointer
  <2>3. \A e \in Element : rank'[e] = IF e = n THEN Height + 1 ELSE rank[e]
    BY <2>1 DEF TypeOK
  <2>4. Height' = Height + 1
    BY <2>1, <2>3 DEF Height
  <2>5. /\ freeStack'.ptr # NULL /\ rank'[freeStack'.ptr] > 0
        /\ \A e \in Element : rank'[e] <= Height'
    BY <2>1, <2>2, <2>3, <2>4 DEF TypeOK
  <2>6. \A e \in Element : rank'[e] = 1 => link'[e] = NULL
    <3> SUFFICES ASSUME NEW e \in Element, rank'[e] = 1 PROVE link[e] = NULL
      BY <2>1
    <3>1. CASE e = n
      BY <2>1, <2>2, <2>3, <3>1 DEF Height, FreeListIntact
    <3>2. CASE e # n BY <2>3, <3>2 DEF FreeListIntact
    <3>3. QED BY <3>1, <3>2
  <2>7. \A e \in Element : rank'[e] > 1 => link'[e] # NULL /\ rank'[link'[e]] = rank'[e] - 1
    <3> SUFFICES ASSUME NEW e \in Element, rank'[e] > 1
                 PROVE  link[e] # NULL /\ rank'[link[e]] = rank'[e] - 1
      BY <2>1
    <3>1. CASE e = n
      <4>1. Height > 0 BY <2>2, <2>3, <3>1
      <4>2. freeStack.ptr \in Element /\ rank[freeStack.ptr] = Height /\ freeStack.ptr # n
        BY <4>1, <2>1 DEF Height, TypeOK, Pointer
      <4>3. QED BY <2>1, <2>2, <2>3, <3>1, <4>2
    <3>2. CASE e # n
      <4>1. rank'[e] = rank[e] /\ rank[e] > 1 BY <2>3, <3>2
      <4>2. link[e] # NULL /\ rank[link[e]] = rank[e] - 1 /\ link[e] \in Element
        BY <4>1 DEF FreeListIntact, TypeOK, Pointer
      <4>3. link[e] # n BY <2>1, <4>1, <4>2 DEF TypeOK
      <4>4. QED BY <2>3, <4>1, <4>2, <4>3
    <3>3. QED BY <3>1, <3>2
  <2>8. \A e, f \in Element : rank'[e] = rank'[f] /\ rank'[e] > 0 => e = f
    BY <2>2, <2>3 DEF FreeListIntact, TypeOK
  <2>9. QED BY <2>5, <2>6, <2>7, <2>8 DEF FreeListIntact
<1>6. CASE Clear \/ Reset \/ Free
  BY <1>6, MaintenanceEmpties DEF FreeListIntact, Height
<1>7. QED BY <1>1, <1>2, <1>3, <1>4, <1>5, <1>6, StepKinds DEF Moves

\* No step lets two threads hold one element, or one hold what is on the stack.
LEMMA OwnershipStep == PoolInv /\ [Next]_vars => ExclusiveOwnership'
<1> SUFFICES ASSUME PoolInv, [Next]_vars PROVE ExclusiveOwnership'
  OBVIOUS
<1> USE DEF PoolInv
<1> DEFINE Disjoint == \A u, v \in Threads : u # v => Held(u) \cap Held(v) = {}
           OffStack == \A u \in Threads : \A e \in Held(u) : rank[e] = 0
<1>1. Disjoint /\ OffStack BY DEF ExclusiveOwnership
<1>2. \A u \in Threads : Held(u) \subseteq Element
  BY DEF Held, TypeOK, LocalsInv, Pointer
<1>3. Disjoint' /\ OffStack'
  <2>1. CASE Quiet
    BY <2>1, <1>1 DEF Quiet
  <2>2. ASSUME NEW t \in Threads, NEW e \in Element,
               rank[e] = 0 \/ rank'[e] = 0,
               \A u \in Threads : e \notin Held(u),
               Held(t)' = Held(t) \cup {e},
               \A u \in Threads : u # t => Held(u)' = Held(u),
               rank' = [rank EXCEPT ![e] = 0]
        PROVE  Disjoint' /\ OffStack'
    <3>1. Disjoint' BY <1>1, <2>2
    <3>2. \A f \in Element : rank'[f] = IF f = e THEN 0 ELSE rank[f]
      BY <2>2 DEF TypeOK
    <3>3. OffStack' BY <1>1, <1>2, <2>2, <3>2
    <3>4. QED BY <3>1, <3>3
  <2>3. ASSUME NEW t \in Threads, TakeCas(t) PROVE Disjoint' /\ OffStack'
    <3> HIDE DEF Disjoint, OffStack
    <3>1. freeStack.ptr \in Element /\ rank' = [rank EXCEPT ![freeStack.ptr] = 0]
      BY <2>3, TakeCasMoves
    <3>2. rank'[freeStack.ptr] = 0 BY <3>1 DEF TypeOK
    <3>3. QED BY <2>2, <2>3, <3>1, <3>2, TakeCasMoves
  <2>4. ASSUME NEW t \in Threads, TakeBump(t) PROVE Disjoint' /\ OffStack'
    <3> HIDE DEF Disjoint, OffStack
    <3> DEFINE e == <<block[t], blockTaken[t]>>
    <3>1. /\ e \in Element /\ rank[e] = 0 /\ rank' = rank
          /\ \A u \in Threads : e \notin Held(u)
          /\ Held(t)' = Held(t) \cup {e}
          /\ \A u \in Threads : u # t => Held(u)' = Held(u)
      BY <2>4, TakeBumpMoves
    <3> HIDE DEF e
    <3>2. rank' = [rank EXCEPT ![e] = 0] BY <3>1 DEF TypeOK
    <3>3. QED BY <2>2, <3>1, <3>2
  <2>5. ASSUME NEW t \in Threads, ReturnLink(t) PROVE Disjoint' /\ OffStack'
    BY <2>5, <1>1, ReturnLinkMoves
  <2>6. ASSUME NEW t \in Threads, ReturnCas(t) PROVE Disjoint' /\ OffStack'
    <3>1. /\ node[t] \in Element /\ node[t] \in Held(t)
          /\ rank' = [rank EXCEPT ![node[t]] = Height + 1]
          /\ Held(t)' = Held(t) \ {node[t]}
          /\ \A u \in Threads : u # t => Held(u)' = Held(u)
      BY <2>6, ReturnCasMoves
    <3>2. \A u \in Threads : Held(u)' \subseteq Held(u) /\ node[t] \notin Held(u)'
      BY <1>1, <3>1
    <3>3. Disjoint' BY <1>1, <3>2
    <3>4. \A f \in Element : f # node[t] => rank'[f] = rank[f]
      BY <3>1 DEF TypeOK
    <3>5. OffStack' BY <1>1, <1>2, <3>2, <3>4
    <3>6. QED BY <3>3, <3>5
  <2>7. CASE Clear \/ Reset \/ Free
    BY <2>7, MaintenanceEmpties
  <2>8. QED BY <2>1, <2>3, <2>4, <2>5, <2>6, <2>7, StepKinds DEF Moves
<1> DEFINE NotOwned == \A u \in Threads :
        /\ pc[u] = "take_sub" => freeTop[u].ptr \notin owned[u]
        /\ pc[u] \in {"ret_load", "ret_link", "ret_cas"} => node[u] \notin owned[u]
<1>4. NotOwned'
  <2>1. ASSUME NEW t \in Threads, BeginTake(t) \/ Step(t) PROVE NotOwned'
    <3> USE DEF ExclusiveOwnership, TypeOK, Goto, shared, blocks, locals
    <3>1. CASE TakeCas(t)
      <4>1. freeStack.ptr \notin Held(t) /\ freeTop[t] = freeStack
        BY <3>1, TakeCasMoves DEF TakeCas
      <4>2. freeStack.ptr \notin owned[t] BY <4>1 DEF Held
      <4>3. QED BY <3>1, <4>1, <4>2 DEF TakeCas
    <3>2. CASE BeginTake(t) \/ TakeLoad(t) \/ TakeNext(t) \/ TakeCasFails(t) \/ TakeSub(t)
      BY <3>2 DEF BeginTake, TakeLoad, TakeNext, TakeCasFails, TakeSub
    <3>3. CASE TakeBlock(t) \/ TakeTaken(t) \/ TakeBump(t) \/ TakeBumpFails(t)
      BY <3>3 DEF TakeBlock, TakeTaken, TakeBump, TakeBumpFails
    <3>4. CASE AllocFlag(t) \/ AllocFlagFails(t) \/ AllocAdvance(t) \/ AllocNew(t)
      BY <3>4 DEF AllocFlag, AllocFlagFails, AllocAdvance, AllocNew
    <3>5. CASE AllocPublish(t) \/ AllocLink(t) \/ AllocRelease(t)
      BY <3>5 DEF AllocPublish, AllocLink, AllocRelease
    <3>6. CASE ReturnLoad(t) \/ ReturnLink(t) \/ ReturnCas(t) \/ ReturnCasFails(t) \/ ReturnAdd(t)
      BY <3>6 DEF ReturnLoad, ReturnLink, ReturnCas, ReturnCasFails, ReturnAdd
    <3>7. QED BY <2>1, <3>1, <3>2, <3>3, <3>4, <3>5, <3>6 DEF Step
  <2>2. ASSUME NEW t \in Threads, NEW e \in Element, BeginReturn(t, e) PROVE NotOwned'
    BY <2>2 DEF BeginReturn, ExclusiveOwnership, TypeOK, Goto, shared, blocks
  <2>3. CASE Clear \/ Reset \/ Free
    BY <2>3, MaintenanceEmpties DEF Idle
  <2>4. CASE UNCHANGED vars
    BY <2>4 DEF vars, ExclusiveOwnership
  <2>5. QED BY <2>1, <2>2, <2>3, <2>4 DEF Next
<1>5. QED BY <1>3, <1>4 DEF ExclusiveOwnership

\* What is held or recycled has been cut: a fresh element is one nobody has.
LEMMA CutStep == PoolInv /\ [Next]_vars => CutInv'
<1> SUFFICES ASSUME PoolInv, [Next]_vars,
                    NEW e \in Element,
                    rank'[e] > 0 \/ \E u \in Threads : e \in Held(u)'
             PROVE  e[2] < taken'[e[1]]
  BY DEF CutInv
<1> USE DEF PoolInv
<1>1. e[1] \in Block /\ e[2] \in Nat /\ taken[e[1]] \in Nat
  BY DEF Element, Slot, TypeOK
<1>2. CASE Quiet
  BY <1>2 DEF Quiet, CutInv
<1>3. ASSUME NEW t \in Threads, TakeCas(t) PROVE e[2] < taken'[e[1]]
  <2>1. /\ freeStack.ptr \in Element /\ rank[freeStack.ptr] > 0
        /\ rank' = [rank EXCEPT ![freeStack.ptr] = 0] /\ taken' = taken
        /\ Held(t)' = Held(t) \cup {freeStack.ptr}
        /\ \A u \in Threads : u # t => Held(u)' = Held(u)
    BY <1>3, TakeCasMoves
  <2>2. rank'[e] > 0 => rank[e] > 0 BY <2>1 DEF TypeOK
  <2>3. QED BY <2>1, <2>2 DEF CutInv
<1>4. ASSUME NEW t \in Threads, TakeBump(t) PROVE e[2] < taken'[e[1]]
  <2> DEFINE f == <<block[t], blockTaken[t]>>
  <2>1. /\ rank' = rank
        /\ taken' = [taken EXCEPT ![block[t]] = @ + 1] /\ taken[block[t]] = blockTaken[t]
        /\ Held(t)' = Held(t) \cup {f}
        /\ \A u \in Threads : u # t => Held(u)' = Held(u)
    BY <1>4, TakeBumpMoves
  <2>2. taken'[e[1]] = IF e[1] = block[t] THEN taken[e[1]] + 1 ELSE taken[e[1]]
    BY <1>1, <2>1 DEF TypeOK
  <2>3. CASE e = f
    BY <1>1, <2>1, <2>2, <2>3
  <2>4. CASE e # f
    <3>1. e[2] < taken[e[1]] BY <2>1, <2>4 DEF CutInv
    <3>2. QED BY <1>1, <2>2, <3>1
  <2>5. QED BY <2>3, <2>4
<1>5. ASSUME NEW t \in Threads, ReturnLink(t) PROVE e[2] < taken'[e[1]]
  BY <1>5, ReturnLinkMoves DEF CutInv
<1>6. ASSUME NEW t \in Threads, ReturnCas(t) PROVE e[2] < taken'[e[1]]
  <2>1. /\ node[t] \in Element /\ node[t] \in Held(t)
        /\ rank' = [rank EXCEPT ![node[t]] = Height + 1] /\ taken' = taken
        /\ Held(t)' = Held(t) \ {node[t]}
        /\ \A u \in Threads : u # t => Held(u)' = Held(u)
    BY <1>6, ReturnCasMoves
  <2>2. e # node[t] => rank'[e] = rank[e] BY <2>1 DEF TypeOK
  <2>3. QED BY <2>1, <2>2 DEF CutInv
<1>7. CASE Clear \/ Reset \/ Free
  <2>1. Free /\ rank'[e] > 0
    BY <1>7, MaintenanceEmpties
  <2>2. QED BY <2>1, MaintenanceEmpties DEF CutInv
<1>8. QED BY <1>2, <1>3, <1>4, <1>5, <1>6, <1>7, StepKinds DEF Moves

\* A pop that succeeds installs the current next pointer: while the tag stands
\* still the top is on the stack, and nobody relinks what is on the stack.
LEMMA PopStep == PoolInv /\ [Next]_vars => PopInstallsNext'
<1> SUFFICES ASSUME PoolInv, [Next]_vars PROVE PopInstallsNext'
  OBVIOUS
<1> USE DEF PoolInv
<1>1. ASSUME NEW t \in Threads, BeginTake(t) \/ Step(t) PROVE PopInstallsNext'
  <2> USE DEF PopInstallsNext, TypeOK, Goto, shared, blocks, locals
  <2>1. CASE TakeNext(t) BY <2>1 DEF TakeNext
  <2>2. CASE TakeCas(t)
    <3>1. freeStack'.tag = freeStack.tag + 1 /\ freeStack.tag \in Nat
      BY <2>2, TaggedPointers DEF TakeCas
    <3>2. \A u \in Threads : pc'[u] = "take_cas" => pc[u] = "take_cas" /\ freeTop'[u] = freeTop[u]
      BY <2>2 DEF TakeCas
    <3>3. \A u \in Threads : pc[u] = "take_cas" => freeTop[u].tag <= freeStack.tag
      BY DEF TagsInv
    <3>4. \A u \in Threads : freeTop[u].tag \in Nat BY TaggedPointers
    <3>5. QED BY <3>1, <3>2, <3>3, <3>4
  <2>3. CASE ReturnCas(t)
    <3>1. freeStack'.tag = freeStack.tag + 1 /\ freeStack.tag \in Nat
      BY <2>3, TaggedPointers DEF ReturnCas
    <3>2. \A u \in Threads : pc'[u] = "take_cas" => pc[u] = "take_cas" /\ freeTop'[u] = freeTop[u]
      BY <2>3 DEF ReturnCas
    <3>3. \A u \in Threads : pc[u] = "take_cas" => freeTop[u].tag <= freeStack.tag
      BY DEF TagsInv
    <3>4. \A u \in Threads : freeTop[u].tag \in Nat BY TaggedPointers
    <3>5. QED BY <3>1, <3>2, <3>3, <3>4
  <2>4. CASE ReturnLink(t)
    <3>1. rank[node[t]] = 0 /\ link' = [link EXCEPT ![node[t]] = freeTop[t].ptr]
      BY <2>4, ReturnLinkMoves
    <3>2. freeStack.ptr \in Element => freeStack.ptr # node[t]
      BY <3>1, PoolAssumption DEF FreeListIntact
    <3>3. freeStack.ptr \in Element => link'[freeStack.ptr] = link[freeStack.ptr]
      BY <3>1, <3>2
    <3>4. \A u \in Threads : pc[u] = "take_cas" => freeTop[u].ptr \in Element
      BY DEF LocalsInv, Pointer
    <3>5. QED BY <2>4, <3>3, <3>4 DEF ReturnLink
  <2>5. CASE BeginTake(t) \/ TakeLoad(t) \/ TakeCasFails(t) \/ TakeSub(t)
    BY <2>5 DEF BeginTake, TakeLoad, TakeCasFails, TakeSub
  <2>6. CASE TakeBlock(t) \/ TakeTaken(t) \/ TakeBump(t) \/ TakeBumpFails(t)
    BY <2>6 DEF TakeBlock, TakeTaken, TakeBump, TakeBumpFails
  <2>7. CASE AllocFlag(t) \/ AllocFlagFails(t) \/ AllocAdvance(t) \/ AllocNew(t)
    BY <2>7 DEF AllocFlag, AllocFlagFails, AllocAdvance, AllocNew
  <2>8. CASE AllocPublish(t) \/ AllocLink(t) \/ AllocRelease(t)
    BY <2>8 DEF AllocPublish, AllocLink, AllocRelease
  <2>9. CASE ReturnLoad(t) \/ ReturnCasFails(t) \/ ReturnAdd(t)
    BY <2>9 DEF ReturnLoad, ReturnCasFails, ReturnAdd
  <2>10. QED BY <1>1, <2>1, <2>2, <2>3, <2>4, <2>5, <2>6, <2>7, <2>8, <2>9 DEF Step
<1>2. ASSUME NEW t \in Threads, NEW e \in Element, BeginReturn(t, e) PROVE PopInstallsNext'
  BY <1>2 DEF BeginReturn, PopInstallsNext, TypeOK, Goto, shared, blocks
<1>3. CASE Clear \/ Reset \/ Free
  BY <1>3, MaintenanceEmpties DEF PopInstallsNext, Idle
<1>4. CASE UNCHANGED vars
  BY <1>4 DEF vars, PopInstallsNext
<1>5. QED BY <1>1, <1>2, <1>3, <1>4 DEF Next

-------------------------------------------------------------------------------
\* The inductive invariant holds of a pool just initialised,
LEMMA PoolInvInit == Init => PoolInv
<1> SUFFICES ASSUME Init PROVE PoolInv
  OBVIOUS
<1>1. TypeOK BY TypeInit
<1>2. \A t \in Threads : Held(t) = {} BY DEF Init, Held
<1>3. LocalsInv /\ TagsInv /\ PopInstallsNext
  BY DEF Init, LocalsInv, TagsInv, PopInstallsNext
<1>4. BlocksInv BY PoolAssumption DEF Init, BlocksInv, Block
<1>5. CutInv BY <1>2 DEF Init, CutInv
<1>6. FreeListIntact BY DEF Init, FreeListIntact, Height, NullTop
<1>7. ExclusiveOwnership BY <1>2 DEF Init, ExclusiveOwnership
<1>8. QED BY <1>1, <1>3, <1>4, <1>5, <1>6, <1>7 DEF PoolInv

\* and every step keeps it.
LEMMA PoolInvStep == PoolInv /\ [Next]_vars => PoolInv'
  BY TypeStep, LocalsStep, TagsStep, BlocksStep, FreeListStep, OwnershipStep,
     CutStep, PopStep DEF PoolInv

\* The inductive invariant of the pool holds in every reachable state, for any
\* number of threads, blocks and operations.
THEOREM PoolInvariant == Spec => []PoolInv
  BY PoolInvInit, PoolInvStep, PTL DEF Spec

\* Type correctness of the pool.
THEOREM TypeCorrect == Spec => []TypeOK
<1>1. PoolInv => TypeOK BY DEF PoolInv
<1>2. QED BY PoolInvariant, <1>1, PTL

\* Take never hands out an element that a thread holds or that is on the free
\* stack: vlAsyncPoolTake and vlAsyncPoolReturn keep ownership exclusive.
THEOREM OwnershipIsExclusive == Spec => []ExclusiveOwnership
<1>1. PoolInv => ExclusiveOwnership BY DEF PoolInv
<1>2. QED BY PoolInvariant, <1>1, PTL

\* The recycled elements always form one finite, acyclic list.
THEOREM FreeListIsList == Spec => []FreeListIntact
<1>1. PoolInv => FreeListIntact BY DEF PoolInv
<1>2. QED BY PoolInvariant, <1>1, PTL

\* The tagged pointer defeats the ABA problem on the free stack.
THEOREM NoAbaOnPop == Spec => []PopInstallsNext
<1>1. PoolInv => PopInstallsNext BY DEF PoolInv
<1>2. QED BY PoolInvariant, <1>1, PTL

-------------------------------------------------------------------------------
\* Every step of the pool is a step of the abstract pool or moves nothing.
LEMMA RefinementStep ==
  PoolInv /\ [Next]_vars => [Abstract!Next]_([t \in Threads |-> Held(t)])
<1> SUFFICES ASSUME PoolInv, [Next]_vars
             PROVE  Abstract!Next \/ UNCHANGED [t \in Threads |-> Held(t)]
  OBVIOUS
<1> USE DEF PoolInv
<1> DEFINE h == [t \in Threads |-> Held(t)]
<1>1. CASE Quiet
  BY <1>1 DEF Quiet
<1>2. ASSUME NEW t \in Threads, NEW e \in Element,
             \A u \in Threads : e \notin Held(u),
             Held(t)' = Held(t) \cup {e},
             \A u \in Threads : u # t => Held(u)' = Held(u)
      PROVE  Abstract!Next
  <2>1. h' = [h EXCEPT ![t] = @ \cup {e}] BY <1>2
  <2>2. Abstract!Free(e) BY <1>2 DEF Abstract!Free
  <2>3. Abstract!Take(t) BY <2>1, <2>2 DEF Abstract!Take
  <2>4. QED BY <2>3 DEF Abstract!Next
<1>3. ASSUME NEW t \in Threads, TakeCas(t) PROVE Abstract!Next
  BY <1>2, <1>3, TakeCasMoves
<1>4. ASSUME NEW t \in Threads, TakeBump(t) PROVE Abstract!Next
  BY <1>2, <1>4, TakeBumpMoves
<1>5. ASSUME NEW t \in Threads, ReturnLink(t) PROVE UNCHANGED h
  BY <1>5, ReturnLinkMoves
<1>6. ASSUME NEW t \in Threads, ReturnCas(t) PROVE Abstract!Next
  <2>1. /\ node[t] \in Held(t)
        /\ Held(t)' = Held(t) \ {node[t]}
        /\ \A u \in Threads : u # t => Held(u)' = Held(u)
    BY <1>6, ReturnCasMoves
  <2>2. node[t] \in h[t] /\ h' = [h EXCEPT ![t] = @ \ {node[t]}] BY <2>1
  <2>3. Abstract!Return(t) BY <2>2 DEF Abstract!Return
  <2>4. QED BY <2>3 DEF Abstract!Next
<1>7. CASE Clear \/ Reset \/ Free
  <2>1. h' = [t \in Threads |-> {}] BY <1>7, MaintenanceEmpties
  <2>2. QED BY <2>1 DEF Abstract!Next, Abstract!Invalidate
<1>8. QED BY <1>1, <1>3, <1>4, <1>5, <1>6, <1>7, StepKinds DEF Moves

\* The lock-free pool implements the abstract one: whatever the interleaving,
\* clients see elements change hands atomically.
THEOREM Refinement == Spec => ImplementsElementPool
<1>1. Init => Abstract!Init BY DEF Init, Abstract!Init, Held
<1>2. QED BY <1>1, RefinementStep, PoolInvariant, PTL
       DEF Spec, ImplementsElementPool, Abstract!Spec
===============================================================================
