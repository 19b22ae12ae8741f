-------------------------- MODULE AsyncPoolListProofs --------------------------
(***************************************************************************)
(* Proofs about the block list of AsyncPool, what Clear, Reset and Free do *)
(* to it, and the accounting of elements, for any number of threads and    *)
(* blocks.                                                                 *)
(***************************************************************************)
EXTENDS AsyncPoolProofs, NumberLemmas, FiniteSetTheorems

\* A chain of block pointers holds its start and the successors of its blocks,
\* and lies within every set that does.
LEMMA ChainProps ==
  ASSUME NEW chain \in [Block -> Block \cup {NULL}], NEW start \in Block
  PROVE  /\ ChainFrom(chain, start) \subseteq Block
         /\ start \in ChainFrom(chain, start)
         /\ \A c \in ChainFrom(chain, start) :
                chain[c] # NULL => chain[c] \in ChainFrom(chain, start)
         /\ \A S \in SUBSET Block :
                start \in S /\ (\A c \in S : chain[c] \in S \cup {NULL})
                    => ChainFrom(chain, start) \subseteq S
<1>1. start \in ChainFrom(chain, start) BY DEF ChainFrom
<1>2. ASSUME NEW c \in ChainFrom(chain, start), chain[c] # NULL
      PROVE  chain[c] \in ChainFrom(chain, start)
  <2>1. c \in Block BY DEF ChainFrom
  <2>2. chain[c] \in Block BY <1>2, <2>1
  <2>3. ASSUME NEW S \in SUBSET Block, start \in S,
               \A d \in S : chain[d] \in S \cup {NULL}
        PROVE  chain[c] \in S
    <3>1. c \in S BY <2>3 DEF ChainFrom
    <3>2. QED BY <1>2, <2>3, <3>1
  <2>4. QED BY <2>2, <2>3 DEF ChainFrom
<1>3. QED BY <1>1, <1>2 DEF ChainFrom

\* A chain depends only on the pointers of its own blocks.
LEMMA ChainAgree ==
  ASSUME NEW c \in [Block -> Block \cup {NULL}], NEW d \in [Block -> Block \cup {NULL}],
         NEW start \in Block,
         \A b \in ChainFrom(c, start) : d[b] = c[b]
  PROVE  ChainFrom(d, start) = ChainFrom(c, start)
<1> DEFINE C == ChainFrom(c, start)  D == ChainFrom(d, start)
<1>1. /\ C \subseteq Block /\ start \in C
      /\ \A b \in C : c[b] # NULL => c[b] \in C
      /\ \A S \in SUBSET Block :
             start \in S /\ (\A b \in S : c[b] \in S \cup {NULL}) => C \subseteq S
  BY ChainProps
<1>2. /\ D \subseteq Block /\ start \in D
      /\ \A b \in D : d[b] # NULL => d[b] \in D
      /\ \A S \in SUBSET Block :
             start \in S /\ (\A b \in S : d[b] \in S \cup {NULL}) => D \subseteq S
  BY ChainProps
<1>3. \A b \in C : d[b] = c[b] OBVIOUS
<1> HIDE DEF C, D
<1>4. D \subseteq C BY <1>1, <1>2, <1>3
<1>5. C \subseteq D BY <1>1, <1>2, <1>3, <1>4
<1>6. QED BY <1>4, <1>5 DEF C, D

\* Stepping to the block a chain starts after adds that block only.
LEMMA ChainStep ==
  ASSUME NEW c \in [Block -> Block \cup {NULL}], NEW start \in Block, NEW new \in Block,
         c[new] = start
  PROVE  ChainFrom(c, new) = ChainFrom(c, start) \cup {new}
<1> DEFINE C == ChainFrom(c, start)  D == ChainFrom(c, new)
<1>1. /\ C \subseteq Block /\ start \in C
      /\ \A b \in C : c[b] # NULL => c[b] \in C
      /\ \A S \in SUBSET Block :
             start \in S /\ (\A b \in S : c[b] \in S \cup {NULL}) => C \subseteq S
  BY ChainProps
<1>2. /\ D \subseteq Block /\ new \in D
      /\ \A b \in D : c[b] # NULL => c[b] \in D
      /\ \A S \in SUBSET Block :
             new \in S /\ (\A b \in S : c[b] \in S \cup {NULL}) => D \subseteq S
  BY ChainProps
<1>3. c[new] = start /\ start # NULL BY PoolAssumption
<1> HIDE DEF C, D
<1>4. D \subseteq C \cup {new}
  <2>1. C \cup {new} \in SUBSET Block BY <1>1
  <2>2. \A b \in C \cup {new} : c[b] \in (C \cup {new}) \cup {NULL} BY <1>1, <1>3
  <2>3. QED BY <1>2, <2>1, <2>2
<1>5. C \subseteq D BY <1>1, <1>2, <1>3
<1>6. QED BY <1>2, <1>4, <1>5 DEF C, D

\* A chain whose first block has no successor is that block.
LEMMA ChainEnd ==
  ASSUME NEW c \in [Block -> Block \cup {NULL}], NEW start \in Block, c[start] = NULL
  PROVE  ChainFrom(c, start) = {start}
<1> DEFINE C == ChainFrom(c, start)
<1>1. /\ start \in C
      /\ \A S \in SUBSET Block :
             start \in S /\ (\A b \in S : c[b] \in S \cup {NULL}) => C \subseteq S
  BY ChainProps
<1> HIDE DEF C
<1>2. {start} \in SUBSET Block /\ \A b \in {start} : c[b] \in {start} \cup {NULL}
  OBVIOUS
<1>3. C \subseteq {start} BY <1>1, <1>2
<1>4. QED BY <1>1, <1>3 DEF C

-------------------------------------------------------------------------------
\* Most steps leave the block list alone and neither enter nor leave Allocate.
ListQuiet ==
    /\ UNCHANGED <<primaryBlock, allocatingFlag, totalBlocks, nextBlock, prevBlock,
                   live, open>>
    /\ \A u \in Threads :
        /\ pc'[u] \in AllocPc <=> pc[u] \in AllocPc
        /\ pc'[u] \in AllocPc => pc'[u] = pc[u] /\ block'[u] = block[u]
        /\ pc'[u] # "idle" => pc[u] # "idle" \/ open

\* The steps that do not, besides the maintenance calls.
Allocates(t) == \/ AllocFlag(t) \/ AllocAdvance(t) \/ AllocNew(t)
                \/ AllocPublish(t) \/ AllocLink(t) \/ AllocRelease(t)

\* Every step leaves the list alone, is one of Allocate, or is a maintenance call.
LEMMA ListStepKinds ==
  TypeOK /\ [Next]_vars =>
      ListQuiet \/ (\E t \in Threads : Allocates(t)) \/ Clear \/ Reset \/ Free
<1> SUFFICES ASSUME TypeOK, [Next]_vars,
                    ~ \E t \in Threads : Allocates(t), ~Clear, ~Reset, ~Free
             PROVE  ListQuiet
  OBVIOUS
<1> USE DEF ListQuiet
<1>1. ASSUME NEW t \in Threads, BeginTake(t) \/ Step(t) PROVE ListQuiet
  <2> USE DEF TypeOK, Goto, shared, blocks, locals, AllocPc
  <2>1. CASE BeginTake(t) BY <2>1 DEF BeginTake
  <2>2. CASE TakeLoad(t) BY <2>2 DEF TakeLoad
  <2>3. CASE TakeNext(t) BY <2>3 DEF TakeNext
  <2>4. CASE TakeCas(t) BY <2>4 DEF TakeCas
  <2>5. CASE TakeCasFails(t) BY <2>5 DEF TakeCasFails
  <2>6. CASE TakeSub(t) BY <2>6 DEF TakeSub
  <2>7. CASE TakeBlock(t) BY <2>7 DEF TakeBlock
  <2>8. CASE TakeTaken(t) BY <2>8 DEF TakeTaken
  <2>9. CASE TakeBump(t) BY <2>9 DEF TakeBump
  <2>10. CASE TakeBumpFails(t) BY <2>10 DEF TakeBumpFails
  <2>11. CASE AllocFlagFails(t) BY <2>11 DEF AllocFlagFails
  <2>12. CASE ReturnLoad(t) BY <2>12 DEF ReturnLoad
  <2>13. CASE ReturnLink(t) BY <2>13 DEF ReturnLink
  <2>14. CASE ReturnCas(t) BY <2>14 DEF ReturnCas
  <2>15. CASE ReturnCasFails(t) BY <2>15 DEF ReturnCasFails
  <2>16. CASE ReturnAdd(t) BY <2>16 DEF ReturnAdd
  <2>17. QED BY <1>1, <2>1, <2>2, <2>3, <2>4, <2>5, <2>6, <2>7, <2>8, <2>9,
                <2>10, <2>11, <2>12, <2>13, <2>14, <2>15, <2>16
             DEF Step, Allocates
<1>2. ASSUME NEW t \in Threads, NEW e \in Element, BeginReturn(t, e) PROVE ListQuiet
  BY <1>2 DEF BeginReturn, TypeOK, Goto, shared, blocks, AllocPc
<1>3. CASE UNCHANGED vars
  BY <1>3 DEF vars
<1>4. QED BY <1>1, <1>2, <1>3 DEF Next

-------------------------------------------------------------------------------
\* A thread that holds the flag is the only one in Allocate, and the list is as
\* it left it: every other step is quiet, or needs the flag or an idle pool.
LEMMA AllocStep == PoolInv /\ ListInv /\ AllocInv /\ [Next]_vars => AllocInv'
<1> SUFFICES ASSUME PoolInv, ListInv, AllocInv, [Next]_vars PROVE AllocInv'
  OBVIOUS
<1>0. TypeOK /\ BlocksInv /\ LocalsInv BY DEF PoolInv
<1> USE PoolAssumption
<1>1. CASE ListQuiet
  <2>1. /\ UNCHANGED <<primaryBlock, allocatingFlag, nextBlock, prevBlock, live, open>>
        /\ \A u \in Threads : /\ pc'[u] \in AllocPc <=> pc[u] \in AllocPc
                              /\ pc'[u] \in AllocPc => pc'[u] = pc[u] /\ block'[u] = block[u]
                              /\ pc'[u] # "idle" => pc[u] # "idle" \/ open
    BY <1>1 DEF ListQuiet
  <2>2. "alloc_publish" \in AllocPc /\ "alloc_link" \in AllocPc BY DEF AllocPc
  <2>3. QED BY <2>1, <2>2 DEF AllocInv
<1>2. ASSUME NEW t \in Threads, AllocFlag(t) PROVE AllocInv'
  BY <1>0, <1>2 DEF AllocFlag, Goto, AllocInv, TypeOK, AllocPc, locals
<1>3. ASSUME NEW t \in Threads, pc[t] \in AllocPc
      PROVE  /\ allocatingFlag /\ open
             /\ \A u \in Threads : u # t => pc[u] \notin AllocPc
  BY <1>3 DEF AllocInv, AllocPc
<1>4. ASSUME NEW t \in Threads, AllocAdvance(t) PROVE AllocInv'
  <2>1. pc[t] \in AllocPc BY <1>4 DEF AllocAdvance, Goto, AllocPc
  <2>2. QED BY <1>0, <1>3, <1>4, <2>1
          DEF AllocAdvance, Goto, AllocInv, TypeOK, AllocPc, locals
<1>5. ASSUME NEW t \in Threads, AllocNew(t) PROVE AllocInv'
  <2> DEFINE new == totalBlocks + 1
  <2>1. pc[t] = "alloc_primary" /\ pc[t] \in AllocPc BY <1>5 DEF AllocNew, Goto, AllocPc
  <2>2. /\ pc' = [pc EXCEPT ![t] = "alloc_publish"]
        /\ block' = [block EXCEPT ![t] = new]
        /\ live' = live \cup {new}
        /\ prevBlock' = [prevBlock EXCEPT ![new] = primaryBlock]
        /\ nextBlock' = [nextBlock EXCEPT ![new] = NULL]
        /\ nextBlock[primaryBlock] = NULL
        /\ UNCHANGED <<primaryBlock, allocatingFlag, open>>
    BY <1>5 DEF AllocNew, Goto
  <2>3. new \in Block BY <1>0, <1>5 DEF AllocNew, TypeOK, Block
  <2> HIDE DEF new
  <2>4. /\ pc'[t] = "alloc_publish" /\ block'[t] = new /\ prevBlock'[new] = primaryBlock
        /\ nextBlock'[new] = NULL /\ nextBlock'[primaryBlock] = NULL
        /\ \A u \in Threads : u # t => pc'[u] = pc[u]
    BY <1>0, <2>2, <2>3 DEF TypeOK
  <2>5. QED BY <1>3, <2>1, <2>2, <2>4 DEF AllocInv, AllocPc
<1>6. ASSUME NEW t \in Threads, AllocPublish(t) PROVE AllocInv'
  <2>1. pc[t] = "alloc_publish" /\ pc[t] \in AllocPc
    BY <1>6 DEF AllocPublish, Goto, AllocPc
  <2>2. /\ pc' = [pc EXCEPT ![t] = "alloc_link"]
        /\ primaryBlock' = block[t]
        /\ UNCHANGED <<nextBlock, prevBlock, live, block, allocatingFlag, open>>
    BY <1>6 DEF AllocPublish, Goto, locals
  <2>3. /\ prevBlock[block[t]] = primaryBlock /\ nextBlock[primaryBlock] = NULL
        /\ nextBlock[block[t]] = NULL /\ primaryBlock # NULL
    BY <1>0, <2>1 DEF AllocInv, TypeOK
  <2>4. /\ pc'[t] = "alloc_link"
        /\ \A u \in Threads : u # t => pc'[u] = pc[u]
    BY <1>0, <2>2 DEF TypeOK
  <2>5. QED BY <1>3, <2>1, <2>2, <2>3, <2>4 DEF AllocInv, AllocPc
<1>7. ASSUME NEW t \in Threads, AllocLink(t) \/ AllocRelease(t) PROVE AllocInv'
  <2>1. pc[t] \in AllocPc BY <1>7 DEF AllocLink, AllocRelease, Goto, AllocPc
  <2>2. CASE AllocLink(t)
    BY <1>0, <1>3, <2>1, <2>2 DEF AllocLink, Goto, AllocInv, TypeOK, AllocPc
  <2>3. CASE AllocRelease(t)
    BY <1>0, <1>3, <2>1, <2>3 DEF AllocRelease, Goto, AllocInv, TypeOK, AllocPc, locals
  <2>4. QED BY <1>7, <2>2, <2>3
<1>8. CASE Clear \/ Reset \/ Free
  <2>1. /\ \A u \in Threads : pc'[u] = "idle" /\ pc[u] = "idle"
        /\ UNCHANGED allocatingFlag
    BY <1>8 DEF Clear, Reset, Free, Idle
  <2>2. QED BY <2>1 DEF AllocInv, AllocPc
<1>9. QED BY <1>0, <1>1, <1>2, <1>4, <1>5, <1>6, <1>7, <1>8, ListStepKinds DEF Allocates

\* How the steps of Allocate move the primary block along the list.
LEMMA BehindMoves ==
  ASSUME NEW t \in Threads, PoolInv, ListInv, AllocInv, TypeOK', Allocates(t)
  PROVE  /\ AllocAdvance(t) => Behind' = Behind \cup {nextBlock[primaryBlock]}
         /\ AllocPublish(t) => Behind' = Behind \cup {block[t]}
         /\ ~AllocAdvance(t) /\ ~AllocPublish(t) => Behind' = Behind
<1>0. TypeOK /\ BlocksInv /\ LocalsInv BY DEF PoolInv
<1>1. /\ primaryBlock \in Block /\ prevBlock \in [Block -> Block \cup {NULL}]
      /\ nextBlock \in [Block -> Block \cup {NULL}]
      /\ prevBlock' \in [Block -> Block \cup {NULL}]
  BY <1>0 DEF TypeOK
<1>2. CASE AllocAdvance(t)
  <2>1. /\ nextBlock[primaryBlock] # NULL /\ primaryBlock' = nextBlock[primaryBlock]
        /\ prevBlock' = prevBlock
    BY <1>2 DEF AllocAdvance
  <2>2. nextBlock[primaryBlock] \in Block BY <1>1, <2>1
  <2>3. prevBlock[nextBlock[primaryBlock]] = primaryBlock BY <1>1, <2>1 DEF ListInv
  <2>4. ChainFrom(prevBlock, nextBlock[primaryBlock])
            = ChainFrom(prevBlock, primaryBlock) \cup {nextBlock[primaryBlock]}
    BY <1>1, <2>2, <2>3, ChainStep
  <2>5. ~AllocPublish(t) BY <1>2 DEF AllocAdvance, AllocPublish, Goto
  <2>6. QED BY <1>2, <2>1, <2>4, <2>5 DEF Behind
<1>3. CASE AllocPublish(t)
  <2>1. pc[t] = "alloc_publish" /\ primaryBlock' = block[t] /\ prevBlock' = prevBlock
    BY <1>3 DEF AllocPublish, Goto
  <2>2. block[t] \in Block BY <1>0, <2>1 DEF LocalsInv, TypeOK
  <2>3. prevBlock[block[t]] = primaryBlock BY <2>1 DEF AllocInv
  <2>4. ChainFrom(prevBlock, block[t]) = ChainFrom(prevBlock, primaryBlock) \cup {block[t]}
    BY <1>1, <2>2, <2>3, ChainStep
  <2>5. ~AllocAdvance(t) BY <1>3 DEF AllocAdvance, AllocPublish, Goto
  <2>6. QED BY <1>3, <2>1, <2>4, <2>5 DEF Behind
<1>4. CASE AllocNew(t)
  <2>1. /\ pc[t] \in AllocPc /\ pc[t] # "idle" /\ primaryBlock' = primaryBlock
        /\ prevBlock' = [prevBlock EXCEPT ![totalBlocks + 1] = primaryBlock]
    BY <1>4 DEF AllocNew, Goto, AllocPc
  <2>2. open BY <2>1 DEF AllocInv
  <2>3. Behind \subseteq 1 .. totalBlocks BY <2>2 DEF ListInv
  <2>4. \A b \in Behind : b # totalBlocks + 1
    <3>1. totalBlocks \in Int BY <1>0 DEF TypeOK, Block
    <3>2. QED BY <2>3, <3>1
  <2>5. \A b \in ChainFrom(prevBlock, primaryBlock) : prevBlock'[b] = prevBlock[b]
    BY <1>1, <2>1, <2>4, ChainProps DEF Behind
  <2>6. ChainFrom(prevBlock', primaryBlock) = ChainFrom(prevBlock, primaryBlock)
    BY <1>1, <2>5, ChainAgree
  <2>7. ~AllocAdvance(t) /\ ~AllocPublish(t)
    BY <1>4 DEF AllocAdvance, AllocPublish, AllocNew, Goto
  <2>8. QED BY <2>1, <2>6, <2>7 DEF Behind
<1>5. CASE AllocFlag(t) \/ AllocLink(t) \/ AllocRelease(t)
  <2>1. primaryBlock' = primaryBlock /\ prevBlock' = prevBlock
    BY <1>5 DEF AllocFlag, AllocLink, AllocRelease
  <2>2. ~AllocAdvance(t) /\ ~AllocPublish(t)
    BY <1>5 DEF AllocAdvance, AllocPublish, AllocFlag, AllocLink, AllocRelease, Goto
  <2>3. QED BY <2>1, <2>2 DEF Behind
<1>6. QED BY <1>2, <1>3, <1>4, <1>5 DEF Allocates

\* Clear and Reset go back to the first block, which is then all of the list
\* from the primary block back.
LEMMA Rewinds ==
  ASSUME TypeOK, ListInv, TypeOK', Clear \/ Reset
  PROVE  /\ primaryBlock' \in Behind /\ prevBlock[primaryBlock'] = NULL
         /\ Behind' = {primaryBlock'}
         /\ Idle /\ open
         /\ UNCHANGED <<prevBlock, totalBlocks, open, pc, block>>
<1>1. /\ primaryBlock' \in Behind /\ prevBlock[primaryBlock'] = NULL
      /\ Idle /\ open
      /\ UNCHANGED <<prevBlock, totalBlocks, open, pc, block>>
  BY DEF Clear, Reset, Behind, locals
<1>2. Behind' = ChainFrom(prevBlock, primaryBlock') BY <1>1 DEF Behind
<1>3. prevBlock \in [Block -> Block \cup {NULL}] /\ primaryBlock' \in Block
  BY DEF TypeOK
<1>4. ChainFrom(prevBlock, primaryBlock') = {primaryBlock'}
  BY <1>1, <1>3, ChainEnd
<1>5. QED BY <1>1, <1>2, <1>4

\* The list stays well formed: a block is chained behind the last one, and Reset
\* takes away the blocks from the second on together with the pointer to them.
LEMMA ListStep == PoolInv /\ ListInv /\ AllocInv /\ [Next]_vars => ListInv'
<1> SUFFICES ASSUME PoolInv, ListInv, AllocInv, [Next]_vars PROVE ListInv'
  OBVIOUS
<1>0. TypeOK /\ BlocksInv /\ LocalsInv /\ TypeOK' BY PoolInvStep DEF PoolInv
<1>1. /\ totalBlocks \in Int /\ totalBlocks >= 1 /\ 1 \in Block
      /\ primaryBlock \in Block
      /\ primaryBlock \in Behind
  <2>1. primaryBlock \in Block /\ prevBlock \in [Block -> Block \cup {NULL}]
    BY <1>0 DEF TypeOK
  <2>2. primaryBlock \in Behind BY <2>1, ChainProps DEF Behind
  <2>3. totalBlocks \in Int /\ totalBlocks >= 1 /\ 1 \in Block
    BY <1>0, PoolAssumption DEF TypeOK, Block
  <2>4. QED BY <2>1, <2>2, <2>3
<1>2. CASE ListQuiet
  BY <1>2 DEF ListQuiet, ListInv, Behind
<1>3. ASSUME NEW t \in Threads, AllocFlag(t) \/ AllocRelease(t) PROVE ListInv'
  <2>1. UNCHANGED <<primaryBlock, totalBlocks, nextBlock, prevBlock, live, open>>
    BY <1>3 DEF AllocFlag, AllocRelease
  <2>2. QED BY <2>1 DEF ListInv, Behind
<1>4. ASSUME NEW t \in Threads, AllocAdvance(t) PROVE ListInv'
  <2>1. /\ UNCHANGED <<totalBlocks, nextBlock, prevBlock, live, open>>
        /\ nextBlock[primaryBlock] # NULL
    BY <1>4 DEF AllocAdvance
  <2>2. Behind' = Behind \cup {nextBlock[primaryBlock]}
    BY <1>0, <1>4, BehindMoves DEF Allocates
  <2>3. QED BY <1>1, <2>1, <2>2 DEF ListInv
<1>5. ASSUME NEW t \in Threads, AllocPublish(t) PROVE ListInv'
  <2>1. /\ UNCHANGED <<totalBlocks, nextBlock, prevBlock, live, open>>
        /\ pc[t] = "alloc_publish"
    BY <1>5 DEF AllocPublish, Goto
  <2>2. Behind' = Behind \cup {block[t]}
    BY <1>0, <1>5, BehindMoves DEF Allocates
  <2>3. block[t] \in live BY <2>1 DEF AllocInv
  <2>4. QED BY <1>1, <2>1, <2>2, <2>3 DEF ListInv
<1>6. ASSUME NEW t \in Threads, AllocNew(t) PROVE ListInv'
  <2> DEFINE new == totalBlocks + 1
  <2>1. /\ totalBlocks' = new /\ live' = live \cup {new}
        /\ prevBlock' = [prevBlock EXCEPT ![new] = primaryBlock]
        /\ nextBlock' = [nextBlock EXCEPT ![new] = NULL]
        /\ open' = open /\ new \in Block
    BY <1>0, <1>6 DEF AllocNew, TypeOK, Block
  <2>2. Behind' = Behind
    BY <1>0, <1>6, BehindMoves DEF Allocates, AllocNew, AllocAdvance, AllocPublish, Goto
  <2>3. \A b \in Block : /\ prevBlock'[b] = IF b = new THEN primaryBlock ELSE prevBlock[b]
                         /\ nextBlock'[b] = IF b = new THEN NULL ELSE nextBlock[b]
    BY <1>0, <2>1 DEF TypeOK
  <2>4. /\ new > totalBlocks /\ new \in Int /\ new # 1 /\ primaryBlock < new
        /\ \A b \in 2 .. new : b = new \/ b \in 2 .. totalBlocks
        /\ 1 .. totalBlocks \subseteq 1 .. new
    <3>1. primaryBlock <= totalBlocks /\ primaryBlock \in Int
      BY <1>0 DEF BlocksInv, TypeOK, Block
    <3>2. QED BY <1>1, <3>1
  <2>5. /\ primaryBlock # NULL
        /\ \A b \in Block : nextBlock[b] # NULL => nextBlock[b] # new /\ nextBlock[b] \in Block
    <3>1. primaryBlock # NULL BY <1>1, PoolAssumption
    <3>2. ASSUME NEW b \in Block, nextBlock[b] # NULL
          PROVE  nextBlock[b] # new /\ nextBlock[b] \in Block
      <4>1. nextBlock[b] \in Block BY <1>0, <3>2 DEF TypeOK
      <4>2. nextBlock[b] <= totalBlocks /\ nextBlock[b] \in Int
        BY <1>0, <3>2, <4>1 DEF BlocksInv, Block
      <4>3. QED BY <1>1, <4>1, <4>2
    <3>3. QED BY <3>1, <3>2
  <2> HIDE DEF new
  <2>6. live' \subseteq 1 .. totalBlocks'
    <3>1. live \subseteq 1 .. new BY <2>4 DEF ListInv
    <3>2. new \in 1 .. new BY <1>1, <2>4
    <3>3. QED BY <2>1, <3>1, <3>2
  <2>7. prevBlock'[1] = NULL BY <1>1, <2>3, <2>4 DEF ListInv
  <2>8. \A b \in 2 .. totalBlocks' : prevBlock'[b] # NULL
    BY <2>1, <2>3, <2>4, <2>5 DEF ListInv
  <2>9. \A b \in Block : prevBlock'[b] # NULL => prevBlock'[b] < b
    BY <2>3, <2>4 DEF ListInv
  <2>10. \A b \in Block : nextBlock'[b] # NULL => prevBlock'[nextBlock'[b]] = b
    BY <2>3, <2>5 DEF ListInv
  <2>11. open' => Behind' \subseteq live' BY <2>1, <2>2 DEF ListInv
  <2>12. open' => \A b \in live' : nextBlock'[b] # NULL => nextBlock'[b] \in live'
    <3>1. live \subseteq Block BY <1>0 DEF TypeOK
    <3>2. QED BY <2>1, <2>3, <3>1 DEF ListInv
  <2>13. QED BY <2>6, <2>7, <2>8, <2>9, <2>10, <2>11, <2>12 DEF ListInv
<1>7. ASSUME NEW t \in Threads, AllocLink(t) PROVE ListInv'
  <2> DEFINE old == prevBlock[primaryBlock]
  <2>1. /\ pc[t] = "alloc_link" /\ pc[t] # "idle"
        /\ nextBlock' = [nextBlock EXCEPT ![prevBlock[block[t]]] = block[t]]
        /\ UNCHANGED <<primaryBlock, totalBlocks, prevBlock, live, open>>
    BY <1>7 DEF AllocLink, Goto
  <2>2. block[t] = primaryBlock /\ old # NULL /\ old \in Block /\ open
    BY <1>0, <1>1, <2>1 DEF AllocInv, TypeOK
  <2>3. \A b \in Block : nextBlock'[b] = IF b = old THEN primaryBlock ELSE nextBlock[b]
    BY <1>0, <2>1, <2>2 DEF TypeOK
  <2>4. old = prevBlock[primaryBlock] OBVIOUS
  <2> HIDE DEF old
  <2>5. Behind' = Behind BY <2>1 DEF Behind
  <2>6. \A b \in Block : nextBlock'[b] # NULL => prevBlock[nextBlock'[b]] = b
    BY <2>3, <2>4 DEF ListInv
  <2>7. open' => \A b \in live' : nextBlock'[b] # NULL => nextBlock'[b] \in live'
    <3>1. live \subseteq Block BY <1>0 DEF TypeOK
    <3>2. primaryBlock \in live BY <1>1, <2>2 DEF ListInv
    <3>3. QED BY <2>1, <2>3, <3>1, <3>2 DEF ListInv
  <2>8. QED BY <2>1, <2>5, <2>6, <2>7 DEF ListInv
<1>8. CASE Clear
  <2>1. /\ primaryBlock' \in Behind /\ Behind' = {primaryBlock'} /\ open
        /\ UNCHANGED <<prevBlock, totalBlocks, open>>
    BY <1>0, <1>8, Rewinds
  <2>2. UNCHANGED <<nextBlock, live>> BY <1>8 DEF Clear
  <2>3. QED BY <2>1, <2>2 DEF ListInv
<1>9. CASE Reset
  <2> DEFINE first == primaryBlock'
  <2>1. /\ first \in Behind /\ prevBlock[first] = NULL /\ Behind' = {first} /\ open
        /\ UNCHANGED <<prevBlock, totalBlocks, open>>
    BY <1>0, <1>9, Rewinds
  <2>2. /\ live' = live \ {b \in Behind : prevBlock[b] # NULL}
        /\ nextBlock' = [nextBlock EXCEPT ![first] = NULL]
    BY <1>9 DEF Reset, Behind
  <2>3. live \subseteq Block /\ Behind \subseteq live /\ Behind \subseteq Block
    BY <1>0, <2>1 DEF TypeOK, ListInv
  <2>4. \A b \in Block : nextBlock'[b] = IF b = first THEN NULL ELSE nextBlock[b]
    BY <1>0, <2>1, <2>2, <2>3 DEF TypeOK
  <2>5. \A b \in live : prevBlock[b] = NULL => b = first
    <3>1. \A b \in live : b \in 1 .. totalBlocks BY DEF ListInv
    <3>2. \A b \in 1 .. totalBlocks : b = 1 \/ b \in 2 .. totalBlocks BY <1>1
    <3>3. \A b \in live : prevBlock[b] = NULL => b = 1 BY <3>1, <3>2 DEF ListInv
    <3>4. QED BY <2>1, <2>3, <3>3
  <2> HIDE DEF first
  <2>6. Behind' \subseteq live' BY <2>1, <2>2, <2>3
  <2>7. \A b \in live' : nextBlock'[b] # NULL => nextBlock'[b] \in live'
    <3> SUFFICES ASSUME NEW b \in live', nextBlock'[b] # NULL
                 PROVE  nextBlock'[b] \in live'
      OBVIOUS
    <3>1. b \in live /\ b \in Block /\ b # first /\ nextBlock'[b] = nextBlock[b]
      BY <2>2, <2>3, <2>4
    <3>2. nextBlock[b] \in live /\ prevBlock[nextBlock[b]] = b
      BY <2>1, <3>1 DEF ListInv
    <3>3. b \notin Behind BY <2>2, <2>5, <3>1
    <3>4. nextBlock[b] \notin Behind
      <4>1. nextBlock[b] \in Behind /\ b # NULL => b \in Behind
        BY <1>0, <3>2, ChainProps DEF Behind, TypeOK
      <4>2. b # NULL BY <3>1, PoolAssumption
      <4>3. QED BY <3>3, <4>1, <4>2
    <3>5. QED BY <2>2, <3>1, <3>2, <3>4
  <2>8. \A b \in Block : nextBlock'[b] # NULL => prevBlock'[nextBlock'[b]] = b
    BY <2>1, <2>4 DEF ListInv
  <2>9. live' \subseteq live BY <2>2
  <2>10. QED BY <2>1, <2>6, <2>7, <2>8, <2>9 DEF ListInv
<1>10. CASE Free
  BY <1>10 DEF Free, ListInv
<1>11. QED BY <1>0, <1>2, <1>3, <1>4, <1>5, <1>6, <1>7, <1>8, <1>9, <1>10,
              ListStepKinds DEF Allocates

-------------------------------------------------------------------------------
\* Only Clear and Reset shorten the part of the list behind the primary block.
LEMMA BehindGrows ==
  ASSUME PoolInv, ListInv, AllocInv, [Next]_vars, ~Clear, ~Reset
  PROVE  Behind \subseteq Behind'
<1>0. TypeOK /\ TypeOK' BY PoolInvStep DEF PoolInv
<1>1. CASE ListQuiet BY <1>1 DEF ListQuiet, Behind
<1>2. ASSUME NEW t \in Threads, Allocates(t) PROVE Behind \subseteq Behind'
  BY <1>0, <1>2, BehindMoves
<1>3. CASE Free BY <1>3 DEF Free, Behind
<1>4. QED BY <1>0, <1>1, <1>2, <1>3, ListStepKinds

\* A thread about to cut an element loaded its block from primaryBlock.
LEMMA BlockLoaded ==
  ASSUME TypeOK, [Next]_vars, NEW u \in Threads, pc'[u] \in {"take_taken", "take_bump"}
  PROVE  \/ pc[u] \in {"take_taken", "take_bump"} /\ block'[u] = block[u]
         \/ block'[u] = primaryBlock
<1> DEFINE Loaded == \/ pc[u] \in {"take_taken", "take_bump"} /\ block'[u] = block[u]
                     \/ block'[u] = primaryBlock
<1>1. ASSUME NEW t \in Threads, BeginTake(t) \/ Step(t) PROVE Loaded
  <2> USE DEF TypeOK, Goto, locals
  <2>1. CASE BeginTake(t) \/ TakeLoad(t) \/ TakeNext(t) \/ TakeCas(t) \/ TakeCasFails(t) \/ TakeSub(t)
    BY <2>1 DEF BeginTake, TakeLoad, TakeNext, TakeCas, TakeCasFails, TakeSub
  <2>2. CASE TakeBlock(t) BY <2>2 DEF TakeBlock
  <2>3. CASE TakeTaken(t) BY <2>3 DEF TakeTaken
  <2>4. CASE TakeBump(t) \/ TakeBumpFails(t)
    BY <2>4 DEF TakeBump, TakeBumpFails
  <2>5. CASE AllocFlag(t) \/ AllocFlagFails(t) \/ AllocAdvance(t) \/ AllocNew(t)
    BY <2>5 DEF AllocFlag, AllocFlagFails, AllocAdvance, AllocNew
  <2>6. CASE AllocPublish(t) \/ AllocLink(t) \/ AllocRelease(t)
    BY <2>6 DEF AllocPublish, AllocLink, AllocRelease
  <2>7. CASE ReturnLoad(t) \/ ReturnLink(t) \/ ReturnCas(t) \/ ReturnCasFails(t) \/ ReturnAdd(t)
    BY <2>7 DEF ReturnLoad, ReturnLink, ReturnCas, ReturnCasFails, ReturnAdd
  <2>8. QED BY <1>1, <2>1, <2>2, <2>3, <2>4, <2>5, <2>6, <2>7 DEF Step
<1>2. ASSUME NEW t \in Threads, NEW e \in Element, BeginReturn(t, e) PROVE Loaded
  BY <1>2 DEF BeginReturn, TypeOK, Goto
<1>3. CASE Clear \/ Reset \/ Free
  BY <1>3 DEF Clear, Reset, Free, locals
<1>4. CASE UNCHANGED vars BY <1>4 DEF vars
<1>5. QED BY <1>1, <1>2, <1>3, <1>4 DEF Next

\* Clear and Reset set every counter back: those behind the primary block they
\* rewind, the others count nothing.
LEMMA RewindsAll ==
  ASSUME PoolInv, ListInv, CutBehindInv, Clear \/ Reset
  PROVE  \A b \in Block : taken'[b] = 0
<1>1. taken' = Rewound(Behind) BY DEF Clear, Reset, Behind
<1>2. QED BY <1>1 DEF Rewound, CutBehindInv

\* Elements are cut only from the primary block and the ones behind it: a thread
\* that has loaded the primary block may see it move on, never back.
LEMMA CutBehindStep ==
  PoolInv /\ ListInv /\ AllocInv /\ CutBehindInv /\ [Next]_vars => CutBehindInv'
<1> SUFFICES ASSUME PoolInv, ListInv, AllocInv, CutBehindInv, [Next]_vars
             PROVE  CutBehindInv'
  OBVIOUS
<1>0. TypeOK /\ TypeOK' /\ BlocksInv /\ CutInv /\ LocalsInv BY PoolInvStep DEF PoolInv
<1>1. primaryBlock \in Behind
  <2>1. primaryBlock \in Block /\ prevBlock \in [Block -> Block \cup {NULL}]
    BY <1>0 DEF TypeOK
  <2>2. QED BY <2>1, ChainProps DEF Behind
<1>2. CASE Clear \/ Reset
  <2>1. \A b \in Block : taken'[b] = 0 BY <1>2, RewindsAll
  <2>2. \A t \in Threads : pc'[t] = "idle" BY <1>2 DEF Clear, Reset, Idle
  <2>3. QED BY <2>1, <2>2 DEF CutBehindInv
<1>3. CASE ~Clear /\ ~Reset
  <2>1. Behind \subseteq Behind' BY <1>3, BehindGrows
  <2>2. \A t \in Threads : pc'[t] \in {"take_taken", "take_bump"} => block'[t] \in Behind'
    BY <1>0, <1>1, <2>1, BlockLoaded DEF CutBehindInv
  <2>3. \A b \in Block : taken'[b] = taken[b] \/ b \in Behind
    <3>1. CASE Quiet BY <3>1 DEF Quiet
    <3>2. ASSUME NEW t \in Threads, Moves(t)
          PROVE  \A b \in Block : taken'[b] = taken[b] \/ b \in Behind
      <4>1. CASE TakeBump(t)
        <5>1. taken' = [taken EXCEPT ![block[t]] = @ + 1] /\ pc[t] = "take_bump"
          BY <1>0, <4>1, TakeBumpMoves DEF TakeBump, Goto
        <5>2. block[t] \in Behind BY <5>1 DEF CutBehindInv
        <5>3. QED BY <1>0, <5>1, <5>2 DEF TypeOK
      <4>2. CASE TakeCas(t) \/ ReturnLink(t) \/ ReturnCas(t)
        BY <4>2 DEF TakeCas, ReturnLink, ReturnCas, blocks
      <4>3. QED BY <3>2, <4>1, <4>2 DEF Moves
    <3>3. CASE Free BY <3>3 DEF Free
    <3>4. QED BY <1>0, <1>3, <3>1, <3>2, <3>3, StepKinds
  <2>4. QED BY <2>1, <2>2, <2>3 DEF CutBehindInv
<1>4. QED BY <1>2, <1>3

\* No step loses an element: what a pop takes off the stack it holds, what a push
\* lets go is on the stack, and a counter is raised for an element held.
LEMMA AccountedStep ==
  PoolInv /\ ListInv /\ AllocInv /\ CutBehindInv /\ ElementsAccounted /\ [Next]_vars
      => ElementsAccounted'
<1> SUFFICES ASSUME PoolInv, ListInv, AllocInv, CutBehindInv, ElementsAccounted,
                    [Next]_vars, open', NEW e \in Element, e[2] < taken'[e[1]],
                    ~ \E u \in Threads : e \in Held(u)'
             PROVE  rank'[e] > 0
  BY PoolInvStep DEF ElementsAccounted, CutInv, PoolInv
<1>0. TypeOK /\ BlocksInv /\ CutInv /\ LocalsInv /\ FreeListIntact
        /\ ExclusiveOwnership /\ PopInstallsNext
  BY DEF PoolInv
<1>1. e[1] \in Block /\ e[2] \in Nat BY DEF Element, Slot
<1>2. open
  <2>1. CASE ListQuiet BY <2>1 DEF ListQuiet
  <2>2. ASSUME NEW t \in Threads, Allocates(t) PROVE open
    BY <2>2 DEF Allocates, AllocFlag, AllocAdvance, AllocNew, AllocPublish,
                AllocLink, AllocRelease
  <2>3. CASE Clear \/ Reset \/ Free BY <2>3 DEF Clear, Reset, Free
  <2>4. QED BY <1>0, <2>1, <2>2, <2>3, ListStepKinds
<1>3. e[2] < taken[e[1]] => rank[e] > 0 \/ \E u \in Threads : e \in Held(u)
  BY <1>2 DEF ElementsAccounted
<1>4. CASE Quiet
  BY <1>3, <1>4 DEF Quiet
<1>5. ASSUME NEW t \in Threads, TakeCas(t) PROVE rank'[e] > 0
  <2>1. /\ freeStack.ptr \in Element
        /\ rank' = [rank EXCEPT ![freeStack.ptr] = 0] /\ taken' = taken
        /\ Held(t)' = Held(t) \cup {freeStack.ptr}
        /\ \A u \in Threads : u # t => Held(u)' = Held(u)
    BY <1>0, <1>5, TakeCasMoves
  <2>2. e # freeStack.ptr => rank'[e] = rank[e] BY <1>0, <2>1 DEF TypeOK
  <2>3. QED BY <1>3, <2>1, <2>2
<1>6. ASSUME NEW t \in Threads, TakeBump(t) PROVE rank'[e] > 0
  <2> DEFINE f == <<block[t], blockTaken[t]>>
  <2>1. /\ rank' = rank
        /\ taken' = [taken EXCEPT ![block[t]] = @ + 1] /\ taken[block[t]] = blockTaken[t]
        /\ Held(t)' = Held(t) \cup {f}
        /\ \A u \in Threads : u # t => Held(u)' = Held(u)
    BY <1>0, <1>6, TakeBumpMoves
  <2>2. e # f BY <2>1
  <2>3. e[1] = block[t] => e[2] # blockTaken[t]
    BY <2>2 DEF Element
  <2>4. taken'[e[1]] = IF e[1] = block[t] THEN taken[e[1]] + 1 ELSE taken[e[1]]
    BY <1>0, <1>1, <2>1 DEF TypeOK
  <2>5. taken[e[1]] \in Nat BY <1>0, <1>1 DEF TypeOK
  <2>6. e[2] < taken[e[1]] BY <1>1, <2>1, <2>3, <2>4, <2>5
  <2>7. QED BY <1>3, <2>1, <2>6
<1>7. ASSUME NEW t \in Threads, ReturnLink(t) PROVE rank'[e] > 0
  BY <1>0, <1>3, <1>7, ReturnLinkMoves
<1>8. ASSUME NEW t \in Threads, ReturnCas(t) PROVE rank'[e] > 0
  <2>1. /\ node[t] \in Element
        /\ rank' = [rank EXCEPT ![node[t]] = Height + 1] /\ taken' = taken
        /\ Held(t)' = Held(t) \ {node[t]}
        /\ \A u \in Threads : u # t => Held(u)' = Held(u)
    BY <1>0, <1>8, ReturnCasMoves
  <2>2. Height + 1 > 0 BY <1>0 DEF Height, TypeOK, Pointer
  <2>3. rank'[e] = IF e = node[t] THEN Height + 1 ELSE rank[e]
    BY <1>0, <2>1 DEF TypeOK
  <2>4. QED BY <1>3, <2>1, <2>2, <2>3
<1>9. CASE Clear \/ Reset
  <2>1. taken'[e[1]] = 0 BY <1>1, <1>9, RewindsAll
  <2>2. QED BY <1>1, <2>1
<1>10. CASE Free BY <1>10 DEF Free
<1>11. QED BY <1>0, <1>4, <1>5, <1>6, <1>7, <1>8, <1>9, <1>10, StepKinds DEF Moves

-------------------------------------------------------------------------------
\* What is ahead of the primary block before it steps forward is then the old
\* primary block or ahead of the new one.
LEMMA AheadStep ==
  ASSUME NEW c \in [Block -> Block \cup {NULL}], NEW start \in Block, c[start] # NULL
  PROVE  ChainFrom(c, start) \subseteq {start} \cup ChainFrom(c, c[start])
<1> DEFINE D == ChainFrom(c, c[start])  C == ChainFrom(c, start)
<1>1. c[start] \in Block OBVIOUS
<1>2. /\ D \subseteq Block /\ c[start] \in D
      /\ \A b \in D : c[b] # NULL => c[b] \in D
  BY <1>1, ChainProps
<1>3. \A S \in SUBSET Block :
             start \in S /\ (\A b \in S : c[b] \in S \cup {NULL}) => C \subseteq S
  BY ChainProps
<1> HIDE DEF C, D
<1>4. {start} \cup D \in SUBSET Block BY <1>2
<1>5. \A b \in {start} \cup D : c[b] \in ({start} \cup D) \cup {NULL} BY <1>2
<1>6. C \subseteq {start} \cup D BY <1>3, <1>4, <1>5
<1>7. QED BY <1>6 DEF C, D

\* When every block behind the primary one is pointed to by its predecessor,
\* all of them, and all ahead of it, are ahead of the first.
LEMMA AllAheadOfFirst ==
  ASSUME TypeOK, ListInv, open, NEW first \in Behind, prevBlock[first] = NULL,
         \A b \in Behind : prevBlock[b] = NULL \/ nextBlock[prevBlock[b]] = b
  PROVE  Behind \cup Ahead \subseteq ChainFrom(nextBlock, first)
<1> DEFINE A == ChainFrom(nextBlock, first)
<1>0. /\ primaryBlock \in Block
      /\ prevBlock \in [Block -> Block \cup {NULL}] /\ nextBlock \in [Block -> Block \cup {NULL}]
  BY DEF TypeOK
<1>1. /\ Behind \subseteq Block /\ primaryBlock \in Behind
      /\ \A b \in Behind : prevBlock[b] # NULL => prevBlock[b] \in Behind
  BY <1>0, ChainProps DEF Behind
<1>2. /\ A \subseteq Block /\ first \in A
      /\ \A b \in A : nextBlock[b] # NULL => nextBlock[b] \in A
  BY <1>0, <1>1, ChainProps
<1>3. \A S \in SUBSET Block :
          primaryBlock \in S /\ (\A b \in S : nextBlock[b] \in S \cup {NULL}) => Ahead \subseteq S
  BY <1>0, ChainProps DEF Ahead
<1> HIDE DEF A
<1>4. \A b \in Behind : prevBlock[b] = NULL => b = first
  <2>1. Behind \subseteq 1 .. totalBlocks BY DEF ListInv
  <2>2. \A b \in 1 .. totalBlocks : b = 1 \/ b \in 2 .. totalBlocks
    BY DEF TypeOK, Block
  <2>3. \A b \in Behind : prevBlock[b] = NULL => b = 1 BY <2>1, <2>2 DEF ListInv
  <2>4. QED BY <2>3
<1>5. Behind \subseteq A
  <2> SUFFICES ASSUME Behind \ A # {} PROVE FALSE
    OBVIOUS
  <2>0. Block \subseteq Nat /\ Nat \subseteq Int BY DEF Block
  <2>1. Behind \ A \in SUBSET Nat BY <1>1, <2>0
  <2>2. PICK x \in Behind \ A : \A y \in Behind \ A : x <= y BY <2>1, LeastNat
  <2>3. x # first /\ x \in Block BY <1>1, <1>2
  <2>4. prevBlock[x] # NULL /\ nextBlock[prevBlock[x]] = x BY <1>4, <2>3
  <2>5. prevBlock[x] \in Behind /\ prevBlock[x] < x BY <1>1, <2>3, <2>4 DEF ListInv
  <2>6. prevBlock[x] \notin A BY <1>2, <2>3, <2>4, PoolAssumption
  <2>7. x <= prevBlock[x] BY <2>2, <2>5, <2>6
  <2>8. x \in Int /\ prevBlock[x] \in Int BY <1>1, <2>0, <2>3, <2>5
  <2>9. QED BY <2>5, <2>7, <2>8
<1>6. Ahead \subseteq A BY <1>1, <1>2, <1>3, <1>5
<1>7. QED BY <1>5, <1>6 DEF A

\* Allocate loses no block: the one it adds hangs from the list from the moment
\* it is published, and the holder of the flag completes the link.
LEMMA OnListStep ==
  PoolInv /\ ListInv /\ AllocInv /\ OnListInv /\ [Next]_vars => OnListInv'
<1> DEFINE Placed(b) == \/ b \in Behind \cup Ahead
                        \/ \E t \in Threads : pc[t] = "alloc_publish" /\ block[t] = b
           Linked(b) == \/ prevBlock[b] = NULL \/ nextBlock[prevBlock[b]] = b
                        \/ \E t \in Threads : pc[t] \in {"alloc_publish", "alloc_link"}
                                                /\ block[t] = b
<1> SUFFICES ASSUME PoolInv, ListInv, AllocInv, OnListInv, [Next]_vars,
                    open', "reset" \notin Maintenance, NEW b \in live'
             PROVE  Placed(b)' /\ Linked(b)'
  BY DEF OnListInv
<1>0. TypeOK /\ TypeOK' /\ BlocksInv /\ LocalsInv BY PoolInvStep DEF PoolInv
<1>1. /\ primaryBlock \in Block /\ primaryBlock # NULL
      /\ prevBlock \in [Block -> Block \cup {NULL}] /\ nextBlock \in [Block -> Block \cup {NULL}]
      /\ primaryBlock \in Behind
      /\ totalBlocks \in Int /\ b \in Block
  <2>1. /\ primaryBlock \in Block
        /\ prevBlock \in [Block -> Block \cup {NULL}] /\ nextBlock \in [Block -> Block \cup {NULL}]
        /\ totalBlocks \in Int /\ b \in Block
    BY <1>0 DEF TypeOK, Block
  <2>2. QED BY <2>1, PoolAssumption, ChainProps DEF Behind
<1>2. open
  <2>1. CASE ListQuiet BY <2>1 DEF ListQuiet
  <2>2. ASSUME NEW t \in Threads, Allocates(t) PROVE open
    BY <2>2 DEF Allocates, AllocFlag, AllocAdvance, AllocNew, AllocPublish,
                AllocLink, AllocRelease
  <2>3. CASE Clear \/ Reset \/ Free BY <2>3 DEF Clear, Reset, Free
  <2>4. QED BY <1>0, <2>1, <2>2, <2>3, ListStepKinds
<1>3. b \in live => Placed(b) /\ Linked(b)
  BY <1>2 DEF OnListInv
<1>4. ASSUME NEW t \in Threads, pc[t] \in AllocPc
      PROVE  \A u \in Threads : u # t =>
                 pc[u] \notin AllocPc /\ pc[u] \notin {"alloc_publish", "alloc_link"}
  BY <1>4 DEF AllocInv, AllocPc
<1>5. nextBlock[primaryBlock] = NULL => Ahead \subseteq Behind
  BY <1>1, ChainEnd DEF Ahead
<1>6. CASE ListQuiet
  <2>1. /\ UNCHANGED <<primaryBlock, nextBlock, prevBlock, live>>
        /\ \A u \in Threads : pc[u] \in AllocPc => pc'[u] = pc[u] /\ block'[u] = block[u]
    BY <1>6 DEF ListQuiet
  <2>2. "alloc_publish" \in AllocPc /\ "alloc_link" \in AllocPc BY DEF AllocPc
  <2>3. \A u \in Threads : pc[u] \in {"alloc_publish", "alloc_link"} => pc[u] \in AllocPc
    BY <2>2
  <2>4. Placed(b) /\ Linked(b) BY <1>3, <2>1
  <2>5. QED BY <2>1, <2>2, <2>3, <2>4 DEF Behind, Ahead
<1>7. ASSUME NEW t \in Threads, AllocFlag(t) \/ AllocRelease(t)
      PROVE  Placed(b)' /\ Linked(b)'
  <2>1. /\ UNCHANGED <<primaryBlock, nextBlock, prevBlock, live, block>>
        /\ \A u \in Threads : pc[u] \in {"alloc_publish", "alloc_link"} => pc'[u] = pc[u]
    BY <1>0, <1>7 DEF AllocFlag, AllocRelease, Goto, TypeOK, locals
  <2>2. Placed(b) /\ Linked(b) BY <1>3, <2>1
  <2>3. QED BY <2>1, <2>2 DEF Behind, Ahead
<1>8. ASSUME NEW t \in Threads, AllocAdvance(t) PROVE Placed(b)' /\ Linked(b)'
  <2>1. /\ UNCHANGED <<nextBlock, prevBlock, live, block>>
        /\ nextBlock[primaryBlock] # NULL /\ primaryBlock' = nextBlock[primaryBlock]
        /\ pc[t] = "alloc_primary" /\ pc[t] \in AllocPc
    BY <1>8 DEF AllocAdvance, Goto, locals, AllocPc
  <2>2. \A u \in Threads : pc[u] \notin {"alloc_publish", "alloc_link"}
    BY <1>4, <2>1
  <2>3. Behind' = Behind \cup {nextBlock[primaryBlock]}
    BY <1>0, <1>8, BehindMoves DEF Allocates
  <2>4. Ahead \subseteq {primaryBlock} \cup Ahead'
    BY <1>1, <2>1, AheadStep DEF Ahead
  <2>5. Placed(b) /\ Linked(b) BY <1>3, <2>1
  <2>6. QED BY <1>1, <2>1, <2>2, <2>3, <2>4, <2>5
<1>9. ASSUME NEW t \in Threads, AllocNew(t) PROVE Placed(b)' /\ Linked(b)'
  <2> DEFINE new == totalBlocks + 1
  <2>1. /\ pc[t] = "alloc_primary" /\ pc[t] \in AllocPc
        /\ pc' = [pc EXCEPT ![t] = "alloc_publish"]
        /\ block' = [block EXCEPT ![t] = new]
        /\ live' = live \cup {new}
        /\ prevBlock' = [prevBlock EXCEPT ![new] = primaryBlock]
        /\ nextBlock' = [nextBlock EXCEPT ![new] = NULL]
        /\ nextBlock[primaryBlock] = NULL
    BY <1>9 DEF AllocNew, Goto, AllocPc
  <2>2. new \in Block BY <1>0, <1>9 DEF AllocNew, TypeOK, Block
  <2>3. pc'[t] = "alloc_publish" /\ block'[t] = new BY <1>0, <2>1 DEF TypeOK
  <2>4. CASE b = new BY <2>3, <2>4
  <2>5. CASE b # new
    <3>1. b \in live /\ \A u \in Threads : pc[u] \notin {"alloc_publish", "alloc_link"}
      BY <1>4, <2>1, <2>5
    <3>2. Placed(b) /\ Linked(b) BY <1>3, <3>1
    <3>3. Behind' = Behind
      BY <1>0, <1>9, BehindMoves DEF Allocates, AllocNew, AllocAdvance, AllocPublish, Goto
    <3>4. b \in Behind' BY <1>5, <2>1, <3>1, <3>2, <3>3
    <3>5. prevBlock'[b] = prevBlock[b] BY <1>1, <2>1, <2>5
    <3>6. prevBlock[b] # NULL => prevBlock[b] # new
      <4>1. b \in 1 .. totalBlocks BY <3>1 DEF ListInv
      <4>2. prevBlock[b] # NULL => prevBlock[b] < b /\ prevBlock[b] \in Int
        BY <1>1 DEF ListInv, Block
      <4>3. QED BY <1>1, <4>1, <4>2
    <3>7. prevBlock[b] # NULL => nextBlock'[prevBlock[b]] = nextBlock[prevBlock[b]]
      BY <1>1, <2>1, <2>2, <3>6
    <3>8. QED BY <3>1, <3>2, <3>4, <3>5, <3>7
  <2>6. QED BY <2>4, <2>5
<1>10. ASSUME NEW t \in Threads, AllocPublish(t) PROVE Placed(b)' /\ Linked(b)'
  <2>1. /\ pc[t] = "alloc_publish" /\ pc[t] \in AllocPc
        /\ pc' = [pc EXCEPT ![t] = "alloc_link"]
        /\ UNCHANGED <<nextBlock, prevBlock, live, block>>
    BY <1>10 DEF AllocPublish, Goto, locals, AllocPc
  <2>2. nextBlock[primaryBlock] = NULL BY <2>1 DEF AllocInv
  <2>3. Behind' = Behind \cup {block[t]}
    BY <1>0, <1>10, BehindMoves DEF Allocates
  <2>4. /\ pc'[t] = "alloc_link"
        /\ \A u \in Threads : u # t => pc[u] \notin {"alloc_publish", "alloc_link"}
    BY <1>0, <1>4, <2>1 DEF TypeOK
  <2>5. Placed(b) /\ Linked(b) BY <1>3, <2>1
  <2>6. b \in Behind' BY <1>5, <2>2, <2>3, <2>4, <2>5
  <2>7. QED BY <2>1, <2>4, <2>5, <2>6
<1>11. ASSUME NEW t \in Threads, AllocLink(t) PROVE Placed(b)' /\ Linked(b)'
  <2> DEFINE old == prevBlock[primaryBlock]
  <2>1. /\ pc[t] = "alloc_link" /\ pc[t] \in AllocPc
        /\ nextBlock' = [nextBlock EXCEPT ![prevBlock[block[t]]] = block[t]]
        /\ UNCHANGED <<primaryBlock, prevBlock, live>>
    BY <1>11 DEF AllocLink, Goto, AllocPc
  <2>2. /\ block[t] = primaryBlock /\ old # NULL /\ old \in Block
        /\ nextBlock[primaryBlock] = NULL /\ nextBlock[old] = NULL
    BY <1>1, <2>1 DEF AllocInv
  <2>3. \A u \in Threads : u # t => pc[u] \notin {"alloc_publish", "alloc_link"}
    BY <1>4, <2>1
  <2>4. Placed(b) /\ Linked(b) BY <1>3, <2>1
  <2>5. b \in Behind' BY <1>5, <2>1, <2>2, <2>3, <2>4 DEF Behind
  <2>6. \A c \in Block : nextBlock'[c] = IF c = old THEN primaryBlock ELSE nextBlock[c]
    BY <1>1, <2>1, <2>2
  <2>7. CASE b = primaryBlock
    BY <2>1, <2>2, <2>5, <2>6, <2>7
  <2>8. CASE b # primaryBlock
    <3>1. prevBlock[b] = NULL \/ nextBlock[prevBlock[b]] = b BY <2>2, <2>3, <2>4, <2>8
    <3>2. prevBlock[b] # NULL => prevBlock[b] # old /\ prevBlock[b] \in Block
      BY <1>1, <2>2, <3>1, PoolAssumption
    <3>3. QED BY <2>1, <2>5, <2>6, <3>1, <3>2
  <2>9. QED BY <2>7, <2>8
<1>12. CASE Clear
  <2>1. /\ primaryBlock' \in Behind /\ prevBlock[primaryBlock'] = NULL
        /\ Idle /\ UNCHANGED <<prevBlock, pc, block>>
    BY <1>0, <1>12, Rewinds
  <2>2. UNCHANGED <<nextBlock, live>> BY <1>12 DEF Clear
  <2>3. Behind \subseteq live BY <1>2 DEF ListInv
  <2>4. \A c \in Behind : prevBlock[c] = NULL \/ nextBlock[prevBlock[c]] = c
    BY <1>2, <2>1, <2>3 DEF OnListInv, Idle
  <2>5. Behind \cup Ahead \subseteq ChainFrom(nextBlock, primaryBlock')
    BY <1>0, <1>2, <2>1, <2>4, AllAheadOfFirst
  <2>6. Ahead' = ChainFrom(nextBlock, primaryBlock') BY <2>2 DEF Ahead
  <2>7. Placed(b) /\ Linked(b) BY <1>3, <2>2
  <2>8. QED BY <2>1, <2>2, <2>5, <2>6, <2>7 DEF Idle
<1>13. ~Reset /\ ~Free
  BY DEF Reset, Free
<1>14. QED BY <1>0, <1>6, <1>7, <1>8, <1>9, <1>10, <1>11, <1>12, <1>13, ListStepKinds
            DEF Allocates

-------------------------------------------------------------------------------
\* The sets whose sizes freeLength is compared with are finite.
LEMMA LengthSets ==
  ASSUME TypeOK
  PROVE  /\ IsFiniteSet(Stacked) /\ Cardinality(Stacked) \in Nat
         /\ IsFiniteSet(Popped) /\ Cardinality(Popped) \in Nat
         /\ IsFiniteSet(Pushed) /\ Cardinality(Pushed) \in Nat
<1>1. IsFiniteSet(Block) /\ IsFiniteSet(Slot)
  BY PoolAssumption, FS_Interval DEF Block, Slot
<1>2. IsFiniteSet(Element) BY <1>1, FS_Product DEF Element
<1>3. IsFiniteSet(Threads) BY PoolAssumption
<1>4. Stacked \subseteq Element /\ Popped \subseteq Threads /\ Pushed \subseteq Threads
  BY DEF Stacked, Popped, Pushed
<1>5. QED BY <1>2, <1>3, <1>4, FS_Subset, FS_CardinalityType

\* freeLength as a number modulo the size of its word.
LEMMA LengthAdds ==
  ASSUME NEW n \in Int
  PROVE  /\ Count(Count(n) - 1) = Count(n - 1)
         /\ Count(Count(n) + 1) = Count(n + 1)
<1>1. LengthModulus \in Nat \ {0} /\ Count(n) \in Int BY PoolAssumption DEF Count
<1>0. \A d \in Int : Count(Count(n) + d) = Count(n + d) BY <1>1, ModAdds DEF Count
<1>2. Count(Count(n) + (-1)) = Count(n + (-1)) BY <1>0
<1>3. Count(Count(n) + 1) = Count(n + 1) BY <1>0
<1>4. n + (-1) = n - 1 /\ Count(n) + (-1) = Count(n) - 1 BY <1>1
<1>5. QED BY <1>2, <1>3, <1>4

\* Most steps move neither freeLength nor what it counts.
LengthQuiet == UNCHANGED <<freeLength, Stacked, Popped, Pushed>>

\* The steps that do, besides Clear and Reset.
LEMMA LengthStepKinds ==
  ASSUME TypeOK, [Next]_vars, ~Clear, ~Reset
  PROVE  \/ LengthQuiet
         \/ \E t \in Threads : TakeCas(t) \/ TakeSub(t) \/ ReturnCas(t) \/ ReturnAdd(t)
<1> SUFFICES ASSUME ~ \E t \in Threads : TakeCas(t) \/ TakeSub(t) \/ ReturnCas(t)
                                            \/ ReturnAdd(t)
             PROVE  LengthQuiet
  OBVIOUS
<1> DEFINE Same == /\ UNCHANGED <<freeLength, rank>>
                   /\ \A u \in Threads : /\ pc'[u] = "take_sub" <=> pc[u] = "take_sub"
                                         /\ pc'[u] = "ret_add" <=> pc[u] = "ret_add"
<1>1. Same => LengthQuiet BY DEF LengthQuiet, Stacked, Popped, Pushed
<1>2. ASSUME NEW t \in Threads, BeginTake(t) \/ Step(t) PROVE Same
  <2> USE DEF TypeOK, Goto, shared, blocks, locals
  <2>1. CASE BeginTake(t) \/ TakeLoad(t) \/ TakeNext(t) \/ TakeCasFails(t)
    BY <2>1 DEF BeginTake, TakeLoad, TakeNext, TakeCasFails
  <2>2. CASE TakeBlock(t) \/ TakeTaken(t) \/ TakeBump(t) \/ TakeBumpFails(t)
    BY <2>2 DEF TakeBlock, TakeTaken, TakeBump, TakeBumpFails
  <2>3. CASE AllocFlag(t) \/ AllocFlagFails(t) \/ AllocAdvance(t) \/ AllocNew(t)
    BY <2>3 DEF AllocFlag, AllocFlagFails, AllocAdvance, AllocNew
  <2>4. CASE AllocPublish(t) \/ AllocLink(t) \/ AllocRelease(t)
    BY <2>4 DEF AllocPublish, AllocLink, AllocRelease
  <2>5. CASE ReturnLoad(t) \/ ReturnLink(t) \/ ReturnCasFails(t)
    BY <2>5 DEF ReturnLoad, ReturnLink, ReturnCasFails
  <2>6. QED BY <1>2, <2>1, <2>2, <2>3, <2>4, <2>5 DEF Step
<1>3. ASSUME NEW t \in Threads, NEW e \in Element, BeginReturn(t, e) PROVE Same
  BY <1>3 DEF BeginReturn, TypeOK, Goto, shared, blocks
<1>4. Free => Same BY DEF Free, shared
<1>5. UNCHANGED vars => Same BY DEF vars
<1>6. QED BY <1>1, <1>2, <1>3, <1>4, <1>5 DEF Next

\* freeLength follows the stack: a pop or a push leaves a debt, which the thread
\* that did it pays, in whatever order the debts come due.
LEMMA LengthStep == PoolInv /\ LengthInv /\ [Next]_vars => LengthInv'
<1> SUFFICES ASSUME PoolInv, LengthInv, [Next]_vars PROVE LengthInv'
  OBVIOUS
<1>0. /\ TypeOK /\ LocalsInv /\ FreeListIntact /\ ExclusiveOwnership /\ PopInstallsNext
      /\ TypeOK'
  BY PoolInvStep DEF PoolInv
<1> DEFINE S == Cardinality(Stacked)  P == Cardinality(Popped)  Q == Cardinality(Pushed)
<1>1. /\ IsFiniteSet(Stacked) /\ S \in Nat
      /\ IsFiniteSet(Popped) /\ P \in Nat
      /\ IsFiniteSet(Pushed) /\ Q \in Nat
  BY <1>0, LengthSets
<1>2. freeLength = Count(S + P - Q) BY DEF LengthInv
<1>3. LengthInv' <=> freeLength' = Count(S' + P' - Q')
  BY DEF LengthInv, Count
<1> HIDE DEF S, P, Q
<1>4. CASE LengthQuiet
  BY <1>2, <1>3, <1>4 DEF LengthQuiet, S, P, Q
<1>5. ASSUME NEW t \in Threads, TakeCas(t) PROVE LengthInv'
  <2>1. /\ freeStack.ptr \in Element /\ rank[freeStack.ptr] > 0
        /\ rank' = [rank EXCEPT ![freeStack.ptr] = 0]
    BY <1>0, <1>5, TakeCasMoves
  <2>2. /\ pc[t] = "take_cas" /\ pc' = [pc EXCEPT ![t] = "take_sub"]
        /\ freeLength' = freeLength
    BY <1>5 DEF TakeCas, Goto
  <2>3. Stacked' = Stacked \ {freeStack.ptr} /\ freeStack.ptr \in Stacked
    BY <1>0, <2>1 DEF Stacked, TypeOK
  <2>4. /\ Popped' = Popped \cup {t} /\ t \notin Popped
        /\ Pushed' = Pushed
    BY <1>0, <2>2 DEF Popped, Pushed, TypeOK
  <2>5. S' = S - 1 BY <1>1, <2>3, FS_RemoveElement DEF S
  <2>6. P' = P + 1 BY <1>1, <2>4, FS_AddElement DEF P
  <2>7. Q' = Q BY <2>4 DEF Q
  <2>8. S' + P' - Q' = S + P - Q BY <1>1, <2>5, <2>6, <2>7
  <2>9. QED BY <1>2, <1>3, <2>2, <2>8
<1>6. ASSUME NEW t \in Threads, TakeSub(t) PROVE LengthInv'
  <2>1. /\ pc[t] = "take_sub" /\ pc' = [pc EXCEPT ![t] = "idle"]
        /\ freeLength' = Count(freeLength - 1) /\ rank' = rank
    BY <1>6 DEF TakeSub, Goto
  <2>2. /\ Popped' = Popped \ {t} /\ t \in Popped
        /\ Pushed' = Pushed /\ Stacked' = Stacked
    BY <1>0, <2>1 DEF Popped, Pushed, Stacked, TypeOK
  <2>3. P' = P - 1 BY <1>1, <2>2, FS_RemoveElement DEF P
  <2>4. S' = S /\ Q' = Q BY <2>2 DEF S, Q
  <2>5. S + P - Q \in Int /\ S' + P' - Q' = (S + P - Q) - 1 BY <1>1, <2>3, <2>4
  <2>6. QED BY <1>2, <1>3, <2>1, <2>5, LengthAdds
<1>7. ASSUME NEW t \in Threads, ReturnCas(t) PROVE LengthInv'
  <2>1. /\ node[t] \in Element /\ rank[node[t]] = 0
        /\ rank' = [rank EXCEPT ![node[t]] = Height + 1]
    BY <1>0, <1>7, ReturnCasMoves
  <2>2. /\ pc[t] = "ret_cas" /\ pc' = [pc EXCEPT ![t] = "ret_add"]
        /\ freeLength' = freeLength
    BY <1>7 DEF ReturnCas, Goto
  <2>3. Height + 1 > 0 BY <1>0 DEF Height, TypeOK, Pointer
  <2>4. Stacked' = Stacked \cup {node[t]} /\ node[t] \notin Stacked
    BY <1>0, <2>1, <2>3 DEF Stacked, TypeOK
  <2>5. /\ Pushed' = Pushed \cup {t} /\ t \notin Pushed
        /\ Popped' = Popped
    BY <1>0, <2>2 DEF Popped, Pushed, TypeOK
  <2>6. S' = S + 1 BY <1>1, <2>4, FS_AddElement DEF S
  <2>7. Q' = Q + 1 BY <1>1, <2>5, FS_AddElement DEF Q
  <2>8. P' = P BY <2>5 DEF P
  <2>9. S' + P' - Q' = S + P - Q BY <1>1, <2>6, <2>7, <2>8
  <2>10. QED BY <1>2, <1>3, <2>2, <2>9
<1>8. ASSUME NEW t \in Threads, ReturnAdd(t) PROVE LengthInv'
  <2>1. /\ pc[t] = "ret_add" /\ pc' = [pc EXCEPT ![t] = "idle"]
        /\ freeLength' = Count(freeLength + 1) /\ rank' = rank
    BY <1>8 DEF ReturnAdd, Goto
  <2>2. /\ Pushed' = Pushed \ {t} /\ t \in Pushed
        /\ Popped' = Popped /\ Stacked' = Stacked
    BY <1>0, <2>1 DEF Popped, Pushed, Stacked, TypeOK
  <2>3. Q' = Q - 1 BY <1>1, <2>2, FS_RemoveElement DEF Q
  <2>4. S' = S /\ P' = P BY <2>2 DEF S, P
  <2>5. S + P - Q \in Int /\ S' + P' - Q' = (S + P - Q) + 1 BY <1>1, <2>3, <2>4
  <2>6. QED BY <1>2, <1>3, <2>1, <2>5, LengthAdds
<1>9. CASE Clear \/ Reset
  <2>1. /\ freeLength' = 0 /\ \A e \in Element : rank'[e] = 0
        /\ \A u \in Threads : pc'[u] = "idle"
    BY <1>9 DEF Clear, Reset, EmptyStack, Idle
  <2>2. Stacked' = {} /\ Popped' = {} /\ Pushed' = {} BY <2>1 DEF Stacked, Popped, Pushed
  <2>3. S' = 0 /\ P' = 0 /\ Q' = 0 BY <2>2, FS_EmptySet DEF S, P, Q
  <2>4. Count(0 + 0 - 0) = 0 BY PoolAssumption DEF Count
  <2>5. QED BY <1>3, <2>1, <2>3, <2>4
<1>10. QED BY <1>0, <1>4, <1>5, <1>6, <1>7, <1>8, <1>9, LengthStepKinds

-------------------------------------------------------------------------------
\* A pool just initialised has one block and nothing cut from it,
LEMMA PoolListInit == Init => PoolListInv
<1> SUFFICES ASSUME Init PROVE PoolListInv
  OBVIOUS
<1>1. PoolInv BY PoolInvInit
<1>2. TypeOK BY <1>1 DEF PoolInv
<1>3. /\ primaryBlock = 1 /\ 1 \in Block /\ prevBlock \in [Block -> Block \cup {NULL}]
      /\ totalBlocks = 1
      /\ \A b \in Block : prevBlock[b] = NULL /\ nextBlock[b] = NULL
  BY <1>2, PoolAssumption DEF Init, Block, TypeOK
<1>4. Behind = {1} BY <1>3, ChainEnd DEF Behind
<1>5. ListInv BY <1>3, <1>4 DEF Init, ListInv
<1>6. AllocInv BY DEF Init, AllocInv, AllocPc
<1>7. CutBehindInv BY DEF Init, CutBehindInv
<1>8. OnListInv BY <1>3, <1>4 DEF Init, OnListInv
<1>9. LengthInv
  <2>1. Stacked = {} /\ Popped = {} /\ Pushed = {}
    BY DEF Init, Stacked, Popped, Pushed
  <2>2. Count(0 + 0 - 0) = 0 BY PoolAssumption DEF Count
  <2>3. QED BY <2>1, <2>2, FS_EmptySet DEF LengthInv, Init
<1>10. ElementsAccounted
  BY DEF Init, ElementsAccounted, Element, Slot, Held
<1>11. QED BY <1>1, <1>5, <1>6, <1>7, <1>8, <1>9, <1>10 DEF PoolListInv

\* and every step keeps the list, the allocator and the accounts in order.
LEMMA PoolListStep == PoolListInv /\ [Next]_vars => PoolListInv'
  BY PoolInvStep, ListStep, AllocStep, CutBehindStep, OnListStep, LengthStep,
     AccountedStep DEF PoolListInv

\* The inductive invariant behind the block list, the maintenance calls and the
\* counters, for any number of threads and blocks.
THEOREM PoolListInvariant == Spec => []PoolListInv
  BY PoolListInit, PoolListStep, PTL DEF Spec

\* Take and Return lose no element, and freeLength is the length of the free
\* stack whenever no operation is under way.
THEOREM ElementsAreCounted == Spec => []ElementsCounted
<1>1. PoolListInv => ElementsCounted
  <2> SUFFICES ASSUME PoolListInv, Idle PROVE FreeLengthSettles
    BY DEF PoolListInv, ElementsCounted, FreeLengthSettles
  <2>1. TypeOK BY DEF PoolListInv, PoolInv
  <2>2. Popped = {} /\ Pushed = {} BY DEF Idle, Popped, Pushed
  <2>3. Cardinality(Stacked) \in Nat BY <2>1, LengthSets
  <2>4. freeLength = Count(Cardinality(Stacked) + 0 - 0)
    BY <2>2, FS_EmptySet DEF PoolListInv, LengthInv
  <2>5. freeLength = Count(Cardinality(Stacked)) BY <2>3, <2>4
  <2>6. QED BY <2>5 DEF FreeLengthSettles, Stacked, Count
<1>2. QED BY PoolListInvariant, <1>1, PTL

\* Clear, Reset and Free leave no pointer to a freed block and nothing cut from a
\* block ahead of the primary one, and no element survives in a stack.
THEOREM MaintenanceIsSound == Spec => []MaintenanceSound
<1>1. PoolListInv => MaintenanceSound
  <2> SUFFICES ASSUME PoolListInv PROVE NoDanglingBlock /\ AheadBlocksUnused
    BY DEF PoolListInv, MaintenanceSound
  <2>0. TypeOK /\ ListInv /\ CutBehindInv BY DEF PoolListInv, PoolInv
  <2>1. /\ primaryBlock \in Block
        /\ prevBlock \in [Block -> Block \cup {NULL}] /\ nextBlock \in [Block -> Block \cup {NULL}]
    BY <2>0 DEF TypeOK
  <2>2. /\ primaryBlock \in Behind
        /\ \A S \in SUBSET Block :
               primaryBlock \in S /\ (\A c \in S : prevBlock[c] \in S \cup {NULL})
                   => Behind \subseteq S
    BY <2>1, ChainProps DEF Behind
  <2>3. \A S \in SUBSET Block :
               primaryBlock \in S /\ (\A c \in S : nextBlock[c] \in S \cup {NULL})
                   => Ahead \subseteq S
    BY <2>1, ChainProps DEF Ahead
  <2>4. NoDanglingBlock
    <3> SUFFICES ASSUME open PROVE Behind \subseteq live /\ Ahead \subseteq live
      BY DEF NoDanglingBlock, Behind, Ahead
    <3>1. Behind \subseteq live BY <2>0 DEF ListInv
    <3>2. live \in SUBSET Block BY <2>0 DEF TypeOK
    <3>3. \A c \in live : nextBlock[c] \in live \cup {NULL}
      BY <2>0 DEF ListInv
    <3>4. QED BY <2>2, <2>3, <3>1, <3>2, <3>3
  <2>5. AheadBlocksUnused
    <3> DEFINE Older == {b \in Block : b <= primaryBlock}
               Newer == {b \in Block : b > primaryBlock} \cup {primaryBlock}
    <3>1. Block \subseteq Int BY DEF Block
    <3>2. Behind \subseteq Older
      <4>1. primaryBlock \in Older BY <2>1, <3>1
      <4>2. ASSUME NEW c \in Older, prevBlock[c] # NULL PROVE prevBlock[c] \in Older
        <5>1. c \in Block /\ c <= primaryBlock OBVIOUS
        <5>2. prevBlock[c] \in Block /\ prevBlock[c] < c
          BY <2>0, <2>1, <4>2, <5>1 DEF ListInv
        <5>3. c \in Int /\ prevBlock[c] \in Int /\ primaryBlock \in Int
          BY <2>1, <3>1, <5>1, <5>2
        <5>4. QED BY <5>1, <5>2, <5>3
      <4>3. QED BY <2>2, <4>1, <4>2
    <3>3. Ahead \subseteq Newer
      <4>1. \A c \in Newer : nextBlock[c] # NULL => nextBlock[c] \in Newer
        <5> SUFFICES ASSUME NEW c \in Newer, nextBlock[c] # NULL
                     PROVE  nextBlock[c] \in Newer
          OBVIOUS
        <5>1. c \in Block /\ nextBlock[c] \in Block BY <2>1
        <5>2. c # NULL BY <5>1, PoolAssumption
        <5>3. c < nextBlock[c] BY <2>0, <5>1, <5>2 DEF ListInv
        <5>4. c \in Int /\ nextBlock[c] \in Int /\ primaryBlock \in Int
          BY <2>1, <3>1, <5>1
        <5>5. c >= primaryBlock BY <5>4
        <5>6. QED BY <5>1, <5>3, <5>4, <5>5
      <4>2. Newer \in SUBSET Block /\ primaryBlock \in Newer BY <2>1
      <4>3. QED BY <2>3, <4>1, <4>2
    <3>4. \A b \in Newer : b \in Older => b = primaryBlock BY <2>1, <3>1
    <3> HIDE DEF Older, Newer
    <3>5. Ahead \subseteq Block BY <2>1, ChainProps DEF Ahead
    <3>6. QED BY <2>0, <3>2, <3>3, <3>4, <3>5 DEF AheadBlocksUnused, CutBehindInv, Ahead
  <2>6. QED BY <2>4, <2>5
<1>2. QED BY PoolListInvariant, <1>1, PTL

\* At most one thread is extending the block list, and the allocation flag says
\* whether one is.
THEOREM AllocatorIsAlone == Spec => []OneAllocator
<1>1. PoolListInv => OneAllocator
  <2> SUFFICES ASSUME AllocInv PROVE Cardinality({t \in Threads : pc[t] \in AllocPc}) <= 1
    BY DEF PoolListInv, AllocInv, OneAllocator
  <2> DEFINE A == {t \in Threads : pc[t] \in AllocPc}
  <2>1. \A t, u \in A : t = u BY DEF AllocInv
  <2>2. CASE A = {} BY <2>2, FS_EmptySet
  <2>3. CASE A # {}
    <3>1. PICK t \in A : TRUE BY <2>3
    <3> HIDE DEF A
    <3>2. A = {t} BY <2>1, <3>1
    <3>3. Cardinality(A) = 1 BY <3>2, FS_Singleton
    <3>4. QED BY <3>3 DEF A
  <2>4. QED BY <2>2, <2>3
<1>2. QED BY PoolListInvariant, <1>1, PTL

\* As long as nobody calls Reset, one thread at a time extends the block list and
\* no block drops out of it; the list reads the same in both directions.
THEOREM BlocksAreSound == "reset" \notin Maintenance => (Spec => []BlocksSound)
<1> SUFFICES ASSUME "reset" \notin Maintenance PROVE Spec => []BlocksSound
  OBVIOUS
<1>1. PoolListInv /\ OneAllocator => BlocksSound
  <2> SUFFICES ASSUME PoolListInv, OneAllocator, open, ~allocatingFlag
               PROVE  /\ live \subseteq Behind \cup Ahead
                      /\ \A b \in live : prevBlock[b] # NULL => nextBlock[prevBlock[b]] = b
    BY DEF BlocksSound, BlocksReachable, Behind, Ahead
  <2>1. AllocInv /\ OnListInv BY DEF PoolListInv
  <2>2. \A t \in Threads : pc[t] \notin {"alloc_publish", "alloc_link"}
    BY <2>1 DEF AllocInv, AllocPc
  <2>3. QED BY <2>1, <2>2 DEF OnListInv
<1>2. QED BY PoolListInvariant, AllocatorIsAlone, <1>1, PTL

===============================================================================
