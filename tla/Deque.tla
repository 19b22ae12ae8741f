------------------------------- MODULE Deque -------------------------------
(***************************************************************************)
(* vl_deque.c and vl_queue.c: a doubly linked and a singly linked sequence *)
(* whose nodes are elements of a fixed pool (FixedPool).  The machine has  *)
(* one of the two; a node is named by its index in the pool.               *)
(***************************************************************************)
EXTENDS Integers, Sequences, FiniteSets, SequencesExt

CONSTANTS
    Values,
    MaxElements,    \* bound of the model on the number of elements
    DefaultSize, TableSize, MaxBlocks   \* of the pool

VARIABLES
    seq,            \* the deque or the queue
    contents        \* the sequence it should hold, with the node of each (history)

seqVars == <<seq, contents>>

Nil == <<0, 0>>     \* VL_POOL_INVALID_IDX

\* The pool of the nodes; what is out of it are the nodes in use.
Pool == INSTANCE FixedPool WITH
            pool <- seq.pool, spare <- seq.pool, live <- DOMAIN seq.node

\* vlDequeInit, vlQueueInit.
EmptySeq(kind) ==
    [kind |-> kind, head |-> Nil, tail |-> Nil, total |-> 0,
     pool |-> Pool!FreshPool, node |-> << >>]

Set(q, x, field, v) == IF x = Nil THEN q ELSE [q EXCEPT !.node[x][field] = v]

\* vl_queue.c never writes totalElements, not even when it initialises a queue.
Counted(q, n) == IF q.kind = "deque" THEN q.total + n ELSE q.total

\* vlPoolTake and the copy of the element.
NewNode(q, prev, next, v) ==
    LET taken == Pool!Take(q.pool)
    IN  [idx |-> taken.idx,
         seq |-> [q EXCEPT !.pool = taken.pool, !.total = Counted(q, 1),
                    !.node = [x \in DOMAIN @ \cup {taken.idx} |->
                                IF x = taken.idx
                                THEN [prev |-> prev, next |-> next, elem |-> v]
                                ELSE @[x]]]]

\* vlPoolReturn.
DropNode(q, x) ==
    [q EXCEPT !.pool = Pool!Return(@, x), !.total = Counted(q, -1),
              !.node = [y \in DOMAIN @ \ {x} |-> @[y]]]

----------------------------------------------------------------------------
(* vl_deque.c *)

DequePushFront(q, v) ==
    LET n == NewNode(q, Nil, q.head, v)
    IN  [Set(n.seq, q.head, "prev", n.idx) EXCEPT
            !.head = n.idx, !.tail = IF @ = Nil THEN n.idx ELSE @]

DequePushBack(q, v) ==
    LET n == NewNode(q, q.tail, Nil, v)
    IN  [Set(n.seq, q.tail, "next", n.idx) EXCEPT
            !.tail = n.idx, !.head = IF @ = Nil THEN n.idx ELSE @]

\* Faulty variant: the tail survives the last element.
DequePopFrontKeepsTail(q) ==
    IF q.head = Nil THEN q
    ELSE LET right == q.node[q.head].next
         IN  [DropNode(Set(q, right, "prev", Nil), q.head) EXCEPT !.head = right]

DequePopFront(q) ==
    IF q.head = Nil THEN q
    ELSE IF q.head = q.tail THEN [DropNode(q, q.head) EXCEPT !.head = Nil, !.tail = Nil]
    ELSE LET right == q.node[q.head].next
         IN  [DropNode(Set(q, right, "prev", Nil), q.head) EXCEPT !.head = right]

DequePopBack(q) ==
    IF q.tail = Nil THEN q
    ELSE IF q.head = q.tail THEN [DropNode(q, q.tail) EXCEPT !.head = Nil, !.tail = Nil]
    ELSE LET left == q.node[q.tail].prev
         IN  [DropNode(Set(q, left, "next", Nil), q.tail) EXCEPT !.tail = left]

\* vlDequeClear, vlQueueClear.
ClearSeq(q) ==
    [q EXCEPT !.head = Nil, !.tail = Nil, !.total = 0, !.node = << >>,
              !.pool = Pool!Clear(@)]

\* vlDequeClone, vlQueueClone into a new object.
CloneSeq(q) == [q EXCEPT !.pool = Pool!Clone(@, Pool!FreshPool)]

----------------------------------------------------------------------------
(* vl_queue.c: a node is its own successor until the next push. *)

QueuePushBack(q, v) ==
    LET n == NewNode(q, Nil, Nil, v)
        own == Set(n.seq, n.idx, "next", n.idx)
    IN  [Set(own, q.tail, "next", n.idx) EXCEPT
            !.tail = n.idx, !.head = IF @ = Nil THEN n.idx ELSE @]

QueuePopFront(q) ==
    IF q.head = Nil THEN q
    ELSE IF q.head = q.tail THEN [DropNode(q, q.head) EXCEPT !.head = Nil, !.tail = Nil]
    ELSE [DropNode(q, q.head) EXCEPT !.head = q.node[q.head].next]

----------------------------------------------------------------------------

SeqInit ==
    /\ contents = << >>
    /\ \E kind \in {"deque", "queue"} : seq = EmptySeq(kind)

\* What a push adds: the value, and the node the pool gives it.
Added(v) == [node |-> Pool!Take(seq.pool).idx, elem |-> v]

PushFront(v) ==
    /\ seq.kind = "deque" /\ Len(contents) < MaxElements
    /\ seq' = DequePushFront(seq, v)
    /\ contents' = <<Added(v)>> \o contents

PushBack(v) ==
    /\ Len(contents) < MaxElements
    /\ seq' = IF seq.kind = "deque" THEN DequePushBack(seq, v) ELSE QueuePushBack(seq, v)
    /\ contents' = Append(contents, Added(v))

PopFront ==
    /\ seq' = IF seq.kind = "deque" THEN DequePopFront(seq) ELSE QueuePopFront(seq)
    /\ contents' = IF contents = << >> THEN contents ELSE Tail(contents)

PopBack ==
    /\ seq.kind = "deque"
    /\ seq' = DequePopBack(seq)
    /\ contents' = IF contents = << >> THEN contents ELSE Front(contents)

Clear == seq' = ClearSeq(seq) /\ contents' = << >>

Clone == seq' = CloneSeq(seq) /\ UNCHANGED contents

\* vlDequeReserve, vlQueueReserve.
Reserve(n) ==
    /\ Len(Pool!Reserve(seq.pool, n).blocks) <= MaxBlocks
    /\ seq' = [seq EXCEPT !.pool = Pool!Reserve(@, n)]
    /\ UNCHANGED contents

\* As in FixedPool, nothing follows a write behind the table of the nodes.
SeqNext ==
    /\ Pool!InTable(seq.pool)
    /\ \/ \E v \in Values : PushFront(v) \/ PushBack(v)
       \/ PopFront
       \/ PopBack
       \/ Clear
       \/ Clone
       \/ Reserve(2)

SeqSpec == SeqInit /\ [][SeqNext]_seqVars

----------------------------------------------------------------------------

\* The node of the i-th element of c, if there is one.
NodeOf(c, i) == IF i \in DOMAIN c THEN c[i].node ELSE Nil

\* What follows the i-th node: in a queue the last one is its own successor.
After(kind, c, i) == IF kind = "queue" /\ i = Len(c) THEN c[i].node ELSE NodeOf(c, i + 1)

\* The links, read in either direction, give the elements of c in order, and the nodes
\* linked are the nodes in use.
Linked(q, c) ==
    /\ DOMAIN q.node = {c[i].node : i \in DOMAIN c}
    /\ \A i, j \in DOMAIN c : c[i].node = c[j].node => i = j
    /\ q.head = NodeOf(c, 1) /\ q.tail = NodeOf(c, Len(c))
    /\ \A i \in DOMAIN c : LET n == q.node[c[i].node] IN
         /\ n.elem = c[i].elem /\ n.next = After(q.kind, c, i)
         /\ q.kind = "deque" => n.prev = NodeOf(c, i - 1)
    /\ q.kind = "deque" => q.total = Len(c)

\* The elements are in the order of the calls while nodes are recycled through the
\* pool; the nodes linked are exactly the ones out of the pool, whose own invariant
\* holds.
SeqSound == Linked(seq, contents) /\ Pool!FixedPoolSound

\* What makes SeqSound inductive: the form of the records, and the pool's invariant of
\* the nodes in use.
SeqTypes(q) ==
    /\ q.kind \in {"deque", "queue"}
    /\ DOMAIN q = {"kind", "head", "tail", "total", "pool", "node"}
    /\ \A x \in DOMAIN q.node : DOMAIN q.node[x] = {"prev", "next", "elem"}
SeqInv ==
    /\ SeqTypes(seq) /\ Linked(seq, contents)
    /\ contents \in Seq([node : Nat \X Nat, elem : Values])
    /\ Pool!Shape(seq.pool) /\ Pool!Cut(seq.pool, DOMAIN seq.node)

============================================================================
