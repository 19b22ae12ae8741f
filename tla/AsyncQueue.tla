------------------------------- MODULE AsyncQueue ------------------------------
(***************************************************************************)
(* vl_async_queue: a linked queue with a dummy node, after Michael and     *)
(* Scott, whose nodes come from and go back to a vl_async_pool.            *)
(*                                                                         *)
(* Head, tail and every node's next are tagged pointers changed by weak    *)
(* compare-exchanges; one atomic access per step.  The pool is taken at    *)
(* its abstract level (module ElementPool, which AsyncPool implements),    *)
(* with the order it reuses nodes in: last returned, first taken, and a    *)
(* fresh node only if the free stack was seen empty.                       *)
(*                                                                         *)
(* Node memory is never unmapped while the queue is in use, so a thread    *)
(* may read a node that has been recycled since it loaded the pointer.     *)
(***************************************************************************)
EXTENDS Integers, Sequences, FiniteSets, SequencesExt

CONSTANTS
    Producers,      \* threads that call vlAsyncQueuePushBack
    Consumers,      \* threads that call vlAsyncQueuePopFront
    NULL,
    SpuriousCAS,    \* may a weak compare-exchange fail for no reason?
    Clears,         \* do the clients call Clear between operations?
    SizeModulus,    \* the size counter is an unsigned word of this size
    MaxPush,        \* bound: values each producer pushes
    MaxNodes        \* bound: nodes the pool can cut

Thread == Producers \cup Consumers
Node   == 1 .. MaxNodes
Value  == Producers \X (1 .. MaxPush)
Tagged == [ptr : Node \cup {NULL}, tag : Nat]

ASSUME QueueAssumption ==
    /\ Producers \cap Consumers = {}
    /\ IsFiniteSet(Producers) /\ IsFiniteSet(Consumers)
    /\ NULL \notin Node \cup Value
    /\ SpuriousCAS \in BOOLEAN /\ Clears \in BOOLEAN
    /\ SizeModulus \in Nat \ {0} /\ MaxPush \in Nat
    /\ MaxNodes \in Nat \ {0}

VARIABLES
    head, tail,     \* tagged pointers to the first (dummy) and last node
    nextOf,         \* nextOf[n]: the tagged next pointer of node n
    val,            \* val[n]: the value stored in node n
    size,           \* the queue's element count
    free, fresh,    \* the pool: recycled nodes (top first), nodes cut so far
    pc,             \* where each thread is
    node,           \* PushBack: the node being pushed
    h, t, n,        \* the loaded head, tail and next
    out,            \* PopFront: the value copied out
    sent,           \* sent[p]: values linked by producer p
    got,            \* got[c]: values PopFront delivered to c
    emptySeen       \* auxiliary: was the queue empty at some moment of the
                    \* call of PopFront under way (or last finished)?

qvars == <<head, tail, nextOf, val, size>>
pool  == <<free, fresh>>
snap  == <<h, t, n>>
hist  == <<sent, got>>
vars  == <<head, tail, nextOf, val, size, free, fresh, pc, node, h, t, n, out,
           sent, got, emptySeen>>

Null == [ptr |-> NULL, tag |-> 0]

\* vlAsyncQueueInit: an empty pool, and one node cut for the dummy.
Init ==
    /\ head = [ptr |-> 1, tag |-> 0]
    /\ tail = [ptr |-> 1, tag |-> 0]
    /\ nextOf = [m \in Node |-> Null]
    /\ val = [m \in Node |-> NULL]
    /\ size = 0
    /\ free = <<>>
    /\ fresh = 1
    /\ pc = [x \in Thread |-> "idle"]
    /\ node = [p \in Producers |-> NULL]
    /\ h = [x \in Thread |-> Null]
    /\ t = [x \in Thread |-> Null]
    /\ n = [x \in Thread |-> Null]
    /\ out = [c \in Consumers |-> NULL]
    /\ sent = [p \in Producers |-> 0]
    /\ got = [c \in Consumers |-> <<>>]
    /\ emptySeen = [c \in Consumers |-> TRUE]

Goto(x, from, to) == pc[x] = from /\ pc' = [pc EXCEPT ![x] = to]

\* The value vlAtomicPtrCompareExchange stores over an expected one.
Retagged(expected, ptr) == [ptr |-> ptr, tag |-> expected.tag + 1]

\* The size counter is unsigned.
Count(k) == k % SizeModulus

-------------------------------------------------------------------------------
\* vlAsyncQueuePushBack

\* vlAsyncPoolTake: reuse the node returned last, or go for a fresh one.
PushTake(p) ==
    /\ sent[p] < MaxPush
    /\ \/ /\ free # <<>>
          /\ Goto(p, "idle", "push_init")
          /\ node' = [node EXCEPT ![p] = Head(free)]
          /\ free' = Tail(free)
       \/ /\ free = <<>>
          /\ Goto(p, "idle", "push_fresh")
          /\ UNCHANGED <<node, free>>
    /\ UNCHANGED <<qvars, fresh, snap, out, hist>>

\* Mutant: two threads may cut the same node.
PushFreshRaces(p) ==
    /\ fresh < MaxNodes
    /\ Goto(p, "push_fresh", "push_init")
    /\ node' = [node EXCEPT ![p] = fresh + 1]
    /\ fresh' \in {fresh, fresh + 1}
    /\ UNCHANGED <<qvars, free, snap, out, hist>>

PushFresh(p) ==
    /\ fresh < MaxNodes
    /\ Goto(p, "push_fresh", "push_init")
    /\ node' = [node EXCEPT ![p] = fresh + 1]
    /\ fresh' = fresh + 1
    /\ UNCHANGED <<qvars, free, snap, out, hist>>

\* Mutant: a recycled node keeps its old next pointer.
PushInitKeepsNext(p) ==
    /\ Goto(p, "push_init", "push_tail")
    /\ val' = [val EXCEPT ![node[p]] = <<p, sent[p] + 1>>]
    /\ UNCHANGED <<head, tail, nextOf, size, pool, node, snap, out, hist>>

\* Fill the node; its next pointer starts over at tag 0.
PushInit(p) ==
    /\ Goto(p, "push_init", "push_tail")
    /\ val' = [val EXCEPT ![node[p]] = <<p, sent[p] + 1>>]
    /\ nextOf' = [nextOf EXCEPT ![node[p]] = Null]
    /\ UNCHANGED <<head, tail, size, pool, node, snap, out, hist>>

PushTail(p) ==
    /\ Goto(p, "push_tail", "push_next")
    /\ t' = [t EXCEPT ![p] = tail]
    /\ UNCHANGED <<qvars, pool, node, h, n, out, hist>>

PushNext(p) ==
    /\ Goto(p, "push_next",
            IF nextOf[t[p].ptr].ptr = NULL THEN "push_link" ELSE "push_help")
    /\ n' = [n EXCEPT ![p] = nextOf[t[p].ptr]]
    /\ UNCHANGED <<qvars, pool, node, h, t, out, hist>>

\* Mutant: the link is stored whatever the next pointer has become.
PushLinkStores(p) ==
    /\ Goto(p, "push_link", "push_swing")
    /\ nextOf' = [nextOf EXCEPT ![t[p].ptr] = Retagged(n[p], node[p])]
    /\ sent' = [sent EXCEPT ![p] = @ + 1]
    /\ n' = [n EXCEPT ![p] = Null]
    /\ UNCHANGED <<head, tail, val, size, pool, node, h, t, out, got>>

\* Link the node behind the loaded tail.
PushLink(p) ==
    /\ Goto(p, "push_link", "push_swing")
    /\ nextOf[t[p].ptr] = n[p]
    /\ nextOf' = [nextOf EXCEPT ![t[p].ptr] = Retagged(n[p], node[p])]
    /\ sent' = [sent EXCEPT ![p] = @ + 1]
    /\ n' = [n EXCEPT ![p] = Null]
    /\ UNCHANGED <<head, tail, val, size, pool, node, h, t, out, got>>

PushLinkFails(p) ==
    /\ Goto(p, "push_link", "push_tail")
    /\ nextOf[t[p].ptr] # n[p] \/ SpuriousCAS
    /\ t' = [t EXCEPT ![p] = Null]
    /\ n' = [n EXCEPT ![p] = Null]
    /\ UNCHANGED <<qvars, pool, node, h, out, hist>>

\* The tail compare-exchange, whose failure nobody looks at.
SwingTail(x, ptr) ==
    \/ tail = t[x] /\ tail' = Retagged(t[x], ptr)
    \/ (tail # t[x] \/ SpuriousCAS) /\ UNCHANGED tail

\* Another node is linked already: move the tail there and start over.
PushHelp(p) ==
    /\ Goto(p, "push_help", "push_tail")
    /\ SwingTail(p, n[p].ptr)
    /\ t' = [t EXCEPT ![p] = Null]
    /\ n' = [n EXCEPT ![p] = Null]
    /\ UNCHANGED <<head, nextOf, val, size, pool, node, h, out, hist>>

PushSwing(p) ==
    /\ Goto(p, "push_swing", "push_size")
    /\ SwingTail(p, node[p])
    /\ t' = [t EXCEPT ![p] = Null]
    /\ node' = [node EXCEPT ![p] = NULL]
    /\ UNCHANGED <<head, nextOf, val, size, pool, h, n, out, hist>>

PushSize(p) ==
    /\ Goto(p, "push_size", "idle")
    /\ size' = Count(size + 1)
    /\ UNCHANGED <<head, tail, nextOf, val, pool, node, snap, out, hist>>

-------------------------------------------------------------------------------
\* vlAsyncQueuePopFront

PopHead(c) ==
    /\ Goto(c, "idle", "pop_tail")
    /\ h' = [h EXCEPT ![c] = head]
    /\ UNCHANGED <<qvars, pool, node, t, n, out, hist>>

PopTail(c) ==
    /\ Goto(c, "pop_tail", "pop_next")
    /\ t' = [t EXCEPT ![c] = tail]
    /\ UNCHANGED <<qvars, pool, node, h, n, out, hist>>

\* Mutant: head and tail in one place are taken for an empty queue.
PopEmptyByTail(c) ==
    /\ Goto(c, "pop_next", "idle")
    /\ h[c].ptr = t[c].ptr
    /\ h' = [h EXCEPT ![c] = Null]
    /\ t' = [t EXCEPT ![c] = Null]
    /\ UNCHANGED <<qvars, pool, node, n, out, hist>>

\* No next node: report an empty queue.
PopEmpty(c) ==
    /\ Goto(c, "pop_next", "idle")
    /\ nextOf[h[c].ptr].ptr = NULL
    /\ h' = [h EXCEPT ![c] = Null]
    /\ t' = [t EXCEPT ![c] = Null]
    /\ UNCHANGED <<qvars, pool, node, n, out, hist>>

\* The tail seems behind when it is where the head is.
PopNext(c) ==
    /\ Goto(c, "pop_next", IF h[c].ptr = t[c].ptr THEN "pop_help" ELSE "pop_swing")
    /\ nextOf[h[c].ptr].ptr # NULL
    /\ n' = [n EXCEPT ![c] = nextOf[h[c].ptr]]
    /\ UNCHANGED <<qvars, pool, node, h, t, out, hist>>

PopHelp(c) ==
    /\ Goto(c, "pop_help", "pop_swing")
    /\ SwingTail(c, n[c].ptr)
    /\ UNCHANGED <<head, nextOf, val, size, pool, node, snap, out, hist>>

PopSwing(c) ==
    /\ Goto(c, "pop_swing", "pop_copy")
    /\ head = h[c]
    /\ head' = Retagged(h[c], n[c].ptr)
    /\ t' = [t EXCEPT ![c] = Null]
    /\ UNCHANGED <<tail, nextOf, val, size, pool, node, h, n, out, hist>>

\* Start over with the head: load it again.
PopSwingFails(c) ==
    /\ Goto(c, "pop_swing", "pop_tail")
    /\ head # h[c] \/ SpuriousCAS
    /\ h' = [h EXCEPT ![c] = head]
    /\ t' = [t EXCEPT ![c] = Null]
    /\ n' = [n EXCEPT ![c] = Null]
    /\ UNCHANGED <<qvars, pool, node, out, hist>>

\* The value is copied after the head has moved on.
PopCopy(c) ==
    /\ Goto(c, "pop_copy", "pop_return")
    /\ out' = [out EXCEPT ![c] = val[n[c].ptr]]
    /\ n' = [n EXCEPT ![c] = Null]
    /\ UNCHANGED <<qvars, pool, node, h, t, hist>>

\* Mutant: the old dummy is not given back.
PopReturnForgotten(c) ==
    /\ Goto(c, "pop_return", "pop_size")
    /\ h' = [h EXCEPT ![c] = Null]
    /\ UNCHANGED <<qvars, pool, node, t, n, out, hist>>

\* vlAsyncPoolReturn of the old dummy node.
PopReturn(c) ==
    /\ Goto(c, "pop_return", "pop_size")
    /\ free' = <<h[c].ptr>> \o free
    /\ h' = [h EXCEPT ![c] = Null]
    /\ UNCHANGED <<qvars, fresh, node, t, n, out, hist>>

\* Mutant: the size is not lowered.
PopSizeUncounted(c) ==
    /\ Goto(c, "pop_size", "idle")
    /\ got' = [got EXCEPT ![c] = Append(@, out[c])]
    /\ out' = [out EXCEPT ![c] = NULL]
    /\ UNCHANGED <<qvars, pool, node, snap, sent>>

PopSize(c) ==
    /\ Goto(c, "pop_size", "idle")
    /\ size' = Count(size - 1)
    /\ got' = [got EXCEPT ![c] = Append(@, out[c])]
    /\ out' = [out EXCEPT ![c] = NULL]
    /\ UNCHANGED <<head, tail, nextOf, val, pool, node, snap, sent>>

-------------------------------------------------------------------------------
\* The nodes linked from node first on by the next pointers nx; cut off after
\* MaxNodes.
ChainIn(nx, first) ==
    LET From[k \in 0 .. MaxNodes] ==
            IF k = 0 THEN <<first>>
            ELSE LET after == nx[Last(From[k - 1])].ptr
                 IN  IF after = NULL THEN From[k - 1]
                     ELSE Append(From[k - 1], after)
    IN  From[MaxNodes]

\* The nodes linked from the head on, the dummy first.
Chain == ChainIn(nextOf, head.ptr)

\* The values in the queue, first to last.
Contents == [i \in 1 .. Len(Chain) - 1 |-> val[Chain[i + 1]]]

\* Bookkeeping for emptySeen after every step.
Observe ==
    LET isEmpty == nextOf'[head'.ptr].ptr = NULL
    IN  emptySeen' = [c \in Consumers |->
            isEmpty \/ (pc[c] # "idle" /\ emptySeen[c])]

Idle == \A x \in Thread : pc[x] = "idle"

\* vlAsyncQueueClear and vlAsyncQueueReset, which differ only in the blocks
\* the pool keeps: no node out, a new dummy, size 0.  Not thread-safe.
Clear ==
    /\ Clears /\ Idle
    /\ free' = <<>>
    /\ fresh' = 1
    /\ nextOf' = [nextOf EXCEPT ![1] = Null]
    /\ head' = [ptr |-> 1, tag |-> 0]
    /\ tail' = [ptr |-> 1, tag |-> 0]
    /\ size' = 0
    /\ UNCHANGED <<val, pc, node, snap, out, hist>>
    /\ Observe

Push(p) == /\ \/ PushTake(p) \/ PushFresh(p) \/ PushInit(p) \/ PushTail(p)
              \/ PushNext(p) \/ PushLink(p) \/ PushLinkFails(p) \/ PushHelp(p)
              \/ PushSwing(p) \/ PushSize(p)
           /\ Observe

Pop(c) == /\ \/ PopHead(c) \/ PopTail(c) \/ PopEmpty(c) \/ PopNext(c)
             \/ PopHelp(c) \/ PopSwing(c) \/ PopSwingFails(c) \/ PopCopy(c)
             \/ PopReturn(c) \/ PopSize(c)
          /\ Observe

Next == \/ \E p \in Producers : Push(p)
        \/ \E c \in Consumers : Pop(c)
        \/ Clear

Spec == Init /\ [][Next]_vars

\* Producers and consumers keep being scheduled, and the consumers keep
\* polling, as the workers of the thread pool and of the logger do.
FairSpec == /\ Spec
            /\ \A p \in Producers : WF_vars(Push(p))
            /\ \A c \in Consumers : WF_vars(Pop(c))

-------------------------------------------------------------------------------
\* Properties.

\* The types of the queue's fields, the pool and the threads' locals.
TypeOK ==
    /\ head \in Tagged /\ tail \in Tagged
    /\ nextOf \in [Node -> Tagged]
    /\ val \in [Node -> Value \cup {NULL}]
    /\ size \in 0 .. SizeModulus - 1
    /\ free \in Seq(Node) /\ fresh \in Node
    /\ node \in [Producers -> Node \cup {NULL}]
    /\ h \in [Thread -> Tagged] /\ t \in [Thread -> Tagged]
    /\ n \in [Thread -> Tagged]
    /\ out \in [Consumers -> Value \cup {NULL}]
    /\ sent \in [Producers -> 0 .. MaxPush]
    /\ got \in [Consumers -> Seq(Value)]
    /\ emptySeen \in [Consumers -> BOOLEAN]

\* What a consumer has taken off the queue, delivered or about to be.
Taken(c) ==
    CASE pc[c] = "pop_copy" -> Append(got[c], val[n[c].ptr])
      [] pc[c] \in {"pop_return", "pop_size"} -> Append(got[c], out[c])
      [] OTHER -> got[c]

\* The queue is a FIFO queue whose pushes take effect when the node is linked
\* and whose pops take effect when the head moves.
Fifo == INSTANCE FifoQueue
            WITH queue <- Contents, got <- [c \in Consumers |-> Taken(c)]
ImplementsFifo == Fifo!Spec

\* No node is in two places: on the free stack, in a push that has not linked
\* it yet, or linked in the queue; and the chain from the head has no cycle.
NodesDisjoint ==
    LET filling == {node[p] : p \in {q \in Producers :
                        pc[q] \in {"push_init", "push_tail", "push_next",
                                   "push_link", "push_help"}}}
    IN  /\ IsInjective(Chain) /\ IsInjective(free)
        /\ ToSet(Chain) \cap ToSet(free) = {}
        /\ filling \cap (ToSet(Chain) \cup ToSet(free)) = {}

\* The tail never falls behind the head: a node that can still be used as the
\* tail has not been given back to the pool.
TailInQueue == tail.ptr \in ToSet(Chain)

\* PopFront reports an empty queue only if the queue was empty at some moment
\* of the call.
EmptyMeansEmpty ==
    [][\A c \in Consumers : PopEmpty(c) => emptySeen[c]]_vars

\* Between operations the counter is the number of queued values, whatever
\* order the increments and decrements came in.
SizeSettles == Idle => size = Len(Contents) % SizeModulus

\* Between operations every node cut from the pool is in the queue or on the
\* free stack: none leaks.
NodesConserved == Idle => Len(Chain) + Len(free) = fresh

\* Every node is in one place at a time and never lost, and a node the tail
\* points to is still linked.
NodesSound == TypeOK /\ NodesDisjoint /\ TailInQueue /\ NodesConserved

\* Every value pushed is delivered at most once.
NoDuplicate ==
    \A c, d \in Consumers : \A i \in DOMAIN got[c], j \in DOMAIN got[d] :
        got[c][i] = got[d][j] => c = d /\ i = j

\* Between operations every value pushed has been delivered or is queued.
NoLoss ==
    Idle => \A p \in Producers : \A k \in 1 .. sent[p] :
        \/ \E c \in Consumers : Contains(got[c], <<p, k>>)
        \/ Contains(Contents, <<p, k>>)

\* A consumer gets the values of one producer in the order they were pushed.
ProducerOrder ==
    \A c \in Consumers : \A i, j \in DOMAIN got[c] :
        i < j /\ got[c][i][1] = got[c][j][1] => got[c][i][2] < got[c][j][2]

\* While producers and consumers keep running, nothing pushed stays in the
\* queue: again and again everything pushed so far has been delivered.
EventuallyDelivered ==
    []<>(\A p \in Producers : \A k \in 1 .. sent[p] :
            \E c \in Consumers : Contains(got[c], <<p, k>>))

-------------------------------------------------------------------------------
(* The inductive invariant behind the properties, with one consumer.       *)

\* One thread pops, and a compare-exchange fails only if the value differs.
OneConsumer == (\A c, d \in Consumers : c = d) /\ ~SpuriousCAS

\* One thread pushes; then nothing is linked behind a node before it is in the queue.
OneProducer == \A p, q \in Producers : p = q

\* Where a thread is: a node it fills, a tail it has loaded, a node it popped past.
FillPc   == {"push_init", "push_tail", "push_next", "push_link", "push_help"}
ReadyPc  == {"push_tail", "push_next", "push_link", "push_help"}
LoadedPc == {"push_next", "push_link", "push_help", "push_swing", "pop_next", "pop_help"}
Filling  == {p \in Producers : pc[p] \in FillPc}
Leaving  == {c \in Consumers : pc[c] \in {"pop_copy", "pop_return"}}
ThreadPc ==
    /\ pc \in [Thread -> FillPc \cup LoadedPc \cup
                  {"idle", "push_fresh", "push_size", "pop_tail", "pop_swing", "pop_copy",
                   "pop_return", "pop_size"}]
    /\ \A p \in Producers :
        /\ pc[p] \in FillPc \cup {"idle", "push_fresh", "push_swing", "push_size"}
        /\ pc[p] \in FillPc \cup {"push_swing"} => node[p] \in Node
        /\ pc[p] \in FillPc \cup {"push_fresh"} => sent[p] < MaxPush
    /\ \A c \in Consumers :
        /\ pc[c] \in {"idle", "pop_tail", "pop_next", "pop_help", "pop_swing", "pop_copy",
                      "pop_return", "pop_size"}
        /\ pc[c] \in {"pop_return", "pop_size"} => out[c] \in Value

\* A list without cycle, by the next pointers nx.
Listed(nx, s) ==
    /\ s \in Seq(Node) /\ s # <<>>
    /\ \A i, j \in 1 .. Len(s) : s[i] = s[j] => i = j
    /\ \A i \in 1 .. Len(s) - 1 : nx[s[i]].ptr = s[i + 1]
    /\ nx[Last(s)].ptr = NULL

\* What is linked behind a node that is being filled: a push that was delayed may
\* have linked its own node there, where the old tail was before it was recycled.
Segment(p) == IF pc[p] = "push_init" THEN <<node[p]>> ELSE ChainIn(nextOf, node[p])
InQueue    == ToSet(Chain)
InFree     == ToSet(free)
Behind(p)  == ToSet(Segment(p))
Popped     == {h[c].ptr : c \in Leaving}

\* The queue is a list that starts at the head, a segment one that starts at the
\* node being filled.
ListInv ==
    /\ Listed(nextOf, Chain) /\ Chain[1] = head.ptr
    /\ \A p \in Filling : Segment(p)[1] = node[p]
    /\ \A p \in Producers : pc[p] \in ReadyPc => Listed(nextOf, Segment(p))

\* A node that was cut is in one place: in the queue, in one segment, on the free
\* stack, or popped and not given back.
PlaceInv ==
    /\ IsInjective(free)
    /\ InQueue \cap InFree = {}
    /\ \A p \in Filling : Behind(p) \cap (InQueue \cup InFree) = {}
    /\ \A p, q \in Filling : p # q => Behind(p) \cap Behind(q) = {}
    /\ Popped \cap (InQueue \cup InFree) = {}
    /\ \A p \in Filling : Behind(p) \cap Popped = {}
    /\ InQueue \cup InFree \cup Popped \cup UNION {Behind(p) : p \in Filling} = 1 .. fresh

\* A node that can be met again keeps a next pointer until it is filled again, so
\* a delayed push cannot link behind it.
UsedInv ==
    /\ \A x \in InFree \cup Popped : nextOf[x].ptr # NULL
    /\ \A p \in Producers, x \in Thread :
        pc[p] = "push_init" /\ pc[x] \in LoadedPc /\ t[x].ptr = node[p]
            => nextOf[node[p]].ptr # NULL

\* The tail is in the queue and its tag counts its moves, so a loaded tail with
\* the current tag is the tail; what a thread will swing the tail to is the node
\* behind it; and segments are linked to segments of pushes that loaded later.
TailInv ==
    /\ tail.ptr \in InQueue
    /\ \A x \in Thread : pc[x] \in LoadedPc =>
        /\ t[x].ptr \in 1 .. fresh /\ t[x].tag <= tail.tag
        /\ t[x].tag = tail.tag => t[x] = tail
    /\ \A p \in Producers :
        /\ pc[p] = "push_link" => n[p].ptr = NULL
        /\ pc[p] = "push_help" => n[p].ptr # NULL
        /\ pc[p] = "push_help" /\ tail = t[p] => nextOf[tail.ptr].ptr = n[p].ptr
        /\ pc[p] = "push_swing" /\ tail = t[p] => nextOf[tail.ptr].ptr = node[p]
    /\ \A p, q \in Producers :
        pc[p] \in {"push_next", "push_link"} /\ pc[q] \in {"push_next", "push_link"}
            /\ t[p].ptr \in Behind(q) => t[p].tag < t[q].tag

\* The one consumer's snapshot of the head is the head, and before it moves the
\* head the tail is past it.
PopInv ==
    \A c \in Consumers :
        /\ pc[c] \in {"pop_tail", "pop_next", "pop_help", "pop_swing"} => h[c] = head
        /\ pc[c] \in {"pop_next", "pop_help"} /\ t[c] # tail => tail.ptr # head.ptr
        /\ pc[c] = "pop_help" => t[c].ptr = head.ptr
        /\ pc[c] \in {"pop_help", "pop_swing"} =>
            n[c].ptr # NULL /\ n[c].ptr = nextOf[head.ptr].ptr
        /\ pc[c] = "pop_swing" => tail.ptr # head.ptr
        /\ pc[c] = "pop_copy" => n[c].ptr = head.ptr

\* The nodes whose values have been pushed and not popped, and the values pushed.
LinkedNodes  == (InQueue \ {head.ptr}) \cup UNION {Behind(p) \ {node[p]} : p \in Filling}
LinkedValues == {val[x] : x \in LinkedNodes}
PushedValues == {v \in Value : v[2] <= sent[v[1]]}
TakenSet(c)  == ToSet(Taken(c))

\* A pushed value is in one place, in a linked node or taken, and nowhere else
\* unless Clear dropped it; a node being filled has the next value of its producer.
ValueInv ==
    /\ \A x, y \in LinkedNodes : val[x] = val[y] => x = y
    /\ LinkedValues \subseteq PushedValues
    /\ \A p \in Producers : pc[p] \in ReadyPc => val[node[p]] = <<p, sent[p] + 1>>
    /\ \A c \in Consumers :
        /\ Taken(c) \in Seq(Value) /\ IsInjective(Taken(c))
        /\ TakenSet(c) \subseteq PushedValues
        /\ TakenSet(c) \cap LinkedValues = {}
    /\ ~Clears => PushedValues \subseteq LinkedValues \cup UNION {TakenSet(c) : c \in Consumers}

\* The counter lacks the values linked and not yet counted, and still has those
\* popped and not yet subtracted.
Uncounted == {p \in Producers : pc[p] \in {"push_swing", "push_size"}}
Unsubtracted == {c \in Consumers : pc[c] \in {"pop_copy", "pop_return", "pop_size"}}
CountInv == size = Count(Cardinality(LinkedNodes) + Cardinality(Unsubtracted)
                                                  - Cardinality(Uncounted))

\* A consumer that is in a call while the queue is empty has it noted.
EmptyInv == nextOf[head.ptr].ptr = NULL => \A c \in Consumers : emptySeen[c]

\* With one producer, the node being pushed is not linked to another.
AloneInv == \A p \in Producers : pc[p] \in ReadyPc => nextOf[node[p]].ptr = NULL

QueueInv == /\ TypeOK /\ ThreadPc /\ ListInv /\ PlaceInv /\ UsedInv /\ TailInv
            /\ PopInv /\ ValueInv /\ CountInv /\ EmptyInv
===============================================================================
