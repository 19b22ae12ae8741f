---------------------------- MODULE LinkedList -----------------------------
(***************************************************************************)
(* vl_linked_list.c: a doubly linked list whose nodes live in a fixed      *)
(* pool.  A list is a record, a node is a slot of the pool.  Two fields    *)
(* are not kept up by every operation: length (vlListRemove, and popping   *)
(* the last element) and tail (vlListSort).                                *)
(***************************************************************************)
EXTENDS Integers, Sequences, FiniteSets, SequencesExt

CONSTANTS
    Slots,          \* slots of the pool: 1..n
    Values,         \* integers, compared with <=
    MaxLength,      \* bound of the model on the field length
    SourceLength    \* length of the lists that vlListCopy copies from

VARIABLES
    list,           \* the list
    contents,       \* the sequence it should hold (history)
    misled          \* an operation used a tail that was not the last node

vars == <<list, contents, misled>>

Nil == 0            \* VL_LIST_ITER_INVALID

\* vlListInit.
EmptyList == [head |-> Nil, tail |-> Nil, length |-> 0, node |-> << >>]

Put(l, x, field, v) == IF x = Nil THEN l ELSE [l EXCEPT !.node[x][field] = v]

\* vlPoolTake and the copy of the element; vlPoolReturn.
Fresh(l) == CHOOSE s \in Slots : s \notin DOMAIN l.node
                              /\ \A r \in Slots : r \notin DOMAIN l.node => s <= r
AddNode(l, s, prev, next, v) ==
    [l EXCEPT !.length = @ + 1,
              !.node = [x \in DOMAIN @ \cup {s} |->
                          IF x = s THEN [prev |-> prev, next |-> next, elem |-> v]
                          ELSE @[x]]]
FreeNode(l, s) == [l EXCEPT !.node = [x \in DOMAIN @ \ {s} |-> @[x]]]

PushFront(l, v) ==
    LET s == Fresh(l)
        a == Put(AddNode(l, s, Nil, l.head, v), l.head, "prev", s)
    IN  [a EXCEPT !.head = s, !.tail = IF @ = Nil THEN s ELSE @]

PushBack(l, v) ==
    LET s == Fresh(l)
        a == Put(AddNode(l, s, l.tail, Nil, v), l.tail, "next", s)
    IN  [a EXCEPT !.tail = s, !.head = IF @ = Nil THEN s ELSE @]

\* The last element leaves without being counted off.
PopFront(l) ==
    IF l.head = Nil THEN l
    ELSE IF l.head = l.tail
    THEN [FreeNode(l, l.head) EXCEPT !.head = Nil, !.tail = Nil]
    ELSE LET right == l.node[l.head].next
         IN  [FreeNode(Put(l, right, "prev", Nil), l.head) EXCEPT
                !.head = right, !.length = @ - 1]

PopBack(l) ==
    IF l.tail = Nil THEN l
    ELSE IF l.head = l.tail
    THEN [FreeNode(l, l.tail) EXCEPT !.head = Nil, !.tail = Nil]
    ELSE LET left == l.node[l.tail].prev
         IN  [FreeNode(Put(l, left, "next", Nil), l.tail) EXCEPT
                !.tail = left, !.length = @ - 1]

\* A new node between two neighbours.
Between(l, left, right, v) ==
    LET s == Fresh(l)
    IN  Put(Put(AddNode(l, s, left, right, v), left, "next", s), right, "prev", s)

InsertAfter(l, target, v) ==
    IF l.node[target].next = Nil THEN PushBack(l, v)
    ELSE Between(l, target, l.node[target].next, v)

InsertBefore(l, target, v) ==
    IF l.node[target].prev = Nil THEN PushFront(l, v)
    ELSE Between(l, l.node[target].prev, target, v)

\* Faulty variant: the node to the right keeps its link to the removed one.
ListRemoveOneWay(l, s) ==
    LET left == l.node[s].prev
        right == l.node[s].next
        a == IF left = Nil THEN [l EXCEPT !.head = right] ELSE Put(l, left, "next", right)
        b == IF right = Nil THEN [a EXCEPT !.tail = left] ELSE a
    IN  FreeNode(b, s)

\* vlListRemove; the length stays.
ListRemove(l, s) ==
    LET left == l.node[s].prev
        right == l.node[s].next
        a == IF left = Nil THEN [l EXCEPT !.head = right] ELSE Put(l, left, "next", right)
        b == IF right = Nil THEN [a EXCEPT !.tail = left] ELSE Put(a, right, "prev", left)
    IN  FreeNode(b, s)

----------------------------------------------------------------------------
(* The nodes from s on, and what hangs on them. *)

RECURSIVE Chain(_, _)
Chain(l, s) == IF s = Nil THEN << >> ELSE <<s>> \o Chain(l, l.node[s].next)

Elements(l) == [i \in DOMAIN Chain(l, l.head) |-> l.node[Chain(l, l.head)[i]].elem]
LastFrom(l, s) == Last(Chain(l, s))     \* vl_ListSortSegmentLength

\* vlListFind: the first node with this element.
ListFind(l, v) ==
    LET hits == SelectSeq(Chain(l, l.head), LAMBDA s : l.node[s].elem = v)
    IN  IF hits = << >> THEN Nil ELSE hits[1]

\* vlListCopy of a whole list behind a node of dest.
RECURSIVE CopyAfter(_, _, _)
CopyAfter(dest, after, elems) ==
    IF elems = << >> THEN dest
    ELSE LET l == InsertAfter(dest, after, elems[1])
         IN  CopyAfter(l, l.node[after].next, Tail(elems))

----------------------------------------------------------------------------
(* Merge sort by relinking. *)

\* vl_ListSortSplit: cut behind the n-th node from s.
RECURSIVE Split(_, _, _)
Split(l, s, n) ==
    IF s = Nil \/ l.node[s].next = Nil THEN [list |-> l, second |-> Nil]
    ELSE LET next == l.node[s].next
         IN  IF n > 1 THEN Split(l, next, n - 1)
             ELSE [list |-> Put(Put(l, next, "prev", Nil), s, "next", Nil),
                   second |-> next]

\* The loop of vl_ListSortMerge: what is left of a and b goes behind `tail`.
RECURSIVE MergeBehind(_, _, _, _)
MergeBehind(l, tail, a, b) ==
    LET both == a # Nil /\ b # Nil
        left == IF both THEN l.node[a].elem <= l.node[b].elem ELSE a # Nil
        x == IF left THEN a ELSE b
        joined == Put(Put(l, tail, "next", x), x, "prev", tail)
    IN  IF ~both THEN [list |-> joined, tail |-> LastFrom(l, x)]
        ELSE IF left THEN MergeBehind(joined, x, l.node[x].next, b)
        ELSE MergeBehind(joined, x, a, l.node[x].next)

Merge(l, a, b) ==
    IF b = Nil THEN [list |-> l, head |-> a, tail |-> LastFrom(l, a)]
    ELSE LET left == l.node[a].elem <= l.node[b].elem
             first == IF left THEN a ELSE b
             m == MergeBehind(l, first, IF left THEN l.node[a].next ELSE a,
                                        IF left THEN b ELSE l.node[b].next)
         IN  [list |-> m.list, head |-> first, tail |-> m.tail]

\* One pass of vlListSort: neighbouring runs of n nodes are merged.
RECURSIVE SortPass(_, _, _, _)
SortPass(l, current, tail, n) ==
    IF current = Nil THEN l
    ELSE LET s1 == Split(l, current, n)
             s2 == Split(s1.list, s1.second, n)
             m == Merge(s2.list, current, s1.second)
             linked == IF tail = Nil THEN [m.list EXCEPT !.head = m.head]
                       ELSE Put(Put(m.list, tail, "next", m.head), m.head, "prev", tail)
         IN  SortPass(linked, s2.second, m.tail, n)

RECURSIVE SortFrom(_, _)
SortFrom(l, n) ==
    IF n < l.length THEN SortFrom(SortPass(l, l.head, Nil, n), 2 * n) ELSE l

ListSort(l) == IF l.head = l.tail THEN l ELSE SortFrom(l, 1)

----------------------------------------------------------------------------

Init == list = EmptyList /\ contents = << >> /\ misled = FALSE

TailIsLast(l) == l.tail = IF l.head = Nil THEN Nil ELSE LastFrom(l, l.head)

\* An operation that looks at the tail: what it does to a list whose tail is
\* not its last node is outside the model.
UsesTail == misled' = ~TailIsLast(list)

HasRoom(n) == Len(contents) + n <= Cardinality(Slots) /\ list.length + n <= MaxLength

ListPushFront(v) ==
    /\ HasRoom(1)
    /\ list' = PushFront(list, v)
    /\ contents' = <<v>> \o contents
    /\ UNCHANGED misled

ListPushBack(v) ==
    /\ HasRoom(1)
    /\ list' = PushBack(list, v)
    /\ contents' = Append(contents, v)
    /\ UsesTail

ListPopFront ==
    /\ list' = PopFront(list)
    /\ contents' = IF contents = << >> THEN contents ELSE Tail(contents)
    /\ UsesTail

ListPopBack ==
    /\ list' = PopBack(list)
    /\ contents' = IF contents = << >> THEN contents ELSE Front(contents)
    /\ UsesTail

ListInsertAfter(i, v) ==
    /\ HasRoom(1)
    /\ list' = InsertAfter(list, Chain(list, list.head)[i], v)
    /\ contents' = InsertAt(contents, i + 1, v)
    /\ misled' = (i = Len(contents) /\ ~TailIsLast(list))

ListInsertBefore(i, v) ==
    /\ HasRoom(1)
    /\ list' = InsertBefore(list, Chain(list, list.head)[i], v)
    /\ contents' = InsertAt(contents, i, v)
    /\ UNCHANGED misled

\* vlListRemove of what vlListFind finds, or of any node.
RemoveNode(i) ==
    /\ list' = ListRemove(list, Chain(list, list.head)[i])
    /\ contents' = RemoveAt(contents, i)
    /\ UsesTail

RemoveFound(v) ==
    /\ ListFind(list, v) # Nil
    /\ list' = ListRemove(list, ListFind(list, v))
    /\ contents' = RemoveFirst(contents, v)
    /\ UsesTail

CopyBehind(i, elems) ==
    /\ HasRoom(Len(elems))
    /\ misled' = (i = Len(contents) /\ ~TailIsLast(list))
    /\ list' = IF misled' THEN list
               ELSE CopyAfter(list, Chain(list, list.head)[i], elems)
    /\ contents' = SubSeq(contents, 1, i) \o elems \o SubSeq(contents, i + 1, Len(contents))

SortList ==
    /\ list' = ListSort(list)
    /\ contents' = SortSeq(contents, <=)
    /\ misled' = (list.head = list.tail /\ ~TailIsLast(list))

Next ==
    /\ ~misled
    /\ \/ \E v \in Values :
            \/ ListPushFront(v)
            \/ ListPushBack(v)
            \/ RemoveFound(v)
            \/ \E i \in DOMAIN contents : ListInsertAfter(i, v)
            \/ \E i \in DOMAIN contents : ListInsertBefore(i, v)
       \/ ListPopFront
       \/ ListPopBack
       \/ \E i \in DOMAIN contents : RemoveNode(i)
       \/ \E i \in DOMAIN contents, elems \in [1..SourceLength -> Values] : CopyBehind(i, elems)
       \/ SortList

Spec == Init /\ [][Next]_vars

----------------------------------------------------------------------------

\* As long as no operation has used a tail left behind by vlListSort, the list
\* holds the sequence the calls describe, sorted stably where it was sorted;
\* links agree in both directions, no node is lost in the pool, and length
\* never understates the list, which would end vlListSort too early.
ListSound ==
    ~misled =>
      LET chain == Chain(list, list.head)
      IN  /\ Elements(list) = contents
          /\ \A i \in DOMAIN chain :
                list.node[chain[i]].prev = IF i = 1 THEN Nil ELSE chain[i - 1]
          /\ Range(chain) = DOMAIN list.node
          /\ Len(chain) <= list.length

\* vlListSize "Returns the total number of elements in the specified list".
LengthExact == ~misled => list.length = Len(contents)

\* VL_LIST_FOREACH_REVERSE starts at the tail and is to meet every element.
ReverseComplete == TailIsLast(list)

============================================================================
