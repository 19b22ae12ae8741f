---------------------------- MODULE OrderedSet -----------------------------
(***************************************************************************)
(* vl_set.c: an ordered set as a red-black tree whose nodes live in a      *)
(* fixed pool.  A set is a record; a node is a slot of the pool, and an    *)
(* iterator is a slot too.  Slots are compared for equality only, so the   *)
(* model names the slot an element is put in after the element; where the  *)
(* element moves later is up to the code.  The mirrored branches of the    *)
(* code are one branch with a direction.                                   *)
(***************************************************************************)
EXTENDS Integers, Sequences, FiniteSets, SequencesExt

CONSTANTS
    N,          \* the elements are 1..N
    Operands    \* subsets of 1..N that the second set of an operation holds

VARIABLES
    set,        \* the set in use
    contents    \* what it should hold (history)

vars == <<set, contents>>

Nil == 0        \* VL_SET_ITER_INVALID
Sides == {"left", "right"}
Opp(d) == IF d = "left" THEN "right" ELSE "left"

\* vlSetInit, vlSetClear.
Empty == [root |-> Nil, size |-> 0, node |-> << >>]

Put(t, x, field, v) == [t EXCEPT !.node[x][field] = v]
Color(t, x) == IF x = Nil THEN "black" ELSE t.node[x].color
Paint(t, x, c) == IF x = Nil THEN t ELSE Put(t, x, "color", c)

\* The child `old` of p, or the root, becomes `new`.
Relink(t, p, old, new) ==
    IF p = Nil THEN [t EXCEPT !.root = new]
    ELSE Put(t, p, IF t.node[p].left = old THEN "left" ELSE "right", new)

\* Faulty variant: the subtree that changes sides keeps its old parent.
RotateKeepsParent(t, x, d) ==
    IF t.node[x][Opp(d)] = Nil THEN t
    ELSE LET y == t.node[x][Opp(d)]
             a == Put(t, x, Opp(d), t.node[y][d])
             b == Put(a, y, "parent", t.node[x].parent)
             c == Relink(b, t.node[x].parent, x, y)
         IN  Put(Put(c, y, d, x), x, "parent", y)

\* vl_SetTreeRotateLeft and vl_SetTreeRotateRight.
Rotate(t, x, d) ==
    IF t.node[x][Opp(d)] = Nil THEN t
    ELSE LET y == t.node[x][Opp(d)]
             inner == t.node[y][d]
             a == Put(t, x, Opp(d), inner)
             b == IF inner = Nil THEN a ELSE Put(a, inner, "parent", x)
             c == Put(b, y, "parent", t.node[x].parent)
             e == Relink(c, t.node[x].parent, x, y)
         IN  Put(Put(e, y, d, x), x, "parent", y)

----------------------------------------------------------------------------
(* Walking the tree. *)

\* vl_SetMinSubtree (d = "left"); the loops of vlSetFront and vlSetBack.
RECURSIVE Extreme(_, _, _)
Extreme(t, x, d) ==
    IF x = Nil \/ t.node[x][d] = Nil THEN x ELSE Extreme(t, t.node[x][d], d)

SetFront(t) == Extreme(t, t.root, "left")
SetBack(t) == Extreme(t, t.root, "right")

\* The first ancestor of x that is not left behind on side d.
RECURSIVE Ascend(_, _, _)
Ascend(t, x, d) ==
    LET p == t.node[x].parent
    IN  IF p # Nil /\ t.node[p][d] = x THEN Ascend(t, p, d) ELSE p

\* The neighbour of x on side d.
Step(t, x, d) ==
    IF t.node[x][d] # Nil THEN Extreme(t, t.node[x][d], Opp(d))
    ELSE Ascend(t, x, d)

SetNext(t, x) == Step(t, x, "right")
SetPrev(t, x) == Step(t, x, "left")

RECURSIVE WalkFrom(_, _, _, _)
WalkFrom(t, x, last, d) ==
    IF x = Nil THEN << >>
    ELSE <<t.node[x].elem>> \o
         (IF x = last THEN << >> ELSE WalkFrom(t, Step(t, x, d), last, d))

\* VL_SET_FOREACH and VL_SET_FOREACH_REVERSE.
Forward(t) == WalkFrom(t, SetFront(t), Nil, "right")
Backward(t) == WalkFrom(t, SetBack(t), Nil, "left")

\* The search of vlSetFind and vlSetInsert: the node that holds e, or the one
\* a node for e would hang from.
RECURSIVE Descend(_, _, _)
Descend(t, x, e) ==
    LET side == IF t.node[x].elem > e THEN "left" ELSE "right"
    IN  IF t.node[x].elem = e \/ t.node[x][side] = Nil THEN x
        ELSE Descend(t, t.node[x][side], e)

SetFind(t, e) ==
    IF t.root = Nil THEN Nil
    ELSE LET x == Descend(t, t.root, e) IN IF t.node[x].elem = e THEN x ELSE Nil

----------------------------------------------------------------------------
(* Insertion. *)

\* The second half of vlSetInsert: red nodes with red parents are repaired.
RECURSIVE InsertFixup(_, _)
InsertFixup(t, x) ==
    IF x = t.root \/ Color(t, t.node[x].parent) # "red"
    THEN Paint(t, t.root, "black")
    ELSE LET p == t.node[x].parent
             g == t.node[p].parent
             d == IF p = t.node[g].left THEN "left" ELSE "right"
             uncle == t.node[g][Opp(d)]
         IN  IF Color(t, uncle) = "red"
             THEN InsertFixup(Paint(Paint(Paint(t, p, "black"), uncle, "black"),
                                    g, "red"), g)
             ELSE LET bent == x = t.node[p][Opp(d)]
                      t1 == IF bent THEN Rotate(t, p, d) ELSE t
                      x1 == IF bent THEN p ELSE x
                      p1 == t1.node[x1].parent
                      g1 == t1.node[p1].parent
                      t2 == Paint(Paint(t1, p1, "black"), g1, "red")
                  IN  InsertFixup(Rotate(t2, g1, Opp(d)), x1)

NewNode(t, slot, parent, color, e) ==
    [t EXCEPT !.size = @ + 1,
              !.node = [s \in DOMAIN @ \cup {slot} |->
                          IF s = slot
                          THEN [color |-> color, parent |-> parent,
                                left |-> Nil, right |-> Nil, elem |-> e]
                          ELSE @[s]]]

\* vlPoolTake for element e: a slot not in use.
FreeSlot(t, e) ==
    IF e \notin DOMAIN t.node THEN e
    ELSE CHOOSE s \in 1..(N + 1) : s \notin DOMAIN t.node

\* vlSetInsert.
SetInsert(t, e) ==
    LET slot == FreeSlot(t, e)
        at == Descend(t, t.root, e)
        side == IF t.node[at].elem > e THEN "left" ELSE "right"
    IN  IF t.root = Nil
        THEN [NewNode(t, slot, Nil, "black", e) EXCEPT !.root = slot]
        ELSE IF t.node[at].elem = e THEN t
        ELSE InsertFixup(Put(NewNode(t, slot, at, "red", e), at, side, slot), slot)

InsertAll(t, elems) == FoldLeft(SetInsert, t, elems)

----------------------------------------------------------------------------
(* Removal. *)

\* vl_SetRemoveFixup; no node, no repair.
RECURSIVE RemoveFixup(_, _)
RemoveFixup(t, x) ==
    IF x = Nil \/ x = t.root \/ Color(t, x) # "black" THEN Paint(t, x, "black")
    ELSE LET p == t.node[x].parent
             d == IF x = t.node[p].left THEN "left" ELSE "right"
             w0 == t.node[p][Opp(d)]
             t1 == IF Color(t, w0) = "red"
                   THEN Rotate(Paint(Paint(t, w0, "black"), p, "red"), p, d)
                   ELSE t
             w1 == t1.node[p][Opp(d)]
             near == IF w1 = Nil THEN Nil ELSE t1.node[w1][d]
             far == IF w1 = Nil THEN Nil ELSE t1.node[w1][Opp(d)]
         IN  IF Color(t1, near) = "black" /\ Color(t1, far) = "black"
             THEN RemoveFixup(Paint(t1, w1, "red"), p)
             ELSE LET t2 == IF Color(t1, far) = "black"
                            THEN Rotate(Paint(Paint(t1, near, "black"), w1, "red"),
                                        w1, Opp(d))
                            ELSE t1
                      w2 == t2.node[p][Opp(d)]
                      t3 == Paint(Paint(t2, w2, Color(t2, p)), p, "black")
                      t4 == Rotate(Paint(t3, t3.node[w2][Opp(d)], "black"), p, d)
                  IN  RemoveFixup(t4, t4.root)

\* nodeY takes the place of nodeZ in the tree, colour included.
TakePlace(t, y, z) ==
    LET old == t.node[z]
        a == [t EXCEPT !.node[z].elem = t.node[y].elem,
                       !.node[y] = [old EXCEPT !.elem = t.node[y].elem]]
        b == Relink(a, old.parent, z, y)
        c == IF old.left = Nil THEN b ELSE Put(b, old.left, "parent", y)
    IN  IF old.right = Nil THEN c ELSE Put(c, old.right, "parent", y)

\* vlPoolReturn and totalElements.
DropNode(t, z) ==
    [t EXCEPT !.size = @ - 1, !.node = [s \in DOMAIN @ \ {z} |-> @[s]]]

\* Faulty variant: the successor's element is copied into z, and its node removed.
SetRemoveCopies(t, z) ==
    IF z = Nil THEN t
    ELSE LET y == IF Nil \in {t.node[z].left, t.node[z].right}
                  THEN z ELSE SetNext(t, z)
             x == IF t.node[y].left # Nil THEN t.node[y].left ELSE t.node[y].right
             a == IF x = Nil THEN t ELSE Put(t, x, "parent", t.node[y].parent)
             b == Relink(a, t.node[y].parent, y, x)
             c == DropNode(Put(b, z, "elem", t.node[y].elem), y)
         IN  IF Color(b, y) = "black" THEN RemoveFixup(c, x) ELSE c

\* vlSetRemove.  The colour that decides on the repair is read after y has
\* taken over z's colour.
SetRemove(t, z) ==
    IF z = Nil THEN t
    ELSE LET y == IF Nil \in {t.node[z].left, t.node[z].right}
                  THEN z ELSE SetNext(t, z)
             x == IF t.node[y].left # Nil THEN t.node[y].left ELSE t.node[y].right
             a == IF x = Nil THEN t ELSE Put(t, x, "parent", t.node[y].parent)
             b == Relink(a, t.node[y].parent, y, x)
             c == IF y = z THEN b ELSE TakePlace(b, y, z)
             d == DropNode(c, z)
         IN  IF Color(c, y) = "black" THEN RemoveFixup(d, x) ELSE d

----------------------------------------------------------------------------
(* Operations on two sets. *)

\* vlSetCopy from begin to end; Nil stands for the first and the last one.
SetCopy(src, begin, end, dest) ==
    IF src.size = 0 THEN dest
    ELSE InsertAll(dest, WalkFrom(src, IF begin = Nil THEN SetFront(src) ELSE begin,
                                  IF end = Nil THEN SetBack(src) ELSE end, "right"))

SetUnion(a, b, dest) == InsertAll(InsertAll(dest, Forward(a)), Forward(b))

\* The smaller set is walked, the larger one searched.
SetIntersection(a, b, dest) ==
    LET smaller == IF a.size <= b.size THEN a ELSE b
        larger == IF a.size <= b.size THEN b ELSE a
        common(e) == SetFind(larger, e) # Nil
    IN  InsertAll(dest, SelectSeq(Forward(smaller), common))

SetDifference(a, b, dest) ==
    LET kept(e) == b.size = 0 \/ SetFind(b, e) = Nil
    IN  InsertAll(dest, SelectSeq(Forward(a), kept))

----------------------------------------------------------------------------

Holding(S) == InsertAll(Empty, SetToSortSeq(S, <))

Init == set = Empty /\ contents = {}

InsertElem(e) == set' = SetInsert(set, e) /\ contents' = contents \cup {e}

\* vlSetRemoveElem: vlSetRemove of what vlSetFind finds.
RemoveElem(e) == set' = SetRemove(set, SetFind(set, e)) /\ contents' = contents \ {e}

ClearSet == set' = Empty /\ contents' = {}

\* The program goes on with the result; dest may hold elements already.
CombineSets ==
    \E S \in Operands, D \in {{}, {1}} :
        LET b == Holding(S)
            dest == Holding(D)
        IN  \/ set' = SetUnion(set, b, dest) /\ contents' = contents \cup S \cup D
            \/ set' = SetIntersection(set, b, dest)
               /\ contents' = (contents \cap S) \cup D
            \/ set' = SetDifference(set, b, dest) /\ contents' = (contents \ S) \cup D

\* vlSetCopy of a range of the set into a new one, which the program goes on
\* with.
CopyRange ==
    \E lo \in contents \cup {Nil}, hi \in contents \cup {Nil} :
        /\ lo = Nil \/ hi = Nil \/ lo <= hi
        /\ set' = SetCopy(set, SetFind(set, lo), SetFind(set, hi), Empty)
        /\ contents' = {e \in contents : (lo = Nil \/ lo <= e) /\ (hi = Nil \/ e <= hi)}

Next ==
    \/ \E e \in 1..N : InsertElem(e)
    \/ \E e \in 1..N : RemoveElem(e)
    \/ ClearSet
    \/ CombineSets
    \/ CopyRange

Spec == Init /\ [][Next]_vars

----------------------------------------------------------------------------

\* Every link to a child has its link back, and every node is linked.
Linked ==
    LET n == set.node
        Child(x, c) == c # Nil /\ \E d \in Sides : n[x][d] = c
    IN  /\ set.root # Nil => n[set.root].parent = Nil
        /\ \A x \in DOMAIN n :
              /\ x # set.root => n[x].parent \in DOMAIN n /\ Child(n[x].parent, x)
              /\ \A d \in Sides : n[x][d] # Nil => n[n[x][d]].parent = x

\* After any sequence of insertions, removals, copies and set operations the
\* links of the tree agree in both directions, vlSetNext and vlSetPrev meet
\* the elements in order and meet exactly those that were put in and not
\* removed, vlSetFind finds these and no other, and totalElements counts them.
SetSound ==
    /\ Linked
    /\ Forward(set) = SetToSortSeq(contents, <)
    /\ Backward(set) = Reverse(Forward(set))
    /\ \A e \in 1..N : SetFind(set, e) # Nil <=> e \in contents
    /\ set.size = Cardinality(contents)
    /\ Cardinality(DOMAIN set.node) = set.size

\* An iterator to an element outlives every operation that keeps the element:
\* rotations relink nodes, and a removal moves the successor's node, never its
\* element.
IteratorsKept ==
    \A x \in DOMAIN set.node :
        set.node[x].elem \in contents' =>
            x \in DOMAIN set'.node /\ set'.node[x].elem = set.node[x].elem

\* The rules of a red-black tree, which bound the depth of the tree: a red
\* node has black children, and every path down passes as many black nodes.
RECURSIVE BlackHeights(_)
BlackHeights(x) ==
    IF x = Nil THEN {0}
    ELSE {h + (IF Color(set, x) = "black" THEN 1 ELSE 0) :
            h \in BlackHeights(set.node[x].left) \cup BlackHeights(set.node[x].right)}

RedBlack ==
    /\ \A x \in DOMAIN set.node :
          Color(set, x) = "red" =>
            \A d \in Sides : Color(set, set.node[x][d]) = "black"
    /\ Cardinality(BlackHeights(set.root)) = 1

============================================================================
