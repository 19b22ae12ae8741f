---------------------------- MODULE MsgPackTree -----------------------------
(***************************************************************************)
(* vl_msgpack.c: a document as nodes in one hash table.  The key of a node *)
(* is the hash of its parent and its own key, so a node is named here by   *)
(* its path.  The children of a map are a doubly linked list, those of an  *)
(* array have the indices as keys.  With the two recursions of             *)
(* vl_msgpack_io.c that turn a document into tokens and back.              *)
(***************************************************************************)
EXTENDS Integers, Sequences, FiniteSets, SequencesExt, TLC

CONSTANTS
    Names,          \* keys of map children
    MaxLength,      \* bound of the model on arrays
    MaxDepth,       \* bound of the model on the depth, ...
    MaxNodes        \* ... and on the nodes in the table

VARIABLES
    nodes,          \* pack->nodes: element by path
    document,       \* type and children, in order, by path (history)
    astray          \* the kind of call that has gone wrong, or "no": "root" removed, a
                    \* removed node found "again", a value "misfreed" (history)

treeVars == <<nodes, document, astray>>

Root == << >>
None == <<"none">>                           \* VL_MSGPACK_ITER_INVALID
Indices == [i \in 0..(MaxLength - 1) |-> ToString(i)]
Leaves == {"nil", "int"}
Branches == {"map", "array"}

\* A node: type, siblings, and the union of the three payloads.  The value of a
\* leaf, and the index of an array, is a block of the values' arena: "none", "used",
\* "freed", "misfreed" (freed when it was not in use), or "foreign", the word a map
\* has in that place, which is a node.
Blank == [type |-> "nil", next |-> None, prev |-> None, first |-> None, last |-> None,
          total |-> 0, value |-> "none"]
Parent(path) == Front(path)
Child(path, key) == Append(path, key)
IndexKeys(path, n) == [i \in 1..n |-> Child(path, Indices[i - 1])]

\* vlArenaMemFree of a value, if there is one.
Freed(value) ==
    CASE value = "none" -> "none" [] value = "used" -> "freed" [] OTHER -> "misfreed"

----------------------------------------------------------------------------

RECURSIVE Siblings(_, _, _)
Siblings(table, node, step) ==
    IF node = None \/ node \notin DOMAIN table THEN << >>
    ELSE <<node>> \o Siblings(table, table[node][step], step)

\* vlMsgPackFirstChild, vlMsgPackNextSibling, VL_MSGPACK_FOREACH_CHILD
FirstChild(table, path) ==
    CASE table[path].type = "map" -> table[path].first
      [] table[path].type = "array" ->
           IF Child(path, Indices[0]) \in DOMAIN table THEN Child(path, Indices[0]) ELSE None
      [] OTHER -> None
Children(table, path) == Siblings(table, FirstChild(table, path), "next")

\* vl_MsgPackFreeChildren: the nodes below a node, which leave the table.  A leaf
\* gives its own value back.  (A node that was removed before still names its
\* children, which are gone: the code follows them astray.)
RECURSIVE Below(_, _)
Below(table, path) ==
    LET kids == IF table[path].type = "array" THEN IndexKeys(path, table[path].total)
                ELSE Children(table, path)
    IN  UNION {{kid} \cup Below(table, kid) : kid \in Range(kids) \cap DOMAIN table}
FreeChildren(table, path) ==
    LET kept == [p \in DOMAIN table \ Below(table, path) |-> table[p]]
    IN  IF table[path].type \in Branches \cup {"nil"} THEN kept
        ELSE [kept EXCEPT ![path].value = Freed(@)]

\* vl_MsgPackInitNode: a map is empty, an array full of NIL, linked in order.
InitNode(table, path, type, n) ==
    LET kids == IndexKeys(path, n)
        at(i) == IF i \in 1..n THEN kids[i] ELSE None
        self == [Blank EXCEPT !.type = type, !.total = n, !.next = table[path].next,
                              !.prev = table[path].prev,
                              !.value = IF type = "int" \/ n > 0 THEN "used" ELSE "none"]
    IN  [kid \in {kids[i] : i \in 1..n} |->
           LET i == CHOOSE j \in 1..n : kids[j] = kid
           IN  [Blank EXCEPT !.next = at(i + 1), !.prev = at(i - 1)]]
        @@ [table EXCEPT ![path] = self]

\* A new child of a map goes to the end of the list; one of an array to its
\* place, which is its key.
Link(table, path) ==
    LET up == Parent(path)
        tail == table[up].last
        linked == [table EXCEPT ![path].prev = tail, ![path].next = None,
                                ![up].total = @ + 1, ![up].last = path,
                                ![up].first = IF @ = None THEN path ELSE @]
    IN  IF table[up].type # "map" THEN table
        ELSE IF tail = None THEN linked
        ELSE [linked EXCEPT ![tail].next = path]

\* vlMsgPackInsertExt
InsertExt(table, path, type, n) ==
    IF path \in DOMAIN table
    THEN InitNode(FreeChildren(table, path), path, type, n)
    ELSE Link(InitNode((path :> Blank) @@ table, path, type, n), path)

\* Faulty variant: the node on the right keeps its link to the left.
UnlinkOneWay(table, path) ==
    LET up == Parent(path)
        left == table[path].prev
        right == table[path].next
        less == [table EXCEPT ![up].total = @ - 1]
        ends == [less EXCEPT ![up].first = IF @ = path THEN right ELSE @,
                             ![up].last = IF @ = path THEN left ELSE @]
    IN  IF less[up].total <= 0 THEN [less EXCEPT ![up].first = None, ![up].last = None]
        ELSE [p \in DOMAIN ends |-> IF p = left THEN [ends[p] EXCEPT !.next = right] ELSE ends[p]]

\* A map closes the gap in its list; the last child just empties it.
Unlink(table, path) ==
    LET up == Parent(path)
        left == table[path].prev
        right == table[path].next
        less == [table EXCEPT ![up].total = @ - 1]
        ends == [less EXCEPT ![up].first = IF @ = path THEN right ELSE @,
                             ![up].last = IF @ = path THEN left ELSE @]
    IN  IF less[up].total <= 0 THEN [less EXCEPT ![up].first = None, ![up].last = None]
        ELSE [p \in DOMAIN ends |->
                CASE p = left -> [ends[p] EXCEPT !.next = right]
                  [] p = right -> [ends[p] EXCEPT !.prev = left]
                  [] OTHER -> ends[p]]

\* vlMsgPackRemove: the node itself stays in the table; the root loses its children
\* but keeps its list.  The value of a leaf, which vl_MsgPackFreeChildren has freed,
\* is freed again.  An array's element becomes NIL with its payload as it was: the
\* word of a map's first child, or a freed value, passes for its own from then on.
RemoveFrom(table, path) ==
    LET freed == FreeChildren(table, path)
        isMap == table[path].type = "map"
        given == IF isMap THEN freed ELSE [freed EXCEPT ![path].value = Freed(@)]
        word == IF isMap /\ table[path].first # None THEN "foreign" ELSE given[path].value
    IN  IF path = Root THEN freed
        ELSE IF table[Parent(path)].type = "map" THEN Unlink(given, path)
        ELSE [given EXCEPT ![path].type = "nil", ![path].value = word]

\* vlMsgPackInit, vlMsgPackClear
EmptyTree == Root :> [Blank EXCEPT !.type = "map"]

----------------------------------------------------------------------------
(* The document as the client knows it *)

Under(path) == {p \in DOMAIN document : IsPrefix(path, p)}
Put(doc, path, type, n) ==
    LET kids == IndexKeys(path, n)
        rest == [p \in {q \in DOMAIN doc : ~IsPrefix(path, q)} |-> doc[p]]
        up == Parent(path)
        listed == IF path # Root /\ up \in DOMAIN rest /\ ~Contains(rest[up].kids, path)
                  THEN [rest EXCEPT ![up].kids = Append(@, path)] ELSE rest
    IN  (path :> [type |-> type, kids |-> kids])
        @@ [kid \in {kids[i] : i \in 1..n} |-> [type |-> "nil", kids |-> << >>]] @@ listed
Drop(doc, path) ==
    LET up == Parent(path)
        rest == [p \in {q \in DOMAIN doc : ~IsPrefix(path, q)} |-> doc[p]]
    IN  IF doc[up].type = "array" THEN Put(doc, path, "nil", 0)
        ELSE [rest EXCEPT ![up].kids = SelectSeq(@, LAMBDA p : p # path)]

TreeInit == nodes = EmptyTree /\ document = Put(<< >>, Root, "map", 0) /\ astray = "no"

\* Keys a client uses below a node, and the values it puts there.
KeysBelow(path) ==
    CASE document[path].type = "map" -> Names
      [] document[path].type = "array" -> {Indices[i] : i \in 0..(Len(document[path].kids) - 1)}
      [] OTHER -> {}
Insert(path, key, type, n) ==
    LET node == Child(path, key)
    IN  /\ astray = "no" /\ key \in KeysBelow(path) /\ Len(node) + (IF n > 0 THEN 1 ELSE 0) <= MaxDepth
        /\ type \in Branches => Len(node) < MaxDepth
        /\ nodes' = InsertExt(nodes, node, type, n)
        /\ Cardinality(DOMAIN nodes') <= MaxNodes
        /\ document' = Put(document, node, type, n)
        /\ astray' = IF node \in DOMAIN nodes /\ node \notin DOMAIN document THEN "again" ELSE "no"

RemoveNode(path) ==
    /\ astray = "no"
    /\ nodes' = RemoveFrom(nodes, path)
    /\ document' = IF path = Root THEN Put(<< >>, Root, "map", 0) ELSE Drop(document, path)
    /\ astray' = IF path = Root /\ nodes[Root].first # None THEN "root"
                 ELSE IF nodes'[path].value = "misfreed" THEN "misfreed" ELSE "no"

Clear == nodes' = EmptyTree /\ document' = Put(<< >>, Root, "map", 0) /\ astray' = "no"

----------------------------------------------------------------------------
(* Tokens *)

\* vlMsgPackIOEncodeFromDOM: a node and, behind it, its children.
RECURSIVE EncodeFromDOM(_, _)
EncodeFromDOM(table, path) ==
    LET kids == Children(table, path)
        item(i) == (IF table[path].type = "map" THEN <<[type |-> "key", n |-> Last(kids[i])]>> ELSE << >>)
                   \o EncodeFromDOM(table, kids[i])
    IN  <<[type |-> table[path].type, n |-> Len(kids)]>>
        \o FlattenSeq([i \in 1..Len(kids) |-> item(i)])

\* vlMsgPackIODecodeToDOM: the next token and what belongs to it become a node;
\* when the tokens end too soon the node is removed again.
RECURSIVE DecodeToDOM(_, _, _)
RECURSIVE DecodeItems(_, _, _, _)
DecodeToDOM(table, tokens, path) ==
    IF tokens = << >> THEN [table |-> table, rest |-> tokens, ok |-> FALSE]
    ELSE LET t == Head(tokens)
             n == IF t.type = "array" THEN t.n ELSE 0
         IN  DecodeItems(InsertExt(table, path, t.type, n), Tail(tokens), path,
                         IF t.type \in Branches THEN t.n ELSE 0)
DecodeItems(table, tokens, path, left) ==
    LET isMap == table[path].type = "map"
        key == IF isMap THEN Head(tokens).n ELSE Indices[table[path].total - left]
        item == DecodeToDOM(table, IF isMap THEN Tail(tokens) ELSE tokens, Child(path, key))
    IN  IF left = 0 THEN [table |-> table, rest |-> tokens, ok |-> TRUE]
        ELSE IF isMap /\ tokens = << >>
        THEN [table |-> RemoveFrom(table, path), rest |-> tokens, ok |-> FALSE]
        ELSE IF ~item.ok THEN [table |-> RemoveFrom(item.table, path), rest |-> item.rest, ok |-> FALSE]
        ELSE DecodeItems(item.table, item.rest, path, left - 1)

\* A node is encoded, cut off behind some tokens, and decoded elsewhere.
Copied(path, to) == [p \in {to \o SubSeq(q, Len(path) + 1, Len(q)) : q \in Under(path)} |->
    LET q == path \o SubSeq(p, Len(to) + 1, Len(p))
    IN  [type |-> document[q].type,
         kids |-> [i \in DOMAIN document[q].kids |->
                     to \o SubSeq(document[q].kids[i], Len(path) + 1, Len(document[q].kids[i]))]]]
Transfer(path, key, cut) ==
    LET to == Child(Root, key)
        tokens == EncodeFromDOM(nodes, path)
        r == DecodeToDOM(nodes, SubSeq(tokens, 1, Len(tokens) - cut), to)
    IN  /\ astray = "no" /\ path # Root /\ to \notin DOMAIN nodes /\ cut < Len(tokens)
        /\ \A p \in Under(path) : Len(p) - Len(path) + 1 <= MaxDepth
        /\ nodes' = r.table
        /\ Cardinality(DOMAIN nodes') <= MaxNodes
        /\ document' = IF r.ok THEN Copied(path, to) @@ Put(document, to, "nil", 0) ELSE document
        /\ astray' = "no"

TreeNext ==
    \/ \E path \in DOMAIN document, type \in Leaves \cup {"map", "array"} :
         \/ \E key \in KeysBelow(path), n \in 1..MaxLength :
              Insert(path, key, type, IF type = "array" THEN n ELSE 0)
         \/ \E key \in Names, cut \in 0..1 : Transfer(path, key, cut)
    \/ \E path \in DOMAIN document : RemoveNode(path)
    \/ Clear

----------------------------------------------------------------------------

\* Every value is freed once, and only by the node it belongs to.  vl_arena.h:314:
\* "Undefined Behavior: Freeing an invalid handle, [...] or double-freeing".
ValuesFreedOnce == \A path \in DOMAIN nodes : nodes[path].value # "misfreed"

\* The children found by walking a node, forwards and backwards, are those the
\* client put there and did not remove, in the order in which they came; each has
\* its type and its number of children.  No value in use is freed.  Nothing is
\* claimed after the root is removed or a removed child inserted again, and only
\* the links right after a leaf is removed, whose value is freed twice
\* (ValuesFreedOnce): the nodes have an arena of their own, but the values, and the
\* index of an array, may overlap from then on, and no further call is looked at.
TreeSound ==
    /\ astray \in {"no", "misfreed"} =>
         \A path \in DOMAIN document :
           LET kids == document[path].kids
           IN  /\ path \in DOMAIN nodes
               /\ nodes[path].type = document[path].type
               /\ Children(nodes, path) = kids
               /\ kids # << >> => Siblings(nodes, Last(kids), "prev") = Reverse(kids)
               /\ nodes[path].type \in Branches => nodes[path].total = Len(kids)
    /\ astray = "no" =>
         /\ ValuesFreedOnce
         /\ \A path \in DOMAIN document :
              nodes[path].type \in {"int", "array"} => nodes[path].value = "used"

============================================================================
