----------------------------- MODULE HashTable -----------------------------
(***************************************************************************)
(* vl_hashtable.c: collision chains through blocks of an arena.  The first *)
(* cell of a block is the header with the key, the cells behind it are the *)
(* value.  A table is iterated by walking its arena from block to block.   *)
(***************************************************************************)
EXTENDS Arena

CONSTANTS
    Keys,
    Hash,           \* hashFunc: from keys to numbers
    InitialBuckets, \* 16 in the code
    WordSize,       \* sizeof(vl_hash_iter) = sizeof(vl_arena_ptr)
    HeapSize,       \* VL_HASHTABLE_DEFAULT_SIZE
    MaxHeap,        \* bound of the model on the arena
    MaxValue,       \* bound of the model on the size of a value
    Marks           \* what the caller puts in a value

VARIABLES
    table,
    entries,        \* what it should map each key to (history)
    mislaid         \* the kind of call that has misplaced a node, or "no": "enlarged",
                    \* "reserved" or "missing" (history)

tableVars == <<table, entries, mislaid>>

Nil == 0            \* VL_HASHTABLE_ITER_INVALID

Buckets(t) == Cardinality(DOMAIN t.map)
NoBuckets(n) == [i \in 0..(n - 1) |-> Nil]
Node(t, it) == t.data.mem[it]
SetNode(t, it, field, v) == [t EXCEPT !.data.mem[it][field] = v]
SampleValue(t, it) == Read(t.data.mem, it + 1, Node(t, it).valSize)

\* vlHashTableInit.
NewTable ==
    [data |-> NewArena(HeapSize), map |-> NoBuckets(InitialBuckets), total |-> 0]

----------------------------------------------------------------------------
(* Iteration. *)

\* vlHashTableFront: the block at offset 0, or the one behind the free node there.
TableFront(t) ==
    IF 0 \notin DOMAIN t.data.free THEN Header
    ELSE IF t.data.free[0] = t.data.cap THEN Nil
    ELSE t.data.free[0] + Header

\* vlHashTableNext.
TableNext(t, it) ==
    LET end == it + MemSize(t.data, it)
        next == IF end \in DOMAIN t.data.free THEN end + t.data.free[end] ELSE end
    IN  IF next = t.data.cap THEN Nil ELSE next + Header

RECURSIVE IterFrom(_, _)
IterFrom(t, it) == IF it = Nil THEN << >> ELSE <<it>> \o IterFrom(t, TableNext(t, it))

\* VL_HASHTABLE_FOREACH.
Iterators(t) == IterFrom(t, TableFront(t))

----------------------------------------------------------------------------
(* Buckets. *)

\* The loop that rebuilds the chains: each node goes to the head of its own.
Rehash(t, buckets, modulus) ==
    FoldLeft(LAMBDA u, it :
               LET b == Node(u, it).hash % modulus
               IN  [SetNode(u, it, "next", u.map[b]) EXCEPT !.map[b] = it],
             [t EXCEPT !.map = NoBuckets(buckets)], Iterators(t))

\* vl_HashTableGrow.
TableGrow(t) == Rehash(t, 2 * Buckets(t), 2 * Buckets(t))

RECURSIVE DoubledTo(_, _)
DoubledTo(n, least) == IF n < least THEN DoubledTo(2 * n, least) ELSE n

\* vlHashTableReserve: the size is divided by the size of a word twice before
\* it is used as the modulus.
TableReserve(t, buckets, heap) ==
    LET size == DoubledTo(Buckets(t), Buckets(t) + buckets)
    IN  Rehash([t EXCEPT !.data = ArenaReserve(@, heap)], size, size \div WordSize)

RECURSIVE ChainFrom(_, _)
ChainFrom(t, it) == IF it = Nil THEN << >> ELSE <<it>> \o ChainFrom(t, Node(t, it).next)
ChainOf(t, key) == ChainFrom(t, t.map[Hash[key] % Buckets(t)])

\* vlHashTableFind.
TableFind(t, key) ==
    LET hits == SelectSeq(ChainOf(t, key), LAMBDA it : Node(t, it).key = key)
    IN  IF hits = << >> THEN Nil ELSE hits[1]

----------------------------------------------------------------------------
(* Insertion and removal. *)

\* The load factor of 0.8 is kept before the key is looked for.
Loaded(t) == IF 10 * (t.total + 1) >= 8 * Buckets(t) THEN TableGrow(t) ELSE t

\* A key that is there: its block is resized when the value's size differs.
\* Only the bucket learns where the block went, not the node before it.
Replace(t, it, key, n) ==
    LET b == Hash[key] % Buckets(t)
        r == MemRealloc(t.data, it, n + 1)
    IN  IF Node(t, it).valSize = n THEN [table |-> t, it |-> it]
        ELSE [table |-> [t EXCEPT !.data = [r.arena EXCEPT !.mem[r.ptr].valSize = n],
                                  !.map[b] = IF @ = it THEN r.ptr ELSE @],
              it |-> r.ptr]

\* A new node, behind the last of its chain.
AddNode(t, key, n) ==
    LET b == Hash[key] % Buckets(t)
        chain == ChainOf(t, key)
        r == MemAlloc(t.data, n + 1)
        node == [next |-> Nil, key |-> key, hash |-> Hash[key], valSize |-> n]
        u == [t EXCEPT !.data = [r.arena EXCEPT !.mem[r.ptr] = node], !.total = @ + 1]
    IN  [table |-> IF chain = << >> THEN [u EXCEPT !.map[b] = r.ptr]
                   ELSE SetNode(u, Last(chain), "next", r.ptr),
         it |-> r.ptr]

\* vlHashTableInsert; a node that would have to move is the caller's loss.
TableInsert(t, key, n) ==
    LET u == Loaded(t)
        it == TableFind(u, key)
    IN  IF it = Nil THEN AddNode(u, key, n) ELSE Replace(u, it, key, n)

Moves(t, key, n) ==
    LET it == TableFind(t, key)
    IN  it # Nil /\ n > Node(t, it).valSize /\ ~FitsInPlace(t.data, it, n + 1)

\* Faulty variant: a node inside the chain takes the rest of it along.
UnchainDrops(t, it, b) ==
    IF t.map[b] = it THEN [t EXCEPT !.map[b] = Node(t, it).next]
    ELSE LET chain == ChainFrom(t, t.map[b])
             before == CHOOSE x \in Range(chain) : Node(t, x).next = it
         IN  SetNode(t, before, "next", Nil)

Unchain(t, it, b) ==
    IF t.map[b] = it THEN [t EXCEPT !.map[b] = Node(t, it).next]
    ELSE LET chain == ChainFrom(t, t.map[b])
             before == CHOOSE x \in Range(chain) : Node(t, x).next = it
         IN  SetNode(t, before, "next", Node(t, it).next)

\* The same for an iterator that no chain contains, 0: a chain of one node is dropped,
\* and the last node of a longer one, whose next is 0, gets what was read at 0.
UnchainNil(t, b, next) ==
    LET chain == ChainFrom(t, t.map[b])
    IN  IF Len(chain) <= 1 THEN [t EXCEPT !.map[b] = Nil]
        ELSE SetNode(t, Last(chain), "next", next)

\* vlHashTableRemoveIter.
TableRemove(t, it) ==
    LET b == Node(t, it).hash % Buckets(t)
    IN  IF t.map[b] = Nil THEN t
        ELSE [Unchain(t, it, b) EXCEPT !.data = MemFree(@, it), !.total = @ - 1]

\* vlHashTableClear.
TableClear(t) ==
    [data |-> ArenaClear(t.data), map |-> NoBuckets(Buckets(t)), total |-> 0]

\* vlHashTableClone.
TableClone(src, dest) ==
    [data |-> ArenaClone(src.data, dest.data), map |-> src.map, total |-> src.total]

\* vlHashTableCopyElement.
CopyElement(src, it, dest) ==
    LET r == TableInsert(dest, Node(src, it).key, Node(src, it).valSize)
    IN  [r.table EXCEPT !.data.mem = Write(@, r.it + 1, SampleValue(src, it))]

\* vlHashTableCopy.
TableCopy(src, dest) ==
    FoldLeft(LAMBDA u, it : CopyElement(src, it, u), dest, Iterators(src))

----------------------------------------------------------------------------

TableInit ==
    /\ table = NewTable
    /\ entries = << >>
    /\ mislaid = "no"

\* Insert, and the caller writes the value.
Insert(key, n, mark) ==
    LET r == TableInsert(table, key, n)
        value == [i \in 1..n |-> mark]
        moves == Moves(Loaded(table), key, n)
    IN  /\ mislaid' = IF moves THEN "enlarged" ELSE "no"
        /\ IF moves THEN UNCHANGED table
           ELSE /\ table' = [r.table EXCEPT !.data.mem = Write(@, r.it + 1, value)]
                /\ table'.data.cap <= MaxHeap
        /\ entries' = (key :> value) @@ entries

\* vlHashTableRemoveKey of a key that is there.
RemoveFound(key) ==
    /\ table' = TableRemove(table, TableFind(table, key))
    /\ entries' = Without(entries, key)
    /\ UNCHANGED mislaid

\* Of a key that is not there: vlHashTableFind's 0 is taken for an iterator, and
\* what lies at the start of the arena for its header, so that any bucket may be
\* meant, and anything be the rest of its chain.  Only an empty bucket ends the call.
RemoveMissing ==
    /\ \E b \in DOMAIN table.map, next \in {Nil, Junk} :
          LET gone == UnchainNil(table, b, next)
          IN  IF table.map[b] = Nil THEN UNCHANGED <<table, mislaid>>
              ELSE /\ table' = [gone EXCEPT !.data.free = AddFree(@, Nil - Header, Junk),
                                            !.total = @ - 1]
                   /\ mislaid' = "missing"
    /\ UNCHANGED entries

RemoveKey(key) == IF TableFind(table, key) = Nil THEN RemoveMissing ELSE RemoveFound(key)

Clear ==
    /\ table' = TableClear(table)
    /\ entries' = << >>
    /\ UNCHANGED mislaid

\* The program goes on with a clone, or with a table everything is copied to.
Clone ==
    /\ table' = TableClone(table, NewTable)
    /\ UNCHANGED <<entries, mislaid>>

Copy ==
    /\ table' = TableCopy(table, NewTable)
    /\ UNCHANGED <<entries, mislaid>>

Reserve(buckets) ==
    /\ ArenaReserve(table.data, 1).cap <= MaxHeap
    /\ table' = TableReserve(table, buckets, 1)
    /\ mislaid' = IF entries = << >> THEN "no" ELSE "reserved"
    /\ UNCHANGED entries

TableOps ==
    /\ mislaid = "no"
    /\ \/ \E key \in Keys, n \in 1..MaxValue, mark \in Marks : Insert(key, n, mark)
       \/ \E key \in Keys : RemoveKey(key)
       \/ Clear
       \/ Clone
       \/ Copy
       \/ Reserve(1)

TableSpec == TableInit /\ [][TableOps]_tableVars

----------------------------------------------------------------------------

\* A table answers every lookup with the value written last, and its iteration
\* over the arena meets every entry once and nothing else.
Holds(t, e) ==
    /\ \A key \in Keys :
          LET it == TableFind(t, key)
          IN  IF key \in DOMAIN e THEN it # Nil /\ SampleValue(t, it) = e[key]
              ELSE it = Nil
    /\ t.total = Cardinality(DOMAIN e)
    /\ Len(Iterators(t)) = t.total
    /\ {Node(t, it).key : it \in Range(Iterators(t))} = DOMAIN e

\* The chains, the blocks of the arena and the iteration agree through growth,
\* collisions, removal inside a chain, copies between tables and reuse of freed
\* blocks.  Nothing is claimed after one of three calls the code gets wrong: a value
\* is enlarged where there is no room for it, vlHashTableReserve rebuilds the chains
\* of a table that is not empty (KeysFound), or vlHashTableRemoveKey is given a key
\* that is not there and takes what it reads at offset 0 for a node of a chain
\* (MissingIsNoOp).
TableSound == mislaid = "no" => Holds(table, entries)

\* vl_hashtable.h:391: vlHashTableFind returns "the found element, or
\* `VL_HASHTABLE_ITER_INVALID` if not found"; a key that was inserted is found, also
\* after vlHashTableReserve.
KeysFound == mislaid = "reserved" => \A key \in DOMAIN entries : TableFind(table, key) # Nil

\* vl_hashtable.h:220: removing is a "no-op if key is not found"; no chain is dropped
\* and no element is counted out.
MissingIsNoOp ==
    mislaid = "missing" =>
        /\ \A key \in DOMAIN entries : table.map[Hash[key] % Buckets(table)] # Nil
        /\ table.total = Cardinality(DOMAIN entries)

============================================================================
