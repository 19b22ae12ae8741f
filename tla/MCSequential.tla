---------------------------- MODULE MCSequential ----------------------------
(***************************************************************************)
(* The parts of the library that one caller uses at a time, each as a      *)
(* system of its own, beside those of Storage: subject says which one a    *)
(* behaviour is about, and its state is in s1 to s4.                       *)
(***************************************************************************)
EXTENDS Storage, Sequences

CONSTANTS
    m1, m2,         \* what a caller writes to its memory
    Subjects        \* the systems of this run

Set == INSTANCE OrderedSet WITH
    set <- s1, contents <- s2, N <- 6, Operands <- {{}, {2, 4}, {1, 3, 5}}
List == INSTANCE LinkedList WITH
    list <- s1, contents <- s2, misled <- s3,
    Slots <- 1..4, Values <- {1, 2}, MaxLength <- 5, SourceLength <- 2
Heap == INSTANCE ArenaHeap WITH
    arena <- s1, blocks <- s2, astray <- s3, InitialSize <- 4, MaxCapacity <- 8, MaxSize <- 3, Marks <- {m1, m2}
Table == INSTANCE HashTable WITH
    table <- s1, entries <- s2, mislaid <- s3, Keys <- {1, 2, 3}, Hash <- [k \in {1, 2, 3} |-> 4 * k - 4],
    InitialBuckets <- 2, WordSize <- 2, HeapSize <- 4, MaxHeap <- 16, MaxValue <- 2, Marks <- {m1}
Alg == INSTANCE Algorithms WITH arg <- s1, W <- 4, MaxSort <- 4
Path == INSTANCE FsPath WITH
    given <- s1, PathPlatforms <- {"posix", "win32"}, MaxTokens <- 4, Cwd <- <<"b", "a">>
Simd == INSTANCE SimdLanes WITH probe <- s1, IntBits <- 4, Bits <- {0, 1, 2}
Tree == INSTANCE MsgPackTree WITH
    nodes <- s1, document <- s2, astray <- s3, Names <- {"a", "b"}, MaxLength <- 2, MaxDepth <- 2, MaxNodes <- 5

\* Containers are reached with bytes of two values, ...
Token(kind, n) == [kind |-> kind, n |-> n]
Codec == INSTANCE MsgPackCodec WITH
    enc <- s1, written <- s2, unbalanced <- s3, Radix <- 2, FixLength <- 1, NegFix <- 0, MaxFixExt <- 1,
    Scalars <- {Token("nil", 0), Token("string", 2)}, MaxTokens <- 5, MaxDepth <- 2
\* ... the widths of scalars with bytes of eight.
Wide == INSTANCE MsgPackCodec WITH
    enc <- s1, written <- s2, unbalanced <- s3, Radix <- 8, FixLength <- 1, NegFix <- 1, MaxFixExt <- 2,
    MaxTokens <- 1, MaxDepth <- 1,
    Scalars <- {Token("nil", 0), Token("bool", 0), Token("bool", 1), Token("float32", 0), Token("float64", 0)}
               \cup {Token("int", n) : n \in {-2049, -2048, -33, -32, -31, -5, -4, -3, -2, -1, 0, 3, 4, 31, 32, 2047, 2048}}
               \cup {Token("uint", n) : n \in {0, 7, 8, 63, 64, 4095, 4096}}
               \cup {Token(kind, n) : kind \in {"string", "binary", "ext"}, n \in {1, 2, 3, 7, 8, 31, 32, 63, 64}}

Init ==
    /\ \/ StorageInit
       \/ subject = "set" /\ Set!Init /\ Unused(2)
       \/ subject = "list" /\ List!Init /\ Unused(3)
       \/ subject = "heap" /\ Heap!HeapInit /\ Unused(3)
       \/ subject = "table" /\ Table!TableInit /\ Unused(3)
       \/ subject = "algorithms" /\ Alg!AlgInit /\ Unused(1)
       \/ subject = "path" /\ Path!PathInit /\ Unused(1)
       \/ subject = "lanes" /\ Simd!LanesInit /\ Unused(1)
       \/ subject = "codec" /\ Codec!CodecInit /\ Unused(3)
       \/ subject = "wide" /\ Wide!CodecInit /\ Unused(3)
       \/ subject = "tree" /\ Tree!TreeInit /\ Unused(3)
    /\ subject \in Subjects

Next ==
    \/ StorageNext
    \/ subject = "set" /\ Set!Next /\ UNCHANGED <<subject, s3, s4>>
    \/ subject = "list" /\ List!Next /\ UNCHANGED <<subject, s4>>
    \/ subject = "heap" /\ Heap!HeapNext /\ UNCHANGED <<subject, s4>>
    \/ subject = "table" /\ Table!TableOps /\ UNCHANGED <<subject, s4>>
    \/ subject \in {"algorithms", "path", "lanes", "wide"} /\ UNCHANGED state
    \/ subject = "codec" /\ Codec!CodecNext /\ UNCHANGED <<subject, s4>>
    \/ subject = "tree" /\ Tree!TreeNext /\ UNCHANGED <<subject, s4>>

Spec == Init /\ [][Next]_state

----------------------------------------------------------------------------

\* The red-black set (vl_set.c) is a sorted set: iteration, search, size and links agree
\* with what was inserted and removed.
SetSound == subject = "set" => Set!SetSound

\* The set is a balanced tree.  (Violated.)
RedBlack == subject = "set" => Set!RedBlack

\* An iterator of the set stays with its element while the element is in the set.
IteratorsStable == [][subject = "set" => Set!IteratorsKept]_state

\* The linked list (vl_linked_list.c) holds the sequence the calls made, in both
\* directions, until an operation relies on a tail that Sort left behind.
ListSound == subject = "list" => List!ListSound

\* The list's size is the number of its elements.  (Violated.)
LengthExact == subject = "list" => List!LengthExact

\* A walk from the tail meets every element.  (Violated.)
ReverseComplete == subject = "list" => List!ReverseComplete

\* The arena (vl_arena.c) keeps blocks apart, accounts for every byte, and keeps what
\* blocks hold until one of the three calls of the two properties below.
HeapsSound == subject = "heap" => Heap!HeapSound

\* A reallocation of the arena preserves the contents of the block.  (Violated.)
ContentsPreserved == subject = "heap" => Heap!ContentsPreserved

\* Prepending a source inside the arena puts the source in front.  (Violated.)
PrependedFromArena == subject = "heap" => Heap!PrependedFromArena

\* The hash table (vl_hashtable.c) maps each key to the value inserted last, until an
\* operation misplaces a node.
TableSound == subject = "table" => Table!TableSound

\* Reserving buckets loses no key.  (Violated.)
KeysFound == subject = "table" => Table!KeysFound

\* Removing a key that is not there changes nothing.  (Violated.)
MissingIsNoOp == subject = "table" => Table!MissingIsNoOp

\* Bit counting, arithmetic, sorting and path normalisation compute what their
\* definitions say, and vectors (vl_simd) the same on every backend.  The two
\* properties below name what is left out: CLZ16, CTZ8 and CTZ16 of the build without
\* builtins, and the memory of a sort of one element.
FunctionsRight ==
    /\ subject = "algorithms" => Alg!AlgorithmsRight
    /\ subject = "path" => Path!PathSound
    /\ subject = "lanes" => Simd!LanesAgree

\* Zeros are counted alike on every build.  (Violated.)
BitsOnEveryBuild == subject = "algorithms" => Alg!BitsOnEveryBuild

\* Sorting stays within its memory for every length from one on.  (Violated.)
SortStaysInMemory == subject = "algorithms" => Alg!SortStaysInMemory

\* The MessagePack decoder reads what the encoder wrote, container lengths patched in
\* afterwards included, and no more than the whole tokens of a message cut off.  Two
\* kinds of extension are left out: short ones that the encoder pads, and lengths that
\* take the top bit of 16, which the decoder reads as negative.
CodecSound ==
    /\ subject = "codec" => Codec!CodecSound
    /\ subject = "wide" => Wide!ScalarsSound

\* The MessagePack tree (vl_msgpack.c) is the document its calls made, up to the
\* removal of a leaf, whose value is freed twice.
TreeSound == subject = "tree" => Tree!TreeSound

\* No value of the tree is freed twice.  (Violated.)
ValuesFreedOnce == subject = "tree" => Tree!ValuesFreedOnce

============================================================================
