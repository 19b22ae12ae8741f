# Veritable Lasagna: TLA+ models

Veritable Lasagna is a C11 library of data structures, allocators, threads,
streams and a few services built from them. This directory holds TLA+ modules
that model it, TLC configurations that check them, and TLAPS proofs about the
lock-free pool and queue, about the thread pool and the logger over them, about
what threads and processes share (streams, threads, locks, the global logger, the
table of vector functions, sockets, a directory being made), about the fixed pool and
aligned allocation, and about the sequences kept in such memory (deque, queue, buffer,
stack).

## Inventory

| Part | State | Operations | Correct when |
|---|---|---|---|
| Async pool (`vl_async_pool.c`) | tagged top of a free stack, `freeLength`, list of blocks with a `taken` counter each, allocation flag | Take, Return (any thread); Clear, Reset, Free (no thread inside) | an element has one holder; none is lost; calls go on being completed |
| Async queue (`vl_async_queue.c`) | tagged head and tail, chain of nodes from its async pool, `size` | PushBack, PopFront (any thread); Clear, Reset, Free | a FIFO queue: delivered once, in order; "empty" only if it was |
| Thread pool (`vl_thread_pool.c`) | an async queue and a semaphore per tier, state, `active_workers`, mutex and condition | New, Enqueue, EnqueueBatch, Wait, Shutdown, Delete; the worker loop | accepted tasks run once, higher tiers first; Wait waits; Shutdown drains; Delete returns |
| Logger (`vl_log.c`) | an async queue of records, sequence numbers, two semaphores, sinks, worker thread; the global logger | New, Message, Flush, AddSink, Delete; Init, Shutdown and lazy creation of the global one | records written once; Flush waits for what was logged before, and returns; one global logger |
| Streams (`vl_stream*.c`) | reference count, mutex, totals; buffer, memory block or file | Retain, Delete, Read, Write, Seek, Tell, Flush | closed once, by the last owner; position inside the block |
| Threads (`platform/*/vl_thread_*.c`) | handle with state and condition; a static record | New, Join, JoinTimeout, Delete, Current | joined once; the record outlives its users |
| Mutex, rwlock, condition, semaphore | those of the system, or NULL | wrappers | exclusion; no unit of a semaphore lost |
| Arena (`vl_arena.c`) | one memory range, free nodes in an ordered set | Alloc, Realloc, Prepend, Append, Free, Reserve, Clear | blocks never overlap; free nodes are coalesced; contents kept |
| Fixed pool (`vl_pool.c`) | blocks, stack of returned indices, lookup table | Take, Return, Clear, Reset, Reserve, Clone | a slot has one holder |
| Hash table (`vl_hashtable.c`) | buckets, chains in an arena | Insert, Find, Remove, Reserve, Copy, Clone, iteration | a finite map; iteration meets each key once |
| Ordered set (`vl_set.c`) | red-black tree in a fixed pool | Insert, Remove, Find, iteration, union, intersection, difference | an ordered set; iterators stay valid; balanced |
| Linked list (`vl_linked_list.c`) | doubly linked nodes in a fixed pool, length | push, pop, insert, remove, Copy, Sort | a sequence; length, head and tail agree with the links |
| Deque, queue, stack, buffer | links or cursors into growing memory | push, pop, read, write, seek, Clone, Reserve | a sequence |
| MessagePack (`vl_msgpack*.c`) | document tree in a hash table; encoder frames | set, find, remove, encode, decode | the document the calls describe; decode inverts encode |
| Algorithms, memory, random numbers | none, or a few words | sorting, searching, bit counting, arithmetic, aligned allocation, fills | their reference definitions |
| File system (`vl_filesys*.c`) | path strings in pool slots, iterator frames | path functions, MkDir, Remove, Stat, iterator | MkDir tells the truth (kept on POSIX only, see Findings); a walk shows every entry once |
| Sockets (`vl_socket_*.c`) | handle with descriptor and flags | New, Bind, Listen, Accept, Connect, Send, Receive, Shutdown, options, Close | handle and descriptor live and die together; nothing sent is lost before the end |
| SIMD (`vl_simd*.c`) | a table of functions, a flag | Init; vector operations through the table | every backend computes the same; the table is complete before it is used |
| Hashing, numeric types, dynamic libraries | none, or a handle of the loader | formulas and wrappers | their formulas |

**Interaction.** The async queue takes its nodes from an async pool and gives
them back while other threads may still hold pointers to them. The thread pool
and the logger put an async queue between their callers and their threads, and
use semaphores, a mutex and a condition to sleep and wake; a stream sink of the
logger holds a reference to a stream. The containers call allocators and one
another in one thread: hash table on arena, set, list, deque and queue on the
fixed pool, MessagePack on the hash table.

**What is hard.** Tagged pointers and node recycling in pool and queue (ABA,
use of a node after it was recycled); counters that lag behind the structure
they count and wrap; spin flags; checks of several shared words one after the
other (Wait, Flush, the worker's exit); sleeping and waking without losing a
wakeup; shutdown racing work; lazily made globals; a timeout of 0 that means
"now" on one platform and "never" on the other; in the containers, long
sequences of legal calls after which links, counters and blocks disagree; in
the file system and the sockets, what happens between two system calls.
`PROJECT.json` lists each such place with its line.

## Modules

| Module | Models |
|---|---|
| `ElementPool`, `FifoQueue` | what a pool and a queue promise: each change in one step |
| `AsyncPool`, `MCAsyncPool`, `AsyncPoolProofs`, `AsyncPoolListProofs` | `vl_async_pool.c`, one access to shared memory per step; its theorems: the free stack and ownership, the block list and the counters |
| `AsyncQueue`, `MCAsyncQueue`, `AsyncQueueProofs` | `vl_async_queue.c`, one access per step, over the abstract pool; its theorems |
| `ThreadPool`, `MCThreadPool`, `ThreadPoolProofs` | `vl_thread_pool.c`, one access per step, over FIFO queues; its theorems |
| `Logger`, `LoggerProofs`, `LogGlobal` | `vl_log.c`: a logger and its worker over a FIFO queue; its theorems; the global logger and the stream sink |
| `NumberLemmas` | lemmas about remainders and least elements that several proofs cite |
| `Streams` | `vl_stream.c` and its back ends |
| `Thread`, `Sync` | threads, locks, conditions, semaphores on both platforms |
| `FixedPool` | `vl_pool.c` |
| `Deque`, `Stack` | `vl_deque.c` and `vl_queue.c` over `FixedPool`; `vl_buffer.c` and `vl_stack.c` |
| `LinkedList`, `OrderedSet` | `vl_linked_list.c`, `vl_set.c` |
| `Arena`, `ArenaHeap`, `HashTable` | `vl_arena.c` as functions; a caller of it; `vl_hashtable.c` over it |
| `Memory`, `Algorithms` | `vl_memory.c`; `vl_algo.c`, `vl_compare.c`, `vl_rand.c` and the routines on memory |
| `MsgPackCodec`, `MsgPackTree` | `vl_msgpack_io.c`; `vl_msgpack.c` and the conversion between the two |
| `FsPath`, `FsDisk` | `vl_filesys.c`; the two platform files |
| `Sockets` | the two socket files |
| `SimdLanes`, `SimdInit` | the five backends of `vl_simd.c`, lane by lane; `vlSIMDInit` |
| `Storage`, `StorageProofs` | `FixedPool`, `Memory`, `Deque` and `Stack`, instantiated side by side; the theorems about them |
| `Shared`, `SharedProofs` | what threads and processes share, instantiated side by side; the theorems about it |
| `MCSequential` | `Storage` and the other parts one caller uses at a time, instantiated for TLC |
| `MCShared` | `Shared` and the directory iterator, instantiated for TLC |

### AsyncPool

A thread's `pc` names the next access of `vlAsyncPoolTake`, `vlAsyncPoolAllocate`
or `vlAsyncPoolReturn`; `freeTop`, `next`, `block`, `blockTaken` and `node` are
the locals of those functions. An element is a pair of block and slot, `link`
the `next` word in its header. `Retagged` is the tagged compare-exchange: new
pointer, tag plus one. A weak compare-exchange may fail for no reason if
`SpuriousCAS` is set. `Clear`, `Reset` and `Free` are single steps taken while
no thread is inside the pool, which is what the header demands of callers.
`owned` is what the callers hold; `rank` is an auxiliary variable, the position
of an element on the free stack counted from the bottom (0 when off the stack),
which says without recursion that the words form a list; `live` is the set of
blocks allocated and not freed.

Left out: sizes, alignment and contents of elements, failing allocation, the
width of the tag (64 bits) and of the block count (16 bits), and weak memory
orders. The loads and stores of a block's `next` happen only under the flag.

### AsyncQueue

`h`, `t` and `n` are the locals `head`, `tail` and `next` of PushBack and
PopFront. The pool appears as `free`, the recycled nodes with the one returned
last on top, and `fresh`, the number of nodes cut; a push takes the top, or, if
it saw the stack empty, a fresh node. Nodes keep their memory, so stale
pointers read whatever the node holds now. The value of a push and the reset of
its next pointer are one step: the node is private then. Weak compare-exchanges
fail spuriously where `SpuriousCAS` is set. `sent`, `got` and
`emptySeen` are history.

### ThreadPool

Workers and clients are processes; `at` is the loop variable `pri` or `i`. A
queue is a sequence plus the counter of `vl_async_queue`, which lags behind it
on both ends, and it has the weaknesses `AsyncQueue` shows the code to have when
several threads pop. `stale` says of the node a worker has read as the head whether
another worker popped past it and returned it (`PopTask`), and whether a push took it
since (`EnqueuePush`). A worker whose node was taken again may find the tier empty with
tasks queued (`PopNothing`; `vl_async_queue.c:113`), and one that moved the head and
has yet to copy its task may be given the task pushed into that node (`:129`). A copy
torn between two tasks counts as one of them; that tasks of one client may be queued
out of order (`ProducerOrder`) is not carried over.
The mutex-protected check of a worker is one
step; a client's check under the mutex is a step for each word it reads. `platform`
fixes what `vlSemaphoreWait(sem, 0)` does. Creation of the threads is modelled
with its failure (wake, join, free). Delete is called when no other client is
inside the pool, as the header demands; Shutdown at any time. `waitFor` and
`seen` are history: the tasks accepted when Wait was called, and the tasks
queued when a worker's scan began.

Left out: failing heap allocation in New, `GetStats` (it only reads), tasks that
call the pool themselves.

### Logger and LogGlobal

A record is its sequence number. Drawing the number, pushing the record and
posting the semaphore are three steps of a client; popping, writing to the sinks
(under `config_lock`), storing `processed_seq` and posting are steps of the
worker. `out` is what each sink received. Delete is Flush, stop, join. In
`LogGlobal` every read of `g_logger` is a step, and a logger is made in two
(`g_logger` is set, the standard output added); `refs` counts who holds the
stream given to a stream sink.

### The sequential parts

Structures are records, and an operation is a function from record to record, so
that one structure can contain another (`Deque` holds a `FixedPool`, `HashTable`
an `Arena`). Beside each structure runs the abstract value the calls describe:
`contents`, `entries`, `blocks`, `document`, `written`. `contents` of a deque names the
node of each element and `levels` of a stack the place of each level, so the links of
the structure are compared with it place by place. Memory of arena, buffer,
stack and aligned block is a function from offsets to cells, so that a copy from
a wrong offset shows. In `OrderedSet` the mirrored branches of the code are one
branch with a direction. In `MsgPackCodec` a byte has `Radix` values, which
brings every width of the format within reach of small numbers. In `Algorithms`
a machine word is the set of its 1 bits, and each routine is there in the three
forms the preprocessor can choose.

Some operations leave a structure, or the memory around it, in a state its other
operations do not expect (see Findings). Such a step is an action like any other; a
history variable records it, by the code's own condition for it, and the behaviour
ends there: the passing properties claim nothing of what comes after. Where the
documentation says otherwise a property of its own states that, and TLC refutes it.

| Recorded by | Steps |
|---|---|
| `misled` (list) | a call that relies on the tail Sort left behind |
| `astray` (arena) | a Realloc that moves a block or keeps its size; a Prepend from another block, which copies bytes `length` too far |
| `mislaid` (hash table) | a value enlarged where there is no room; Reserve on a table in use; removal of a key that is not there |
| `unbalanced` (set) | a removal that reads the wrong colour |
| `InTable` fails (pool) | a Clone whose table is smaller than the one copied, which writes behind it |
| `Crashed` (memory) | a failing `realloc` of a block of the default alignment, which dereferences NULL |
| a block freed twice (document) | removal of a leaf; removal of the root and a second insertion of a removed child end the claims, too |

`vlBufferCopy` from a source that holds less than was asked for moves another number of
cells than there are; cells read outside the buffers are arbitrary, and the model goes
on. `CodecSound` leaves out short extensions that the encoder pads
(`vl_msgpack_io.c:379`) and lengths of 16 bits with the top bit set, which the decoder
reads as negative (`:732`). `FunctionsRight` leaves out `CLZ16`, `CTZ8` and `CTZ16` of
the build without builtins and the memory of a sort of one element.

`SimdLanes` is pure, too: each backend's functions move lanes between components
and registers as the code does (one register, two halves, shuffles, pairwise
instructions), and all backends must agree with the portable one. Numbers are
exact. The quotient of the two NEON backends, an estimate, and the maximum of a
vector with a NaN, which differs, are excluded. As they stand, `vl_simd.c:19` and
`:22` declare `vlSIMDInitSSE2` and `vlSIMDInitAVX2` while the backends define
`vlSIMDInit_SSE2` and `vlSIMDInit_AVX2`, and the NEON maxima assign a vector of two
lanes to one of four (`vl_simd_neon64.c:106`); the model takes what is meant.

### The shared parts

`Streams` takes an operation under the stream's lock as one step and works
through `vlStreamDelete` access by access; the cursor of a buffer may stand behind its
size, as in the code, and a read there lowers the total. `Thread` follows the record of a
thread from New through the bootstrap routine to Join, JoinTimeout and Delete; under
Win32 the test of the flag for the main thread and its setting are two steps (`WinMain`,
`WinCurrent`), under POSIX every foreign thread writes the one record (`PosixCurrent`).
`SimdInit` fills the table of functions store by store, in any order, as plain
stores may be seen. `Sync` has every operation of the four handles on both platforms. `FsDisk` lets
another process make and remove files between two system calls of `vlFSPathMkDir`
and between two steps of an iterator; under Win32 looking for a directory and making it
are two calls (`WinMkLook`, `WinMkCreate`). In `Sockets` the system's listening queue,
byte streams, resets and descriptor modes are external and modelled as far as the
wrappers rely on them. What is done on one platform only has an action of its own
(`Posix...`, `Win...`).

### Composition

`Storage` and `Shared` instantiate the modules that the proofs are about, with
constants of their own; `MCSequential` extends the first by the rest of the sequential
parts, `MCShared` the second by the walk of the directory iterator (`FsDisk` is
instantiated twice: to make directories, and to walk). The variable `subject` says which
part a behaviour is about and never changes; `s1`, `s2`,
... are that part's variables, the rest is 0. The state space is the sum of the
parts', not their product: the parts share nothing but what they call, and where
one calls another the caller's module contains it.

## Runs

| Run | Instance | Shows |
|---|---|---|
| `pool_concurrent` | 2 fair threads, blocks of 1, 1, 2 and 4 elements, tag up to 6, 3 elements out | the free stack is a list, ownership is exclusive, elements are accounted for and `freeLength` settles, a pop installs the current next word, one allocator and no block lost, calls go on being completed as long as some are under way (`SystemProgress`; the pool is lock-free and not wait-free, `vl_async_pool.h:44`, so nothing is claimed of a single call), refinement of `ElementPool` |
| `pool_maintenance` | with Clear, Reset, Free and spurious failures | the inductive invariant `PoolListInv` (with `PoolInv`); no element survives a Clear, blocks ahead of the primary one are unused (that Reset frees them is false: `ResetFrees`), no pointer to a freed block |
| `queue_spsc` | 1 producer, 1 consumer, 4 pushes, 5 nodes, Clear | refinement of `FifoQueue`, nodes disjoint and conserved, tail never behind the head, size settles, "empty" is true (with one consumer; false with two) |
| `queue_mpsc` | 2 producers with 2 pushes, 1 consumer, fair | delivered once, none lost, everything delivered in the end |
| `queue_spmc` | 1 producer, 2 consumers | **violation**: a value is delivered twice |
| `threadpool_safety` | 2 blocking workers, 2 clients, 2 calls, batches of 2, 2 tiers | `active_workers` is exact, no tier is passed over with a task in it unless another worker took one from it meanwhile, no lost wakeup |
| `threadpool_progress` | 2 workers, 1 client, 2 calls, both platforms, fair | tasks are taken, workers leave after a shutdown |
| `threadpool_wait` | 1 worker, 1 client | **violation**: Wait returns while the caller's task runs |
| `logger` | 1 or 2 clients, 2 sinks, both platforms, with and without worker, fair | records reach each sink once, none is left behind by Delete; with one client Flush waits for what it logged and returns |
| `logger_flush` | 1 or 2 clients | **violation**: Flush returns with an earlier record still queued |
| `sequential` | every sequential part, all sequences of calls within the bounds | each agrees with the abstract value its calls describe |
| `shared` | streams, threads, locks, global logger, table of vector functions, sockets, file system, both platforms | closed once, joined once, mutual exclusion, one logger, no descriptor lost, MkDir's answer right on POSIX, walks exact |

**Bounds.** Pool: the ABA scenario needs two elements and five changes of the
stack, within the bounds (the mutant that keeps the tag is caught); four
blocks cover the first, two inner and the last block of the list; fewer elements
per block than the code's 16 make blocks fill up. Counters are words of size 8,
larger than any count reached, so a wrap below zero is told from a small count.
Queue: a recycled node is met again after three pushes. Thread pool: two tiers
have a first and a last one, as three have; two workers suffice for one to
consume the post meant for the other. Logger: two records of different clients
suffice to be numbered and queued in different orders; two sinks show that a
later one receives a suffix. Set: six elements give every case of the insertion
and removal repairs. Fixed pool: tables of two entries are outgrown by three
blocks. Arena: eight cells hold three blocks with gaps. Hash table: keys whose
hashes collide in every table size. List: four nodes, so that a merge sort has
two levels. Codec: five tokens nested twice, and, with bytes of eight values, a
number on each side of every width. Tree: five nodes, depth two. Paths: all
strings of up to four tokens. Vectors: all of four lanes over four numbers (NaN
among them), with four rotations of them as second operand; integers of four bits. Sockets: three
ends, two bytes, four calls that make sockets or set them, both address families; an
accepted end, its peer and the listener are there at once. Disk: five entries, two
changes from outside for MkDir, one for a walk.

Deadlock checking is off where callers may stop calling (the bounds end every
run) and on in the queue runs, where consumers poll for ever.

**Fairness.** Weak fairness of the steps of each thread that is inside the
library: the scheduler runs every runnable thread. Nothing is assumed about
which calls are made, about contended locks, or about the outcome of a race. In
`pool_concurrent` weak compare-exchanges fail only on a mismatch, as on x86; with
spurious failures a retry loop ends only with probability one. `queue_mpsc` lets
the consumer poll, as the workers of logger and thread pool do. Wait is not shown to
return: under POSIX idle workers keep raising and lowering `active_workers`, and a
waiter may miss every moment at which it is 0; after a Shutdown it does not return
(`WaitAfterShutdown` below).

## Findings

Three findings have a run; `PROJECT.json` quotes the sentence each contradicts.

| Property | Run | Documented | What the code does |
|---|---|---|---|
| `AsyncQueue!NoDuplicate` | `queue_spmc` | `vl_async_queue.h:34` | two consumers: the value is copied after the head moved, from a node that was recycled (`vl_async_queue.c:129`) |
| `ThreadPool!WaitCompletes` | `threadpool_wait` | `vl_thread_pool.h:367` | Wait reads one word after the other and returns while the caller's task runs (`vl_thread_pool.c:333`) |
| `Logger!FlushCoversAll` | `logger_flush` | `vl_log.h:309` | numbers are drawn before records are queued: Flush returns with an earlier record still queued (`vl_log.c:220`) |

The others are stated as properties in the modules in the same way, each about a step
that the model takes as the code does, and TLC finds each violated on the instance of
the run named here (with the change named) when its cfg checks that property instead
of its own. `MCSequential`, `MCShared` and `Shared` and `Storage` below them give the
properties of the parts the same names.

| Property | Instance | Documented | What the code does |
|---|---|---|---|
| `AsyncPool!ResetFrees` | `pool_maintenance` | `vl_async_pool.h:207` | Clear, then Reset strands the blocks ahead of the primary one (`vl_async_pool.c:132`) |
| `AsyncQueue!EmptyMeansEmpty` | `queue_spmc` | `vl_async_queue.h:185` | a recycled head with no next passes for an empty queue (`vl_async_queue.c:113`) |
| `AsyncQueue!ProducerOrder` | `queue_mpsc`, 3 pushes | `vl_thread_pool.h:92` | a push links behind a recycled node, values of one producer arrive out of order (`vl_async_queue.c:86`) |
| `AsyncQueue!NoLoss` | `queue_spsc`, spurious failures, no Clear, 3 pushes | `vl_async_queue.h:34` | both swings of the tail fail spuriously, the head passes the tail and a value is lost (`vl_async_queue.c:89`) |
| `ThreadPool!RunOnce` | `threadpool_safety`, 1 client that enqueues | `vl_thread_pool.h:88` | a worker copies a task out of a recycled node: one runs twice, one never (`vl_async_queue.c:129`) |
| `ThreadPool!PriorityStrict` | `threadpool_safety`, 1 client that enqueues | `vl_thread_pool.h:45` | a worker told falsely that a tier is empty goes on to a lower one (`vl_thread_pool.c:31`) |
| `ThreadPool!ShutdownDrains` | `threadpool_safety`, 1 client | `vl_thread_pool.h:381` | a task pushed between a worker's scan and the shutdown is never run (`vl_thread_pool.c:49`) |
| `ThreadPool!NoStarvation` | `threadpool_progress`, Win32, 1 call | `vl_thread_pool.h:32` | idle workers wait on the highest tier for good (`vl_thread_pool.c:81`) |
| `ThreadPool!WaitAfterShutdown` | `threadpool_progress`, Win32 | `vl_thread_pool.h:384` | an exited worker stays counted: Wait after Shutdown sleeps for ever (`vl_thread_pool.c:53`) |
| `Streams!ClosedOnce` | `shared` | `vl_stream.h:58` | two Deletes, or a Delete and a Retain, that meet lower the count twice (`vl_stream.c:45`) |
| `Streams!ReadsAddUp` | `shared` | `vl_stream.h:222` | a read behind the end of a buffer answers a negative count (`vl_buffer.c:100`) |
| `Thread!OwnRecord` | `shared` | `vl_thread.h:122` | POSIX: every foreign thread is given the one static record (`vl_thread_pthread.c:208`); Win32: the flag is tested and set later, two threads become the main one (`vl_thread_win32.c:169`) |
| `LogGlobal!OneLogger` | `shared` | `vl_log.h:53` | two first messages make two loggers (`vl_log.c:449`) |
| `SimdInit!InitSafe` | `shared` | `vl_simd.h:171` | the flag is set before the table is filled: a second thread calls null entries (`vl_simd.c:144`) |
| `Sockets!SendReturns` | `shared` | `vl_socket.h:293` | SIGPIPE is not suppressed (`vl_socket_posix.c:233`) |
| `Sockets!BlockingTold` | `shared` | `vl_socket.h:527` | an accepted handle reports the listener's mode (`vl_socket_posix.c:164`) |
| `FsDisk!MkDirTruthful` | `shared` | `vl_filesys.h:271` | Win32: the truth value of `CreateDirectoryExW` is read as an error code, so the answer is inverted (`vl_filesys_win32.c:410`) |
| `FixedPool!TableInMemory` | `sequential` | `vl_pool.h:418` | Clone compares the target's capacity after overwriting it and writes behind its table (`vl_pool.c:282`) |
| `Memory!ReallocKeepsBlock` | `sequential` | `vl_memory.h:157` | a failing `realloc` of a default-aligned block: NULL is dereferenced (`vl_memory.c:90`) |
| `Stack!CopiesToTheEnd` | `sequential` | `vl_buffer.h:224` | Copy clamps to what is missing, not to what is there (`vl_buffer.c:74`) |
| `ArenaHeap!ContentsPreserved` | `sequential` | `vl_arena.h:296` | a block that is moved, or keeps its size, comes back shifted by its header (`vl_arena.c:287`) |
| `ArenaHeap!PrependedFromArena` | `sequential` | `vl_arena.h:333` | a source in another block is read `length` too far (`vl_arena.c:317`) |
| `HashTable!MissingIsNoOp` | `sequential` | `vl_hashtable.h:220` | removal of a missing key follows what lies at offset 0 (`vl_hashtable.c:178`) |
| `HashTable!KeysFound` | `sequential` | `vl_hashtable.h:388` | Reserve on a table in use files nodes under the wrong number of buckets (`vl_hashtable.c:303`) |
| `OrderedSet!RedBlack` | `sequential` | `vl_set.h:64` | removal with two children takes the wrong colour: order is kept, balance lost (`vl_set.c:750`) |
| `LinkedList!LengthExact` | `sequential` | `vl_linked_list.h:293` | removal of the last element keeps the length (`vl_linked_list.c:73`) |
| `LinkedList!ReverseComplete` | `sequential` | `vl_linked_list.h:33` | Sort keeps the old tail (`vl_linked_list.c:416`) |
| `Algorithms!BitsOnEveryBuild` | `sequential` | `vl_algo.h:115` | `CLZ16`, `CTZ8` and `CTZ16` count wrongly without builtins (`vl_algo.c:131`, `:229`, `:248`) |
| `Algorithms!SortStaysInMemory` | `sequential` | `vl_memory.h:562` | the bounds of one element are pushed behind the stack made for them (`vl_memory.c:174`) |
| `MsgPackTree!ValuesFreedOnce` | `sequential` | `vl_arena.h:314` | the value of a leaf is freed twice (`vl_msgpack.c:197`, `:523`) |

Met while modelling, without a property: blocks leaked by Free, a Flush that never
returns with two clients, an iterator deleted inside a subdirectory, the removal of a
document's root.

## Proofs

Every theorem holds for all values of the constants that meet the module's named
assumption. TLC checked each inductive invariant before it was proved:
`PoolListInv` is an invariant of `pool_maintenance`; `ThreadPoolInv` and
`LoggerInv` hold on the instances of `threadpool_safety` and `logger`, `QueueInv`
on those of `queue_spsc` and `queue_mpsc` (there with Clear too) and `AloneInv` on
that of `queue_spsc`, when they are added to the invariants there; likewise
`StorageInv` on `sequential` and the parts of `SharedInv` on `shared`.

### The pool: `AsyncPoolProofs`, `AsyncPoolListProofs`

From `PoolAssumption` (the last theorem also from a restriction on the calls):

- `PoolInvariant`, `TypeCorrect`, `OwnershipIsExclusive`, `FreeListIsList`,
  `NoAbaOnPop`: the free stack is a list, an element has one owner, a pop
  installs the current next word;
- `Refinement`: `AsyncPool` implements `ElementPool`, held elements mapped to
  what a thread owns, has won with a compare-exchange but not yet delivered, or
  is about to push;
- `PoolListInvariant`, `ElementsAreCounted`, `MaintenanceIsSound`,
  `AllocatorIsAlone`: elements are neither lost nor invented, `freeLength`
  settles, Clear, Reset and Free leave no pointer to a freed block;
- `BlocksAreSound`: no live block drops out of the list, provided clients do not
  call Reset. With Reset it is false (Clear followed by Reset strands the blocks
  ahead of the primary one), so the hypothesis is necessary.

Exclusive ownership is not inductive alone. `PoolInv` adds: the free stack is a
list (`FreeListIntact`); a snapshot with the current tag is the current top
(`TagsInv`), since every change raises the tag, so a pop installs the current
next word (`PopInstallsNext`), because nobody rewrites the link of an element on
the stack; what is held or recycled has been cut from its block (`CutInv`), so a
fresh element is nobody's; and what the program counter says of the locals
(`LocalsInv`, `BlocksInv`). Most steps move nothing (`StepKinds`); the
compare-exchanges and the relinking of an element have a lemma each, and the
maintenance calls empty everything.

`PoolListInv` adds the block list. The blocks reachable from the primary one are
sets defined by closure, about which induction is not available; instead
`ListInv` says that blocks are chained in the order of their numbers and that
what a live block points to is live, and a claim about a chain that descends is
proved of the least block for which it fails (`LeastNat` in `NumberLemmas`).
`AllocInv` describes the allocator between its four stores, when the list reads
differently in the two directions; `CutBehindInv` says that blocks behind the
primary one are used up, so those ahead are unused; `OnListInv` that a live block
is behind or ahead; `LengthInv` that `freeLength` lags behind the stack by the
pops and pushes under way.

### The queue: `AsyncQueueProofs`

From `QueueAssumption`, for any number of producers, with `Clear` between
operations, and with two hypotheses that each theorem states. `OneConsumer`: one
thread pops, as the logger's worker does, and weak compare-exchanges do not
fail spuriously; with a second consumer run `queue_spmc` finds a value delivered
twice, and with a spurious failure of the tail's compare-exchange the head can pass
the tail. `OneProducer`, for the refinement alone: with two producers
`ProducerOrder` is false.

- `QueueInvariant`, `NodesAreSound`, `SizeIsContents`, `DeliveredOnce`,
  `EmptyIsEmpty`, and, if the clients never call Clear, `NothingIsLost`;
- `FifoRefinement`: with one producer `AsyncQueue` implements `FifoQueue`; the
  successful compare-exchange of a next pointer is the push, that of the head the
  pop.

`Chain` is a recursive function along the next pointers, about which no induction
is to be had. `Listed` says of a sequence that it is a list without repetition
by those pointers; `ChainFollows` proves that `Chain` is the one such sequence from
the head (the least place where they differ would follow one where they agree), and
`JoinListed`, `RestListed`, `OneListed` and `ListStays` give what each kind of step
does to a list. From there on nodes are counted as members of sets.

The difficulty is the push that is delayed between loading the tail and linking.
The tail it loaded may have been popped, given back, taken and filled by another
push, with its next pointer at NULL and tag 0 as before: the compare-exchange
succeeds and links behind a node that is not in the queue yet. So the invariant
does not say that a node being filled is alone; it is the first of a `Segment`,
which enters the queue as a whole when its owner links it (`ListInv`). Every node
that was cut is in the queue, in one segment, on the free stack or popped and not
yet returned (`PlaceInv`). No segment is linked behind itself, because segments are
linked to those of pushes that loaded the tail later (`TailInv`, by the tags), and
none behind a node off the queue, because such a node keeps a next pointer until it
is filled again (`UsedInv`). The tail is swung only to the node behind it, since a
loaded tail with the current tag is the tail, so it stays in the queue; the one
consumer's snapshot of the head is the head, and the tail has left that node before
the head does (`PopInv`). Values are in linked nodes or taken, and in one place
(`ValueInv`); the counter is off by the calls between their linking or swing and
their last step (`CountInv`). Most steps change no list (`ShapeKept`); taking,
cutting, filling, linking, swinging and returning a node have a lemma each. With one
producer `AloneInv` adds that a segment is one node, so the values in the chain
are the FIFO queue.

### The thread pool: `ThreadPoolProofs`

From `ThreadPoolAssumption`, which asks for finitely many workers and
clients and fewer workers than the size counter can tell apart (at most 2^32 in
the code): `ThreadPoolInvariant`, `CountedWorkers`, `PriorityIsRespected`,
`WakeupsAreNotLost`, `SizesFollowQueues`. The last has no run of its own; it is
a part of the inductive invariant.

`NoLostWakeup` speaks of a state in which nothing can happen any more, and is far
from inductive. `WakerInv` says what keeps a sleeping client from being forgotten:
a worker is busy or has yet to look whether all are idle, or a post or a task
will make one look, or a client has a push to finish. A client goes to sleep
because it saw a counter above zero: `ActiveExact` and `SizeInv` turn that into a
worker that is busy, a task that is queued, or a push or pop under way; and the
last worker that finds all idle wakes every sleeper in the same step.
`PriorityRespected` needs that a task a scan has seen cannot be pushed after it:
clients number their tasks, and only pushed numbers are seen (`PushedInv`,
`BatchInv`). A tier is passed over only if it is empty or the node the worker holds was
returned, and it was returned by a worker that popped from this tier while this one
looked there (`StaleInv`): the exception the property states. Without it the property
is false (`PriorityStrict`).

### The logger: `LoggerProofs`

From `LoggerAssumption` (a finite, non-empty set of clients):
`LoggerInvariant`, `RecordsReachTheSinks`, `FlushIsComplete`.

`LoggerInv` follows a record from the client that draws its number to the queue,
the worker and the sinks: it is in one of these places and once (`UniqueInv`); five
kinds of step move a record, all others none (`FlowCases`). A record whose call
has returned is past the client (`HandedInv`), and when the worker has left, queue
and worker are empty (`ModeInv`), so nothing is left behind by Delete. What a
sink has received is an end of what the first one has (`SinksInv`). For a single
client the places are ordered by number (`OrderInv`): what is written is smaller
than what the worker holds, that smaller than what is queued. A flush waits for
numbers up to its target (`TargetInv`); since the last number processed was
written and everything under way is larger, it returns only when they are
written. With two clients the order is lost, and run `logger_flush` shows what
follows.

### What is shared: `SharedProofs`

From `SharedAssumption` (finitely many threads where a count is taken of them; ports
are pairs of numbers; the detection code reports SSE2 wherever it reports XSAVE, and
FMA wherever it reports AVX2) and `DiskAssumption` (every layout of the disk is a tree, a target
is a path of at least one name): `SharedInductive`, `StreamsAreSound`,
`PrimitivesAreSound`, `GlobalsAreSound`, `SystemIsSound`. `SharedInv` says that the
part named by `subject` satisfies its own invariant:

- `StreamInv`. The count is what the owners hold, less the Deletes that have lowered
  it and not yet left; at most one thread is past the check for the last owner, unless
  two calls have crossed (`CountInv`, the case of `ClosedOnce` among the findings).
  Totals and position follow the operations under the lock.
- `ThreadInv`, `SyncInv`. A record exists exactly as long as the handle or the running
  thread needs it (`RecordInv`). That every thread has a record of its own is not claimed
  (`OwnRecord` is false on both platforms). Locks and semaphores are followed client by client:
  what a client believes to hold is what the system's object counts.
- `GlobalInv`. As long as no two callers are between reading `g_logger` and setting it,
  there is one logger; the standard output is on its list once, and a stream's count
  is the number of sinks and callers that hold it.
- `SimdInv`. An entry of the table that is not chosen yet is on the list of stores of
  some thread, and every store puts a function the processor can run.
- `SocketsInv`. An end of a connection and its peer agree on the bytes under way and on
  where the stream ends (`PeerInv`); an end that waits in a listener's queue is in no
  other queue and belongs to no handle (`QueueInv`); an open descriptor has exactly one
  handle (`HandleInv`); what was never handed out is blank (`UnusedInv`); options and
  addresses read back as they were set, through the conversion to network order
  (`AskedInv`).
- `MkDirInv`. The disk is a tree whatever the other process does; the levels still to
  be made lead upwards from the target without gaps (`LevelsInv`); and when the call
  fails though every level could be made, then the other process removed a
  directory or put a file in the way meanwhile. This last claim is of POSIX; under Win32
  the tree stays a tree, and the answer is inverted (`MkDirTruthful`).

### Allocators and sequences: `StorageProofs`

From `StorageAssumption` (addresses from `malloc` are multiples of the default
alignment, which is two units of the model; the first sizes of pool, table and
buffer are positive): `StorageInductive`, `PoolIsSound`, `AllocationsAreSound`,
`AllocatorsAreSound`, `SequencesAreSound`. `StorageInv` says that the part named by
`subject` satisfies its own invariant:

- `PoolInv` rests on `Cut`: in each block the slots held by the caller and those
  recycled are disjoint and together the first ones of the block, and its counter
  is the number of those held; so a slot taken anew is nobody's, a returned one is
  found in its own block, and the block the pool chooses has room
  (`UnspentFound`, `BlockCounts`). The stack of recycled indices never repeats one.
- `MemInv` says that the place of an allocation's header follows from the address
  handed out, its length and its alignment alone, which is why Realloc and Free find
  it: no header overlaps the bytes of its block or of another. It ends with a failing
  `realloc` of a block of the default alignment (`Crashed`).
- `SeqInv`, of the deque and the queue. `Linked` says that the links, of a deque in
  either direction, give the elements in order, and that the linked nodes are exactly
  those out of the pool. `Shape` and `Cut` of the pool hold for these nodes, so
  a node taken anew is linked nowhere (`TakeKeeps`) and a push or a pop disturbs only
  the end it works on (`DequePushFrontHolds`, `BackHolds`, `FrontGone`, `BackGone`).
  A Clone of a pool, or of a deque with its pool, whose table is larger than the new
  one's is a step of the model; it writes behind that table, `InTable` is false from then
  on, and nothing more is claimed.
- `BufInv`: the cells below the size are the text written, or what Copy put there,
  however much it copied, and the capacity is positive, so that the
  doubling of Reserve ends (`DoublingExists`).
- `StackInv`: the headers chain the levels back to back, and levels do not overlap
  (`Apart`), so a write at the top leaves what lies below.

### What is only model-checked

- Liveness (`SystemProgress`, `EventuallyDelivered`, `TasksRun`,
  `WorkersExit`, `FlushReturns`, and the refuted `NoStarvation` and
  `WaitAfterShutdown`): fairness and ENABLED are outside the prover's reach.
- The queue with several consumers, or with spurious failures of a
  compare-exchange: its properties are false there.
- The other sequential parts (`SetSound`, `IteratorsStable`, `ListSound`,
  `HeapsSound`, `TableSound`, `FunctionsRight`, `CodecSound`, `TreeSound`): they compare
  recursive definitions over trees, chains, paths and byte
  strings with reference definitions; what such a definition computes for every
  input takes an induction over data.
- The iterator over a directory (`DiskSound`): the walk is recursive in the same way.

## Plan

Every stateful part is modelled, beside the handles of dynamic libraries. The next
candidates for theorems are the linked list and the caller of the arena, once their
chains are described as the deque's is: by what the calls should have left there,
place by place, instead of by recursion.

## Not modelled

- Hashing (`vl_hash.c`): a formula on 64-bit products without state; the hash
  table takes any function from keys to numbers.
- Numeric types (`vl_numtypes.c`): a table of casts between machine types.
- Dynamic libraries (`vl_dynlib*.c`): three calls passed on to the loader.
- Within modelled parts: the text of log messages, bytes of payloads, times and
  permission bits of a status record, the fixed directories, parsing and printing
  of socket addresses, datagram sockets, the statistics of the random generator,
  rounding in vectors and processors with AVX2 but without FMA.
