------------------------------- MODULE Shared -------------------------------
(***************************************************************************)
(* The parts of the library that threads share, and two that are shared    *)
(* with the operating system: sockets, and vlFSPathMkDir on a disk that    *)
(* another process changes, each as a system of its own.  subject says     *)
(* which one a behaviour is about; the state of that one is in s1 to s10.  *)
(***************************************************************************)
EXTENDS Integers, Sequences, FiniteSets

CONSTANTS
    Threads,        \* that share a stream; that log
    Clients,        \* threads of the locks and of the vector table
    Platforms,      \* subset of {"posix", "win32"}
    EarlyInit,      \* whether logger and table are made before the threads start
    BlockSize, MaxSize, MaxRefs, MaxTotal,  \* of a stream
    Owner, MaxThreads, NoThread,            \* of a thread
    MaxCount,       \* of a semaphore
    MaxCalls,       \* of the global logger
    Builds, Cpus,   \* of the vector table
    Domains, OptionNames, Ports, MaxEnds, MaxBytes, MaxMade,  \* of the sockets
    Layouts, Targets, MaxNoise                                \* of the disk

\* Threads are finitely many.  A processor that has a feature has what the build relies on
\* with it: XSAVE came after SSE2, and the model has no AVX2 without FMA.
ASSUME SharedAssumption ==
    /\ IsFiniteSet(Threads) /\ IsFiniteSet(Clients)
    /\ BlockSize \in Nat /\ MaxRefs \in Nat \ {0}
    /\ Owner \in Threads /\ NoThread \notin Threads
    /\ EarlyInit \subseteq BOOLEAN
    /\ \A cpu \in Cpus : /\ "xsave" \in cpu => "sse2" \in cpu
                         /\ "avx2" \in cpu => "fma" \in cpu
    /\ Ports \subseteq Nat \X Nat /\ MaxBytes \in Nat

VARIABLES subject, s1, s2, s3, s4, s5, s6, s7, s8, s9, s10
state == <<subject, s1, s2, s3, s4, s5, s6, s7, s8, s9, s10>>

Str == INSTANCE Streams WITH
    stream <- s1, thread <- s2, closes <- s3, crossed <- s4
Thr == INSTANCE Thread WITH
    meta <- s1, worker <- s2, owner <- s3, current <- s4, main <- s5, platform <- s6,
    Foreign <- Threads, ThreadPlatforms <- Platforms
Syn == INSTANCE Sync WITH
    handle <- s1, mutex <- s2, rwlock <- s3, sem <- s4, client <- s5,
    SyncPlatforms <- Platforms
Glob == INSTANCE LogGlobal WITH
    early <- s1, logger <- s2, made <- s3, caller <- s4, refs <- s5, calls <- s6, dropped <- s7,
    accepted <- s8, unheard <- s9, raced <- s10, Callers <- Threads
Simd == INSTANCE SimdInit WITH
    build <- s1, cpu <- s2, early <- s3, initialized <- s4, table <- s5, caller <- s6,
    Callers <- Clients
Sock == INSTANCE Sockets WITH
    plat <- s1, started <- s2, sock <- s3, kern <- s4, asked <- s5, killed <- s6,
    SocketPlatforms <- Platforms
Make == INSTANCE FsDisk WITH
    os <- s1, disk <- s2, noise <- s3, mk <- s4, stat <- s5, iter <- s6, pool <- s7,
    DiskPlatforms <- Platforms, Walked <- {}, Noisy <- Targets, MaxSlots <- 1, MaxWalks <- 0

\* A disk is a tree, and a directory that is made has a name.
ASSUME DiskAssumption ==
    /\ \A t \in Layouts : Make!Tree(t)
    /\ Targets \subseteq Seq(STRING) \ {<< >>}

Unused(n) ==
    /\ (n <= 4 => s5 = 0) /\ (n <= 5 => s6 = 0) /\ (n <= 6 => s7 = 0)
    /\ (n <= 7 => s8 = 0 /\ s9 = 0 /\ s10 = 0)
Tail5 == <<s5, s6, s7, s8, s9, s10>>
Tail6 == <<s6, s7, s8, s9, s10>>
Tail7 == <<s7, s8, s9, s10>>
Tail8 == <<s8, s9, s10>>

SharedInit ==
    \/ subject = "stream" /\ Str!StreamInit /\ Unused(4)
    \/ subject = "thread" /\ Thr!ThreadInit /\ Unused(6)
    \/ subject = "sync" /\ Syn!SyncInit /\ Unused(5)
    \/ subject = "global" /\ Glob!GlobalInit
    \/ subject = "simd" /\ Simd!SimdInitInit /\ Unused(6)
    \/ subject = "socket" /\ Sock!SocketsInit /\ Unused(6)
    \/ subject = "make" /\ Make!DiskInit /\ Unused(7)

SharedNext ==
    \/ subject = "stream" /\ Str!StreamNext /\ UNCHANGED <<subject, Tail5>>
    \/ subject = "thread" /\ Thr!ThreadNext /\ UNCHANGED <<subject, Tail7>>
    \/ subject = "sync" /\ Syn!SyncNext /\ UNCHANGED <<subject, Tail6>>
    \/ subject = "global" /\ Glob!GlobalNext /\ UNCHANGED subject
    \/ subject = "simd" /\ Simd!SimdInitNext /\ UNCHANGED <<subject, Tail7>>
    \/ subject = "socket" /\ Sock!SocketsNext /\ UNCHANGED <<subject, Tail7>>
    \/ subject = "make" /\ Make!DiskNext /\ UNCHANGED <<subject, Tail8>>

SharedSpec == SharedInit /\ [][SharedNext]_state

----------------------------------------------------------------------------

\* A stream (vl_stream.c) is closed once, with its last reference, as long as no Retain
\* and no other Delete falls into a Delete; its position stays inside a memory block.
StreamSound == subject = "stream" => Str!StreamSound

\* However references are given and dropped (vlStreamRetain, vlStreamDelete), a stream is
\* closed once, after the last.  (Violated.)
ClosedOnce == subject = "stream" => Str!ClosedOnce

\* Reading from a stream adds to totalRead.  (Violated.)
ReadsAddUp == subject = "stream" => Str!ReadsAddUp

\* A thread's record (vl_thread) is not used after it was freed, and a timed join says
\* that the thread has ended only if it has; mutex, reader-writer lock, condition and
\* semaphore wrappers exclude whom they should and count every post, handles that
\* could not be made included.
PrimitivesSound ==
    /\ subject = "thread" => Thr!ThreadSound
    /\ subject = "sync" => Syn!SyncSound

\* A thread is given a record of its own by vlThreadCurrent.  (Violated.)
OwnRecord == subject = "thread" => Thr!OwnRecord

\* The global logger (vl_log.c), made by the first call that needs it, is one logger that
\* every message reaches unless two threads meet in making it; streams are released.  The
\* table of vl_simd.c, filled by the first call, is one backend's once they are out of it.
GlobalSound ==
    /\ subject = "global" => Glob!GlobalSound
    /\ subject = "simd" => Simd!TableSettles

\* Threads that meet in their first log message share one global logger.  (Violated.)
OneLogger == subject = "global" => Glob!OneLogger

\* A thread that is back from vlSIMDInit can use the table.  (Violated.)
InitSafe == subject = "simd" => Simd!InitSafe

\* A socket handle (vl_socket) and its descriptor live and die together, bytes reported
\* as sent arrive before the end of the stream, addresses and options read as they were set.
\* On POSIX vlFSPathMkDir tells whether the directory is there, whatever directories another
\* process makes at the same time.
SystemSound ==
    /\ subject = "socket" => Sock!SocketsSound
    /\ subject = "make" => Make!MkDirSound

\* vlFSPathMkDir reports success if and only if the directory is there.  (Violated on win32.)
MkDirTruthful == subject = "make" => Make!MkDirTruthful

\* A send on a connection whose peer is gone returns.  (Violated.)
SendReturns == subject = "socket" => Sock!SendReturns

\* vlSocketIsBlocking tells the mode of the descriptor.  (Violated.)
BlockingTold == subject = "socket" => Sock!BlockingTold

=============================================================================
