------------------------------ MODULE Streams ------------------------------
(***************************************************************************)
(* vl_stream.c with its three backends: a growing buffer, a memory block   *)
(* and a file.  Threads share a stream by reference count; an operation    *)
(* holds the stream's lock and is one step, while vlStreamDelete works on  *)
(* the count outside the lock, step by step.                               *)
(***************************************************************************)
EXTENDS Integers, Sequences, FiniteSets

CONSTANTS
    Threads,
    BlockSize,      \* size of the memory block
    MaxSize,        \* bound of the model on buffer and file
    MaxRefs,        \* bound of the model on the reference count
    MaxTotal        \* bound of the model on totalRead and totalWritten

VARIABLES
    stream,         \* kind, cells, cursor, refCount, totals
    thread,         \* position and references of each thread
    closes,         \* how often the stream was closed and freed (history)
    crossed         \* a Retain or another Delete fell into a Delete (history)

streamVars == <<stream, thread, closes, crossed>>

Kinds == {"buffer", "memory", "readonly", "file"}
Fixed == stream.kind \in {"memory", "readonly"}
End == Len(stream.cells)
Least(a, b) == IF a < b THEN a ELSE b

At(t, label) == thread[t].at = label
\* May use the stream.  Bound: what threads do with a freed stream is left out.
Free(t) == At(t, "idle") /\ thread[t].refs > 0 /\ closes = 0 /\ stream.refCount > 0
Deleting == {t \in Threads : ~At(t, "idle")}
\* The references of all threads, each thread's numbered.
References == UNION {{t} \X (1..thread[t].refs) : t \in Threads}
Held == Cardinality(References)

\* vlStreamNew: one reference, nothing transferred.
NewStream(kind, cells) ==
    [kind |-> kind, cells |-> cells, cursor |-> 0, refCount |-> 1, totalRead |-> 0, totalWritten |-> 0]
OpenBuffer == NewStream("buffer", << >>)
OpenMem(kind) == NewStream(kind, [i \in 1..BlockSize |-> 0])
CreateFileStream == NewStream("file", << >>)
OpenStream(kind) ==
    CASE kind = "buffer" -> OpenBuffer [] kind = "file" -> CreateFileStream [] OTHER -> OpenMem(kind)

StreamInit ==
    /\ \E kind \in Kinds : stream = OpenStream(kind)
    /\ \E t \in Threads :
         thread = [u \in Threads |-> [at |-> "idle", old |-> 0, refs |-> IF u = t THEN 1 ELSE 0]]
    /\ closes = 0 /\ crossed = FALSE

----------------------------------------------------------------------------
(* The reference count. *)

\* vlStreamRetain by a thread that has a reference, for itself or another.
Retain(t, u) ==
    /\ Free(t) /\ At(u, "idle") /\ Held < MaxRefs /\ stream.refCount < MaxRefs
    /\ stream' = [stream EXCEPT !.refCount = @ + 1]
    /\ thread' = [thread EXCEPT ![u].refs = @ + 1]
    /\ crossed' = (crossed \/ Deleting # {})
    /\ UNCHANGED closes

\* vlStreamDelete: the load, ...
DeleteLoad(t) ==
    /\ Free(t)
    /\ thread' = [thread EXCEPT ![t] = [at |-> "cas", old |-> stream.refCount, refs |-> @.refs - 1]]
    /\ crossed' = (crossed \/ Deleting # {})
    /\ UNCHANGED <<stream, closes>>

\* ... the loop, which goes on as long as the exchange succeeds, ...
DeleteCas(t) ==
    /\ At(t, "cas")
    /\ IF stream.refCount = thread[t].old
       THEN /\ stream' = [stream EXCEPT !.refCount = @ - 1]
            /\ UNCHANGED thread
       ELSE /\ thread' = [thread EXCEPT ![t].at = "check", ![t].old = 0]
            /\ UNCHANGED stream
    /\ UNCHANGED <<closes, crossed>>

\* Faulty variant: the stream is closed with the last but one reference.
DeleteCheckEarly(t) ==
    /\ At(t, "check")
    /\ thread' = [thread EXCEPT ![t].at = "idle"]
    /\ closes' = IF stream.refCount > 1 THEN closes ELSE closes + 1
    /\ UNCHANGED <<stream, crossed>>

\* ... and a second look at the count: zero, and the stream is closed.
DeleteCheck(t) ==
    /\ At(t, "check")
    /\ thread' = [thread EXCEPT ![t].at = "idle"]
    /\ closes' = IF stream.refCount # 0 THEN closes ELSE closes + 1
    /\ UNCHANGED <<stream, crossed>>

----------------------------------------------------------------------------
(* Operations under the lock. *)

Idle == UNCHANGED <<thread, closes, crossed>>

Left == End - stream.cursor
\* Every backend reads what is left, at most n; a file has nothing behind its end.  There
\* vlBufferRead subtracts unsigned numbers: what it answers is the negative Left, modulo
\* 2^64, and by as much it takes the position back to the end and totalRead down.
MemRead(n) == Least(n, Left)
BufferRead(n) == IF stream.cursor + n > End THEN Left ELSE n
FileRead(n) == IF Left < 0 THEN 0 ELSE Least(n, Left)
\* Bound: memory before a buffer, where only Seek gets, is neither read nor written.
InMemory == stream.cursor >= 0
Read(t, n) ==
    LET got == CASE stream.kind = "buffer" -> BufferRead(n)
                 [] stream.kind = "file" -> FileRead(n)
                 [] OTHER -> MemRead(n)
    IN  /\ Free(t) /\ InMemory
        /\ stream.totalRead + got \in -MaxTotal..MaxTotal
        /\ stream' = [stream EXCEPT !.cursor = @ + got, !.totalRead = @ + got]
        /\ Idle

\* A memory block takes what fits; buffer and file are extended.
MemWrite(n) == [put |-> Least(n, Left), end |-> End]
BufferWrite(n) == [put |-> n, end |-> IF stream.cursor + n > End THEN stream.cursor + n ELSE End]
FileWrite(n) == BufferWrite(n)
Write(t, n) ==
    LET w == CASE stream.kind = "buffer" -> BufferWrite(n)
               [] stream.kind = "file" -> FileWrite(n)
               [] OTHER -> MemWrite(n)
        new == (stream.cursor + 1)..(stream.cursor + w.put)
    IN  /\ Free(t) /\ InMemory /\ stream.kind # "readonly"
        /\ w.end <= MaxSize \/ Fixed
        /\ stream.totalWritten + w.put <= MaxTotal
        /\ stream' = [stream EXCEPT
             !.cells = [i \in 1..w.end |-> IF i \in new THEN 1 ELSE IF i <= End THEN @[i] ELSE 0],
             !.cursor = @ + w.put, !.totalWritten = @ + w.put]
        /\ Idle

\* A position before the start is refused; a memory block cuts off one behind the end.
\* vlBufferSeekRelative refuses nothing.  Bound: no further than one before, MaxSize behind.
Origin(from) ==
    CASE from = "set" -> 0 [] from = "cur" -> stream.cursor [] from = "end" -> End
MemSeek(from, offset) ==
    LET to == Origin(from) + offset IN IF to < 0 THEN stream.cursor ELSE Least(to, End)
BufferSeek(from, offset) ==
    LET to == Origin(from) + offset IN IF from # "cur" /\ to < 0 THEN stream.cursor ELSE to
FileSeek(from, offset) ==
    LET to == Origin(from) + offset IN IF to < 0 THEN stream.cursor ELSE to

Seek(t, from, offset) ==
    LET to == CASE stream.kind = "buffer" -> BufferSeek(from, offset)
                [] stream.kind = "file" -> FileSeek(from, offset)
                [] OTHER -> MemSeek(from, offset)
    IN  /\ Free(t) /\ to \in -1..MaxSize
        /\ stream' = [stream EXCEPT !.cursor = to]
        /\ Idle

StreamNext ==
    \/ \E t, u \in Threads : Retain(t, u)
    \/ \E t \in Threads :
         \/ DeleteLoad(t) \/ DeleteCas(t) \/ DeleteCheck(t)
         \/ \E n \in 1..2 : Read(t, n) \/ Write(t, n)
         \/ \E from \in {"set", "cur", "end"}, offset \in -1..1 : Seek(t, from, offset)

StreamSpec == StreamInit /\ [][StreamNext]_streamVars

----------------------------------------------------------------------------

\* As long as no Retain and no other Delete falls into a Delete, the count is
\* the number of references, and the stream is closed once, by the last one.
\* The position never leaves a memory block, a read-only one is never changed; only of a
\* buffer it gets before the start, and only there the total of what was read ever falls.
StreamSound ==
    /\ ~crossed =>
         /\ closes = (IF Held = 0 /\ Deleting = {} THEN 1 ELSE 0)
         /\ Deleting = {} => stream.refCount = Held
    /\ Fixed => stream.cursor <= BlockSize /\ End = BlockSize
    /\ stream.kind # "buffer" => stream.cursor >= 0 /\ stream.totalRead >= 0
    /\ stream.kind = "readonly" => stream.totalWritten = 0 /\ \A i \in 1..End : stream.cells[i] = 0
    /\ \A i \in 1..End : stream.cells[i] = 1 => stream.totalWritten > 0

\* vl_stream.h of vlStreamRead: "Returns the number of bytes successfully read and updates
\* the `totalRead` counter", so reading never takes the counter down (vlStreamRead on a
\* buffer).  (Violated: behind the end vlBufferRead answers a negative difference.)
ReadsAddUp == stream.totalRead >= 0

\* vl_stream.h: the stream is freed when the count reaches zero; the count is
\* atomic so that references can be dropped by any thread.
ClosedOnce == closes <= 1 /\ (Held > 0 => closes = 0)

\* What makes StreamSound inductive: types; unless a Delete was crossed, one thread at most
\* is in Delete, and how far it is tells what the count is; the cells, kind by kind.
StreamTypes ==
    /\ stream \in [kind : Kinds, cells : Seq({0, 1}), cursor : Int, refCount : Nat,
                   totalRead : Int, totalWritten : Nat]
    /\ thread \in [Threads -> [at : {"idle", "cas", "check"}, old : Nat, refs : Nat]]
    /\ closes \in Nat /\ crossed \in BOOLEAN /\ IsFiniteSet(References)
CountInv ==
    /\ \A t \in Threads : At(t, "cas") => thread[t].old > 0
    /\ ~crossed =>
         /\ \A t, u \in Deleting : t = u
         /\ Deleting = {} => stream.refCount = Held /\ closes = (IF Held = 0 THEN 1 ELSE 0)
         /\ \A t \in Deleting :
              /\ closes = 0
              /\ \/ stream.refCount = Held /\ (At(t, "cas") => stream.refCount < thread[t].old)
                 \/ At(t, "cas") /\ stream.refCount = Held + 1 /\ stream.refCount = thread[t].old
CellsInv ==
    /\ Fixed => stream.cursor <= BlockSize /\ End = BlockSize
    /\ stream.kind # "buffer" => stream.cursor >= 0 /\ stream.totalRead >= 0
    /\ stream.kind = "readonly" => stream.totalWritten = 0 /\ \A i \in 1..End : stream.cells[i] = 0
    /\ \A i \in 1..End : stream.cells[i] = 1 => stream.totalWritten > 0
StreamInv == StreamTypes /\ CountInv /\ CellsInv

============================================================================
