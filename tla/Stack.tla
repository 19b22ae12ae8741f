------------------------------- MODULE Stack -------------------------------
(***************************************************************************)
(* vl_buffer.c and vl_stack.c: memory that grows under a moving offset,    *)
(* and a stack of levels of any size in such a buffer, each level linked   *)
(* to the one below by the header in front of it.  A cell of the model is  *)
(* as large as that header; sizes are whole cells.                         *)
(***************************************************************************)
EXTENDS Integers, Sequences, SequencesExt

CONSTANTS
    InitialSize,    \* of the buffers
    MaxCapacity,    \* bound of the model on a buffer
    MaxSize,        \* bound of the model on one level, one write or one read
    Marks           \* what is written

VARIABLES
    buffer,         \* a buffer used by itself
    text,           \* its cells as they were written, Junk where nothing was (history)
    stack, levels   \* a stack, and what it should hold, and where (history)

bufVars == <<buffer, text>>
stackVars == <<stack, levels>>

Junk == -1
Header == 1
Capacity(b) == Len(b.data)

\* vlMemRealloc: what fits is kept.
Sized(data, n) == [i \in 1..n |-> IF i <= Len(data) THEN data[i] ELSE Junk]

\* vlBufferInitExt.
NewBuffer(n) == [data |-> Sized(<< >>, n), offset |-> 0, size |-> 0]

\* The size n, doubled until there is more than the cells written.
Doubled(n, beyond) ==
    LET size[c \in Nat] == IF c <= beyond THEN size[2 * c] ELSE c
    IN  size[n]

Splice(data, at, cells) ==
    [i \in DOMAIN data |-> IF i - at \in DOMAIN cells THEN cells[i - at] ELSE data[i]]

\* vlBufferWrite: grows to more than the end of the write.
BufferWrite(b, cells) ==
    LET data == Sized(b.data, Doubled(Capacity(b), Len(cells) + b.offset))
        offset == b.offset + Len(cells)
    IN  [data |-> Splice(data, b.offset, cells), offset |-> offset,
         size |-> IF offset > b.size THEN offset ELSE b.size]

\* vlBufferRead: how much is there to read.  From beyond the end it is less than
\* nothing, in the code a huge number; the offset ends up at the end either way.
Readable(b, n) == IF b.offset + n > b.size THEN b.size - b.offset ELSE n

\* vlBufferCopy: when the source is too short, as much as is missing is copied
\* instead of what is there, from behind the cells written or the memory.
CopyLength(b, n) == IF b.offset + n > b.size THEN b.offset + n - b.size ELSE n
CellsAt(cells, offset, n) ==
    [i \in 1..n |-> IF offset + i <= Len(cells) THEN cells[offset + i] ELSE Junk]
BufferCopy(src, dest, n) ==
    BufferWrite(dest, CellsAt(src.data, src.offset, CopyLength(src, n)))

----------------------------------------------------------------------------
(* A buffer by itself. *)

Word(n, mark) == [i \in 1..n |-> mark]

BufInit == buffer = NewBuffer(InitialSize) /\ text = << >>

Write(n, mark) ==
    /\ buffer' = BufferWrite(buffer, Word(n, mark))
    /\ Capacity(buffer') <= MaxCapacity
    /\ LET end == buffer.offset + n
       IN  text' = Splice(Sized(text, IF end > Len(text) THEN end ELSE Len(text)),
                          buffer.offset, Word(n, mark))

ReadSome(n) ==
    /\ buffer' = [buffer EXCEPT !.offset = @ + Readable(buffer, n)]
    /\ UNCHANGED text

\* vlBufferSeek, vlBufferSeekRelative, vlBufferSeekBegin, vlBufferSeekEnd.  The header
\* leaves it undefined to seek beyond the capacity, but not beyond the end.
Seek(to) == buffer' = [buffer EXCEPT !.offset = to] /\ UNCHANGED text

BufferClear ==
    /\ buffer' = [data |-> [i \in DOMAIN buffer.data |-> 0], offset |-> 0, size |-> 0]
    /\ text' = << >>

\* vlBufferReset to a capacity.
BufferReset(n) ==
    /\ buffer' = [data |-> Sized(buffer.data, n), offset |-> 0, size |-> 0]
    /\ text' = << >>

\* vlBufferShrinkToFit.
ShrinkToFit ==
    /\ buffer' = [buffer EXCEPT !.data = IF buffer.size > 0 THEN Sized(@, buffer.size) ELSE @]
    /\ UNCHANGED text

\* vlBufferCopy to a new buffer; the program goes on with the copy, or with the
\* source, whose offset has moved.
CopyRest(n) ==
    LET len == CopyLength(buffer, n)
    IN  \/ /\ buffer' = BufferCopy(buffer, NewBuffer(InitialSize), n)
           /\ Capacity(buffer') <= MaxCapacity
           /\ text' = CellsAt(text, buffer.offset, len)
        \/ /\ buffer.offset + len <= MaxCapacity
           /\ buffer' = [buffer EXCEPT !.offset = @ + len]
           /\ UNCHANGED text

BufNext ==
    \/ \E n \in 1..MaxSize, mark \in Marks : Write(n, mark)
    \/ \E n \in 1..MaxSize : ReadSome(n) \/ CopyRest(n)
    \/ \E to \in 0..Capacity(buffer) : Seek(to)
    \/ BufferClear
    \/ BufferReset(InitialSize)
    \/ ShrinkToFit

\* Every cell written is there to be read, through growth, shrinking, overwriting,
\* and seeking beyond the end, and the cells up to the size are inside the memory.
\* A copy holds what stood at the offset, in the length the code copies (see
\* CopiesToTheEnd).
BufferSound ==
    /\ buffer.size = Len(text)
    /\ buffer.size <= Capacity(buffer)
    /\ \A i \in DOMAIN text : text[i] \in {Junk, buffer.data[i]}

\* With less in the source than was asked for, vlBufferCopy copies up to the end of the
\* source.  (Violated: it copies as much as is missing.)
CopiesToTheEnd ==
    buffer.offset <= buffer.size =>
      \A n \in 1..MaxSize : CopyLength(buffer, n) = Readable(buffer, n)

----------------------------------------------------------------------------
(* A stack. *)

StackInit ==
    /\ stack = [buffer |-> NewBuffer(InitialSize), headOffset |-> 0, depth |-> 0]
    /\ levels = << >>

\* vlStackPush, vlStackPushValue: the header keeps size and previousOffset.
Push(n, mark) ==
    LET header == [size |-> n, previousOffset |-> stack.headOffset]
    IN  /\ stack' = [buffer |-> BufferWrite(stack.buffer, <<header>> \o Word(n, mark)),
                     headOffset |-> stack.buffer.offset, depth |-> stack.depth + 1]
        /\ Capacity(stack'.buffer) <= MaxCapacity
        /\ levels' = Append(levels, [at |-> stack.buffer.offset, cells |-> Word(n, mark)])

\* vlStackPop.
Pop ==
    /\ stack.depth > 0
    /\ stack' = [stack EXCEPT
                   !.buffer.offset = stack.headOffset,
                   !.headOffset = stack.buffer.data[@ + 1].previousOffset, !.depth = @ - 1]
    /\ levels' = Front(levels)

\* vlStackReset.
ResetStack ==
    /\ stack' = [stack EXCEPT !.depth = 0, !.headOffset = 0, !.buffer.offset = 0]
    /\ levels' = << >>

StackNext ==
    \/ \E n \in 1..MaxSize, mark \in Marks : Push(n, mark)
    \/ Pop
    \/ ResetStack

\* vlStackSampleSize and vlStackSample of the level at an offset; vlStackPeekSize and
\* vlStackPeek are those of the level at headOffset.
SampleSize(s, at) == s.buffer.data[at + 1].size
Sample(s, at) == SubSeq(s.buffer.data, at + Header + 1, at + Header + SampleSize(s, at))

\* Where the i-th level of c is, the outermost first, and where it ends.
LevelAt(c, i) == IF i \in DOMAIN c THEN c[i].at ELSE 0
LevelEnd(c, i) == IF i \in DOMAIN c THEN c[i].at + Header + Len(c[i].cells) ELSE 0

\* The headers, followed down, give every level of c as it was pushed, one right on top
\* of the other, and the next level goes on top of the last one.
Stacked(s, c) ==
    /\ s.depth = Len(c)
    /\ s.headOffset = LevelAt(c, Len(c)) /\ s.buffer.offset = LevelEnd(c, Len(c))
    /\ \A i \in DOMAIN c : LET at == c[i].at  n == Len(c[i].cells) IN
         /\ at = LevelEnd(c, i - 1)
         /\ s.buffer.data[at + 1] = [size |-> n, previousOffset |-> LevelAt(c, i - 1)]
         /\ Sample(s, at) = c[i].cells

\* Every level is found as it was pushed, whatever was pushed and popped since.
StackSound == Stacked(stack, levels)

\* What makes the two inductive: the form of a buffer, an offset that stays within the
\* cells written to a stack, and levels that do not overlap.
Cells(data) == Len(data) \in Nat /\ data = [i \in 1..Len(data) |-> data[i]]
Buffer(b) ==
    /\ DOMAIN b = {"data", "offset", "size"}
    /\ Cells(b.data) /\ b.offset \in Nat /\ b.size \in Nat
    /\ Capacity(b) > 0 /\ b.size <= Capacity(b)
BufInv == Buffer(buffer) /\ Cells(text) /\ BufferSound
InMemory(b) == Buffer(b) /\ b.offset <= b.size
Apart(c, end) ==
    \A i \in DOMAIN c : /\ DOMAIN c[i] = {"at", "cells"} /\ c[i].at \in Nat /\ Cells(c[i].cells)
                        /\ LevelEnd(c, i) <= end
                        /\ \A j \in DOMAIN c : i < j => LevelEnd(c, i) <= c[j].at
StackInv ==
    /\ DOMAIN stack = {"buffer", "headOffset", "depth"}
    /\ InMemory(stack.buffer) /\ Cells(levels) /\ Apart(levels, stack.buffer.offset)
    /\ StackSound

StackSpec ==
    /\ BufInit /\ StackInit
    /\ [][(BufNext /\ UNCHANGED stackVars) \/ (StackNext /\ UNCHANGED bufVars)]_<<bufVars, stackVars>>

============================================================================
