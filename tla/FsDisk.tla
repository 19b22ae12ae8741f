------------------------------- MODULE FsDisk -------------------------------
(***************************************************************************)
(* vl_filesys on both platforms against a disk that another process may    *)
(* change between two system calls: creating directories with their        *)
(* parents, removing, status records, and the iterator, which walks a tree *)
(* with a stack of open directories that share one path string.            *)
(* A path is the sequence of its names; the disk maps the paths that exist *)
(* to "dir", "file" or "locked" (a directory nobody may open).             *)
(***************************************************************************)
EXTENDS Integers, Sequences, FiniteSets, SequencesExt

CONSTANTS
    DiskPlatforms,  \* subset of {"posix", "win32"}
    Layouts,        \* disks to begin with
    Targets,        \* paths that are created, removed and asked for
    Walked,         \* directories that are walked
    Noisy,          \* paths the other process makes or removes
    MaxNoise,       \* bound of the model on changes by the other process
    MaxSlots,       \* bound of the model on the path pool
    MaxWalks        \* bound of the model on walks begun

VARIABLES
    os, disk, noise,
    mk,             \* a call of vlFSPathMkDir: where it is, levels to create, result
    stat,           \* a vl_filesys_stat
    iter,           \* an iterator: stack of frames, dirPath, what it has shown (history)
    pool            \* sys->pathPool: slots returned, fresh slots, handles held

diskVars == <<os, disk, noise, mk, stat, iter, pool>>

Exists(p) == p \in DOMAIN disk
IsDir(p) == Exists(p) /\ disk[p] \in {"dir", "locked"}
Kids(p) == {q \in DOMAIN disk : q # << >> /\ Front(q) = p}
Put(p, kind) == [q \in DOMAIN disk \cup {p} |-> IF q = p THEN kind ELSE disk[q]]
Less(p) == [q \in DOMAIN disk \ {p} |-> disk[q]]

NoFrame == [dir |-> << >>, rest |-> << >>, entry |-> << >>]
DiskInit ==
    /\ os \in DiskPlatforms /\ disk \in Layouts /\ noise = 0
    /\ mk = [at |-> "idle", levels |-> << >>, target |-> << >>, result |-> "none", hurt |-> FALSE,
             there |-> FALSE]
    /\ stat = [file |-> << >>, name |-> << >>, kind |-> "none", torn |-> FALSE]
    /\ iter = [stack |-> << >>, recursive |-> FALSE, dirPath |-> << >>, slot |-> 0, shown |-> << >>,
               from |-> << >>, strayed |-> FALSE, quiet |-> TRUE, walks |-> 0]
    /\ pool = [free |-> << >>, fresh |-> 1, held |-> << >>, doubled |-> FALSE]

\* The other process makes a directory or a file, or removes something.
Noise(p, kind) ==
    /\ noise < MaxNoise /\ noise' = noise + 1
    /\ IF kind = "none" THEN Exists(p) /\ Kids(p) = {} /\ disk' = Less(p)
       ELSE ~Exists(p) /\ Exists(Front(p)) /\ disk[Front(p)] = "dir" /\ disk' = Put(p, kind)
    /\ mk' = [mk EXCEPT !.hurt = @ \/ (mk.at # "idle" /\ kind # "dir")]
    /\ iter' = [iter EXCEPT !.quiet = FALSE]
    /\ UNCHANGED <<os, stat, pool>>

----------------------------------------------------------------------------
(* vlFSPathMkDir *)

\* What mkdir says of a path.
Errno(p) ==
    IF Exists(p) THEN "EEXIST"
    ELSE IF \E i \in 0..(Len(p) - 1) : Exists(SubSeq(p, 1, i)) /\ disk[SubSeq(p, 1, i)] = "file" THEN "ENOTDIR"
    ELSE IF ~Exists(Front(p)) THEN "ENOENT"
    ELSE IF disk[Front(p)] = "locked" THEN "EACCES" ELSE "ok"
Failure(errno) == CASE errno = "EACCES" -> "denied" [] errno = "ENOTDIR" -> "invalid" [] OTHER -> "io"

MkTo(label, levels, result) ==
    /\ mk' = [mk EXCEPT !.at = label, !.levels = levels, !.result = result,
                !.there = mk.target \in DOMAIN disk' /\ disk'[mk.target] # "file"]
    /\ iter' = [iter EXCEPT !.quiet = @ /\ disk' = disk]
    /\ UNCHANGED <<os, noise, stat, pool>>
MkStart(p, label) ==
    /\ mk.at = "idle"
    /\ mk' = [mk EXCEPT !.target = p, !.levels = << >>, !.hurt = FALSE, !.at = label, !.result = "none"]
    /\ UNCHANGED <<os, disk, noise, stat, iter, pool>>

\* First a plain mkdir.  What exists already is fine if it is a directory; if
\* the parent is missing, the levels are created.
PosixMkDir(p) == os = "posix" /\ MkStart(p, "try")
PosixMkTry ==
    LET e == Errno(mk.target)
    IN  /\ os = "posix" /\ mk.at = "try"
        /\ disk' = IF e = "ok" THEN Put(mk.target, "dir") ELSE disk
        /\ CASE e = "ok" -> MkTo("idle", << >>, "success")
             [] e = "EEXIST" -> MkTo("exists", << >>, "none")
             [] e = "ENOENT" -> MkTo("stat", <<mk.target>>, "none")
             [] OTHER -> MkTo("idle", << >>, Failure(e))
PosixMkExists ==
    /\ os = "posix" /\ mk.at = "exists" /\ UNCHANGED disk
    /\ MkTo("idle", << >>, IF IsDir(mk.target) THEN "success" ELSE "invalid")

\* vl_FSPathMkDirRecursive: down to a level that exists, ...
PosixMkStat ==
    LET level == Last(mk.levels)
    IN  /\ os = "posix" /\ mk.at = "stat" /\ UNCHANGED disk
        /\ IF Exists(level)
           THEN IF IsDir(level) THEN MkTo("make", Front(mk.levels), "none")
                ELSE MkTo("idle", << >>, "invalid")
           ELSE IF Len(level) = 1 THEN MkTo("make", mk.levels, "none")
           ELSE MkTo("stat", Append(mk.levels, Front(level)), "none")

\* Faulty variant: a directory that another process made meanwhile is an error.
PosixMkLevelStrict ==
    LET e == Errno(Last(mk.levels))
    IN  /\ os = "posix" /\ mk.at = "make" /\ mk.levels # << >>
        /\ disk' = IF e = "ok" THEN Put(Last(mk.levels), "dir") ELSE disk
        /\ IF e # "ok" THEN MkTo("idle", << >>, Failure(e))
           ELSE MkTo("make", Front(mk.levels), "none")

\* ... and up again, making one after the other; one that exists by now is fine.
PosixMkLevel ==
    LET e == Errno(Last(mk.levels))
    IN  /\ os = "posix" /\ mk.at = "make" /\ mk.levels # << >>
        /\ disk' = IF e = "ok" THEN Put(Last(mk.levels), "dir") ELSE disk
        /\ IF e \notin {"ok", "EEXIST"} THEN MkTo("idle", << >>, Failure(e))
           ELSE MkTo("make", Front(mk.levels), "none")
PosixMkDone ==
    /\ os = "posix" /\ mk.at = "make" /\ mk.levels = << >>
    /\ UNCHANGED disk /\ MkTo("idle", << >>, "success")

\* On win32 the attributes are asked for first: what exists already ends the call, ...
WinMkDir(p) == os = "win32" /\ MkStart(p, "look")
WinMkLook ==
    /\ os = "win32" /\ mk.at = "look" /\ UNCHANGED disk
    /\ IF Exists(mk.target) THEN MkTo("idle", << >>, IF IsDir(mk.target) THEN "success" ELSE "invalid")
       ELSE MkTo("create", << >>, "none")

\* ... then the directory alone is made.  The truth value of CreateDirectoryExW is read as
\* an error code: 0, which means failure, is ERROR_SUCCESS, and 1 one that is not expected.
WinMkCreate ==
    LET made == Errno(mk.target) = "ok"
    IN  /\ os = "win32" /\ mk.at = "create"
        /\ disk' = IF made THEN Put(mk.target, "dir") ELSE disk
        /\ MkTo("idle", << >>, IF made THEN "io" ELSE "success")

----------------------------------------------------------------------------
(* vlFSPathRemove and the status record *)

Removed(p) ==
    /\ mk.at = "idle" /\ p # << >>
    /\ disk' = IF Exists(p) /\ Kids(p) = {} THEN Less(p) ELSE disk
    /\ iter' = [iter EXCEPT !.quiet = @ /\ disk' = disk]
    /\ UNCHANGED <<os, noise, mk, stat, pool>>
PosixRemove(p) == os = "posix" /\ Removed(p)
WinRemove(p) == os = "win32" /\ Removed(p)

Filled(p, kind) == [file |-> p, name |-> <<Last(p)>>, kind |-> kind, torn |-> FALSE]
StatTo(record) == stat' = record /\ UNCHANGED <<os, disk, noise, mk, iter, pool>>

\* vlFSStatPath: nothing is touched when the path cannot be looked up.
PosixStatPath(p) == os = "posix" /\ Exists(p) /\ StatTo(Filled(p, disk[p]))
WinStatPath(p) == os = "win32" /\ Exists(p) /\ StatTo(Filled(p, disk[p]))

----------------------------------------------------------------------------
(* The iterator *)

Top == Last(iter.stack)
Entry(name, kind) == <<[name |-> name, kind |-> kind]>>
Ready == iter.stack # << >> /\ Top.entry # << >>
PathOf(frame) == Append(iter.dirPath, Head(frame.entry).name)

\* What opendir and readdir deliver: the children in any order.  "." and ".." come
\* before them and are skipped at once, which is left out, or "." comes last
\* (readdir promises no order).
Listings(p) ==
    IF ~Exists(p) \/ disk[p] # "dir" THEN {}
    ELSE LET entries == {[name |-> Last(q), kind |-> disk[q]] : q \in Kids(p)}
         IN  SetToSeqs(entries) \cup {s \o Entry(".", "dir") : s \in SetToSeqs(entries)}

\* vl_FSIterImplicitSkip and the skip loops of win32
Skipped(s) == SelectSeq(s, LAMBDA e : e.name # ".")
Frame(p, s) == [dir |-> p, entry |-> <<Head(s)>>, rest |-> Tail(s)]

\* vlPoolTake, vlPoolReturn on the pool of paths
TakeSlot(q) == IF q.free # << >> THEN Last(q.free) ELSE q.fresh
Taken(q) == IF q.free # << >> THEN [q EXCEPT !.free = Front(@)] ELSE [q EXCEPT !.fresh = @ + 1]
Returned(q, slot) == [q EXCEPT !.free = Append(@, slot)]

IterNew ==
    /\ iter.stack = << >> /\ pool.fresh < MaxSlots /\ pool' = Taken(pool)
    /\ iter' = [iter EXCEPT !.stack = <<NoFrame>>, !.slot = TakeSlot(pool), !.shown = << >>,
                            !.dirPath = << >>, !.recursive = FALSE, !.strayed = FALSE]
    /\ UNCHANGED <<os, disk, noise, mk, stat>>

\* vl_FSIterInit closes whatever was open; vlFSIterDir and vlFSIterDirRecursive
IterOpen(p, recursive, s) ==
    /\ iter.stack # << >> /\ iter.walks < MaxWalks /\ s \in Listings(p) /\ Skipped(s) # << >>
    /\ iter' = [iter EXCEPT !.stack = <<Frame(p, s)>>, !.dirPath = p, !.from = p,
                   !.recursive = recursive, !.quiet = TRUE, !.strayed = FALSE, !.walks = @ + 1,
                   !.shown = <<Append(p, Head(s).name)>>]
    /\ UNCHANGED <<os, disk, noise, mk, stat, pool>>
PosixIterDir(p, recursive, s) == os = "posix" /\ IterOpen(p, recursive, s)
WinIterDir(p, recursive, s) == os = "win32" /\ IterOpen(p, recursive, s)
IterOpenFails(p) ==
    /\ iter.stack # << >> /\ (Listings(p) = {} \/ Kids(p) = {})
    /\ iter' = [iter EXCEPT !.stack = <<NoFrame>>, !.shown = << >>]
    /\ UNCHANGED <<os, disk, noise, mk, stat, pool>>

\* Faulty variant: one name is taken off the path, however many directories end at once.
AdvanceOnce(stack, path, skip) ==
    LET Rest(i) == IF skip THEN Skipped(stack[i].rest) ELSE stack[i].rest
        left == {i \in DOMAIN stack : Rest(i) # << >>}
        n == Max(left \cup {1})
        frame == IF left = {} THEN [stack[n] EXCEPT !.entry = << >>, !.rest = << >>]
                 ELSE [stack[n] EXCEPT !.entry = <<Head(Rest(n))>>, !.rest = Tail(Rest(n))]
    IN  [stack |-> Append(SubSeq(stack, 1, n - 1), frame),
         path |-> IF n < Len(stack) THEN SubSeq(path, 1, Len(path) - 1) ELSE path]

\* The next entry of the directory, or of the nearest one below it on the stack that has
\* one: vl_FSIterPop takes the last name off the path for each.
Advance(stack, path, skip) ==
    LET Rest(i) == IF skip THEN Skipped(stack[i].rest) ELSE stack[i].rest
        left == {i \in DOMAIN stack : Rest(i) # << >>}
        n == Max(left \cup {1})
        frame == IF left = {} THEN [stack[n] EXCEPT !.entry = << >>, !.rest = << >>]
                 ELSE [stack[n] EXCEPT !.entry = <<Head(Rest(n))>>, !.rest = Tail(Rest(n))]
    IN  [stack |-> Append(SubSeq(stack, 1, n - 1), frame), path |-> SubSeq(path, 1, Len(path) - Len(stack) + n)]

Show(stack, path, strayed) ==
    iter' = [iter EXCEPT !.stack = stack, !.dirPath = path,
       !.strayed = @ \/ strayed \/ (Last(stack).entry # << >> /\ Head(Last(stack).entry).name = "."),
       !.shown = IF Last(stack).entry = << >> THEN @
                 ELSE Append(@, Append(path, Head(Last(stack).entry).name))]

\* vlFSIterNext: a directory is entered first.  The child's iterator gets a path of
\* its own from vlFSIterNew, which is dropped for the shared one.  POSIX does not cut
\* the shared path back when the directory cannot be opened, and skips nothing after
\* the first entry; win32 skips, but ends the walk if nothing is left to skip to.
Enters == iter.recursive /\ Head(Top.entry).kind \in {"dir", "locked"}
EndsShort == os = "win32" /\ Top.rest # << >> /\ Skipped(Top.rest) = << >>
Step(s) ==
    LET path == PathOf(Top)
        barred == Enters /\ Listings(path) = {}
        uncut == barred /\ os = "posix"
        on == Advance(iter.stack, IF uncut THEN path ELSE iter.dirPath, os = "win32")
    IN  /\ Ready /\ ~iter.strayed /\ (Enters => pool.fresh < MaxSlots)
        /\ pool' = IF Enters THEN Taken(pool) ELSE pool
        /\ s \in IF Enters /\ ~barred THEN Listings(path) ELSE {<< >>}
        /\ IF Enters /\ Skipped(s) # << >>
           THEN Show(Append(iter.stack, Frame(path, s)), path, FALSE)
           ELSE IF EndsShort
           THEN Show(Append(Front(iter.stack), [NoFrame EXCEPT !.dir = Top.dir]), iter.dirPath, TRUE)
           ELSE Show(on.stack, on.path, uncut)
        /\ UNCHANGED <<os, disk, noise, mk, stat>>
PosixNext(s) == os = "posix" /\ Step(s)
WinNext(s) == os = "win32" /\ Step(s)

\* vlFSStatIter: POSIX has set the path when the lookup fails; win32 takes the
\* attributes from the listing.
PosixStatIter ==
    LET p == PathOf(Top)
    IN  /\ os = "posix" /\ Ready
        /\ StatTo(IF Exists(p) THEN Filled(p, disk[p]) ELSE [stat EXCEPT !.file = p, !.torn = TRUE])
WinStatIter == os = "win32" /\ Ready /\ StatTo(Filled(PathOf(Top), Head(Top.entry).kind))

\* vlFSIterDelete, frame by frame: each returns the path it has, the same for all.
IterDelete ==
    /\ iter.stack # << >>
    /\ iter' = [iter EXCEPT !.stack = << >>, !.slot = 0]
    /\ pool' = [pool EXCEPT !.free = @ \o [i \in 1..Len(iter.stack) |-> iter.slot],
                            !.doubled = @ \/ Len(iter.stack) > 1]
    /\ UNCHANGED <<os, disk, noise, mk, stat>>
PosixIterDelete == os = "posix" /\ IterDelete
WinIterDelete == os = "win32" /\ IterDelete

\* vlFSPathNew and vlFSPathDelete by the client
PathNew == /\ pool.held = << >> /\ pool.fresh < MaxSlots
           /\ pool' = [Taken(pool) EXCEPT !.held = Append(@, TakeSlot(pool))]
           /\ UNCHANGED <<os, disk, noise, mk, stat, iter>>
PathDelete == /\ pool.held # << >>
              /\ pool' = [Returned(pool, Last(pool.held)) EXCEPT !.held = Front(@)]
              /\ UNCHANGED <<os, disk, noise, mk, stat, iter>>

DiskNext ==
    \/ \E p \in Noisy, kind \in {"dir", "file", "none"} : Noise(p, kind)
    \/ \E p \in Targets :
         \/ PosixMkDir(p) \/ WinMkDir(p) \/ PosixRemove(p) \/ WinRemove(p)
         \/ PosixStatPath(p) \/ WinStatPath(p)
    \/ \E p \in Walked :
         \/ IterOpenFails(p)
         \/ \E recursive \in BOOLEAN, s \in Listings(p) :
              PosixIterDir(p, recursive, s) \/ WinIterDir(p, recursive, s)
    \/ PosixMkTry \/ PosixMkExists \/ PosixMkStat \/ PosixMkLevel \/ PosixMkDone
    \/ WinMkLook \/ WinMkCreate
    \/ IterNew \/ PosixIterDelete \/ WinIterDelete \/ PosixStatIter \/ WinStatIter
    \/ Ready /\ \E s \in Listings(PathOf(Top)) \cup {<< >>} : PosixNext(s) \/ WinNext(s)
    \/ PathNew \/ PathDelete

----------------------------------------------------------------------------

\* On POSIX vlFSPathMkDir says success if and only if the directory is there when it
\* returns, whatever directories another process makes meanwhile; only what that one
\* removes, or a file it puts in the way, can make the answer wrong.
Truthful ==
    mk.at = "idle" /\ mk.result # "none" /\ ~mk.hurt => (mk.result = "success" <=> mk.there)
MkDirSound == os = "posix" => Truthful

\* vl_filesys.h of vlFSPathMkDir: "Result code indicating success or failure", on every
\* platform.  (Violated on win32, where a directory just made is reported as an error.)
MkDirTruthful == Truthful

\* Until a directory cannot be opened on POSIX, or "." is not the first entry, the path
\* string that all frames share names the directory of the uppermost one, no entry is
\* shown twice and none before its directory; on a disk that did not change, a walk that
\* ends has shown everything below its directory.
Below(p) == {q \in DOMAIN disk : IsStrictPrefix(p, q)}
WalkExact ==
    iter.stack # << >> /\ ~iter.strayed =>
        /\ Ready => iter.dirPath = Top.dir
        /\ \A i, j \in DOMAIN iter.shown : i < j => ~IsPrefix(iter.shown[j], iter.shown[i])
        /\ iter.shown # << >> /\ ~Ready /\ iter.quiet =>
             ToSet(iter.shown) = IF iter.recursive THEN Below(iter.from) ELSE Kids(iter.from)

\* Unless an iterator was deleted inside a subdirectory, a path's slot belongs to one
\* owner; a status record whose lookup did not fail halfway names its file.
SlotsSingle ==
    /\ ~pool.doubled =>
         LET slots == pool.free \o pool.held \o IF iter.slot = 0 THEN << >> ELSE <<iter.slot>>
         IN  IsInjective(slots)
    /\ stat.file # << >> /\ ~stat.torn => stat.name = <<Last(stat.file)>>

WalkSound == WalkExact /\ SlotsSingle

\* What makes MkDirSound inductive.  The disk t is a tree of open directories, files and
\* directories that nobody may open.
Tree(t) ==
    /\ << >> \in DOMAIN t
    /\ \A p \in DOMAIN t : p \in Seq(STRING) /\ t[p] \in {"dir", "file", "locked"}
    /\ \A p \in DOMAIN t : \A i \in 0..(Len(p) - 1) :
         SubSeq(p, 1, i) \in DOMAIN t /\ t[SubSeq(p, 1, i)] = "dir"
\* The levels of a call m lead from its target upwards; no file is at one that is still to
\* be made, and once none is left the target is a directory, unless the other process
\* removed something or made a file.
Upwards(q, p) == Len(q) <= Len(p) /\ \A i \in DOMAIN q : q[i] = SubSeq(p, 1, Len(p) - i + 1)
NoFile(q, n, t) == \A i \in 1..n : q[i] \in DOMAIN t => t[q[i]] # "file"
DirIn(t, p) == p \in DOMAIN t /\ t[p] # "file"
LevelsInv(m, t) ==
    /\ m.at \in {"stat", "make"} => Upwards(m.levels, m.target)
    /\ m.at = "stat" => m.levels # << >> /\ (m.hurt \/ NoFile(m.levels, Len(m.levels) - 1, t))
    /\ m.at = "make" => m.hurt \/ (/\ NoFile(m.levels, Len(m.levels), t)
                                   /\ m.levels = << >> => DirIn(t, m.target))
MkCall ==
    [at : {"idle", "try", "exists", "stat", "make", "look", "create"},
     levels : Seq(Seq(STRING)), target : Seq(STRING),
     result : {"none", "success", "io", "denied", "invalid"}, hurt : BOOLEAN, there : BOOLEAN]
MkDirInv ==
    /\ Tree(disk)
    /\ mk \in MkCall
    /\ mk.at # "idle" => mk.target # << >>
    /\ os = "posix" => LevelsInv(mk, disk) /\ MkDirSound

============================================================================
