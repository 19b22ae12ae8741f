------------------------------ MODULE Thread -------------------------------
(***************************************************************************)
(* vl_thread on both platforms: a library thread from vlThreadNew through  *)
(* the bootstrap routine to vlThreadDelete, an owner that joins it with    *)
(* and without a timeout, and the record vlThreadCurrent gives to threads  *)
(* the library did not create.                                             *)
(***************************************************************************)
EXTENDS Integers, FiniteSets

CONSTANTS
    Foreign,        \* threads not made by vlThreadNew; one of them is the owner
    Owner,
    ThreadPlatforms,\* subset of {"posix", "win32"}
    MaxThreads,     \* bound of the model on calls of vlThreadNew
    NoThread

VARIABLES
    meta,           \* the record of the library thread: freed, finished, lock
    worker,         \* where the bootstrap routine is
    owner,          \* where the owner is, and what its last join said
    current,        \* currentThread, the thread-local pointer, of each foreign thread;
                    \* "first": inside vlThreadCurrent, about to become the main thread
    main,           \* the static record of the main thread: whose handle it holds
    platform

threadVars == <<meta, worker, owner, current, main, platform>>

NoMeta == [live |-> FALSE, finished |-> FALSE, lock |-> NoThread, joins |-> 0, made |-> 0,
           touched |-> FALSE]

ThreadInit ==
    /\ platform \in ThreadPlatforms
    /\ meta = NoMeta /\ worker = "none"
    /\ owner = [at |-> "idle", result |-> FALSE, told |-> FALSE]
    /\ current = [f \in Foreign |-> "null"] /\ main = NoThread

Posix == platform = "posix"
Touch(m) == [m EXCEPT !.touched = @ \/ ~meta.live]     \* an access to the record
Owner_(label) == owner' = [owner EXCEPT !.at = label]
SameMain == UNCHANGED <<current, main, platform>>

----------------------------------------------------------------------------
(* vlThreadCurrent *)

\* The first call of each foreign thread writes the one static record.
PosixCurrent(f) ==
    /\ current[f] = "null"
    /\ main' = f /\ current' = [current EXCEPT ![f] = "main"]

\* g_mainThreadInitialized is looked at without a lock: while it is not set a thread goes
\* on to become the main thread, later ones use a record of their own, ...
WinCurrent(f) ==
    /\ current[f] = "null"
    /\ current' = [current EXCEPT ![f] = IF main = NoThread THEN "first" ELSE "own"]
    /\ UNCHANGED main

\* ... and some time later the main thread's record is filled and the flag set.
WinMain(f) ==
    /\ current[f] = "first"
    /\ main' = f /\ current' = [current EXCEPT ![f] = "main"]

Current(f) ==
    /\ IF Posix THEN PosixCurrent(f) ELSE WinCurrent(f) \/ WinMain(f)
    /\ UNCHANGED <<meta, worker, owner, platform>>

----------------------------------------------------------------------------
(* vlThreadNew: both start with a call of vlThreadCurrent, the steps above; *)
(* the operating system may refuse the thread, and everything is freed.    *)

Create(ok) ==
    /\ owner.at = "idle" /\ ~meta.live /\ worker \in {"none", "ended"}
    /\ meta.made < MaxThreads
    /\ current[Owner] \in {"main", "own"}
    /\ IF ok THEN meta' = [NoMeta EXCEPT !.live = TRUE, !.made = meta.made + 1,
                                         !.touched = meta.touched] /\ worker' = "proc"
             ELSE UNCHANGED <<meta, worker>>
    /\ UNCHANGED owner /\ SameMain

PosixNew(ok) == Posix /\ Create(ok)
WinNew(ok) == ~Posix /\ Create(ok)

----------------------------------------------------------------------------
(* vl_ThreadBootstrap *)

\* The procedure returns (on win32 that is all), or calls vlThreadExit, which
\* ends the thread on the spot on either platform.
ProcReturns ==
    /\ worker = "proc"
    /\ worker' = IF Posix THEN "finish" ELSE "ended"
    /\ UNCHANGED <<meta, owner>> /\ SameMain

ThreadExit ==
    /\ worker = "proc" /\ worker' = "ended"
    /\ UNCHANGED <<meta, owner>> /\ SameMain

\* The lock is taken, finished is set and every waiter woken, ...
BootstrapFinish ==
    /\ worker = "finish" /\ meta.lock = NoThread
    /\ meta' = [Touch(meta) EXCEPT !.finished = TRUE, !.lock = "worker"]
    /\ owner' = [owner EXCEPT !.told = @ \/ owner.at = "waiting"]
    /\ worker' = "unlock" /\ SameMain

\* ... the lock released, and the routine returns.
BootstrapUnlock ==
    /\ worker = "unlock"
    /\ meta' = [Touch(meta) EXCEPT !.lock = NoThread]
    /\ worker' = "ended" /\ UNCHANGED owner /\ SameMain

----------------------------------------------------------------------------
(* The owner's calls; a join is made once, as for every POSIX thread. *)

May == owner.at = "idle" /\ meta.live /\ meta.joins = 0
Joined(m) == [Touch(m) EXCEPT !.joins = @ + 1]

\* vlThreadJoin: pthread_join, or WaitForSingleObject without a limit.
JoinCall == May /\ Owner_("join") /\ UNCHANGED <<meta, worker>> /\ SameMain
JoinReturns ==
    /\ owner.at = "join" /\ worker = "ended"
    /\ meta' = Joined(meta)
    /\ owner' = [owner EXCEPT !.at = "idle", !.result = TRUE]
    /\ UNCHANGED worker /\ SameMain

\* WaitForSingleObject with a limit: the thread has ended, or time is up.
WinJoinTimeout ==
    /\ ~Posix /\ May
    /\ IF worker = "ended" THEN meta' = Joined(meta) ELSE UNCHANGED meta
    /\ owner' = [owner EXCEPT !.result = (worker = "ended")]
    /\ UNCHANGED worker /\ SameMain

\* vlThreadJoinTimeout on POSIX: under the lock, finished is looked at ...
TimedLook(from, next) ==
    /\ owner.at = from /\ meta.lock = NoThread
    /\ IF meta.finished
       THEN owner' = [owner EXCEPT !.at = "join", !.told = FALSE] /\ UNCHANGED meta
       ELSE owner' = [owner EXCEPT !.at = next, !.told = FALSE] /\ meta' = Touch(meta)
    /\ UNCHANGED worker /\ SameMain

PosixJoinTimeout == Posix /\ May /\ TimedLook("idle", "waiting")

\* ... again after a wakeup, which may be spurious ...
TimedWake == owner.at = "waiting" /\ Owner_("woken") /\ UNCHANGED <<meta, worker>> /\ SameMain
TimedAgain == TimedLook("woken", "waiting")

\* Faulty variant: a finished thread is not joined.
TimedOutUnjoined ==
    /\ owner.at = "waiting" /\ meta.lock = NoThread
    /\ owner' = [owner EXCEPT !.at = "idle", !.result = meta.finished, !.told = FALSE]
    /\ meta' = Touch(meta)
    /\ UNCHANGED worker /\ SameMain

\* ... and a last time when the time is up.
TimedOut ==
    /\ owner.at = "waiting" /\ meta.lock = NoThread
    /\ owner' = IF meta.finished THEN [owner EXCEPT !.at = "join", !.told = FALSE]
                ELSE [owner EXCEPT !.at = "idle", !.result = FALSE, !.told = FALSE]
    /\ meta' = Touch(meta)
    /\ UNCHANGED worker /\ SameMain

\* vlThreadDelete of a thread that was joined: the record is freed.
Delete ==
    /\ owner.at = "idle" /\ meta.live /\ meta.joins = 1
    /\ meta' = [meta EXCEPT !.live = FALSE]
    /\ owner' = [owner EXCEPT !.result = FALSE]
    /\ UNCHANGED worker /\ SameMain

PosixDelete == Posix /\ Delete
WinDelete == ~Posix /\ Delete

ThreadNext ==
    \/ \E ok \in BOOLEAN : PosixNew(ok) \/ WinNew(ok)
    \/ ProcReturns \/ ThreadExit \/ BootstrapFinish \/ BootstrapUnlock
    \/ JoinCall \/ JoinReturns \/ WinJoinTimeout
    \/ PosixJoinTimeout \/ TimedWake \/ TimedAgain \/ TimedOut
    \/ PosixDelete \/ WinDelete
    \/ \E f \in Foreign : Current(f)

ThreadSpec == ThreadInit /\ [][ThreadNext]_threadVars

----------------------------------------------------------------------------

\* The thread and its owner never use a freed record, a successful join, timed
\* or not, means that the thread has ended, and a waiter that was not told
\* cannot be left behind by a finished thread.  Whoever got a record got it after the main
\* thread's was filled, and the thread whose handle that holds was given it: not, that it
\* is the only one (see OwnRecord).
ThreadSound ==
    /\ ~meta.touched
    /\ meta.joins > 0 => worker = "ended"
    /\ owner.result => meta.joins = 1
    /\ owner.at = "waiting" /\ meta.finished => owner.told
    /\ main # NoThread => current[main] = "main"
    /\ \A f \in Foreign : current[f] \in {"main", "own"} => main # NoThread

\* vl_thread.h of vlThreadCurrent: "Returns a handle to the current thread's metadata"; "This
\* function is thread-safe".  (Violated: on POSIX every thread the library did not make is
\* given the one static record, on Windows two that meet in their first call are.)
OwnRecord == \A f \in Foreign : current[f] = "main" => main = f

\* What makes ThreadSound inductive: a record that somebody may still use is not
\* freed, and a join is under way only before the one that succeeds.
ThreadTypes ==
    /\ meta \in [live : BOOLEAN, finished : BOOLEAN, lock : {NoThread, "worker"}, joins : 0..1,
                 made : Nat, touched : BOOLEAN]
    /\ worker \in {"none", "proc", "finish", "unlock", "ended"}
    /\ owner \in [at : {"idle", "join", "waiting", "woken"}, result : BOOLEAN, told : BOOLEAN]
    /\ current \in [Foreign -> {"null", "first", "main", "own"}] /\ main \in Foreign \cup {NoThread}
RecordInv ==
    /\ ~meta.live => worker \in {"none", "ended"}
    /\ owner.at # "idle" => meta.live /\ meta.joins = 0
    /\ owner.result => meta.live
ThreadInv == ThreadTypes /\ RecordInv /\ ThreadSound

============================================================================
