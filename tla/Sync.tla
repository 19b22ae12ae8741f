------------------------------- MODULE Sync --------------------------------
(***************************************************************************)
(* The synchronisation handles of both platforms: vl_mutex, vl_srwlock,     *)
(* vl_condition and vl_semaphore, used by a few threads at once.  A lock   *)
(* whose creation failed is NULL; every lock operation accepts that, and   *)
(* then locks nothing.  The operating system's objects are external.       *)
(***************************************************************************)
EXTENDS Integers, FiniteSets

CONSTANTS
    Clients,
    SyncPlatforms,  \* subset of {"posix", "win32"}
    MaxCount        \* bound of the model on the semaphore's count and posts

VARIABLES
    handle,         \* which locks are not NULL, the platform, in use or deleted
    mutex,          \* threads that hold the mutex
    rwlock,         \* threads that hold the lock, by mode
    sem,            \* count, and the posts and takes so far (history)
    client          \* what each thread is in; told: a condition woke it

syncVars == <<handle, mutex, rwlock, sem, client>>

Modes == {"shared", "exclusive"}
At(c, labels) == client[c].at \in labels
Go(c, label) == client' = [client EXCEPT ![c].at = label]
Starts(c, os) == At(c, {"idle"}) /\ handle.live /\ handle.os = os
Holds(c, os, label) == At(c, {label}) /\ handle.os = os

\* vlMutexNew, vlSRWLockNew, vlConditionNew, vlSemaphoreNew
SyncInit ==
    /\ \E os \in SyncPlatforms, m, l \in BOOLEAN :
         handle = [os |-> os, mutex |-> m, rwlock |-> l, live |-> TRUE]
    /\ mutex = {} /\ rwlock = [mode \in Modes |-> {}]
    /\ \E n \in 0..1 : sem = [count |-> n, initial |-> n, posts |-> 0, takes |-> 0]
    /\ client = [c \in Clients |-> [at |-> "idle", told |-> FALSE]]

\* The vl...Delete functions, when no thread is in any of them.
DeleteHandles ==
    /\ handle.live /\ \A c \in Clients : At(c, {"idle"})
    /\ handle' = [handle EXCEPT !.live = FALSE]
    /\ UNCHANGED <<mutex, rwlock, sem, client>>

----------------------------------------------------------------------------
(* The mutex: pthread_mutex_t, or an SRWLOCK used exclusively. *)

MutexLock(c) ==
    /\ handle.mutex => mutex = {}
    /\ mutex' = IF handle.mutex THEN {c} ELSE mutex
    /\ Go(c, "mutex")
MutexTry(c) ==
    IF handle.mutex /\ mutex = {} THEN mutex' = {c} /\ Go(c, "mutex") ELSE UNCHANGED <<mutex, client>>
MutexUnlock(c) == mutex' = mutex \ {c} /\ Go(c, "idle")

PosixMutex(c) ==
    \/ Starts(c, "posix") /\ (MutexLock(c) \/ MutexTry(c))
    \/ Holds(c, "posix", "mutex") /\ MutexUnlock(c)
WinMutex(c) ==
    \/ Starts(c, "win32") /\ (MutexLock(c) \/ MutexTry(c))
    \/ Holds(c, "win32", "mutex") /\ MutexUnlock(c)

----------------------------------------------------------------------------
(* The reader-writer lock *)

Grants(mode) == /\ rwlock["exclusive"] = {}
                /\ mode = "exclusive" => rwlock["shared"] = {}

RwLock(c, mode) ==
    /\ handle.rwlock => Grants(mode)
    /\ rwlock' = IF handle.rwlock THEN [rwlock EXCEPT ![mode] = @ \cup {c}] ELSE rwlock
    /\ Go(c, mode)
RwTry(c, mode) ==
    IF handle.rwlock /\ Grants(mode) THEN RwLock(c, mode) ELSE UNCHANGED <<rwlock, client>>

\* pthread_rwlock_unlock gives back what the caller holds, in whatever mode;
\* ReleaseSRWLockShared and ReleaseSRWLockExclusive one mode each.
PosixSRWLock(c, mode) ==
    \/ Starts(c, "posix") /\ (RwLock(c, mode) \/ RwTry(c, mode))
    \/ /\ Holds(c, "posix", mode) /\ Go(c, "idle")
       /\ rwlock' = [m \in Modes |-> rwlock[m] \ {c}]
WinSRWLock(c, mode) ==
    \/ Starts(c, "win32") /\ (RwLock(c, mode) \/ RwTry(c, mode))
    \/ /\ Holds(c, "win32", mode) /\ Go(c, "idle")
       /\ rwlock' = [rwlock EXCEPT ![mode] = @ \ {c}]

----------------------------------------------------------------------------
(* The condition, used with the mutex held. *)

\* The mutex is given back in the step in which the thread begins to wait, and
\* obtained again when it was told or, with a time limit, when that is over.
ConditionWait(c, label) ==
    /\ handle.mutex /\ At(c, {"mutex"})
    /\ mutex' = {} /\ client' = [client EXCEPT ![c] = [at |-> label, told |-> FALSE]]
ConditionReturn(c) ==
    /\ \/ At(c, {"wait"}) /\ client[c].told
       \/ At(c, {"timedwait"})
    /\ mutex = {} /\ mutex' = {c}
    /\ client' = [client EXCEPT ![c] = [at |-> "mutex", told |-> FALSE]]

Waiting == {c \in Clients : At(c, {"wait", "timedwait"}) /\ ~client[c].told}
Tell(C) == /\ client' = [c \in Clients |-> [client[c] EXCEPT !.told = @ \/ c \in C]]
           /\ UNCHANGED mutex

PosixCondition(c) ==
    \/ handle.os = "posix" /\ \E label \in {"wait", "timedwait"} : ConditionWait(c, label)
    \/ Holds(c, "posix", "mutex") /\ (Tell(Waiting) \/ \E w \in Waiting : Tell({w}))
WinCondition(c) ==
    \/ handle.os = "win32" /\ \E label \in {"wait", "timedwait"} : ConditionWait(c, label)
    \/ Holds(c, "win32", "mutex") /\ (Tell(Waiting) \/ \E w \in Waiting : Tell({w}))

----------------------------------------------------------------------------
(* The semaphore *)

SemTake == [sem EXCEPT !.count = @ - 1, !.takes = @ + 1]
SemPost == /\ sem.count < MaxCount /\ sem.posts < MaxCount
           /\ sem' = [sem EXCEPT !.count = @ + 1, !.posts = @ + 1]

\* The wait of the operating system ends with a unit, or when time is up.
SemReturn(c) ==
    /\ \/ At(c, {"sem", "semforever"}) /\ sem.count > 0 /\ sem' = SemTake
       \/ At(c, {"sem"}) /\ sem.count = 0 /\ sem' = sem
    /\ Go(c, "idle")
\* vlSemaphoreTryWait: a wait without any time
SemTryWait(c) == sem' = (IF sem.count > 0 THEN SemTake ELSE sem) /\ UNCHANGED client

\* vlSemaphoreWait: a time limit of 0 is over at once on POSIX, and INFINITE on win32
PosixSemaphore(c, limit) ==
    /\ Starts(c, "posix")
    /\ \/ SemPost /\ UNCHANGED client
       \/ SemTryWait(c)
       \/ Go(c, "sem") /\ UNCHANGED sem
WinSemaphore(c, limit) ==
    /\ Starts(c, "win32")
    /\ \/ SemPost /\ UNCHANGED client
       \/ SemTryWait(c)
       \/ Go(c, IF limit = 0 THEN "semforever" ELSE "sem") /\ UNCHANGED sem

----------------------------------------------------------------------------

SyncNext ==
    \/ DeleteHandles
    \/ \E c \in Clients :
        /\ UNCHANGED handle
        /\ \/ /\ PosixMutex(c) \/ WinMutex(c)
                 \/ PosixCondition(c) \/ WinCondition(c) \/ ConditionReturn(c)
              /\ UNCHANGED <<rwlock, sem>>
           \/ /\ \E mode \in Modes : PosixSRWLock(c, mode) \/ WinSRWLock(c, mode)
              /\ UNCHANGED <<mutex, sem>>
           \/ /\ \/ SemReturn(c)
                 \/ \E limit \in 0..1 : PosixSemaphore(c, limit) \/ WinSemaphore(c, limit)
              /\ UNCHANGED <<mutex, rwlock>>

SyncSpec == SyncInit /\ [][SyncNext]_syncVars

\* A thread that was let in holds the lock, alone if exclusively, unless the
\* lock is NULL; what a condition let go is held again when the wait is over;
\* a thread that is not waiting was not told; the semaphore neither loses nor
\* invents a unit, whatever waits time out.
SyncSound ==
    /\ handle.rwlock =>
         /\ \A mode \in Modes : rwlock[mode] = {c \in Clients : At(c, {mode})}
         /\ \A c, d \in Clients : c # d /\ At(c, {"exclusive"}) => ~At(d, Modes)
    /\ handle.mutex =>
         /\ mutex = {c \in Clients : At(c, {"mutex"})}
         /\ Cardinality(mutex) <= 1
    /\ \A c \in Clients : client[c].told => At(c, {"wait", "timedwait"})
    /\ sem.count >= 0 /\ sem.count + sem.takes = sem.initial + sem.posts

\* What makes SyncSound inductive: types, and the same said client by client.
SyncTypes ==
    /\ handle \in [os : SyncPlatforms, mutex : BOOLEAN, rwlock : BOOLEAN, live : BOOLEAN]
    /\ mutex \subseteq Clients /\ rwlock \in [Modes -> SUBSET Clients]
    /\ sem \in [count : Nat, initial : Nat, posts : Nat, takes : Nat]
    /\ client \in [Clients -> [at : {"idle", "mutex", "wait", "timedwait", "sem", "semforever"} \cup Modes,
                              told : BOOLEAN]]
MutexInv ==
    /\ handle.mutex => \A c \in Clients : c \in mutex <=> client[c].at = "mutex"
    /\ \A c, d \in mutex : c = d
RwInv ==
    handle.rwlock =>
        /\ \A c \in Clients, mode \in Modes : c \in rwlock[mode] <=> client[c].at = mode
        /\ \A c, d \in Clients : c # d /\ client[c].at = "exclusive" => client[d].at \notin Modes
ToldInv == \A c \in Clients : client[c].told => client[c].at \in {"wait", "timedwait"}
SyncInv ==
    /\ SyncTypes /\ MutexInv /\ RwInv /\ ToldInv
    /\ sem.count + sem.takes = sem.initial + sem.posts

============================================================================
