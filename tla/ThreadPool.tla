------------------------------- MODULE ThreadPool ------------------------------
(***************************************************************************)
(* vl_thread_pool: workers that take tasks from one queue per priority     *)
(* tier, and the clients that create the pool, enqueue, wait, shut down    *)
(* and delete.  One access to shared state per step.                       *)
(*                                                                         *)
(* The work queues are first-in first-out (module FifoQueue) with the size *)
(* counter of vl_async_queue, which is raised after a push and lowered     *)
(* after a pop, and with the two weaknesses it has when several workers    *)
(* pop (module AsyncQueue has the steps): a worker that holds a node       *)
(* another one has popped past may find the tier empty although it is not, *)
(* and may copy a task pushed into that node later.  A copy torn between   *)
(* two tasks is one of the two.  The n-th task client c enqueues is        *)
(* <<c, n>>.                                                               *)
(***************************************************************************)
EXTENDS Integers, Sequences, SequencesExt, FiniteSets

CONSTANTS
    Workers,        \* the worker threads
    Clients,        \* the threads that call the public functions
    Owner,          \* the client that creates and deletes the pool
    NULL,
    PriorityCount,  \* VL_THREAD_POOL_PRIORITY_COUNT (3 in the code)
    Platforms,      \* "posix", "win32": what vlSemaphoreWait(sem, 0) does
    SizeModulus,    \* a queue's size is an unsigned word of this size
    Calls,          \* the public functions the clients use
    MaxCalls,       \* bound: calls and spurious wakeups of all clients
    MaxBatch        \* bound: tasks of one batch

HIGH == 0
Tier == HIGH .. PriorityCount - 1
Task == Clients \X (1 .. MaxCalls * MaxBatch)

ASSUME ThreadPoolAssumption ==
    /\ Workers \cap Clients = {} /\ Owner \in Clients
    /\ IsFiniteSet(Workers) /\ Workers # {} /\ IsFiniteSet(Clients)
    /\ NULL \notin Workers \cup Clients \cup Task
    /\ PriorityCount \in Nat \ {0} /\ SizeModulus \in Nat \ {0}
    /\ Cardinality(Workers) < SizeModulus \* active_workers can count them all
    /\ Platforms \subseteq {"posix", "win32"} /\ Platforms # {}
    /\ Calls \subseteq {"enqueue", "wait", "shutdown", "delete", "fail"}
    /\ MaxCalls \in Nat /\ MaxBatch \in Nat \ {0}

VARIABLES
    platform,       \* fixed when the library is built
    phase,          \* of the pool: "new", "open", "closing", "freed"
    state,          \* RUNNING or SHUTTING_DOWN
    queue, size,    \* per tier: the queued tasks and the queue's counter
    semaphores,     \* per tier: the semaphore's count
    active_workers,
    tasksCompleted,
    idle_lock,      \* the client that holds the mutex, or NULL
    pc,             \* where each thread is
    at,             \* worker, Wait: the loop's tier; Enqueue: the tier pushed to
    task,           \* worker: the task popped
    stale,          \* worker: is the queue node it holds returned, used again?
    left,           \* Enqueue: tasks of the batch still to push
    posts,          \* Shutdown, New: semaphores still to post to
    timed,          \* Wait: is there a timeout?
    calls,          \* calls made so far
    linked,         \* linked[c]: tasks of c pushed so far
    accepted,       \* accepted[c]: tasks of c whose Enqueue has returned
    done,           \* tasks that have run to the end
    waitFor,        \* auxiliary: the tasks accepted when Wait was called
    seen            \* auxiliary: the tasks queued when a scan began, but for
                    \* a tier another worker took from while this one looked there

env == <<platform, phase, state>>
queues == <<queue, size>>
client == <<left, posts, timed, calls, linked, accepted, waitFor>>
worker == <<task, stale, done, seen, tasksCompleted>>
vars == <<platform, phase, state, queue, size, semaphores, active_workers,
          tasksCompleted, idle_lock, pc, at, task, stale, left, posts, timed, calls,
          linked, accepted, done, waitFor, seen>>

\* vlThreadPoolNew up to the creation of the threads.
Init ==
    /\ platform \in Platforms
    /\ phase = "new"
    /\ state = "RUNNING"
    /\ queue = [k \in Tier |-> <<>>]
    /\ size = [k \in Tier |-> 0]
    /\ semaphores = [k \in Tier |-> 0]
    /\ active_workers = Cardinality(Workers)
    /\ tasksCompleted = 0
    /\ idle_lock = NULL
    /\ pc = [x \in Workers \cup Clients |->
                IF x \in Workers THEN "none" ELSE IF x = Owner THEN "new" ELSE "idle"]
    /\ at = [x \in Workers \cup Clients |-> HIGH]
    /\ task = [w \in Workers |-> NULL]
    /\ stale = [w \in Workers |-> "no"]
    /\ left = [c \in Clients |-> 0]
    /\ posts = [c \in Clients |-> <<>>]
    /\ timed = [c \in Clients |-> FALSE]
    /\ calls = 0
    /\ linked = [c \in Clients |-> 0]
    /\ accepted = [c \in Clients |-> 0]
    /\ done = {}
    /\ waitFor = [c \in Clients |-> {}]
    /\ seen = [w \in Workers |-> {}]

Goto(x, from, to) == pc[x] = from /\ pc' = [pc EXCEPT ![x] = to]

\* Queue sizes and active_workers are unsigned.
Count(n) == n % SizeModulus

Queued == UNION {ToSet(queue[k]) : k \in Tier}

-------------------------------------------------------------------------------
\* vl_thread_pool_worker_proc

\* Look for work from the highest tier down.
ScanFrom(w) ==
    /\ at' = [at EXCEPT ![w] = HIGH]
    /\ seen' = [seen EXCEPT ![w] = Queued]

\* The workers that hold the node w returns to the queue's pool: it was the head
\* when they read it, or the one they have yet to copy their task from.
Overtaken(w) ==
    {v \in Workers \ {w} : pc[v] \in {"scan", "popped"} /\ at[v] = at[w]}

\* vlAsyncQueuePopFront finds a task.
PopTask(w) ==
    /\ Goto(w, "scan", "popped")
    /\ queue[at[w]] # <<>>
    /\ task' = [task EXCEPT ![w] = Head(queue[at[w]])]
    /\ queue' = [queue EXCEPT ![at[w]] = Tail(@)]
    /\ seen' = [v \in Workers |-> IF v = w THEN {}
                                  ELSE IF v \in Overtaken(w) THEN seen[v] \ ToSet(queue[at[w]])
                                  ELSE seen[v]]
    /\ stale' = [v \in Workers |-> IF v = w THEN "no"
                                   ELSE IF v \in Overtaken(w) /\ stale[v] = "no" THEN "returned"
                                   ELSE stale[v]]
    /\ UNCHANGED <<env, size, semaphores, active_workers, tasksCompleted,
                   idle_lock, at, client, done>>

\* Mutant: a tier may be passed over although it has a task.
PopNothingSkips(w) ==
    /\ at[w] + 1 \in Tier
    /\ pc[w] = "scan"
    /\ at' = [at EXCEPT ![w] = @ + 1]
    /\ UNCHANGED <<env, queues, semaphores, active_workers, idle_lock, client, pc,
                   worker>>

\* The head w has read was popped by another worker, and a push has taken the
\* node since: its next is NULL again.
Misled(w) ==
    \/ stale[w] = "reused"
    \/ stale[w] = "returned" /\ \E c \in Clients : pc[c] = "enq_push" /\ at[c] = at[w]

\* It finds the tier empty: go on to the next tier, or to the idle part.
PopNothing(w) ==
    /\ queue[at[w]] = <<>> \/ Misled(w)
    /\ stale' = [stale EXCEPT ![w] = "no"]
    /\ IF at[w] + 1 \in Tier
       THEN /\ pc[w] = "scan"
            /\ at' = [at EXCEPT ![w] = @ + 1]
            /\ UNCHANGED <<pc, seen>>
       ELSE /\ Goto(w, "scan", "state")
            /\ at' = [at EXCEPT ![w] = HIGH]
            /\ seen' = [seen EXCEPT ![w] = {}]
    /\ UNCHANGED <<env, queues, semaphores, active_workers, idle_lock, client,
                   task, done, tasksCompleted>>

\* The end of vlAsyncQueuePopFront: the task is copied and no longer counted.
PopSize(w) ==
    /\ Goto(w, "popped", "run")
    /\ size' = [size EXCEPT ![at[w]] = Count(@ - 1)]
    /\ at' = [at EXCEPT ![w] = HIGH]
    /\ stale' = [stale EXCEPT ![w] = "no"]
    /\ UNCHANGED <<env, queue, semaphores, active_workers, idle_lock, client, task,
                   done, seen, tasksCompleted>>

\* task.proc(task.user_data) returns, and the task is counted.
RunTask(w) ==
    /\ Goto(w, "run", "scan")
    /\ done' = done \cup {task[w]}
    /\ task' = [task EXCEPT ![w] = NULL]
    /\ tasksCompleted' = tasksCompleted + 1
    /\ ScanFrom(w)
    /\ UNCHANGED <<env, queues, semaphores, active_workers, idle_lock, client, stale>>

\* Nothing found: leave if the pool is shutting down.
CheckState(w) ==
    /\ Goto(w, "state", IF state # "RUNNING" THEN "exited" ELSE "idle_sub")
    /\ UNCHANGED <<env, queues, semaphores, active_workers, idle_lock, at,
                   client, worker>>

IdleSub(w) ==
    /\ Goto(w, "idle_sub", "idle_check")
    /\ active_workers' = Count(active_workers - 1)
    /\ UNCHANGED <<env, queues, semaphores, idle_lock, at,
                   client, worker>>

\* Mutant: the waiters are not woken.
IdleCheckSilent(w) ==
    /\ Goto(w, "idle_check", "try")
    /\ idle_lock = NULL
    /\ at' = [at EXCEPT ![w] = HIGH]
    /\ UNCHANGED <<env, queues, semaphores, active_workers, idle_lock, client,
                   worker>>

\* Under the mutex: the last worker to become idle wakes every waiter.
IdleCheck(w) ==
    /\ pc[w] = "idle_check"
    /\ idle_lock = NULL
    /\ pc' = [x \in DOMAIN pc |->
                IF x = w THEN "try"
                ELSE IF pc[x] = "wait_sleep" /\ active_workers = 0
                     THEN "wait_relock" ELSE pc[x]]
    /\ at' = [at EXCEPT ![w] = HIGH]
    /\ UNCHANGED <<env, queues, semaphores, active_workers, idle_lock, client,
                   worker>>

\* vlSemaphoreTryWait on each tier in turn.
TryWait(w) ==
    /\ IF semaphores[at[w]] > 0
       THEN /\ Goto(w, "try", "active_add")
            /\ semaphores' = [semaphores EXCEPT ![at[w]] = @ - 1]
            /\ at' = [at EXCEPT ![w] = HIGH]
       ELSE /\ IF at[w] + 1 \in Tier
               THEN /\ pc[w] = "try" /\ UNCHANGED pc
                    /\ at' = [at EXCEPT ![w] = @ + 1]
               ELSE /\ Goto(w, "try", "sem_wait")
                    /\ at' = [at EXCEPT ![w] = HIGH]
            /\ UNCHANGED semaphores
    /\ UNCHANGED <<env, queues, active_workers, idle_lock, client, worker>>

\* vlSemaphoreWait(semaphores[HIGH], 0) gets the semaphore.
SemaphoreWait(w) ==
    /\ Goto(w, "sem_wait", "active_add")
    /\ semaphores[HIGH] > 0
    /\ semaphores' = [semaphores EXCEPT ![HIGH] = @ - 1]
    /\ UNCHANGED <<env, queues, active_workers, idle_lock, at,
                   client, worker>>

\* It does not: at once under POSIX, where 0 is the time to wait; never under
\* Win32, where 0 stands for no limit.
SemaphoreWaitTimesOut(w) ==
    /\ Goto(w, "sem_wait", "active_add")
    /\ platform = "posix" /\ semaphores[HIGH] = 0
    /\ UNCHANGED <<env, queues, semaphores, active_workers, idle_lock, at,
                   client, worker>>

\* Mutant: a worker that wakes up does not count as active again.
ActiveAddForgotten(w) ==
    /\ Goto(w, "active_add", "scan")
    /\ ScanFrom(w)
    /\ UNCHANGED <<env, queues, semaphores, active_workers,
                   idle_lock, client, task, stale, done, tasksCompleted>>

ActiveAdd(w) ==
    /\ Goto(w, "active_add", "scan")
    /\ active_workers' = Count(active_workers + 1)
    /\ ScanFrom(w)
    /\ UNCHANGED <<env, queues, semaphores, idle_lock, client,
                   task, stale, done, tasksCompleted>>

WorkerStep(w) ==
    \/ PopTask(w) \/ PopNothing(w) \/ PopSize(w) \/ RunTask(w)
    \/ CheckState(w) \/ IdleSub(w) \/ IdleCheck(w) \/ TryWait(w)
    \/ SemaphoreWait(w) \/ SemaphoreWaitTimesOut(w) \/ ActiveAdd(w)

-------------------------------------------------------------------------------
\* vlThreadPoolNew: the threads are created one by one.

CreateWorker(w) ==
    /\ pc[Owner] = "new" /\ pc[w] = "none"
    /\ LET last == \A v \in Workers \ {w} : pc[v] # "none"
       IN  /\ pc' = [pc EXCEPT ![w] = "scan", ![Owner] = IF last THEN "idle" ELSE @]
           /\ phase' = IF last THEN "open" ELSE phase
    /\ ScanFrom(w)
    /\ UNCHANGED <<platform, state, queues, semaphores, active_workers, idle_lock,
                   client, task, stale, done, tasksCompleted>>

Created == {w \in Workers : pc[w] # "none"}

\* Mutant: one round wakes one worker only.
PostRoundsOnce(n) == [i \in 1 .. PriorityCount |-> (i - 1) % PriorityCount]

\* n rounds of one post for each tier, and n posts for each tier in turn.
PostRounds(n) == [i \in 1 .. n * PriorityCount |-> (i - 1) % PriorityCount]
PostTiers(n)  == [i \in 1 .. n * PriorityCount |-> (i - 1) \div n]

\* A thread cannot be created: shut down, wake and join the others, free.
CreateFails ==
    /\ "fail" \in Calls
    /\ Goto(Owner, "new", "shut_post")
    /\ state' = "SHUTTING_DOWN"
    /\ phase' = "closing"
    /\ posts' = [posts EXCEPT ![Owner] = PostTiers(Cardinality(Created))]
    /\ UNCHANGED <<platform, queues, semaphores, active_workers, idle_lock, at,
                   left, timed, calls, linked, accepted, waitFor, worker>>

-------------------------------------------------------------------------------
\* The clients' calls.

Begin(c, call) ==
    /\ call \in Calls
    /\ phase = "open" /\ pc[c] = "idle" /\ calls < MaxCalls
    /\ calls' = calls + 1

\* vlThreadPoolEnqueuePriority (n = 1) and vlThreadPoolEnqueueBatchPriority.
Enqueue(c, k, n) ==
    /\ Begin(c, "enqueue")
    /\ state = "RUNNING"
    /\ Goto(c, "idle", "enq_push")
    /\ at' = [at EXCEPT ![c] = k]
    /\ left' = [left EXCEPT ![c] = n]
    /\ UNCHANGED <<env, queues, semaphores, active_workers, idle_lock, posts,
                   timed, linked, accepted, waitFor, worker>>

EnqueueRefused(c) ==
    /\ Begin(c, "enqueue")
    /\ state # "RUNNING"
    /\ UNCHANGED <<env, queues, semaphores, active_workers, idle_lock, pc, at,
                   left, posts, timed, linked, accepted, waitFor, worker>>

\* The workers of the tier c pushes to that hold a node which was returned.
Holding(c, place) ==
    {w \in Workers : pc[w] = place /\ at[w] = at[c] /\ stale[w] # "no"}

\* vlAsyncQueuePushBack: the task can be popped now.  The node may be one that
\* workers still hold, and those yet to copy their task from it get this one,
EnqueuePush(c) ==
    /\ Goto(c, "enq_push", "enq_size")
    /\ \E W \in SUBSET Holding(c, "popped") :
          task' = [w \in Workers |-> IF w \in W THEN <<c, linked[c] + 1>> ELSE task[w]]
    /\ stale' = [w \in Workers |-> IF w \in Holding(c, "scan") THEN "reused" ELSE stale[w]]
    /\ linked' = [linked EXCEPT ![c] = @ + 1]
    /\ queue' = [queue EXCEPT ![at[c]] = Append(@, <<c, linked[c] + 1>>)]
    /\ UNCHANGED <<env, size, semaphores, active_workers, idle_lock, at, left, posts,
                   timed, calls, accepted, waitFor, done, seen, tasksCompleted>>

\* and is counted now.
EnqueueSize(c) ==
    /\ Goto(c, "enq_size", "enq_post")
    /\ size' = [size EXCEPT ![at[c]] = Count(@ + 1)]
    /\ UNCHANGED <<env, queue, semaphores, active_workers, idle_lock, at, client,
                   worker>>

\* Mutant: the semaphore is not posted.
EnqueuePostForgotten(c) ==
    /\ Goto(c, "enq_post", IF left[c] > 1 THEN "enq_push" ELSE "idle")
    /\ left' = [left EXCEPT ![c] = @ - 1]
    /\ accepted' = [accepted EXCEPT ![c] = IF left[c] > 1 THEN @ ELSE linked[c]]
    /\ at' = [at EXCEPT ![c] = IF left[c] > 1 THEN @ ELSE HIGH]
    /\ UNCHANGED <<env, queues, semaphores, active_workers, idle_lock, posts,
                   timed, calls, linked, waitFor, worker>>

\* The post for this task; after the last task the call returns.
EnqueuePost(c) ==
    /\ Goto(c, "enq_post", IF left[c] > 1 THEN "enq_push" ELSE "idle")
    /\ semaphores' = [semaphores EXCEPT ![at[c]] = @ + 1]
    /\ left' = [left EXCEPT ![c] = @ - 1]
    /\ accepted' = [accepted EXCEPT ![c] = IF left[c] > 1 THEN @ ELSE linked[c]]
    /\ at' = [at EXCEPT ![c] = IF left[c] > 1 THEN @ ELSE HIGH]
    /\ UNCHANGED <<env, queues, active_workers, idle_lock, posts, timed, calls,
                   linked, waitFor, worker>>

\* vlThreadPoolWait with or without a timeout.
Wait(c, hasTimeout) ==
    /\ Begin(c, "wait")
    /\ Goto(c, "idle", "wait_relock")
    /\ timed' = [timed EXCEPT ![c] = hasTimeout]
    /\ waitFor' = [waitFor EXCEPT ![c] =
                      {x \in Task : x[2] <= accepted[x[1]]} \ done]
    /\ UNCHANGED <<env, queues, semaphores, active_workers, idle_lock, at, left,
                   posts, linked, accepted, worker>>

\* Obtain the mutex, on entry or on return from the condition.
WaitLock(c) ==
    /\ Goto(c, "wait_relock", "wait_active")
    /\ idle_lock = NULL
    /\ idle_lock' = c
    /\ UNCHANGED <<env, queues, semaphores, active_workers, at, client, worker>>

\* vlConditionWait: give the mutex back and sleep.
Sleep(c, from) ==
    /\ Goto(c, from, "wait_sleep")
    /\ idle_lock' = NULL
    /\ at' = [at EXCEPT ![c] = HIGH]

\* The call returns; its bookkeeping is dropped.
WaitReturns(c) ==
    /\ timed' = [timed EXCEPT ![c] = FALSE]
    /\ waitFor' = [waitFor EXCEPT ![c] = {}]
    /\ UNCHANGED <<env, queues, semaphores, active_workers, left, posts, calls,
                   linked, accepted, worker>>

WaitActive(c) ==
    /\ \/ /\ active_workers = 0
          /\ Goto(c, "wait_active", "wait_size")
          /\ UNCHANGED <<idle_lock, at>>
       \/ /\ active_workers # 0
          /\ Sleep(c, "wait_active")
    /\ UNCHANGED <<env, queues, semaphores, active_workers, client, worker>>

\* The size of one tier's queue after the other.
WaitSize(c) ==
    /\ \/ /\ size[at[c]] > 0
          /\ Sleep(c, "wait_size")
       \/ /\ size[at[c]] = 0 /\ at[c] + 1 \in Tier
          /\ pc[c] = "wait_size" /\ UNCHANGED pc
          /\ at' = [at EXCEPT ![c] = @ + 1]
          /\ UNCHANGED idle_lock
    /\ UNCHANGED <<env, queues, semaphores, active_workers, client, worker>>

\* Every worker was idle and every queue empty: return VL_TRUE.
WaitDone(c) ==
    /\ Goto(c, "wait_size", "idle")
    /\ size[at[c]] = 0 /\ at[c] + 1 \notin Tier
    /\ idle_lock' = NULL
    /\ at' = [at EXCEPT ![c] = HIGH]
    /\ WaitReturns(c)

\* A wakeup nobody asked for.
WaitSpurious(c) ==
    /\ calls < MaxCalls
    /\ Goto(c, "wait_sleep", "wait_relock")
    /\ calls' = calls + 1
    /\ UNCHANGED <<env, queues, semaphores, active_workers, idle_lock, at, left,
                   posts, timed, linked, accepted, waitFor, worker>>

\* The time is up; the mutex is obtained once more to be released.
WaitTimeout(c) ==
    /\ timed[c]
    /\ Goto(c, "wait_sleep", "wait_timeout")
    /\ UNCHANGED <<env, queues, semaphores, active_workers, idle_lock, at, client,
                   worker>>

WaitGivesUp(c) ==
    /\ Goto(c, "wait_timeout", "idle")
    /\ idle_lock = NULL
    /\ UNCHANGED <<idle_lock, at>>
    /\ WaitReturns(c)

\* vlThreadPoolShutdown: the first call posts every semaphore once a worker.
Shutdown(c, after) ==
    /\ state' = "SHUTTING_DOWN"
    /\ IF state = "RUNNING"
       THEN /\ Goto(c, "idle", "shut_post")
            /\ posts' = [posts EXCEPT ![c] = PostRounds(Cardinality(Workers))]
       ELSE Goto(c, "idle", after) /\ UNCHANGED posts
    /\ UNCHANGED <<platform, queues, semaphores, active_workers, idle_lock, at,
                   left, timed, linked, accepted, waitFor, worker>>

CallShutdown(c) ==
    /\ Begin(c, "shutdown")
    /\ Shutdown(c, "idle")
    /\ UNCHANGED phase

\* vlThreadPoolDelete, once no other client uses the pool.
CallDelete ==
    /\ Begin(Owner, "delete")
    /\ \A c \in Clients : pc[c] = "idle"
    /\ Shutdown(Owner, "join")
    /\ phase' = "closing"

ShutdownPost(c) ==
    /\ pc[c] = "shut_post" /\ posts[c] # <<>>
    /\ semaphores' = [semaphores EXCEPT ![Head(posts[c])] = @ + 1]
    /\ posts' = [posts EXCEPT ![c] = Tail(@)]
    /\ UNCHANGED <<env, queues, active_workers, idle_lock, pc, at, left, timed,
                   calls, linked, accepted, waitFor, worker>>

ShutdownPosted(c) ==
    /\ Goto(c, "shut_post", IF phase = "closing" THEN "join" ELSE "idle")
    /\ posts[c] = <<>>
    /\ UNCHANGED <<env, queues, semaphores, active_workers, idle_lock, at, client,
                   worker>>

\* Join every worker created, then free the pool.
JoinAndFree ==
    /\ Goto(Owner, "join", "gone")
    /\ \A w \in Created : pc[w] = "exited"
    /\ phase' = "freed"
    /\ UNCHANGED <<platform, state, queues, semaphores, active_workers, idle_lock,
                   at, client, worker>>

ClientStep(c) ==
    \/ EnqueuePush(c) \/ EnqueueSize(c) \/ EnqueuePost(c) \/ WaitLock(c)
    \/ WaitActive(c) \/ WaitSize(c) \/ WaitDone(c) \/ WaitGivesUp(c)
    \/ ShutdownPost(c) \/ ShutdownPosted(c)

Next ==
    \/ \E w \in Workers : WorkerStep(w) \/ CreateWorker(w)
    \/ \E c \in Clients :
        \/ ClientStep(c) \/ EnqueueRefused(c) \/ WaitSpurious(c) \/ WaitTimeout(c)
        \/ CallShutdown(c)
        \/ \E k \in Tier, n \in 1 .. MaxBatch : Enqueue(c, k, n)
        \/ \E b \in BOOLEAN : Wait(c, b)
    \/ CreateFails \/ CallDelete \/ JoinAndFree

Spec == Init /\ [][Next]_vars

\* Threads inside the library keep being scheduled.  Nothing is assumed about
\* which calls are made, nor about who gets a contended mutex.
FairSpec ==
    /\ Spec
    /\ \A w \in Workers : WF_vars(WorkerStep(w)) /\ WF_vars(CreateWorker(w))
    /\ \A c \in Clients : WF_vars(ClientStep(c))
    /\ WF_vars(JoinAndFree)

-------------------------------------------------------------------------------
\* Properties.

\* The types of the pool's fields, the threads' locals and the history.
TypeOK ==
    /\ platform \in Platforms
    /\ phase \in {"new", "open", "closing", "freed"}
    /\ state \in {"RUNNING", "SHUTTING_DOWN"}
    /\ queue \in [Tier -> Seq(Task)]
    /\ size \in [Tier -> 0 .. SizeModulus - 1]
    /\ semaphores \in [Tier -> Nat]
    /\ active_workers \in 0 .. SizeModulus - 1
    /\ tasksCompleted \in Nat
    /\ idle_lock \in Clients \cup {NULL}
    /\ at \in [Workers \cup Clients -> Tier]
    /\ task \in [Workers -> Task \cup {NULL}]
    /\ stale \in [Workers -> {"no", "returned", "reused"}]
    /\ left \in [Clients -> 0 .. MaxBatch]
    /\ posts \in [Clients -> Seq(Tier)]
    /\ timed \in [Clients -> BOOLEAN]
    /\ calls \in 0 .. MaxCalls
    /\ linked \in [Clients -> Nat] /\ accepted \in [Clients -> Nat]
    /\ done \subseteq Task
    /\ waitFor \in [Clients -> SUBSET Task]
    /\ seen \in [Workers -> SUBSET Task]

\* Where a worker is, and whether active_workers counts it there.
IdlePc == {"idle_check", "try", "sem_wait", "active_add"}
BusyPc == {"none", "scan", "popped", "run", "state", "exited", "idle_sub"}

\* active_workers is the number of workers outside the idle part of the loop:
\* exact at every moment, whatever the order of the decrements and increments.
\* A worker that has exited is never subtracted.
ActiveExact ==
    active_workers = Cardinality({w \in Workers : pc[w] \notin IdlePc})

\* Every counter of the pool keeps its type, and active_workers is exact.
WorkersCounted == TypeOK /\ ActiveExact

\* A worker looks for a task in a lower tier only when what was queued in the
\* higher ones as its scan began is gone, or when another worker took a task
\* from that tier while it was looking there.
PriorityRespected ==
    \A w \in Workers : pc[w] = "scan" =>
        \A k \in Tier : k < at[w] => seen[w] \cap ToSet(queue[k]) = {}

\* The parts of the inductive invariant behind the properties.

\* Where the threads are.
EnqueuePc == {"enq_push", "enq_size", "enq_post"}
ClientPc == {"new", "idle", "wait_relock", "wait_active", "wait_size", "wait_sleep",
             "wait_timeout", "shut_post", "join", "gone"} \cup EnqueuePc

PcInv == /\ pc \in [Workers \cup Clients -> IdlePc \cup BusyPc \cup ClientPc]
         /\ \A w \in Workers : pc[w] \in IdlePc \cup BusyPc
         /\ \A c \in Clients : pc[c] \in ClientPc

\* A batch is pushed task by task; no client pushes more than its calls allow.
Pushes(c) ==
    linked[c] + IF pc[c] \in {"enq_size", "enq_post"} THEN left[c] - 1 ELSE left[c]
WithinBatch(c) ==
    /\ pc[c] \in EnqueuePc => left[c] > 0
    /\ pc[c] \notin EnqueuePc => left[c] = 0
    /\ Pushes(c) <= calls * MaxBatch
BatchInv == \A c \in Clients : WithinBatch(c)

\* A worker that runs a task has one.
TaskInv == \A w \in Workers : pc[w] \in {"popped", "run"} => task[w] \in Task

\* Only tasks that were pushed are queued, or were when a scan began.
PushedInv ==
    /\ \A k \in Tier : \A x \in ToSet(queue[k]) : x[2] <= linked[x[1]]
    /\ \A w \in Workers : \A x \in seen[w] : x[2] <= linked[x[1]]

\* A worker holds a node that was returned only while it pops, and then nothing
\* it saw in that tier is left for it to miss.
StaleInv ==
    \A w \in Workers : stale[w] # "no" =>
        /\ pc[w] \in {"scan", "popped"}
        /\ pc[w] = "scan" => seen[w] \cap ToSet(queue[at[w]]) = {}

\* The counter of a tier: its tasks, the popped ones not subtracted yet, and
\* without the pushed ones not added yet.
Popping(k) == {w \in Workers : pc[w] = "popped" /\ at[w] = k}
Pushing(k) == {c \in Clients : pc[c] = "enq_size" /\ at[c] = k}
InFlight(k) == Len(queue[k]) + Cardinality(Popping(k)) - Cardinality(Pushing(k))
SizeInv == \A k \in Tier : size[k] = Count(InFlight(k))

\* While a client sleeps in Wait, some worker has yet to look whether all are
\* idle, or something will make one look: a task, a post, or a task to post for.
Waker ==
    \/ \E w \in Workers : pc[w] \in BusyPc \cup {"idle_check", "active_add"}
    \/ \E k \in Tier : semaphores[k] > 0 \/ queue[k] # <<>>
    \/ \E c \in Clients : pc[c] \in {"enq_size", "enq_post"}
WakerInv == (\E c \in Clients : pc[c] = "wait_sleep") => Waker

\* No client sleeps in Wait for good: once every worker is blocked, no client
\* is inside a call that will wake one and no post is left to be consumed,
\* nobody is still waiting for a pool that is empty.
NoLostWakeup ==
    /\ \A w \in Workers : pc[w] = "sem_wait"
    /\ platform = "win32" /\ \A k \in Tier : semaphores[k] = 0
    /\ \A c \in Clients : pc[c] \in {"idle", "wait_sleep"}
    /\ Queued = {}
    => \A c \in Clients : pc[c] # "wait_sleep"

\* The inductive invariant.
ThreadPoolInv ==
    /\ TypeOK /\ PcInv /\ BatchInv /\ TaskInv /\ ActiveExact
    /\ PushedInv /\ StaleInv /\ PriorityRespected /\ SizeInv /\ WakerInv

\* While the pool runs, no task stays queued: under POSIX in any tier, under
\* Win32 in the highest.
TasksRun ==
    \A k \in Tier :
        (k = HIGH \/ platform = "posix") =>
            []<>(queue[k] = <<>> \/ state # "RUNNING")

\* After a shutdown every worker leaves, so that Delete can join it.
WorkersExit ==
    \A w \in Workers : state # "RUNNING" /\ pc[w] # "none" ~> pc[w] = "exited"

\* vl_thread_pool.h: vlThreadPoolWait returns "VL_TRUE if all tasks
\* completed": those whose Enqueue had returned when Wait was called.
WaitCompletes == [][\A c \in Clients : WaitDone(c) => waitFor[c] \subseteq done]_vars

\* vl_thread_pool.h: "Try to pop from HIGH priority queue", and only "If empty,
\* try MEDIUM priority queue".  (Violated by two workers.)
PriorityStrict ==
    [][\A w \in Workers :
          pc[w] = "scan" /\ at'[w] = at[w] + 1 => queue[at[w]] = <<>>]_vars

\* vl_thread_pool.h: "Each enqueued task is executed exactly once".  (Violated
\* by two workers.)
RunOnce == [][\A w \in Workers : RunTask(w) => task[w] \notin done]_vars

\* vl_thread_pool.h: after Shutdown "In-flight tasks across all priorities
\* continue to completion": no task accepted is left when the pool is gone.
ShutdownDrains == phase = "freed" => Queued = {}

\* vl_thread_pool.h: "Low-priority tasks eventually execute", on every
\* platform, while the pool runs.
NoStarvation == \A k \in Tier : []<>(queue[k] = <<>> \/ state # "RUNNING")

\* vl_thread_pool.h, of a Shutdown: "Use vlThreadPoolWait() to block until idle".
\* (Violated: a worker that exits stays counted in active_workers.)
WaitAfterShutdown ==
    \A c \in Clients :
        pc[c] = "wait_active" /\ state # "RUNNING" /\ ~timed[c] ~> pc[c] = "idle"
===============================================================================
