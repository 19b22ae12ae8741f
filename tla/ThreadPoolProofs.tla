--------------------------- MODULE ThreadPoolProofs ---------------------------
(***************************************************************************)
(* Proofs about ThreadPool, for any number of workers and clients.         *)
(***************************************************************************)
EXTENDS ThreadPool, NumberLemmas, FiniteSetTheorems, TLAPS

\* An unsigned counter stays within its word, and is exact within its range.
LEMMA CountRange ==
  /\ \A n \in Int : Count(n) \in 0 .. SizeModulus - 1
  /\ \A n \in 0 .. SizeModulus - 1 :
        /\ Count(n) = n
        /\ Count(n - 1) \in 0 .. SizeModulus - 1
        /\ Count(n + 1) \in 0 .. SizeModulus - 1
  BY ThreadPoolAssumption DEF Count

\* Adding to a counter modulo its size is adding to what it stands for.
LEMMA CountAdds ==
  ASSUME NEW n \in Int, NEW d \in Int
  PROVE  Count(Count(n) + d) = Count(n + d)
<1>1. SizeModulus \in Nat \ {0} BY ThreadPoolAssumption
<1>2. QED BY <1>1, ModAdds DEF Count

\* A sequence of tiers given entry by entry is a sequence of tiers.
LEMMA Entries ==
  ASSUME NEW S, NEW s, NEW n \in Nat, s \in [1 .. n -> S]
  PROVE  s \in Seq(S)
  OBVIOUS

\* What popping the head and appending do to the elements of a queue.
LEMMA QueueElements ==
  ASSUME NEW S, NEW q \in Seq(S)
  PROVE  /\ ToSet(q) \subseteq S
         /\ q # <<>> => /\ Head(q) \in S /\ Tail(q) \in Seq(S)
                        /\ ToSet(Tail(q)) \subseteq ToSet(q)
                        /\ Len(Tail(q)) = Len(q) - 1
         /\ \A x \in S : /\ Append(q, x) \in Seq(S)
                         /\ ToSet(Append(q, x)) = ToSet(q) \cup {x}
                         /\ Len(Append(q, x)) = Len(q) + 1
<1>1. /\ Len(q) \in Nat /\ DOMAIN q = 1 .. Len(q) /\ \A i \in 1 .. Len(q) : q[i] \in S
  OBVIOUS
<1>2. ToSet(q) \subseteq S BY <1>1 DEF ToSet
<1>3. ASSUME q # <<>>
      PROVE  /\ Head(q) \in S /\ Tail(q) \in Seq(S)
             /\ ToSet(Tail(q)) \subseteq ToSet(q)
             /\ Len(Tail(q)) = Len(q) - 1
  <2>1. /\ Head(q) \in S /\ Tail(q) \in Seq(S) /\ Len(Tail(q)) = Len(q) - 1
        /\ \A i \in 1 .. Len(q) - 1 : Tail(q)[i] = q[i + 1]
    BY <1>3
  <2>2. DOMAIN Tail(q) = 1 .. Len(q) - 1 BY <2>1
  <2>3. ToSet(Tail(q)) \subseteq ToSet(q) BY <1>1, <2>1, <2>2 DEF ToSet
  <2>4. QED BY <2>1, <2>3
<1>4. ASSUME NEW x \in S
      PROVE  /\ Append(q, x) \in Seq(S)
             /\ ToSet(Append(q, x)) = ToSet(q) \cup {x}
             /\ Len(Append(q, x)) = Len(q) + 1
  <2>1. /\ Append(q, x) \in Seq(S) /\ Len(Append(q, x)) = Len(q) + 1
        /\ DOMAIN Append(q, x) = 1 .. Len(q) + 1
        /\ \A i \in 1 .. Len(q) : Append(q, x)[i] = q[i]
        /\ Append(q, x)[Len(q) + 1] = x
    OBVIOUS
  <2>2. ToSet(Append(q, x)) = ToSet(q) \cup {x} BY <1>1, <2>1 DEF ToSet
  <2>3. QED BY <2>1, <2>2
<1>5. QED BY <1>2, <1>3, <1>4

\* The posts of a shutdown go to tiers.
LEMMA PostsAreTiers ==
  ASSUME NEW n \in Nat
  PROVE  PostRounds(n) \in Seq(Tier) /\ PostTiers(n) \in Seq(Tier)
<1>1. n * PriorityCount \in Nat BY ThreadPoolAssumption
<1>2. \A i \in 1 .. n * PriorityCount : (i - 1) % PriorityCount \in Tier
  BY <1>1, ThreadPoolAssumption DEF Tier, HIGH
<1>3. \A i \in 1 .. n * PriorityCount : (i - 1) \div n \in Tier
  BY <1>1, ThreadPoolAssumption DEF Tier, HIGH
<1>4. PostRounds(n) \in [1 .. n * PriorityCount -> Tier] BY <1>2 DEF PostRounds
<1>5. PostTiers(n) \in [1 .. n * PriorityCount -> Tier] BY <1>3 DEF PostTiers
<1>6. QED BY <1>1, <1>4, <1>5, Entries

-------------------------------------------------------------------------------
\* The steps of a worker, of a client, and those only the owner takes.
AnyWorkerStep(w) == WorkerStep(w) \/ CreateWorker(w)
AnyClientStep(c) ==
  \/ ClientStep(c) \/ EnqueueRefused(c) \/ WaitSpurious(c) \/ WaitTimeout(c)
  \/ CallShutdown(c)
  \/ \E k \in Tier, n \in 1 .. MaxBatch : Enqueue(c, k, n)
  \/ \E b \in BOOLEAN : Wait(c, b)
OwnerStep == CreateFails \/ CallDelete \/ JoinAndFree

\* Every step is one of these.
LEMMA StepKinds ==
  ASSUME [Next]_vars
  PROVE  \/ \E w \in Workers : AnyWorkerStep(w)
         \/ \E c \in Clients : AnyClientStep(c)
         \/ OwnerStep
         \/ UNCHANGED vars
  BY DEF Next, AnyWorkerStep, AnyClientStep, OwnerStep

\* Moving one thread moves no other.
LEMMA MoveOne ==
  ASSUME PcInv, NEW x \in Workers \cup Clients, NEW s \in IdlePc \cup BusyPc \cup ClientPc,
         pc' = [pc EXCEPT ![x] = s]
  PROVE  /\ pc' \in [Workers \cup Clients -> IdlePc \cup BusyPc \cup ClientPc]
         /\ pc'[x] = s
         /\ \A y \in (Workers \cup Clients) \ {x} : pc'[y] = pc[y]
  BY DEF PcInv

\* What worker w leaves alone: the other workers and the clients' bookkeeping.
\* It moves a client only by waking it or by opening the pool.
KeepsClients(w) ==
  /\ UNCHANGED <<client, platform, state>>
  /\ \A x \in (Workers \cup Clients) \ {w} : at'[x] = at[x]
  /\ \A v \in Workers \ {w} : pc'[v] = pc[v]
  /\ \A c \in Clients :
        \/ pc'[c] = pc[c]
        \/ pc[c] = "wait_sleep" /\ pc'[c] = "wait_relock"
        \/ pc[c] = "new" /\ pc'[c] = "idle"
  /\ pc' \in [Workers \cup Clients -> IdlePc \cup BusyPc \cup ClientPc]
  /\ pc'[w] \in IdlePc \cup BusyPc

\* Every step of a worker keeps the clients in that sense.
LEMMA WorkerFrame ==
  ASSUME TypeOK, PcInv, NEW w \in Workers, AnyWorkerStep(w)
  PROVE  KeepsClients(w)
<1> USE ThreadPoolAssumption DEF TypeOK, PcInv, Goto, IdlePc, BusyPc, ClientPc, EnqueuePc,
        env, client, worker, ScanFrom, KeepsClients
<1>1. CASE PopTask(w) BY <1>1 DEF PopTask
<1>2. CASE PopNothing(w)
  <2>1. (pc' = pc /\ pc[w] = "scan") \/ pc' = [pc EXCEPT ![w] = "state"]
    BY <1>2 DEF PopNothing
  <2>2. at' = [at EXCEPT ![w] = @ + 1] \/ at' = [at EXCEPT ![w] = HIGH]
    BY <1>2 DEF PopNothing
  <2>3. \A x \in (Workers \cup Clients) \ {w} : at'[x] = at[x] BY <2>2
  <2>4. UNCHANGED <<client, platform, state>> BY <1>2 DEF PopNothing
  <2> HIDE DEF TypeOK
  <2>5. QED BY <2>1, <2>3, <2>4, MoveOne
<1>3. CASE PopSize(w) BY <1>3 DEF PopSize
<1>4. CASE RunTask(w) BY <1>4 DEF RunTask
<1>5. CASE CheckState(w) BY <1>5 DEF CheckState
<1>6. CASE IdleSub(w) BY <1>6 DEF IdleSub
<1>7. CASE IdleCheck(w) BY <1>7 DEF IdleCheck
<1>8. CASE TryWait(w)
  <2>1. \/ pc' = pc /\ pc[w] = "try"
        \/ pc' = [pc EXCEPT ![w] = "active_add"]
        \/ pc' = [pc EXCEPT ![w] = "sem_wait"]
    BY <1>8 DEF TryWait
  <2>2. at' = [at EXCEPT ![w] = @ + 1] \/ at' = [at EXCEPT ![w] = HIGH]
    BY <1>8 DEF TryWait
  <2>3. \A x \in (Workers \cup Clients) \ {w} : at'[x] = at[x] BY <2>2
  <2>4. UNCHANGED <<client, platform, state>> BY <1>8 DEF TryWait
  <2> HIDE DEF TypeOK
  <2>5. QED BY <2>1, <2>3, <2>4, MoveOne
<1>9. CASE SemaphoreWait(w) BY <1>9 DEF SemaphoreWait
<1>10. CASE SemaphoreWaitTimesOut(w) BY <1>10 DEF SemaphoreWaitTimesOut
<1>11. CASE ActiveAdd(w) BY <1>11 DEF ActiveAdd
<1>12. CASE CreateWorker(w) BY <1>12 DEF CreateWorker
<1>13. QED BY <1>1, <1>2, <1>3, <1>4, <1>5, <1>6, <1>7, <1>8, <1>9, <1>10, <1>11,
               <1>12 DEF AnyWorkerStep, WorkerStep

\* What a client's step, or the owner's, leaves alone: the workers, but for the
\* nodes they hold when a task is pushed.
KeepsWorkers ==
  /\ UNCHANGED <<seen, done, tasksCompleted, active_workers, platform>>
  /\ UNCHANGED <<task, stale>> \/ \E c \in Clients : EnqueuePush(c)
  /\ \A w \in Workers : pc'[w] = pc[w] /\ at'[w] = at[w]
  /\ pc' \in [Workers \cup Clients -> IdlePc \cup BusyPc \cup ClientPc]
  /\ \A c \in Clients : pc'[c] \in ClientPc

\* Every step of a client keeps the workers in that sense.
LEMMA ClientFrame ==
  ASSUME TypeOK, PcInv, OwnerStep \/ \E c \in Clients : AnyClientStep(c)
  PROVE  KeepsWorkers
<1> USE ThreadPoolAssumption DEF TypeOK, PcInv, Goto, Begin, IdlePc, BusyPc, ClientPc,
        EnqueuePc, env, client, worker, Sleep, Shutdown, WaitReturns, KeepsWorkers
<1>1. ASSUME NEW c \in Clients, AnyClientStep(c) PROVE KeepsWorkers
  <2>1. CASE EnqueuePush(c) BY <2>1 DEF EnqueuePush
  <2>2. CASE EnqueueSize(c) BY <2>2 DEF EnqueueSize
  <2>3. CASE EnqueuePost(c) BY <2>3 DEF EnqueuePost
  <2>4. CASE WaitLock(c) BY <2>4 DEF WaitLock
  <2>5. CASE WaitActive(c)
    <3>1. UNCHANGED <<worker, active_workers, platform>> BY <2>5 DEF WaitActive
    <3>2. \/ pc' = pc \/ \E s \in ClientPc : pc' = [pc EXCEPT ![c] = s]
      BY <2>5 DEF WaitActive
    <3>3. \A w \in Workers : at'[w] = at[w] BY <2>5 DEF WaitActive
    <3> HIDE DEF TypeOK
    <3>4. QED BY <3>1, <3>2, <3>3, MoveOne
  <2>6. CASE WaitSize(c)
    <3>1. UNCHANGED <<worker, active_workers, platform>> BY <2>6 DEF WaitSize
    <3>2. \/ pc' = pc \/ \E s \in ClientPc : pc' = [pc EXCEPT ![c] = s]
      BY <2>6 DEF WaitSize
    <3>3. \A w \in Workers : at'[w] = at[w] BY <2>6 DEF WaitSize
    <3> HIDE DEF TypeOK
    <3>4. QED BY <3>1, <3>2, <3>3, MoveOne
  <2>7. CASE WaitDone(c) BY <2>7 DEF WaitDone
  <2>8. CASE WaitGivesUp(c) BY <2>8 DEF WaitGivesUp
  <2>9. CASE ShutdownPost(c) BY <2>9 DEF ShutdownPost
  <2>10. CASE ShutdownPosted(c) BY <2>10 DEF ShutdownPosted
  <2>11. CASE EnqueueRefused(c) BY <2>11 DEF EnqueueRefused
  <2>12. CASE WaitSpurious(c) BY <2>12 DEF WaitSpurious
  <2>13. CASE WaitTimeout(c) BY <2>13 DEF WaitTimeout
  <2>14. CASE CallShutdown(c)
    <3>1. pc' = [pc EXCEPT ![c] = "shut_post"] \/ pc' = [pc EXCEPT ![c] = "idle"]
      BY <2>14 DEF CallShutdown
    <3>2. UNCHANGED <<worker, active_workers, platform, at>> BY <2>14 DEF CallShutdown
    <3> HIDE DEF TypeOK
    <3>3. QED BY <3>1, <3>2, MoveOne
  <2>15. ASSUME NEW k \in Tier, NEW n \in 1 .. MaxBatch, Enqueue(c, k, n) PROVE KeepsWorkers
    BY <2>15 DEF Enqueue
  <2>16. ASSUME NEW b \in BOOLEAN, Wait(c, b) PROVE KeepsWorkers BY <2>16 DEF Wait
  <2>17. QED BY <1>1, <2>1, <2>2, <2>3, <2>4, <2>5, <2>6, <2>7, <2>8, <2>9, <2>10,
                  <2>11, <2>12, <2>13, <2>14, <2>15, <2>16 DEF AnyClientStep,
                  ClientStep
<1>2. CASE CreateFails BY <1>2 DEF CreateFails
<1>3. CASE CallDelete
  <2>1. pc' = [pc EXCEPT ![Owner] = "shut_post"] \/ pc' = [pc EXCEPT ![Owner] = "join"]
    BY <1>3 DEF CallDelete
  <2>2. UNCHANGED <<worker, active_workers, platform, at>> BY <1>3 DEF CallDelete
  <2> HIDE DEF TypeOK
  <2>3. QED BY <2>1, <2>2, MoveOne
<1>4. CASE JoinAndFree BY <1>4 DEF JoinAndFree
<1>5. QED BY <1>1, <1>2, <1>3, <1>4 DEF OwnerStep

\* The threads stay at places of their code.
LEMMA PcStep == TypeOK /\ PcInv /\ [Next]_vars => PcInv'
<1> SUFFICES ASSUME TypeOK, PcInv, [Next]_vars PROVE PcInv'
  OBVIOUS
<1>1. ASSUME NEW w \in Workers, AnyWorkerStep(w) PROVE PcInv'
  BY <1>1, WorkerFrame DEF KeepsClients, PcInv, ClientPc
<1>2. CASE OwnerStep \/ \E c \in Clients : AnyClientStep(c)
  BY <1>2, ClientFrame DEF KeepsWorkers, PcInv
<1>3. CASE UNCHANGED vars BY <1>3 DEF vars, PcInv
<1>4. QED BY <1>1, <1>2, <1>3, StepKinds

-------------------------------------------------------------------------------
\* The constants and what is queued are of their types.
LEMMA Elements ==
  /\ HIGH \in Tier
  /\ Task = Clients \X (1 .. MaxCalls * MaxBatch)
  /\ TypeOK => Queued \subseteq Task
<1>1. HIGH \in Tier BY ThreadPoolAssumption DEF Tier, HIGH
<1>2. TypeOK => \A k \in Tier : ToSet(queue[k]) \subseteq Task
  BY QueueElements DEF TypeOK
<1>3. QED BY <1>1, <1>2 DEF Queued, Task

\* A worker's step keeps the types.
LEMMA WorkerTypes ==
  ASSUME TypeOK, PcInv, TaskInv, NEW w \in Workers, AnyWorkerStep(w)
  PROVE  TypeOK'
<1>1. Queued \in SUBSET Task /\ HIGH \in Tier BY Elements
<1>0. \A n \in Nat : n + 1 \in Nat /\ (n > 0 => n - 1 \in Nat) OBVIOUS
<1> HIDE DEF Queued, HIGH, Task, Tier
<1> USE <1>0, CountRange DEF TypeOK, PcInv, Goto, env, queues, client, worker, ScanFrom
<1>2. CASE PopTask(w)
  <2>1. at[w] \in Tier /\ queue[at[w]] \in Seq(Task) /\ queue[at[w]] # <<>>
    BY <1>2 DEF PopTask
  <2>2. Head(queue[at[w]]) \in Task /\ Tail(queue[at[w]]) \in Seq(Task)
    BY <2>1, QueueElements
  <2>3. seen' \in [Workers -> SUBSET Task] BY <1>2 DEF PopTask
  <2>4. stale' \in [Workers -> {"no", "returned", "reused"}] BY <1>2 DEF PopTask
  <2>5. QED BY <1>2, <2>1, <2>2, <2>3, <2>4 DEF PopTask
<1>3. CASE PopNothing(w)
  <2>1. at' \in [Workers \cup Clients -> Tier] BY <1>1, <1>3 DEF PopNothing
  <2>2. seen' \in [Workers -> SUBSET Task] BY <1>3 DEF PopNothing
  <2>3. stale' \in [Workers -> {"no", "returned", "reused"}] BY <1>3 DEF PopNothing
  <2>4. QED BY <1>3, <2>1, <2>2, <2>3 DEF PopNothing
<1>4. CASE PopSize(w)
  <2>1. at[w] \in Tier /\ Count(size[at[w]] - 1) \in 0 .. SizeModulus - 1 OBVIOUS
  <2>2. size' = [size EXCEPT ![at[w]] = Count(size[at[w]] - 1)] BY <1>4 DEF PopSize
  <2>3. size' \in [Tier -> 0 .. SizeModulus - 1] BY <2>1, <2>2
  <2>4. QED BY <1>1, <1>4, <2>3 DEF PopSize
<1>5. CASE RunTask(w)
  <2>1. task[w] \in Task BY <1>5 DEF RunTask, TaskInv
  <2>2. done' \subseteq Task /\ task' \in [Workers -> Task \cup {NULL}]
    BY <1>5, <2>1 DEF RunTask
  <2>3. QED BY <1>1, <1>5, <2>2 DEF RunTask
<1>6. CASE CheckState(w) BY <1>6 DEF CheckState
<1>7. CASE IdleSub(w)
  <2>1. Count(active_workers - 1) \in 0 .. SizeModulus - 1 OBVIOUS
  <2>2. QED BY <1>7, <2>1 DEF IdleSub
<1>8. CASE IdleCheck(w) BY <1>1, <1>8 DEF IdleCheck
<1>9. CASE TryWait(w)
  <2>1. at' \in [Workers \cup Clients -> Tier] BY <1>1, <1>9 DEF TryWait
  <2>2. semaphores' \in [Tier -> Nat]
    <3>1. at[w] \in Tier OBVIOUS
    <3>2. semaphores[at[w]] > 0 => semaphores[at[w]] - 1 \in Nat BY <3>1
    <3>3. QED BY <1>9, <3>1, <3>2 DEF TryWait
  <2>3. QED BY <1>9, <2>1, <2>2 DEF TryWait
<1>10. CASE SemaphoreWait(w)
  <2>1. semaphores[HIGH] - 1 \in Nat BY <1>1, <1>10 DEF SemaphoreWait
  <2>2. QED BY <1>1, <1>10, <2>1 DEF SemaphoreWait
<1>11. CASE SemaphoreWaitTimesOut(w) BY <1>11 DEF SemaphoreWaitTimesOut
<1>12. CASE ActiveAdd(w)
  <2>1. Count(active_workers + 1) \in 0 .. SizeModulus - 1 OBVIOUS
  <2>2. QED BY <1>1, <1>12, <2>1 DEF ActiveAdd
<1>13. CASE CreateWorker(w) BY <1>1, <1>13 DEF CreateWorker
<1>14. QED BY <1>2, <1>3, <1>4, <1>5, <1>6, <1>7, <1>8, <1>9, <1>10, <1>11, <1>12,
              <1>13 DEF AnyWorkerStep, WorkerStep

\* A task about to be pushed is within the bound of all tasks.
LEMMA PushedTask ==
  ASSUME TypeOK, BatchInv, NEW c \in Clients, pc[c] = "enq_push"
  PROVE  linked[c] + 1 \in 1 .. MaxCalls * MaxBatch /\ <<c, linked[c] + 1>> \in Task
<1>1. left[c] > 0 /\ linked[c] + left[c] <= calls * MaxBatch
  BY DEF BatchInv, WithinBatch, Pushes, EnqueuePc
<1>2. linked[c] \in Nat /\ left[c] \in Nat /\ calls \in Nat /\ calls <= MaxCalls
      /\ MaxBatch \in Nat /\ MaxCalls \in Nat
  BY ThreadPoolAssumption DEF TypeOK
<1>3. calls * MaxBatch <= MaxCalls * MaxBatch /\ calls * MaxBatch \in Nat
      /\ MaxCalls * MaxBatch \in Nat
  BY <1>2
<1>4. QED BY <1>1, <1>2, <1>3 DEF Task

\* A client's step keeps the types.
LEMMA ClientTypes ==
  ASSUME TypeOK, PcInv, BatchInv, NEW c \in Clients, AnyClientStep(c)
  PROVE  TypeOK'
<1>1. HIGH \in Tier BY Elements
<1>2. /\ \A n \in Nat : n + 1 \in Nat
      /\ \A n \in 0 .. MaxBatch : n > 0 => n - 1 \in 0 .. MaxBatch
      /\ \A n \in 1 .. MaxBatch : n \in 0 .. MaxBatch
      /\ \A n \in 0 .. MaxCalls : n < MaxCalls => n + 1 \in 0 .. MaxCalls
  BY ThreadPoolAssumption
<1> HIDE DEF HIGH, Task, Tier
<1> USE <1>2, CountRange DEF TypeOK, PcInv, Goto, Begin, env, queues, client, worker,
        Sleep, WaitReturns
<1>3. CASE EnqueuePush(c)
  <2>1. <<c, linked[c] + 1>> \in Task BY <1>3, PushedTask DEF EnqueuePush
  <2>2. at[c] \in Tier /\ queue[at[c]] \in Seq(Task) OBVIOUS
  <2>3. Append(queue[at[c]], <<c, linked[c] + 1>>) \in Seq(Task)
    BY <2>1, <2>2, QueueElements
  <2>4. task' \in [Workers -> Task \cup {NULL}] BY <1>3, <2>1 DEF EnqueuePush
  <2>5. stale' \in [Workers -> {"no", "returned", "reused"}] BY <1>3 DEF EnqueuePush
  <2>6. QED BY <1>3, <2>2, <2>3, <2>4, <2>5 DEF EnqueuePush
<1>4. CASE EnqueueSize(c)
  <2>1. size' = [size EXCEPT ![at[c]] = Count(size[at[c]] + 1)] BY <1>4 DEF EnqueueSize
  <2>2. size' \in [Tier -> 0 .. SizeModulus - 1] BY <2>1
  <2>3. QED BY <1>4, <2>2 DEF EnqueueSize
<1>5. CASE EnqueuePost(c)
  <2>1. left[c] > 0 BY <1>5 DEF EnqueuePost, BatchInv, WithinBatch, EnqueuePc
  <2>2. left' \in [Clients -> 0 .. MaxBatch] BY <1>5, <2>1 DEF EnqueuePost
  <2>3. semaphores' \in [Tier -> Nat] BY <1>5 DEF EnqueuePost
  <2>4. QED BY <1>1, <1>5, <2>2, <2>3 DEF EnqueuePost
<1>6. CASE WaitLock(c) BY <1>6 DEF WaitLock
<1>7. CASE WaitActive(c)
  <2>1. at' \in [Workers \cup Clients -> Tier] BY <1>1, <1>7 DEF WaitActive
  <2>2. idle_lock' \in Clients \cup {NULL} BY <1>7 DEF WaitActive
  <2>3. QED BY <1>7, <2>1, <2>2 DEF WaitActive
<1>8. CASE WaitSize(c)
  <2>1. at' \in [Workers \cup Clients -> Tier] BY <1>1, <1>8 DEF WaitSize
  <2>2. idle_lock' \in Clients \cup {NULL} BY <1>8 DEF WaitSize
  <2>3. QED BY <1>8, <2>1, <2>2 DEF WaitSize
<1>9. CASE WaitDone(c) BY <1>1, <1>9 DEF WaitDone
<1>10. CASE WaitGivesUp(c) BY <1>10 DEF WaitGivesUp
<1>11. CASE ShutdownPost(c)
  <2>1. posts[c] \in Seq(Tier) /\ posts[c] # <<>> BY <1>11 DEF ShutdownPost
  <2>2. Head(posts[c]) \in Tier /\ Tail(posts[c]) \in Seq(Tier) BY <2>1, QueueElements
  <2>3. QED BY <1>11, <2>2 DEF ShutdownPost
<1>12. CASE ShutdownPosted(c) BY <1>12 DEF ShutdownPosted
<1>13. CASE EnqueueRefused(c) BY <1>13 DEF EnqueueRefused
<1>14. CASE WaitSpurious(c) BY <1>14 DEF WaitSpurious
<1>15. CASE WaitTimeout(c) BY <1>15 DEF WaitTimeout
<1>16. CASE CallShutdown(c)
  <2>1. Cardinality(Workers) \in Nat BY FS_CardinalityType, ThreadPoolAssumption
  <2>2. posts' \in [Clients -> Seq(Tier)]
    BY <1>16, <2>1, PostsAreTiers DEF CallShutdown, Shutdown
  <2>3. QED BY <1>16, <2>2 DEF CallShutdown, Shutdown
<1>17. ASSUME NEW k \in Tier, NEW n \in 1 .. MaxBatch, Enqueue(c, k, n) PROVE TypeOK'
  BY <1>17 DEF Enqueue
<1>18. ASSUME NEW b \in BOOLEAN, Wait(c, b) PROVE TypeOK'
  BY <1>18 DEF Wait
<1>19. QED BY <1>3, <1>4, <1>5, <1>6, <1>7, <1>8, <1>9, <1>10, <1>11, <1>12, <1>13,
              <1>14, <1>15, <1>16, <1>17, <1>18 DEF AnyClientStep, ClientStep

\* Creating, shutting down and deleting the pool keep the types.
LEMMA OwnerTypes ==
  ASSUME TypeOK, PcInv, OwnerStep
  PROVE  TypeOK'
<1>1. HIGH \in Tier /\ Owner \in Clients BY Elements, ThreadPoolAssumption
<1>2. \A n \in 0 .. MaxCalls : n < MaxCalls => n + 1 \in 0 .. MaxCalls
  BY ThreadPoolAssumption
<1> HIDE DEF HIGH, Task, Tier
<1> USE <1>1, <1>2 DEF TypeOK, PcInv, Goto, Begin, env, queues, client, worker
<1>3. Cardinality(Workers) \in Nat BY FS_CardinalityType, ThreadPoolAssumption
<1>4. Cardinality(Created) \in Nat
  BY FS_Subset, FS_CardinalityType, ThreadPoolAssumption DEF Created
<1>5. CASE CreateFails
  <2>1. posts' \in [Clients -> Seq(Tier)] BY <1>4, <1>5, PostsAreTiers DEF CreateFails
  <2>2. QED BY <1>5, <2>1 DEF CreateFails
<1>6. CASE CallDelete
  <2>1. posts' \in [Clients -> Seq(Tier)]
    BY <1>3, <1>6, PostsAreTiers DEF CallDelete, Shutdown
  <2>2. QED BY <1>6, <2>1 DEF CallDelete, Shutdown
<1>7. CASE JoinAndFree BY <1>7 DEF JoinAndFree
<1>8. QED BY <1>5, <1>6, <1>7 DEF OwnerStep

-------------------------------------------------------------------------------
\* The clients inside Enqueue are left where they are, with what they have to push.
KeepsEnqueuers ==
  /\ UNCHANGED <<left, linked>>
  /\ calls' = calls \/ calls' = calls + 1
  /\ \A c \in Clients : pc[c] \in EnqueuePc \/ pc'[c] \in EnqueuePc =>
        pc'[c] = pc[c] /\ at'[c] = at[c]

EnqueueStep(c) ==
  \/ \E k \in Tier, n \in 1 .. MaxBatch : Enqueue(c, k, n)
  \/ EnqueuePush(c) \/ EnqueueSize(c) \/ EnqueuePost(c)

\* Every step but those of Enqueue keeps them, and only a worker's step
\* touches the queues besides.
LEMMA EnqueuersKept ==
  ASSUME TypeOK, PcInv, [Next]_vars
  PROVE  \/ \E c \in Clients : EnqueueStep(c)
         \/ KeepsEnqueuers /\ \E w \in Workers : AnyWorkerStep(w)
         \/ KeepsEnqueuers /\ KeepsWorkers /\ UNCHANGED queues
<1>1. ASSUME NEW w \in Workers, AnyWorkerStep(w) PROVE KeepsEnqueuers
  <2>1. KeepsClients(w) BY <1>1, WorkerFrame
  <2>2. \A c \in Clients : c # w BY ThreadPoolAssumption
  <2>3. QED BY <2>1, <2>2 DEF KeepsEnqueuers, KeepsClients, EnqueuePc, client
<1>2. ASSUME NEW c \in Clients, AnyClientStep(c), ~EnqueueStep(c)
      PROVE KeepsEnqueuers /\ UNCHANGED queues
  <2> USE DEF KeepsEnqueuers, EnqueuePc, TypeOK, PcInv, Goto, Begin, client, queues
  <2>1. CASE WaitLock(c) BY <2>1 DEF WaitLock
  <2>2. CASE WaitActive(c) BY <2>2 DEF WaitActive, Sleep
  <2>3. CASE WaitSize(c)
    <3>1. UNCHANGED <<client, queues>> BY <2>3 DEF WaitSize
    <3>2. pc[c] = "wait_size" /\ pc'[c] \in {"wait_size", "wait_sleep"}
      BY <2>3 DEF WaitSize, Sleep
    <3>3. \A d \in Clients \ {c} : pc'[d] = pc[d] /\ at'[d] = at[d]
      BY <2>3 DEF WaitSize, Sleep
    <3> HIDE DEF TypeOK, PcInv
    <3>4. QED BY <3>1, <3>2, <3>3
  <2>4. CASE WaitDone(c) BY <2>4 DEF WaitDone, WaitReturns
  <2>5. CASE WaitGivesUp(c) BY <2>5 DEF WaitGivesUp, WaitReturns
  <2>6. CASE ShutdownPost(c) BY <2>6 DEF ShutdownPost
  <2>7. CASE ShutdownPosted(c) BY <2>7 DEF ShutdownPosted
  <2>8. CASE EnqueueRefused(c) BY <2>8 DEF EnqueueRefused
  <2>9. CASE WaitSpurious(c) BY <2>9 DEF WaitSpurious
  <2>10. CASE WaitTimeout(c) BY <2>10 DEF WaitTimeout
  <2>11. CASE CallShutdown(c) BY <2>11 DEF CallShutdown, Shutdown
  <2>12. ASSUME NEW b \in BOOLEAN, Wait(c, b)
         PROVE KeepsEnqueuers /\ UNCHANGED queues
    BY <2>12 DEF Wait
  <2>13. QED BY <1>2, <2>1, <2>2, <2>3, <2>4, <2>5, <2>6, <2>7, <2>8, <2>9, <2>10,
                <2>11, <2>12 DEF AnyClientStep, ClientStep, EnqueueStep
<1>3. ASSUME OwnerStep PROVE KeepsEnqueuers /\ UNCHANGED queues
  <2> USE ThreadPoolAssumption
      DEF KeepsEnqueuers, EnqueuePc, TypeOK, PcInv, Goto, Begin, client, queues
  <2>1. CASE CreateFails BY <2>1 DEF CreateFails
  <2>2. CASE CallDelete BY <2>2 DEF CallDelete, Shutdown
  <2>3. CASE JoinAndFree BY <2>3 DEF JoinAndFree
  <2>4. QED BY <1>3, <2>1, <2>2, <2>3 DEF OwnerStep
<1>4. CASE UNCHANGED vars
  BY <1>4 DEF vars, KeepsEnqueuers, KeepsWorkers, PcInv, queues, worker
<1>5. QED BY <1>1, <1>2, <1>3, <1>4, StepKinds, ClientFrame

\* A batch is pushed within the bound of its call.
LEMMA BatchStep == TypeOK /\ PcInv /\ BatchInv /\ [Next]_vars => BatchInv'
<1> SUFFICES ASSUME TypeOK, PcInv, BatchInv, [Next]_vars PROVE BatchInv'
  OBVIOUS
<1>0. /\ MaxBatch \in Nat /\ calls \in Nat
      /\ \A c \in Clients : linked[c] \in Nat /\ left[c] \in Nat
  BY ThreadPoolAssumption DEF TypeOK
<1>1. /\ MaxBatch \in Nat /\ calls \in Nat
      /\ \A c \in Clients : Pushes(c) \in Int
  BY <1>0 DEF Pushes
<1>2. \A c \in Clients : Pushes(c) <= calls * MaxBatch BY DEF BatchInv, WithinBatch
\* It is enough that a client's pushes grow by at most a batch with a call.
<1> DEFINE Grows(d) ==
      /\ pc'[d] \in EnqueuePc => left'[d] > 0
      /\ pc'[d] \notin EnqueuePc => left'[d] = 0
      /\ \/ Pushes(d)' = Pushes(d) /\ calls' \in {calls, calls + 1}
         \/ Pushes(d)' <= Pushes(d) + MaxBatch /\ calls' = calls + 1
      /\ Pushes(d)' \in Int
<1>3. SUFFICES ASSUME NEW d \in Clients PROVE Grows(d)
  <2>1. ASSUME NEW d \in Clients, NEW p \in Int, NEW B \in Int, Pushes(d) <= B
        PROVE  /\ p <= Pushes(d) + MaxBatch => p <= B + MaxBatch
               /\ Pushes(d) <= B + MaxBatch
    BY <1>1, <2>1
  <2>2. calls * MaxBatch \in Int /\ (calls + 1) * MaxBatch = calls * MaxBatch + MaxBatch
    BY <1>1
  <2>3. ASSUME NEW d \in Clients, Grows(d) PROVE Pushes(d)' <= calls' * MaxBatch
    <3> HIDE DEF Pushes
    <3>1. PICK B \in Int : B = calls * MaxBatch BY <2>2
    <3>2. Pushes(d) <= B BY <1>2, <3>1
    <3>3. CASE calls' = calls BY <1>1, <2>3, <3>1, <3>2, <3>3
    <3>4. CASE calls' = calls + 1
      <4>1. calls' * MaxBatch = B + MaxBatch BY <2>2, <3>1, <3>4
      <4>2. Pushes(d)' <= B + MaxBatch BY <1>1, <2>1, <2>3, <3>2, <3>4
      <4>3. QED BY <4>1, <4>2
    <3>5. QED BY <2>3, <3>3, <3>4
  <2>4. QED BY <2>3 DEF BatchInv, WithinBatch
<1>4. /\ pc[d] \in EnqueuePc => left[d] > 0
      /\ pc[d] \notin EnqueuePc => left[d] = 0
  BY DEF BatchInv, WithinBatch
<1>5. CASE KeepsEnqueuers
  BY <1>0, <1>4, <1>5 DEF KeepsEnqueuers, Pushes, EnqueuePc
<1>6. ASSUME NEW c \in Clients, EnqueueStep(c) PROVE Grows(d)
  <2>1. ASSUME NEW k \in Tier, NEW n \in 1 .. MaxBatch, Enqueue(c, k, n) PROVE Grows(d)
    <3>1. /\ calls' = calls + 1 /\ linked' = linked /\ pc[c] = "idle"
          /\ pc' = [pc EXCEPT ![c] = "enq_push"] /\ left' = [left EXCEPT ![c] = n]
      BY <2>1 DEF Enqueue, Begin, Goto
    <3>2. IF d = c THEN pc'[d] = "enq_push" /\ left'[d] = n
                   ELSE pc'[d] = pc[d] /\ left'[d] = left[d]
      BY <3>1 DEF PcInv, TypeOK
    <3>3. QED BY <1>0, <1>4, <3>1, <3>2 DEF Pushes, EnqueuePc
  <2>2. CASE EnqueuePush(c)
    <3>1. /\ calls' = calls /\ left' = left /\ pc[c] = "enq_push"
          /\ pc' = [pc EXCEPT ![c] = "enq_size"]
          /\ linked' = [linked EXCEPT ![c] = @ + 1]
      BY <2>2 DEF EnqueuePush, Goto
    <3>2. IF d = c THEN pc'[d] = "enq_size" /\ linked'[d] = linked[d] + 1
                   ELSE pc'[d] = pc[d] /\ linked'[d] = linked[d]
      BY <3>1 DEF PcInv, TypeOK
    <3>3. QED BY <1>0, <1>4, <3>1, <3>2 DEF Pushes, EnqueuePc
  <2>3. CASE EnqueueSize(c)
    <3>1. /\ UNCHANGED <<calls, left, linked>> /\ pc[c] = "enq_size"
          /\ pc' = [pc EXCEPT ![c] = "enq_post"]
      BY <2>3 DEF EnqueueSize, Goto, client
    <3>2. IF d = c THEN pc'[d] = "enq_post" ELSE pc'[d] = pc[d]
      BY <3>1 DEF PcInv
    <3>3. QED BY <1>0, <1>4, <3>1, <3>2 DEF Pushes, EnqueuePc
  <2>4. CASE EnqueuePost(c)
    <3>1. /\ UNCHANGED <<calls, linked>> /\ pc[c] = "enq_post"
          /\ pc' = [pc EXCEPT ![c] = IF left[c] > 1 THEN "enq_push" ELSE "idle"]
          /\ left' = [left EXCEPT ![c] = @ - 1]
      BY <2>4 DEF EnqueuePost, Goto
    <3>2. IF d = c THEN /\ pc'[d] = IF left[d] > 1 THEN "enq_push" ELSE "idle"
                        /\ left'[d] = left[d] - 1
                   ELSE pc'[d] = pc[d] /\ left'[d] = left[d]
      BY <3>1 DEF PcInv, TypeOK
    <3>3. QED BY <1>0, <1>4, <3>1, <3>2 DEF Pushes, EnqueuePc
  <2>5. QED BY <1>6, <2>1, <2>2, <2>3, <2>4 DEF EnqueueStep
<1>7. QED BY <1>5, <1>6, EnqueuersKept

-------------------------------------------------------------------------------
\* A worker holds the task it popped until it has run it.
LEMMA TaskStep == TypeOK /\ PcInv /\ BatchInv /\ TaskInv /\ [Next]_vars => TaskInv'
<1> SUFFICES ASSUME TypeOK, PcInv, BatchInv, TaskInv, [Next]_vars PROVE TaskInv'
  OBVIOUS
<1>1. CASE KeepsWorkers \/ UNCHANGED vars
  <2>1. ASSUME KeepsWorkers, NEW c \in Clients, EnqueuePush(c) PROVE TaskInv'
    <3>1. <<c, linked[c] + 1>> \in Task BY <2>1, PushedTask DEF EnqueuePush, Goto
    <3>2. \A w \in Workers : task'[w] \in {task[w], <<c, linked[c] + 1>>}
      BY <2>1 DEF EnqueuePush
    <3>3. QED BY <2>1, <3>1, <3>2 DEF KeepsWorkers, TaskInv
  <2>2. CASE KeepsWorkers /\ UNCHANGED <<task, stale>> BY <2>2 DEF KeepsWorkers, TaskInv
  <2>3. CASE UNCHANGED vars BY <2>3 DEF TaskInv, vars
  <2>4. QED BY <1>1, <2>1, <2>2, <2>3 DEF KeepsWorkers
<1>2. ASSUME NEW w \in Workers, AnyWorkerStep(w) PROVE TaskInv'
  <2>1. \A v \in Workers \ {w} : pc'[v] = pc[v] BY <1>2, WorkerFrame DEF KeepsClients
  <2>2. CASE PopTask(w)
    <3>1. Head(queue[at[w]]) \in Task BY <2>2, QueueElements DEF PopTask, TypeOK
    <3>2. task' = [task EXCEPT ![w] = Head(queue[at[w]])] BY <2>2 DEF PopTask
    <3>3. QED BY <2>1, <3>1, <3>2 DEF TaskInv, TypeOK
  <2>3. CASE PopSize(w) BY <2>1, <2>3 DEF PopSize, Goto, TaskInv, worker
  <2>4. ASSUME ~PopTask(w), ~PopSize(w)
        PROVE  pc'[w] \notin {"popped", "run"} /\ \A v \in Workers \ {w} : task'[v] = task[v]
    <3> USE DEF PcInv, TypeOK, Goto, worker
    <3>1. CASE PopNothing(w)
      <4>1. UNCHANGED task BY <3>1 DEF PopNothing
      <4>2. pc'[w] = "scan" \/ pc'[w] = "state" BY <3>1 DEF PopNothing
      <4>3. QED BY <4>1, <4>2
    <3>2. CASE RunTask(w) BY <3>2 DEF RunTask
    <3>3. CASE CheckState(w) BY <3>3 DEF CheckState
    <3>4. CASE IdleSub(w) BY <3>4 DEF IdleSub
    <3>5. CASE IdleCheck(w) BY <3>5 DEF IdleCheck
    <3>6. CASE TryWait(w)
      <4>1. UNCHANGED task BY <3>6 DEF TryWait
      <4>2. pc'[w] \in {"try", "sem_wait", "active_add"} BY <3>6 DEF TryWait
      <4>3. QED BY <4>1, <4>2
    <3>7. CASE SemaphoreWait(w) BY <3>7 DEF SemaphoreWait
    <3>8. CASE SemaphoreWaitTimesOut(w) BY <3>8 DEF SemaphoreWaitTimesOut
    <3>9. CASE ActiveAdd(w) BY <3>9 DEF ActiveAdd
    <3>10. CASE CreateWorker(w) BY <3>10, ThreadPoolAssumption DEF CreateWorker
    <3>11. QED BY <1>2, <2>4, <3>1, <3>2, <3>3, <3>4, <3>5, <3>6, <3>7, <3>8, <3>9, <3>10
              DEF AnyWorkerStep, WorkerStep
  <2>5. QED BY <2>1, <2>2, <2>3, <2>4 DEF TaskInv
<1>3. QED BY <1>1, <1>2, StepKinds, ClientFrame

\* The workers that active_workers counts.
Active == {w \in Workers : pc[w] \notin IdlePc}

\* Every step but two leaves the count and the counted workers alone.
LEMMA ActiveChanges ==
  ASSUME TypeOK, PcInv, [Next]_vars
  PROVE  \/ active_workers' = active_workers /\ Active' = Active
         \/ \E w \in Active : /\ active_workers' = Count(active_workers - 1)
                              /\ Active' = Active \ {w}
         \/ \E w \in Workers \ Active : /\ active_workers' = Count(active_workers + 1)
                                        /\ Active' = Active \cup {w}
<1>1. CASE KeepsWorkers \/ UNCHANGED vars
  BY <1>1 DEF KeepsWorkers, Active, vars
<1>2. ASSUME NEW w \in Workers, AnyWorkerStep(w)
      PROVE  \/ active_workers' = active_workers /\ Active' = Active
             \/ /\ w \in Active /\ active_workers' = Count(active_workers - 1)
                /\ Active' = Active \ {w}
             \/ /\ w \notin Active /\ active_workers' = Count(active_workers + 1)
                /\ Active' = Active \cup {w}
  <2>1. \A v \in Workers \ {w} : pc'[v] = pc[v] BY <1>2, WorkerFrame DEF KeepsClients
  <2>2. \/ /\ active_workers' = active_workers
           /\ pc[w] \in IdlePc <=> pc'[w] \in IdlePc
        \/ /\ active_workers' = Count(active_workers - 1)
           /\ pc[w] \notin IdlePc /\ pc'[w] \in IdlePc
        \/ /\ active_workers' = Count(active_workers + 1)
           /\ pc[w] \in IdlePc /\ pc'[w] \notin IdlePc
    <3> USE DEF PcInv, TypeOK, Goto, IdlePc
    <3>1. CASE PopTask(w) BY <3>1 DEF PopTask
    <3>2. CASE PopNothing(w)
      <4>1. UNCHANGED active_workers BY <3>2 DEF PopNothing
      <4>2. pc[w] = "scan" /\ (pc'[w] = "scan" \/ pc'[w] = "state")
        BY <3>2 DEF PopNothing
      <4>3. QED BY <4>1, <4>2
    <3>3. CASE PopSize(w) BY <3>3 DEF PopSize
    <3>4. CASE RunTask(w) BY <3>4 DEF RunTask
    <3>5. CASE CheckState(w) BY <3>5 DEF CheckState
    <3>6. CASE IdleSub(w) BY <3>6 DEF IdleSub
    <3>7. CASE IdleCheck(w) BY <3>7 DEF IdleCheck
    <3>8. CASE TryWait(w)
      <4>1. UNCHANGED active_workers BY <3>8 DEF TryWait
      <4>2. pc[w] = "try" /\ pc'[w] \in {"try", "sem_wait", "active_add"}
        BY <3>8 DEF TryWait
      <4>3. QED BY <4>1, <4>2
    <3>9. CASE SemaphoreWait(w) BY <3>9 DEF SemaphoreWait
    <3>10. CASE SemaphoreWaitTimesOut(w) BY <3>10 DEF SemaphoreWaitTimesOut
    <3>11. CASE ActiveAdd(w) BY <3>11 DEF ActiveAdd
    <3>12. CASE CreateWorker(w) BY <3>12, ThreadPoolAssumption DEF CreateWorker
    <3>13. QED BY <1>2, <3>1, <3>2, <3>3, <3>4, <3>5, <3>6, <3>7, <3>8, <3>9, <3>10,
                  <3>11, <3>12 DEF AnyWorkerStep, WorkerStep
  <2>3. QED BY <2>1, <2>2 DEF Active
<1>3. QED BY <1>1, <1>2, StepKinds, ClientFrame

\* active_workers counts the workers that are not idle.
LEMMA ActiveStep == TypeOK /\ PcInv /\ ActiveExact /\ [Next]_vars => ActiveExact'
<1> SUFFICES ASSUME TypeOK, PcInv, ActiveExact, [Next]_vars PROVE ActiveExact'
  OBVIOUS
<1>1. /\ IsFiniteSet(Workers) /\ Cardinality(Workers) < SizeModulus
      /\ Cardinality(Workers) \in Nat /\ SizeModulus \in Nat
  BY ThreadPoolAssumption, FS_CardinalityType
<1>2. \A S \in SUBSET Workers : /\ IsFiniteSet(S) /\ Cardinality(S) \in Nat
                                /\ Cardinality(S) <= Cardinality(Workers)
  BY <1>1, FS_Subset, FS_CardinalityType
<1>3. Active \subseteq Workers /\ active_workers = Cardinality(Active)
  BY DEF Active, ActiveExact
<1>4. CASE active_workers' = active_workers /\ Active' = Active
  BY <1>4 DEF ActiveExact, Active
<1>5. ASSUME NEW w \in Active, active_workers' = Count(active_workers - 1),
             Active' = Active \ {w}
      PROVE  ActiveExact'
  <2>1. Cardinality(Active \ {w}) = Cardinality(Active) - 1
    BY <1>2, <1>3, FS_RemoveElement
  <2>2. Cardinality(Active \ {w}) \in 0 .. SizeModulus - 1 BY <1>1, <1>2, <1>3
  <2>3. active_workers' = Cardinality(Active') BY <1>3, <1>5, <2>1, <2>2, CountRange
  <2>4. QED BY <2>3 DEF ActiveExact, Active
<1>6. ASSUME NEW w \in Workers \ Active, active_workers' = Count(active_workers + 1),
             Active' = Active \cup {w}
      PROVE  ActiveExact'
  <2>1. Cardinality(Active \cup {w}) = Cardinality(Active) + 1
    BY <1>2, <1>3, FS_AddElement
  <2>2. Cardinality(Active \cup {w}) \in 0 .. SizeModulus - 1
    BY <1>1, <1>2, <1>3
  <2>3. active_workers' = Cardinality(Active') BY <1>3, <1>6, <2>1, <2>2, CountRange
  <2>4. QED BY <2>3 DEF ActiveExact, Active
<1>7. QED BY <1>4, <1>5, <1>6, ActiveChanges

-------------------------------------------------------------------------------
\* The others keep what they remember, but for a tier worker w takes from while
\* they look there.
Forgets(w) ==
  \A v \in Workers \ {w} :
     \/ stale'[v] = stale[v] /\ seen'[v] = seen[v]
     \/ pc[v] \in {"scan", "popped"} /\ seen'[v] = seen[v] \ ToSet(queue[at[v]])

\* A worker only takes from the queues; what it remembers of them is what it
\* remembered, nothing, or what is queued; and it looks at a tier having found
\* the one above it empty, or with its head popped by another.
LEMMA WorkerQueues ==
  ASSUME TypeOK, PcInv, StaleInv, NEW w \in Workers, AnyWorkerStep(w)
  PROVE  /\ \A k \in Tier : ToSet(queue'[k]) \subseteq ToSet(queue[k])
         /\ Forgets(w)
         /\ seen'[w] \in {seen[w], {}, Queued}
         /\ stale'[w] = "no"
         /\ \/ pc'[w] # "scan"
            \/ at'[w] = HIGH
            \/ /\ pc[w] = "scan" /\ seen'[w] = seen[w]
               /\ at'[w] = at[w] + 1
               /\ queue[at[w]] = <<>> \/ stale[w] # "no"
<1> USE ThreadPoolAssumption
    DEF PcInv, TypeOK, Goto, worker, queues, ScanFrom, StaleInv, Forgets
<1> HIDE DEF HIGH, Task, Tier, Queued
<1>1. CASE PopTask(w)
  <2>1. at[w] \in Tier /\ queue[at[w]] \in Seq(Task) /\ queue[at[w]] # <<>>
    BY <1>1 DEF PopTask
  <2>2. ToSet(Tail(queue[at[w]])) \subseteq ToSet(queue[at[w]]) BY <2>1, QueueElements
  <2>3. \A k \in Tier : queue'[k] = IF k = at[w] THEN Tail(queue[k]) ELSE queue[k]
    BY <1>1 DEF PopTask
  <2>4. \A k \in Tier : ToSet(queue'[k]) \subseteq ToSet(queue[k]) BY <2>2, <2>3
  <2>5. Forgets(w) BY <1>1 DEF PopTask, Overtaken
  <2>6. seen'[w] = {} /\ stale'[w] = "no" /\ pc'[w] # "scan" BY <1>1 DEF PopTask
  <2>7. QED BY <2>4, <2>5, <2>6
<1>2. CASE PopNothing(w)
  <2>1. UNCHANGED queue /\ stale' = [stale EXCEPT ![w] = "no"] BY <1>2 DEF PopNothing
  <2>2. /\ pc[w] = "scan" /\ (queue[at[w]] = <<>> \/ stale[w] # "no")
        /\ \/ pc' = pc /\ seen' = seen /\ at' = [at EXCEPT ![w] = @ + 1]
           \/ pc' = [pc EXCEPT ![w] = "state"] /\ seen' = [seen EXCEPT ![w] = {}]
    BY <1>2 DEF PopNothing, Misled
  <2>3. QED BY <2>1, <2>2
<1>3. CASE PopSize(w) BY <1>3 DEF PopSize
<1>4. CASE RunTask(w) BY <1>4 DEF RunTask
<1>5. CASE CheckState(w) BY <1>5 DEF CheckState
<1>6. CASE IdleSub(w) BY <1>6 DEF IdleSub
<1>7. CASE IdleCheck(w) BY <1>7 DEF IdleCheck
<1>8. CASE TryWait(w)
  <2>1. UNCHANGED <<queue, seen, stale>> BY <1>8 DEF TryWait
  <2>2. pc[w] = "try" /\ pc'[w] \in {"try", "sem_wait", "active_add"} BY <1>8 DEF TryWait
  <2>3. QED BY <2>1, <2>2
<1>9. CASE SemaphoreWait(w) BY <1>9 DEF SemaphoreWait
<1>10. CASE SemaphoreWaitTimesOut(w) BY <1>10 DEF SemaphoreWaitTimesOut
<1>11. CASE ActiveAdd(w) BY <1>11 DEF ActiveAdd
<1>12. CASE CreateWorker(w) BY <1>12 DEF CreateWorker
<1>13. QED BY <1>1, <1>2, <1>3, <1>4, <1>5, <1>6, <1>7, <1>8, <1>9, <1>10, <1>11,
              <1>12 DEF AnyWorkerStep, WorkerStep

\* Only EnqueuePush changes a queue besides: it appends one task nobody pushed yet.
LEMMA ClientQueues ==
  ASSUME TypeOK, PcInv, BatchInv, [Next]_vars, NEW c \in Clients, EnqueueStep(c)
  PROVE  \/ UNCHANGED <<queue, linked>>
         \/ /\ linked' = [linked EXCEPT ![c] = @ + 1]
            /\ <<c, linked[c] + 1>> \in Task
            /\ \A k \in Tier :
                  ToSet(queue'[k]) \subseteq ToSet(queue[k]) \cup {<<c, linked[c] + 1>>}
<1> HIDE DEF HIGH, Task, Tier
<1>1. CASE EnqueuePush(c)
  <2>1. <<c, linked[c] + 1>> \in Task BY <1>1, PushedTask DEF EnqueuePush, Goto
  <2>2. at[c] \in Tier /\ queue[at[c]] \in Seq(Task) BY DEF TypeOK
  <2>3. ToSet(Append(queue[at[c]], <<c, linked[c] + 1>>))
          = ToSet(queue[at[c]]) \cup {<<c, linked[c] + 1>>}
    BY <2>1, <2>2, QueueElements
  <2>4. \A k \in Tier : queue'[k] = IF k = at[c] THEN Append(queue[k], <<c, linked[c] + 1>>)
                                                 ELSE queue[k]
    BY <1>1 DEF EnqueuePush, TypeOK
  <2>5. \A k \in Tier :
          ToSet(queue'[k]) \subseteq ToSet(queue[k]) \cup {<<c, linked[c] + 1>>}
    BY <2>3, <2>4
  <2>6. QED BY <1>1, <2>1, <2>5 DEF EnqueuePush
<1>2. ASSUME NEW k \in Tier, NEW n \in 1 .. MaxBatch, Enqueue(c, k, n)
      PROVE  UNCHANGED <<queue, linked>>
  BY <1>2 DEF Enqueue, queues
<1>3. CASE EnqueueSize(c) BY <1>3 DEF EnqueueSize, client
<1>4. CASE EnqueuePost(c) BY <1>4 DEF EnqueuePost, queues
<1>5. QED BY <1>1, <1>2, <1>3, <1>4 DEF EnqueueStep

\* Enqueue moves no worker.
LEMMA EnqueueFrame ==
  ASSUME TypeOK, PcInv, NEW c \in Clients, EnqueueStep(c)
  PROVE  KeepsWorkers
  BY ClientFrame DEF EnqueueStep, AnyClientStep, ClientStep

\* Only pushed tasks are queued or remembered.
LEMMA PushedStep ==
  TypeOK /\ PcInv /\ BatchInv /\ StaleInv /\ PushedInv /\ [Next]_vars => PushedInv'
<1> SUFFICES ASSUME TypeOK, PcInv, BatchInv, StaleInv, PushedInv, [Next]_vars
             PROVE  PushedInv'
  OBVIOUS
<1>1. \A x \in Task : x[1] \in Clients /\ x[2] \in Nat BY ThreadPoolAssumption DEF Task
<1>2. /\ \A k \in Tier : ToSet(queue[k]) \subseteq Task
      /\ \A w \in Workers : seen[w] \subseteq Task
      /\ linked \in [Clients -> Nat]
  BY QueueElements DEF TypeOK
<1>3. ASSUME UNCHANGED linked, NEW w \in Workers, AnyWorkerStep(w) PROVE PushedInv'
  <2>1. \A x \in Queued : x[2] <= linked[x[1]] BY DEF PushedInv, Queued
  <2>2. /\ \A k \in Tier : ToSet(queue'[k]) \subseteq ToSet(queue[k])
        /\ \A v \in Workers \ {w} : seen'[v] \subseteq seen[v]
        /\ seen'[w] \in {seen[w], {}, Queued}
    BY <1>3, WorkerQueues DEF Forgets
  <2>3. QED BY <1>3, <2>1, <2>2 DEF PushedInv
<1>4. ASSUME NEW c \in Clients, EnqueueStep(c) PROVE PushedInv'
  <2>1. seen' = seen BY <1>4, EnqueueFrame DEF KeepsWorkers
  <2>2. CASE UNCHANGED <<queue, linked>> BY <2>1, <2>2 DEF PushedInv
  <2>3. ASSUME linked' = [linked EXCEPT ![c] = @ + 1],
               \A k \in Tier :
                  ToSet(queue'[k]) \subseteq ToSet(queue[k]) \cup {<<c, linked[c] + 1>>}
        PROVE  PushedInv'
    <3>1. \A d \in Clients : linked'[d] = IF d = c THEN linked[d] + 1 ELSE linked[d]
      BY <1>2, <2>3
    <3>2. \A x \in Task : x[2] <= linked[x[1]] => x[2] <= linked'[x[1]]
      BY <1>1, <1>2, <3>1
    <3>3. <<c, linked[c] + 1>>[2] <= linked'[<<c, linked[c] + 1>>[1]] BY <1>2, <3>1
    <3>4. \A k \in Tier : \A x \in ToSet(queue'[k]) : x[2] <= linked'[x[1]]
      BY <1>2, <2>3, <3>2, <3>3 DEF PushedInv
    <3>5. QED BY <1>2, <2>1, <3>2, <3>4 DEF PushedInv
  <2>4. QED BY <1>4, <2>2, <2>3, ClientQueues
<1>5. CASE KeepsEnqueuers /\ KeepsWorkers /\ UNCHANGED queues
  BY <1>5 DEF KeepsEnqueuers, KeepsWorkers, queues, PushedInv
<1>6. QED BY <1>3, <1>4, <1>5, EnqueuersKept DEF KeepsEnqueuers

\* A push brings a task no scan has seen.
LEMMA PushUnseen ==
  ASSUME TypeOK, PushedInv, NEW c \in Clients, NEW w \in Workers
  PROVE  <<c, linked[c] + 1>> \notin seen[w]
<1>1. ~(linked[c] + 1 <= linked[c]) BY DEF TypeOK
<1>2. QED BY <1>1 DEF PushedInv

\* A worker whose node was returned has forgotten what it saw in that tier.
LEMMA StaleStep ==
  TypeOK /\ PcInv /\ BatchInv /\ PushedInv /\ StaleInv /\ [Next]_vars => StaleInv'
<1> SUFFICES ASSUME TypeOK, PcInv, BatchInv, PushedInv, StaleInv, [Next]_vars,
                    NEW v \in Workers, stale'[v] # "no"
             PROVE  /\ pc'[v] \in {"scan", "popped"}
                    /\ pc'[v] = "scan" => seen'[v] \cap ToSet(queue'[at'[v]]) = {}
  BY DEF StaleInv
<1>0. at[v] \in Tier BY DEF TypeOK
<1>1. ASSUME NEW w \in Workers, AnyWorkerStep(w)
      PROVE  /\ pc'[v] \in {"scan", "popped"}
             /\ pc'[v] = "scan" => seen'[v] \cap ToSet(queue'[at'[v]]) = {}
  <2>1. v # w BY <1>1, WorkerQueues
  <2>2. pc'[v] = pc[v] /\ at'[v] = at[v] BY <1>1, <2>1, WorkerFrame DEF KeepsClients
  <2>3. ToSet(queue'[at[v]]) \subseteq ToSet(queue[at[v]]) BY <1>0, <1>1, WorkerQueues
  <2>4. CASE stale'[v] = stale[v] /\ seen'[v] = seen[v] BY <2>2, <2>3, <2>4 DEF StaleInv
  <2>5. CASE pc[v] \in {"scan", "popped"} /\ seen'[v] = seen[v] \ ToSet(queue[at[v]])
    BY <2>2, <2>3, <2>5
  <2>6. QED BY <1>1, <2>1, <2>4, <2>5, WorkerQueues DEF Forgets
<1>2. ASSUME NEW c \in Clients, EnqueueStep(c)
      PROVE  /\ pc'[v] \in {"scan", "popped"}
             /\ pc'[v] = "scan" => seen'[v] \cap ToSet(queue'[at'[v]]) = {}
  <2>1. KeepsWorkers BY <1>2, EnqueueFrame
  <2>2. stale[v] # "no" BY <1>2, <2>1 DEF KeepsWorkers, EnqueuePush, Holding
  <2>3. pc'[v] = pc[v] /\ at'[v] = at[v] /\ seen'[v] = seen[v] BY <2>1 DEF KeepsWorkers
  <2>4. ToSet(queue'[at[v]]) \subseteq ToSet(queue[at[v]]) \cup {<<c, linked[c] + 1>>}
    BY <1>0, <1>2, ClientQueues
  <2>5. QED BY <2>2, <2>3, <2>4, PushUnseen DEF StaleInv
<1>3. CASE KeepsWorkers /\ UNCHANGED queues
  <2>1. stale[v] # "no" BY <1>3 DEF KeepsWorkers, EnqueuePush, Holding
  <2>2. QED BY <1>3, <2>1 DEF KeepsWorkers, queues, StaleInv
<1>4. QED BY <1>1, <1>2, <1>3, EnqueuersKept

\* What was queued in the higher tiers when a scan began is gone from them when
\* it has passed them, or forgotten.
LEMMA PriorityStep ==
  TypeOK /\ PcInv /\ BatchInv /\ PushedInv /\ StaleInv /\ PriorityRespected /\ [Next]_vars
    => PriorityRespected'
<1> SUFFICES ASSUME TypeOK, PcInv, BatchInv, PushedInv, StaleInv, PriorityRespected,
                    [Next]_vars
             PROVE  PriorityRespected'
  OBVIOUS
<1>1. ASSUME NEW w \in Workers, AnyWorkerStep(w) PROVE PriorityRespected'
  <2>1. SUFFICES ASSUME NEW v \in Workers, pc'[v] = "scan", NEW k \in Tier, k < at'[v]
                 PROVE  seen'[v] \cap ToSet(queue'[k]) = {}
    BY DEF PriorityRespected
  <2>2. ToSet(queue'[k]) \subseteq ToSet(queue[k]) BY <1>1, WorkerQueues
  <2>3. CASE v # w
    <3>1. pc'[v] = pc[v] /\ at'[v] = at[v] /\ seen'[v] \subseteq seen[v]
      BY <1>1, <2>3, WorkerFrame, WorkerQueues DEF KeepsClients, Forgets
    <3>2. QED BY <2>1, <2>2, <3>1 DEF PriorityRespected
  <2>4. CASE v = w
    <3>1. ~(k < HIGH) BY ThreadPoolAssumption DEF Tier, HIGH
    <3>2. /\ pc[w] = "scan" /\ seen'[w] = seen[w]
          /\ at'[w] = at[w] + 1 /\ (queue[at[w]] = <<>> \/ stale[w] # "no")
      BY <1>1, <2>1, <2>4, <3>1, WorkerQueues
    <3>3. k < at[w] \/ k = at[w]
      <4>1. at[w] \in Tier BY DEF TypeOK
      <4>2. at[w] \in Int /\ k \in Int BY <4>1, ThreadPoolAssumption DEF Tier, HIGH
      <4>3. k < at[w] + 1 BY <2>1, <2>4, <3>2
      <4>4. QED BY <4>2, <4>3
    <3>4. CASE k < at[w] BY <2>2, <2>4, <3>2, <3>4 DEF PriorityRespected
    <3>5. CASE k = at[w]
      <4>1. ToSet(<<>>) = {} BY DEF ToSet
      <4>2. QED BY <2>2, <2>4, <3>2, <3>5, <4>1 DEF StaleInv
    <3>6. QED BY <3>3, <3>4, <3>5
  <2>5. QED BY <2>3, <2>4
<1>2. ASSUME NEW c \in Clients, EnqueueStep(c) PROVE PriorityRespected'
  <2>1. /\ seen' = seen
        /\ \A w \in Workers : pc'[w] = pc[w] /\ at'[w] = at[w]
    BY <1>2, EnqueueFrame DEF KeepsWorkers
  <2>2. CASE UNCHANGED <<queue, linked>> BY <2>1, <2>2 DEF PriorityRespected
  <2>3. ASSUME \A k \in Tier :
                  ToSet(queue'[k]) \subseteq ToSet(queue[k]) \cup {<<c, linked[c] + 1>>}
        PROVE  PriorityRespected'
    <3>1. \A w \in Workers : <<c, linked[c] + 1>> \notin seen[w] BY PushUnseen
    <3>2. QED BY <2>1, <2>3, <3>1 DEF PriorityRespected
  <2>4. QED BY <1>2, <2>2, <2>3, ClientQueues
<1>3. CASE KeepsWorkers /\ UNCHANGED queues
  BY <1>3 DEF KeepsWorkers, queues, PriorityRespected
<1>4. QED BY <1>1, <1>2, <1>3, EnqueuersKept

-------------------------------------------------------------------------------
\* The sets a queue's counter is measured against are finite.
LEMMA InFlightFinite ==
  /\ \A k : IsFiniteSet(Popping(k)) /\ IsFiniteSet(Pushing(k))
  /\ \A k : Cardinality(Popping(k)) \in Nat /\ Cardinality(Pushing(k)) \in Nat
  /\ TypeOK => \A k \in Tier : Len(queue[k]) \in Nat /\ InFlight(k) \in Int
<1>1. \A k : Popping(k) \in SUBSET Workers /\ Pushing(k) \in SUBSET Clients
  BY DEF Popping, Pushing
<1>2. \A k : IsFiniteSet(Popping(k)) /\ IsFiniteSet(Pushing(k))
  BY <1>1, FS_Subset, ThreadPoolAssumption
<1>3. \A k : Cardinality(Popping(k)) \in Nat /\ Cardinality(Pushing(k)) \in Nat
  BY <1>2, FS_CardinalityType
<1>4. ASSUME TypeOK, NEW k \in Tier PROVE Len(queue[k]) \in Nat
  BY <1>4 DEF TypeOK
<1>5. QED BY <1>2, <1>3, <1>4 DEF InFlight

\* A pop moves a task from the queue into the worker that has not counted it;
\* the count then lowers what is in flight and the counter alike.
LEMMA WorkerFlow ==
  ASSUME TypeOK, PcInv, NEW w \in Workers, AnyWorkerStep(w), NEW k \in Tier
  PROVE  \/ size'[k] = size[k] /\ InFlight(k)' = InFlight(k)
         \/ size'[k] = Count(size[k] - 1) /\ InFlight(k)' = InFlight(k) - 1
<1> USE InFlightFinite
<1>1. Pushing(k)' = Pushing(k)
  <2>1. KeepsEnqueuers
    <3>1. KeepsClients(w) BY WorkerFrame
    <3>2. \A c \in Clients : c # w BY ThreadPoolAssumption
    <3>3. QED BY <3>1, <3>2 DEF KeepsEnqueuers, KeepsClients, EnqueuePc, client
  <2>2. QED BY <2>1 DEF KeepsEnqueuers, Pushing, EnqueuePc
<1>2. \A v \in Workers \ {w} : pc'[v] = pc[v] /\ at'[v] = at[v]
  BY WorkerFrame DEF KeepsClients
<1>3. CASE PopTask(w)
  <2>1. /\ pc[w] = "scan" /\ pc'[w] = "popped" /\ at' = at /\ size' = size
        /\ queue[at[w]] # <<>> /\ queue' = [queue EXCEPT ![at[w]] = Tail(@)]
    BY <1>3 DEF PopTask, Goto, PcInv
  <2>2. CASE k = at[w]
    <3>1. Popping(k)' = Popping(k) \cup {w} /\ w \notin Popping(k)
      BY <1>2, <2>1, <2>2 DEF Popping
    <3>2. Cardinality(Popping(k)') = Cardinality(Popping(k)) + 1
      BY <3>1, FS_AddElement
    <3>3. Len(queue'[k]) = Len(queue[k]) - 1 BY <2>1, <2>2, QueueElements DEF TypeOK
    <3>4. InFlight(k)' = InFlight(k) BY <1>1, <3>2, <3>3 DEF InFlight
    <3>5. QED BY <2>1, <3>4
  <2>3. CASE k # at[w]
    <3>1. Popping(k)' = Popping(k) BY <1>2, <2>1, <2>3 DEF Popping
    <3>2. queue'[k] = queue[k] BY <2>1, <2>3 DEF TypeOK
    <3>3. QED BY <1>1, <2>1, <3>1, <3>2 DEF InFlight
  <2>4. QED BY <2>2, <2>3
<1>4. CASE PopSize(w)
  <2>1. /\ pc[w] = "popped" /\ pc'[w] = "run" /\ queue' = queue
        /\ size' = [size EXCEPT ![at[w]] = Count(@ - 1)]
    BY <1>4 DEF PopSize, Goto, PcInv
  <2>2. CASE k = at[w]
    <3>1. Popping(k)' = Popping(k) \ {w} /\ w \in Popping(k)
      BY <1>2, <2>1, <2>2 DEF Popping
    <3>2. Cardinality(Popping(k)') = Cardinality(Popping(k)) - 1
      BY <3>1, FS_RemoveElement
    <3>3. InFlight(k)' = InFlight(k) - 1 BY <1>1, <2>1, <3>2 DEF InFlight, TypeOK
    <3>4. QED BY <2>1, <2>2, <3>3 DEF TypeOK
  <2>3. CASE k # at[w]
    <3>1. Popping(k)' = Popping(k) BY <1>2, <2>1, <2>3 DEF Popping
    <3>2. size'[k] = size[k] BY <2>1, <2>3 DEF TypeOK
    <3>3. QED BY <1>1, <2>1, <3>1, <3>2 DEF InFlight
  <2>4. QED BY <2>2, <2>3
<1>5. ASSUME ~PopTask(w), ~PopSize(w)
      PROVE  UNCHANGED queues /\ pc[w] # "popped" /\ pc'[w] # "popped"
  <2> USE DEF PcInv, TypeOK, Goto, queues
  <2>1. CASE PopNothing(w)
    <3>1. UNCHANGED queues BY <2>1 DEF PopNothing
    <3>2. pc[w] = "scan" /\ (pc'[w] = "scan" \/ pc'[w] = "state")
      BY <2>1 DEF PopNothing
    <3>3. QED BY <3>1, <3>2
  <2>2. CASE RunTask(w) BY <2>2 DEF RunTask
  <2>3. CASE CheckState(w) BY <2>3 DEF CheckState
  <2>4. CASE IdleSub(w) BY <2>4 DEF IdleSub
  <2>5. CASE IdleCheck(w) BY <2>5 DEF IdleCheck
  <2>6. CASE TryWait(w)
    <3>1. UNCHANGED queues BY <2>6 DEF TryWait
    <3>2. pc[w] = "try" /\ pc'[w] \in {"try", "sem_wait", "active_add"}
      BY <2>6 DEF TryWait
    <3>3. QED BY <3>1, <3>2
  <2>7. CASE SemaphoreWait(w) BY <2>7 DEF SemaphoreWait
  <2>8. CASE SemaphoreWaitTimesOut(w) BY <2>8 DEF SemaphoreWaitTimesOut
  <2>9. CASE ActiveAdd(w) BY <2>9 DEF ActiveAdd
  <2>10. CASE CreateWorker(w) BY <2>10, ThreadPoolAssumption DEF CreateWorker
  <2>11. QED BY <1>5, <2>1, <2>2, <2>3, <2>4, <2>5, <2>6, <2>7, <2>8, <2>9, <2>10
            DEF AnyWorkerStep, WorkerStep
<1>6. ASSUME UNCHANGED queues, pc[w] # "popped", pc'[w] # "popped"
      PROVE  size'[k] = size[k] /\ InFlight(k)' = InFlight(k)
  <2>1. Popping(k)' = Popping(k) BY <1>2, <1>6 DEF Popping
  <2>2. QED BY <1>1, <1>6, <2>1 DEF InFlight, queues
<1>7. QED BY <1>3, <1>4, <1>5, <1>6

\* A push links a task before it counts it; the count then raises what is in
\* flight and the counter alike.
LEMMA ClientFlow ==
  ASSUME TypeOK, PcInv, BatchInv, NEW c \in Clients, EnqueueStep(c), NEW k \in Tier
  PROVE  \/ size'[k] = size[k] /\ InFlight(k)' = InFlight(k)
         \/ size'[k] = Count(size[k] + 1) /\ InFlight(k)' = InFlight(k) + 1
<1> USE InFlightFinite
<1>1. Popping(k)' = Popping(k)
  BY EnqueueFrame DEF KeepsWorkers, Popping
<1>2. CASE EnqueuePush(c)
  <2>1. /\ pc[c] = "enq_push" /\ at' = at /\ size' = size
        /\ pc' = [pc EXCEPT ![c] = "enq_size"]
        /\ queue' = [queue EXCEPT ![at[c]] = Append(@, <<c, linked[c] + 1>>)]
    BY <1>2 DEF EnqueuePush, Goto
  <2>2. \A d \in Clients : pc'[d] = IF d = c THEN "enq_size" ELSE pc[d]
    BY <2>1 DEF PcInv
  <2>3. CASE k = at[c]
    <3>1. Pushing(k)' = Pushing(k) \cup {c} /\ c \notin Pushing(k)
      BY <2>1, <2>2, <2>3 DEF Pushing
    <3>2. Cardinality(Pushing(k)') = Cardinality(Pushing(k)) + 1
      BY <3>1, FS_AddElement
    <3>3. <<c, linked[c] + 1>> \in Task BY <2>1, PushedTask
    <3>4. Len(queue'[k]) = Len(queue[k]) + 1
      BY <2>1, <2>3, <3>3, QueueElements DEF TypeOK
    <3>5. InFlight(k)' = InFlight(k) BY <1>1, <3>2, <3>4 DEF InFlight
    <3>6. QED BY <2>1, <3>5
  <2>4. CASE k # at[c]
    <3>1. Pushing(k)' = Pushing(k) BY <2>1, <2>2, <2>4 DEF Pushing
    <3>2. queue'[k] = queue[k] BY <2>1, <2>4 DEF TypeOK
    <3>3. QED BY <1>1, <2>1, <3>1, <3>2 DEF InFlight
  <2>5. QED BY <2>3, <2>4
<1>3. CASE EnqueueSize(c)
  <2>1. /\ pc[c] = "enq_size" /\ at' = at /\ queue' = queue
        /\ pc' = [pc EXCEPT ![c] = "enq_post"]
        /\ size' = [size EXCEPT ![at[c]] = Count(@ + 1)]
    BY <1>3 DEF EnqueueSize, Goto
  <2>2. \A d \in Clients : pc'[d] = IF d = c THEN "enq_post" ELSE pc[d]
    BY <2>1 DEF PcInv
  <2>3. CASE k = at[c]
    <3>1. Pushing(k)' = Pushing(k) \ {c} /\ c \in Pushing(k)
      BY <2>1, <2>2, <2>3 DEF Pushing
    <3>2. Cardinality(Pushing(k)') = Cardinality(Pushing(k)) - 1
      BY <3>1, FS_RemoveElement
    <3>3. InFlight(k)' = InFlight(k) + 1 BY <1>1, <2>1, <3>2 DEF InFlight, TypeOK
    <3>4. QED BY <2>1, <2>3, <3>3 DEF TypeOK
  <2>4. CASE k # at[c]
    <3>1. Pushing(k)' = Pushing(k) BY <2>1, <2>2, <2>4 DEF Pushing
    <3>2. size'[k] = size[k] BY <2>1, <2>4 DEF TypeOK
    <3>3. QED BY <1>1, <2>1, <3>1, <3>2 DEF InFlight
  <2>5. QED BY <2>3, <2>4
<1>4. ASSUME UNCHANGED queues, pc[c] # "enq_size", pc'[c] # "enq_size",
             \A d \in Clients \ {c} : pc'[d] = pc[d] /\ at'[d] = at[d]
      PROVE  size'[k] = size[k] /\ InFlight(k)' = InFlight(k)
  <2>1. Pushing(k)' = Pushing(k) BY <1>4 DEF Pushing
  <2>2. QED BY <1>1, <1>4, <2>1 DEF InFlight, queues
<1>5. ASSUME NEW j \in Tier, NEW n \in 1 .. MaxBatch, Enqueue(c, j, n)
      PROVE  size'[k] = size[k] /\ InFlight(k)' = InFlight(k)
  BY <1>4, <1>5 DEF Enqueue, Goto, PcInv, TypeOK
<1>6. CASE EnqueuePost(c)
  BY <1>4, <1>6 DEF EnqueuePost, Goto, PcInv, TypeOK
<1>7. QED BY <1>2, <1>3, <1>5, <1>6 DEF EnqueueStep

\* The counter of every tier follows what is in flight in it.
LEMMA SizeStep == TypeOK /\ PcInv /\ BatchInv /\ SizeInv /\ [Next]_vars => SizeInv'
<1> SUFFICES ASSUME TypeOK, PcInv, BatchInv, SizeInv, [Next]_vars, NEW k \in Tier
             PROVE  size'[k] = Count(InFlight(k)')
  BY DEF SizeInv
<1>1. size[k] = Count(InFlight(k)) /\ InFlight(k) \in Int
  BY InFlightFinite DEF SizeInv
<1>2. \/ size'[k] = size[k] /\ InFlight(k)' = InFlight(k)
      \/ size'[k] = Count(size[k] - 1) /\ InFlight(k)' = InFlight(k) - 1
      \/ size'[k] = Count(size[k] + 1) /\ InFlight(k)' = InFlight(k) + 1
  <2>1. CASE KeepsEnqueuers /\ KeepsWorkers /\ UNCHANGED queues
    <3>1. Popping(k)' = Popping(k) /\ Pushing(k)' = Pushing(k)
      BY <2>1 DEF KeepsEnqueuers, KeepsWorkers, Popping, Pushing, EnqueuePc
    <3>2. QED BY <2>1, <3>1 DEF InFlight, queues
  <2>2. QED BY <2>1, EnqueuersKept, WorkerFlow, ClientFlow
<1>3. /\ Count(Count(InFlight(k)) - 1) = Count(InFlight(k) - 1)
      /\ Count(Count(InFlight(k)) + 1) = Count(InFlight(k) + 1)
  <2>1. \A n \in Int : /\ Count(Count(n) + (-1)) = Count(n + (-1))
                       /\ Count(Count(n) + 1) = Count(n + 1)
    BY CountAdds
  <2>2. \A n \in Int : Count(n) \in Int BY CountRange, ThreadPoolAssumption
  <2>3. \A n \in Int : n + (-1) = n - 1 OBVIOUS
  <2>4. QED BY <1>1, <2>1, <2>2, <2>3
<1>4. QED BY <1>1, <1>2, <1>3

-------------------------------------------------------------------------------
\* What a client's step does to the reasons for a worker to look: no post and no
\* task is taken back, and a client goes to sleep only because it has seen a
\* worker active or a tier that is not empty.
KeepsReasons ==
  /\ \A k \in Tier : semaphores[k] > 0 => semaphores'[k] > 0
  /\ \A k \in Tier : queue[k] # <<>> => queue'[k] # <<>>
  /\ \A d \in Clients : pc'[d] = "wait_sleep" =>
        pc[d] = "wait_sleep" \/ active_workers # 0 \/ \E k \in Tier : size[k] > 0

\* Every step of a client keeps the reasons in that sense.
LEMMA ReasonsKept ==
  ASSUME TypeOK, PcInv, BatchInv, OwnerStep \/ \E c \in Clients : AnyClientStep(c)
  PROVE  KeepsReasons
<1>1. \A n \in Nat : n + 1 > 0 OBVIOUS
<1>0. ASSUME NEW c \in Clients, EnqueuePush(c)
      PROVE  Append(queue[at[c]], <<c, linked[c] + 1>>) # <<>>
  <2>1. <<c, linked[c] + 1>> \in Task BY <1>0, PushedTask DEF EnqueuePush, Goto
  <2>2. at[c] \in Tier /\ queue[at[c]] \in Seq(Task) BY DEF TypeOK
  <2>3. ToSet(Append(queue[at[c]], <<c, linked[c] + 1>>))
          = ToSet(queue[at[c]]) \cup {<<c, linked[c] + 1>>}
    BY <2>1, <2>2, QueueElements
  <2>4. ToSet(<<>>) = {} BY DEF ToSet
  <2>5. QED BY <2>3, <2>4
<1> HIDE DEF HIGH, Task, Tier
<1> USE ThreadPoolAssumption, <1>1 DEF TypeOK, PcInv, Goto, Begin, env, queues, client,
        Sleep, Shutdown, WaitReturns, KeepsReasons
<1>2. ASSUME NEW c \in Clients, AnyClientStep(c) PROVE KeepsReasons
  <2>1. CASE EnqueuePush(c)
    <3>1. \A k \in Tier : queue'[k] = IF k = at[c] THEN Append(queue[k], <<c, linked[c] + 1>>)
                                                   ELSE queue[k]
      BY <2>1 DEF EnqueuePush
    <3>2. QED BY <1>0, <2>1, <3>1 DEF EnqueuePush
  <2>2. CASE EnqueueSize(c) BY <2>2 DEF EnqueueSize
  <2>3. CASE EnqueuePost(c) BY <2>3 DEF EnqueuePost
  <2>4. CASE WaitLock(c) BY <2>4 DEF WaitLock
  <2>5. CASE WaitActive(c)
    <3>1. UNCHANGED <<queue, semaphores>> BY <2>5 DEF WaitActive
    <3>2. \/ active_workers # 0
          \/ pc' = [pc EXCEPT ![c] = "wait_size"]
      BY <2>5 DEF WaitActive
    <3>3. \A d \in Clients \ {c} : pc'[d] = pc[d] BY <2>5 DEF WaitActive
    <3>4. QED BY <3>1, <3>2, <3>3
  <2>6. CASE WaitSize(c)
    <3>1. UNCHANGED <<queue, semaphores>> BY <2>6 DEF WaitSize
    <3>2. size[at[c]] > 0 \/ pc' = pc BY <2>6 DEF WaitSize
    <3>3. at[c] \in Tier OBVIOUS
    <3>4. \A d \in Clients \ {c} : pc'[d] = pc[d] BY <2>6 DEF WaitSize
    <3>5. QED BY <3>1, <3>2, <3>3, <3>4
  <2>7. CASE WaitDone(c) BY <2>7 DEF WaitDone
  <2>8. CASE WaitGivesUp(c) BY <2>8 DEF WaitGivesUp
  <2>9. CASE ShutdownPost(c)
    <3>1. posts[c] \in Seq(Tier) /\ posts[c] # <<>> BY <2>9 DEF ShutdownPost
    <3>2. Head(posts[c]) \in Tier BY <3>1, QueueElements
    <3>3. \A k \in Tier : semaphores[k] > 0 => semaphores'[k] > 0
      BY <2>9, <3>2 DEF ShutdownPost
    <3>4. QED BY <2>9, <3>3 DEF ShutdownPost
  <2>10. CASE ShutdownPosted(c) BY <2>10 DEF ShutdownPosted
  <2>11. CASE EnqueueRefused(c) BY <2>11 DEF EnqueueRefused
  <2>12. CASE WaitSpurious(c) BY <2>12 DEF WaitSpurious
  <2>13. CASE WaitTimeout(c) BY <2>13 DEF WaitTimeout
  <2>14. CASE CallShutdown(c) BY <2>14 DEF CallShutdown
  <2>15. ASSUME NEW k \in Tier, NEW n \in 1 .. MaxBatch, Enqueue(c, k, n)
         PROVE KeepsReasons
    BY <2>15 DEF Enqueue
  <2>16. ASSUME NEW b \in BOOLEAN, Wait(c, b) PROVE KeepsReasons BY <2>16 DEF Wait
  <2>17. QED BY <1>2, <2>1, <2>2, <2>3, <2>4, <2>5, <2>6, <2>7, <2>8, <2>9, <2>10,
                <2>11, <2>12, <2>13, <2>14, <2>15, <2>16 DEF AnyClientStep, ClientStep
<1>3. CASE CreateFails BY <1>3 DEF CreateFails
<1>4. CASE CallDelete BY <1>4 DEF CallDelete
<1>5. CASE JoinAndFree BY <1>5 DEF JoinAndFree
<1>6. QED BY <1>2, <1>3, <1>4, <1>5 DEF OwnerStep

\* An active worker will look again before it sleeps; so will the worker that has
\* popped a task, and a tier that counts a task has one, or is about to.
LEMMA ReasonsToWake ==
  ASSUME TypeOK, PcInv, ActiveExact, SizeInv
  PROVE  /\ active_workers # 0 => \E w \in Workers : pc[w] \in BusyPc
         /\ (\E k \in Tier : size[k] > 0) => Waker
<1>1. ASSUME active_workers # 0 PROVE \E w \in Workers : pc[w] \in BusyPc
  <2>1. {w \in Workers : pc[w] \notin IdlePc} # {}
    BY <1>1, FS_EmptySet DEF ActiveExact
  <2>2. QED BY <2>1 DEF PcInv
<1>2. ASSUME NEW k \in Tier, size[k] > 0 PROVE Waker
  <2>1. CASE Popping(k) # {} BY <2>1 DEF Popping, Waker, BusyPc
  <2>2. CASE Pushing(k) # {} BY <2>2 DEF Pushing, Waker
  <2>3. ASSUME Popping(k) = {}, Pushing(k) = {} PROVE queue[k] # <<>>
    <3>1. SUFFICES ASSUME queue[k] = <<>> PROVE FALSE OBVIOUS
    <3>2. Len(queue[k]) = 0 BY <3>1
    <3>3. InFlight(k) = 0 BY <2>3, <3>2, FS_EmptySet DEF InFlight
    <3>4. Count(0) = 0 BY CountRange, ThreadPoolAssumption
    <3>5. QED BY <1>2, <3>3, <3>4 DEF SizeInv
  <2>4. QED BY <2>1, <2>2, <2>3 DEF Waker
<1>3. QED BY <1>1, <1>2

\* While a client sleeps in Wait there is a reason for a worker to look again.
LEMMA WakerStep ==
  TypeOK /\ PcInv /\ BatchInv /\ ActiveExact /\ SizeInv /\ WakerInv /\ [Next]_vars
    => WakerInv'
<1> SUFFICES ASSUME TypeOK, PcInv, BatchInv, ActiveExact, SizeInv, WakerInv, [Next]_vars,
                    NEW s \in Clients, pc'[s] = "wait_sleep"
             PROVE  Waker'
  BY DEF WakerInv
<1>1. ASSUME NEW w \in Workers, AnyWorkerStep(w) PROVE Waker'
  <2>1. KeepsClients(w) BY <1>1, WorkerFrame
  <2>2. pc[s] = "wait_sleep" /\ Waker BY <2>1 DEF KeepsClients, WakerInv
  <2>3. CASE pc'[w] \in BusyPc \cup {"idle_check", "active_add"}
    BY <2>3 DEF Waker
  <2>4. CASE IdleCheck(w)
    <3>1. active_workers # 0
      <4>1. active_workers = 0 => pc'[s] # "wait_sleep"
        BY <2>4, ThreadPoolAssumption DEF IdleCheck, PcInv
      <4>2. QED BY <4>1
    <3>2. PICK v \in Workers : pc[v] \in BusyPc BY <3>1, ReasonsToWake
    <3>3. v # w BY <2>4, <3>2 DEF IdleCheck, BusyPc
    <3>4. pc'[v] \in BusyPc BY <2>1, <3>2, <3>3 DEF KeepsClients
    <3>5. QED BY <3>4 DEF Waker
  <2>5. ASSUME TryWait(w), pc'[w] # "active_add" PROVE Waker'
    <3>1. pc[w] = "try" /\ UNCHANGED <<semaphores, queue>>
      BY <2>5 DEF TryWait, Goto, PcInv, queues
    <3>2. \A v \in Workers : pc[v] \in BusyPc \cup {"idle_check", "active_add"} =>
             pc'[v] = pc[v]
      BY <2>1, <3>1 DEF KeepsClients, BusyPc
    <3>3. \A c \in Clients : pc[c] \in {"enq_size", "enq_post"} => pc'[c] = pc[c]
      BY <2>1 DEF KeepsClients
    <3>4. QED BY <2>2, <3>1, <3>2, <3>3 DEF Waker
  <2>6. ASSUME ~IdleCheck(w), ~TryWait(w)
        PROVE  pc'[w] \in BusyPc \cup {"idle_check", "active_add"}
    <3> USE DEF PcInv, Goto, BusyPc
    <3>1. CASE PopTask(w) BY <3>1 DEF PopTask
    <3>2. CASE PopNothing(w) BY <3>2 DEF PopNothing
    <3>3. CASE PopSize(w) BY <3>3 DEF PopSize
    <3>4. CASE RunTask(w) BY <3>4 DEF RunTask
    <3>5. CASE CheckState(w) BY <3>5 DEF CheckState
    <3>6. CASE IdleSub(w) BY <3>6 DEF IdleSub
    <3>7. CASE SemaphoreWait(w) BY <3>7 DEF SemaphoreWait
    <3>8. CASE SemaphoreWaitTimesOut(w) BY <3>8 DEF SemaphoreWaitTimesOut
    <3>9. CASE ActiveAdd(w) BY <3>9 DEF ActiveAdd
    <3>10. CASE CreateWorker(w) BY <3>10, ThreadPoolAssumption DEF CreateWorker
    <3>11. QED BY <1>1, <2>6, <3>1, <3>2, <3>3, <3>4, <3>5, <3>6, <3>7, <3>8, <3>9, <3>10
              DEF AnyWorkerStep, WorkerStep
  <2>7. QED BY <2>3, <2>4, <2>5, <2>6
<1>2. ASSUME OwnerStep \/ \E c \in Clients : AnyClientStep(c) PROVE Waker'
  <2>1. KeepsReasons /\ KeepsWorkers BY <1>2, ReasonsKept, ClientFrame
  <2>2. Waker BY <2>1, ReasonsToWake DEF KeepsReasons, WakerInv, Waker
  <2>3. CASE \E w \in Workers : pc[w] \in BusyPc \cup {"idle_check", "active_add"}
    BY <2>1, <2>3 DEF KeepsWorkers, Waker
  <2>4. CASE \E k \in Tier : semaphores[k] > 0 \/ queue[k] # <<>>
    BY <2>1, <2>4 DEF KeepsReasons, Waker
  <2>5. ASSUME NEW c \in Clients, pc[c] \in {"enq_size", "enq_post"} PROVE Waker'
    <3>1. CASE KeepsEnqueuers BY <2>5, <3>1 DEF KeepsEnqueuers, EnqueuePc, Waker
    <3>2. ASSUME NEW d \in Clients, EnqueueStep(d), d # c PROVE Waker'
      <4>1. pc'[c] = pc[c]
        BY <3>2 DEF EnqueueStep, Enqueue, EnqueuePush, EnqueueSize, EnqueuePost, Goto, PcInv
      <4>2. QED BY <2>5, <4>1 DEF Waker
    <3>3. CASE EnqueueSize(c)
      <4>1. pc'[c] = "enq_post" BY <3>3 DEF EnqueueSize, Goto, PcInv
      <4>2. QED BY <4>1 DEF Waker
    <3>4. CASE EnqueuePost(c)
      <4>1. semaphores'[at[c]] > 0 /\ at[c] \in Tier
        BY <3>4 DEF EnqueuePost, TypeOK
      <4>2. QED BY <4>1 DEF Waker
    <3>5. ASSUME EnqueueStep(c), ~EnqueueSize(c), ~EnqueuePost(c) PROVE FALSE
      BY <2>5, <3>5 DEF EnqueueStep, Enqueue, EnqueuePush, Goto
    <3>6. ASSUME NEW w \in Workers, AnyWorkerStep(w) PROVE Waker' BY <1>1, <3>6
    <3>7. QED BY <3>1, <3>2, <3>3, <3>4, <3>5, <3>6, EnqueuersKept
  <2>6. QED BY <2>2, <2>3, <2>4, <2>5 DEF Waker
<1>3. CASE UNCHANGED vars BY <1>3 DEF vars, WakerInv, Waker
<1>4. QED BY <1>1, <1>2, <1>3, StepKinds

-------------------------------------------------------------------------------
\* The state the creation of the pool starts from.
LEMMA InvInit == Init => ThreadPoolInv
<1> SUFFICES ASSUME Init PROVE ThreadPoolInv
  OBVIOUS
<1> USE ThreadPoolAssumption
<1>1. HIGH \in Tier BY Elements
<1>2. Cardinality(Workers) \in 0 .. SizeModulus - 1 BY FS_CardinalityType
<1>3. TypeOK BY <1>1, <1>2 DEF Init, TypeOK
<1>4. PcInv BY DEF Init, PcInv, BusyPc, ClientPc
<1>5. BatchInv BY DEF Init, BatchInv, WithinBatch, Pushes, EnqueuePc
<1>6. TaskInv BY DEF Init, TaskInv
<1>7. ActiveExact
  <2>1. {w \in Workers : pc[w] \notin IdlePc} = Workers BY DEF Init, IdlePc
  <2>2. QED BY <2>1 DEF Init, ActiveExact
<1>8. PushedInv /\ StaleInv /\ PriorityRespected
  BY DEF Init, PushedInv, StaleInv, PriorityRespected, ToSet
<1>9. SizeInv
  <2>1. \A k \in Tier : Popping(k) = {} /\ Pushing(k) = {}
    BY DEF Init, Popping, Pushing
  <2>2. \A k \in Tier : Len(queue[k]) = 0 BY DEF Init
  <2>3. \A k \in Tier : InFlight(k) = 0
    <3>1. \A k \in Tier : Cardinality(Popping(k)) = 0 /\ Cardinality(Pushing(k)) = 0
      BY <2>1, FS_EmptySet
    <3>2. QED BY <2>2, <3>1 DEF InFlight
  <2>4. Count(0) = 0 BY CountRange
  <2>5. QED BY <2>3, <2>4 DEF Init, SizeInv
<1>10. WakerInv BY DEF Init, WakerInv
<1>11. QED BY <1>3, <1>4, <1>5, <1>6, <1>7, <1>8, <1>9, <1>10 DEF ThreadPoolInv

\* Every step of the pool keeps the inductive invariant.
LEMMA InvStep == ThreadPoolInv /\ [Next]_vars => ThreadPoolInv'
<1> SUFFICES ASSUME ThreadPoolInv, [Next]_vars PROVE ThreadPoolInv'
  OBVIOUS
<1> USE DEF ThreadPoolInv
<1>1. TypeOK'
  <2>1. CASE UNCHANGED vars BY <2>1 DEF vars, TypeOK
  <2>2. QED BY <2>1, WorkerTypes, ClientTypes, OwnerTypes, StepKinds
<1>2. QED BY <1>1, PcStep, BatchStep, TaskStep, ActiveStep, PushedStep, StaleStep,
             PriorityStep, SizeStep, WakerStep

\* The inductive invariant holds in every state of the pool.
THEOREM ThreadPoolInvariant == Spec => []ThreadPoolInv
  BY InvInit, InvStep, PTL DEF Spec

\* vl_thread_pool_worker_proc lowers active_workers before its idle part and
\* raises it after: the counter equals the number of workers outside that part
\* in every state, and every other field keeps its type.
THEOREM CountedWorkers == Spec => []WorkersCounted
<1>1. ThreadPoolInv => WorkersCounted BY DEF ThreadPoolInv, WorkersCounted
<1>2. QED BY <1>1, ThreadPoolInvariant, PTL

\* vl_thread_pool_worker_proc scans the tiers from the highest down after every
\* task: none that was queued higher when the scan began is passed over, unless
\* another worker took a task from that tier during the scan's look at it.
THEOREM PriorityIsRespected == Spec => []PriorityRespected
<1>1. ThreadPoolInv => PriorityRespected BY DEF ThreadPoolInv
<1>2. QED BY <1>1, ThreadPoolInvariant, PTL

\* vlThreadPoolWait sleeps only while a worker, a post or a task will bring a
\* worker to vlConditionBroadcast: with all workers blocked in vlSemaphoreWait,
\* no post left and no task queued, nobody sleeps.
THEOREM WakeupsAreNotLost == Spec => []NoLostWakeup
<1>1. ThreadPoolInv => NoLostWakeup
  <2> SUFFICES ASSUME ThreadPoolInv,
                      \A w \in Workers : pc[w] = "sem_wait",
                      \A k \in Tier : semaphores[k] = 0,
                      \A c \in Clients : pc[c] \in {"idle", "wait_sleep"},
                      Queued = {},
                      NEW c \in Clients, pc[c] = "wait_sleep"
               PROVE  FALSE
    BY DEF NoLostWakeup
  <2>1. Waker BY DEF ThreadPoolInv, WakerInv
  <2>2. \A k \in Tier : queue[k] = <<>>
    <3>1. \A q \in Seq(Task) : q # <<>> => q[1] \in ToSet(q) BY DEF ToSet
    <3>2. \A k \in Tier : queue[k] \in Seq(Task) BY DEF ThreadPoolInv, TypeOK
    <3>3. \A k \in Tier : ToSet(queue[k]) = {} BY DEF Queued
    <3>4. QED BY <3>1, <3>2, <3>3
  <2>3. QED BY <2>1, <2>2 DEF Waker, BusyPc
<1>2. QED BY <1>1, ThreadPoolInvariant, PTL

\* vlAsyncQueuePushBack links a task before it counts it, and
\* vlAsyncQueuePopFront takes one before it subtracts it: a tier's counter is
\* exact, but for the calls between the two steps.
THEOREM SizesFollowQueues == Spec => []SizeInv
<1>1. ThreadPoolInv => SizeInv BY DEF ThreadPoolInv
<1>2. QED BY <1>1, ThreadPoolInvariant, PTL
===============================================================================
