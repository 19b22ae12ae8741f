------------------------------- MODULE Logger ------------------------------
(***************************************************************************)
(* vl_log.c: clients hand records to a worker through a queue, two         *)
(* semaphores and two sequence numbers.  The queue is the FIFO queue that  *)
(* AsyncQueue implements; what is done under config_lock is one step.      *)
(* vlSemaphoreWait(s, 0) returns at once under POSIX and waits without     *)
(* limit under Win32.                                                      *)
(***************************************************************************)
EXTENDS Integers, Sequences, FiniteSets, SequencesExt

CONSTANTS
    Clients,
    Platforms,      \* subset of {"posix", "win32"}
    MaxMessages,    \* bound of the model: messages of a client that is alone,
    MaxShared,      \* and of one that is not
    MaxSinks,       \* bound of the model: sinks
    SemMax          \* bound of the model on a semaphore; posts beyond are not told apart

ASSUME LoggerAssumption ==
    /\ Clients # {} /\ IsFiniteSet(Clients)
    /\ MaxMessages \in Nat /\ MaxShared \in Nat
    /\ MaxSinks \in Nat \ {0} /\ SemMax \in Nat

VARIABLES
    platform, active,           \* where it runs, and the clients that use it
    async, running, life,       \* "new", "open", "closing", "closed"
    enqueued, processed,        \* enqueued_seq, processed_seq
    queue, items, flushed,      \* the queue, sem_items, sem_flushed
    sinks, out,                 \* number of sinks; what each has received
    worker, record,             \* the worker's position, the record it holds
    client,                     \* the position of each client
    returned, wanted            \* records whose call has returned; of those, the
                                \* ones each Flush has to wait for (history)

cfgVars == <<platform, active, async>>
seqVars == <<enqueued, processed>>
semVars == <<items, flushed>>
sinkVars == <<sinks, out>>
workVars == <<worker, record>>
histVars == <<returned, wanted>>
logVars == <<cfgVars, running, life, seqVars, queue, semVars, sinkVars, workVars,
             client, histVars>>

Owner == CHOOSE c \in Clients : TRUE     \* the client that deletes the logger
Post(n) == IF n < SemMax THEN n + 1 ELSE n
At(c, label) == client[c].at = label
Goto(c, label) == client' = [client EXCEPT ![c].at = label]

\* vlLogWriteToSinks_NoLock.
WriteToSinks(r) == out' = [s \in 1..MaxSinks |-> IF s <= sinks THEN Append(out[s], r) ELSE out[s]]

LoggerInit ==
    /\ platform \in Platforms
    /\ active \in {{Owner}, Clients}
    /\ async \in BOOLEAN
    /\ running = FALSE /\ life = "new"
    /\ enqueued = 0 /\ processed = 0
    /\ queue = << >> /\ items = 0 /\ flushed = 0
    /\ sinks = 0 /\ out = [s \in 1..MaxSinks |-> << >>]
    /\ worker = "none" /\ record = 0
    /\ client = [c \in Clients |-> [at |-> "idle", seq |-> 0, target |-> 0, 
                        left |-> IF Cardinality(active) = 1 THEN MaxMessages ELSE MaxShared]]
    /\ returned = {} /\ wanted = [c \in Clients |-> {}]

\* vlLoggerNew; vlLogInit adds a first sink.
LoggerNew ==
    /\ life = "new"
    /\ life' = "open"
    /\ running' = async
    /\ worker' = IF async THEN "wait" ELSE "none"
    /\ sinks' = 1
    /\ UNCHANGED <<cfgVars, seqVars, queue, semVars, out, record, client, histVars>>

\* vlLoggerAddSink: the new sink receives the records processed from now on.
LoggerAddSink ==
    /\ life = "open" /\ sinks < MaxSinks
    /\ sinks' = sinks + 1
    /\ UNCHANGED <<cfgVars, running, life, seqVars, queue, semVars, out, workVars, client, histVars>>

----------------------------------------------------------------------------
(* vlLoggerMessage, vlLoggerMessageF: vlLogEnqueueOwned. *)

DrawSeq(c) ==
    /\ life = "open" /\ At(c, "idle") /\ client[c].left > 0
    /\ enqueued' = enqueued + 1
    /\ client' = [client EXCEPT ![c].at = IF async THEN "push" ELSE "write",
                                ![c].seq = enqueued + 1, ![c].left = @ - 1]
    /\ UNCHANGED <<cfgVars, running, life, processed, queue, semVars, sinkVars, workVars, histVars>>

Push(c) ==
    /\ At(c, "push")
    /\ queue' = Append(queue, client[c].seq)
    /\ Goto(c, "post")
    /\ UNCHANGED <<cfgVars, running, life, seqVars, semVars, sinkVars, workVars, histVars>>

PostItem(c) ==
    /\ At(c, "post")
    /\ items' = Post(items)
    /\ returned' = returned \cup {client[c].seq}
    /\ Goto(c, "idle")
    /\ UNCHANGED <<cfgVars, running, life, seqVars, queue, flushed, sinkVars, workVars, wanted>>

\* Without a worker the client writes and flushes itself.
SyncWrite(c) ==
    /\ At(c, "write")
    /\ WriteToSinks(client[c].seq)
    /\ Goto(c, "store")
    /\ UNCHANGED <<cfgVars, running, life, seqVars, queue, semVars, sinks, workVars, histVars>>

SyncStore(c) ==
    /\ At(c, "store")
    /\ processed' = client[c].seq
    /\ returned' = returned \cup {client[c].seq}
    /\ Goto(c, "idle")
    /\ UNCHANGED <<cfgVars, running, life, enqueued, queue, semVars, sinkVars, workVars, wanted>>

----------------------------------------------------------------------------
(* vlLoggerFlush. *)

FlushTarget(c) ==
    /\ life = "open" /\ At(c, "idle") /\ returned # {}
    /\ client' = [client EXCEPT ![c].target = enqueued,
                                ![c].at = IF async THEN "check" ELSE "done"]
    /\ wanted' = [wanted EXCEPT ![c] = returned]
    /\ UNCHANGED <<cfgVars, running, life, seqVars, queue, semVars, sinkVars, workVars, returned>>

FlushCheck(c) ==
    /\ At(c, "check")
    /\ IF processed >= client[c].target
       THEN Goto(c, "done") /\ UNCHANGED items
       ELSE Goto(c, "loop") /\ items' = Post(items)
    /\ UNCHANGED <<cfgVars, running, life, seqVars, queue, flushed, sinkVars, workVars, histVars>>

\* Faulty variant: the loop ends with whatever was processed.
FlushLoopOnce(c) ==
    /\ At(c, "loop")
    /\ Goto(c, "done")
    /\ UNCHANGED <<cfgVars, running, life, seqVars, queue, semVars, sinkVars, workVars, histVars>>

FlushLoop(c) ==
    /\ At(c, "loop")
    /\ Goto(c, IF processed >= client[c].target THEN "done" ELSE "await")
    /\ UNCHANGED <<cfgVars, running, life, seqVars, queue, semVars, sinkVars, workVars, histVars>>

\* vlSemaphoreWait(sem_flushed, 0).
FlushAwait(c) ==
    /\ At(c, "await")
    /\ platform = "win32" => flushed > 0
    /\ flushed' = IF flushed > 0 THEN flushed - 1 ELSE 0
    /\ Goto(c, "loop")
    /\ UNCHANGED <<cfgVars, running, life, seqVars, queue, items, sinkVars, workVars, histVars>>

\* vlLogFlushSinks_NoLock, and the return to the caller or to vlLoggerDelete.
FlushReturn(c) ==
    /\ At(c, "done")
    /\ client' = [client EXCEPT ![c].at = IF life = "closing" /\ c = Owner THEN "stop" ELSE "idle",
                                ![c].target = 0, ![c].seq = 0]
    /\ wanted' = [wanted EXCEPT ![c] = {}]
    /\ UNCHANGED <<cfgVars, running, life, seqVars, queue, semVars, sinkVars, workVars, returned>>

----------------------------------------------------------------------------
(* vlLogWorkerProc, vlLogDrainAvailable. *)

WorkerWait ==
    /\ worker = "wait"
    /\ platform = "win32" => items > 0
    /\ items' = IF items > 0 THEN items - 1 ELSE 0
    /\ worker' = "drain"
    /\ UNCHANGED <<cfgVars, running, life, seqVars, queue, flushed, sinkVars, record, client, histVars>>

WorkerPop ==
    /\ worker = "drain"
    /\ IF queue = << >> THEN worker' = "leave?" /\ UNCHANGED <<queue, record>>
       ELSE worker' = "write" /\ record' = Head(queue) /\ queue' = Tail(queue)
    /\ UNCHANGED <<cfgVars, running, life, seqVars, semVars, sinkVars, client, histVars>>

\* vlLogProcessRecord.
WorkerWrite ==
    /\ worker = "write"
    /\ WriteToSinks(record)
    /\ worker' = "store"
    /\ UNCHANGED <<cfgVars, running, life, seqVars, queue, semVars, sinks, record, client, histVars>>

WorkerStore ==
    /\ worker = "store"
    /\ processed' = record
    /\ worker' = "post"
    /\ UNCHANGED <<cfgVars, running, life, enqueued, queue, semVars, sinkVars, record, client, histVars>>

\* Faulty variant: nobody is told.
WorkerPostForgotten ==
    /\ worker = "post"
    /\ worker' = "drain"
    /\ UNCHANGED <<cfgVars, running, life, seqVars, queue, semVars, sinkVars, record, client, histVars>>

WorkerPost ==
    /\ worker = "post"
    /\ flushed' = Post(flushed)
    /\ worker' = "drain"
    /\ UNCHANGED <<cfgVars, running, life, seqVars, queue, items, sinkVars, record, client, histVars>>

\* Faulty variant: the worker leaves without a look at the queue.
WorkerLeaveEarly ==
    /\ worker = "leave?"
    /\ IF ~running THEN worker' = "gone" /\ flushed' = Post(flushed)
       ELSE worker' = "wait" /\ UNCHANGED flushed
    /\ UNCHANGED <<cfgVars, running, life, seqVars, queue, items, sinkVars, record, client, histVars>>

WorkerLeave ==
    /\ worker = "leave?"
    /\ IF ~running /\ queue = << >>
       THEN worker' = "gone" /\ flushed' = Post(flushed)
       ELSE worker' = "wait" /\ UNCHANGED flushed
    /\ UNCHANGED <<cfgVars, running, life, seqVars, queue, items, sinkVars, record, client, histVars>>

Worker == WorkerWait \/ WorkerPop \/ WorkerWrite \/ WorkerStore \/ WorkerPost \/ WorkerLeave

----------------------------------------------------------------------------
(* vlLoggerDelete, by one client when the others are done with the logger. *)

CallDelete ==
    /\ life = "open" /\ \A c \in active : At(c, "idle") /\ client[c].left = 0
    /\ life' = "closing"
    /\ client' = [client EXCEPT ![Owner].target = enqueued,
                                ![Owner].at = IF async THEN "check" ELSE "done"]
    /\ wanted' = [wanted EXCEPT ![Owner] = returned]
    /\ UNCHANGED <<cfgVars, running, seqVars, queue, semVars, sinkVars, workVars, returned>>

DeleteStop ==
    /\ At(Owner, "stop")
    /\ running' = FALSE
    /\ items' = IF async THEN Post(items) ELSE items
    /\ Goto(Owner, "join")
    /\ UNCHANGED <<cfgVars, life, seqVars, queue, flushed, sinkVars, workVars, histVars>>

\* The join, and the release of semaphores, queue, sinks and lock.
DeleteJoin ==
    /\ At(Owner, "join") /\ worker \in {"gone", "none"}
    /\ life' = "closed"
    /\ Goto(Owner, "gone")
    /\ UNCHANGED <<cfgVars, running, seqVars, queue, semVars, sinkVars, workVars, histVars>>

ClientStep(c) ==
    \/ Push(c) \/ PostItem(c)
    \/ SyncWrite(c) \/ SyncStore(c)
    \/ FlushCheck(c) \/ FlushLoop(c) \/ FlushAwait(c) \/ FlushReturn(c)

LoggerNext ==
    \/ LoggerNew
    \/ LoggerAddSink
    \/ \E c \in active : DrawSeq(c) \/ FlushTarget(c) \/ ClientStep(c)
    \/ Worker
    \/ CallDelete \/ DeleteStop \/ DeleteJoin

\* A thread that can go on is scheduled; the worker polls or is woken.
LoggerFairness ==
    /\ WF_logVars(Worker)
    /\ \A c \in Clients : WF_logVars(c \in active /\ ClientStep(c))
    /\ WF_logVars(DeleteStop) /\ WF_logVars(DeleteJoin)

LoggerSpec == LoggerInit /\ [][LoggerNext]_logVars /\ LoggerFairness

----------------------------------------------------------------------------

Solo == Cardinality(active) = 1
Written(s) == Range(out[s])

\* A record reaches a sink at most once, the sinks that exist receive the
\* records alike, and when the logger is gone the first sink has everything
\* whose call returned, in order if there was one client.
RecordsDelivered ==
    /\ \A s \in 1..sinks : /\ Len(out[s]) = Cardinality(Written(s))
                           /\ IsSuffix(out[s], out[1])
    /\ life = "closed" => returned \subseteq Written(1)
    /\ Solo => \A i, j \in DOMAIN out[1] : i < j => out[1][i] < out[1][j]

\* vlLoggerFlush returns when the records logged before it are written: with one
\* client, the only one whose sequence numbers enter the queue in order.
FlushCovers(c) == At(c, "done") => wanted[c] \subseteq Written(1)
FlushComplete == \A c \in active : Solo => FlushCovers(c)

\* vl_log.h: a flush "blocks until all messages enqueued before the call have
\* been processed", whoever logged them.
FlushCoversAll == \A c \in active : FlushCovers(c)

\* vlLoggerFlush and vlLoggerDelete return, with one client.
FlushReturns ==
    /\ \A c \in Clients : (Solo /\ At(c, "check")) ~> At(c, "done")
    /\ (Solo /\ life = "closing") ~> life = "closed"

----------------------------------------------------------------------------
(* The inductive invariant behind the two safety properties. *)

ClientPc    == {"idle", "push", "post", "write", "store", "check", "loop", "await", "done",
                "stop", "join", "gone"}
ClientState == [at : ClientPc, seq : Nat, target : Nat, left : Nat]

\* The types of the logger's fields and of the clients' locals.
LoggerTypeOK ==
    /\ active \in {{Owner}, Clients} /\ async \in BOOLEAN /\ running \in BOOLEAN
    /\ life \in {"new", "open", "closing", "closed"}
    /\ enqueued \in Nat /\ processed \in Nat
    /\ queue \in Seq(Nat) /\ items \in Nat /\ flushed \in Nat
    /\ sinks \in 0..MaxSinks /\ out \in [1..MaxSinks -> Seq(Nat)]
    /\ worker \in {"none", "wait", "drain", "write", "store", "post", "leave?", "gone"}
    /\ record \in Nat
    /\ client \in [Clients -> ClientState]
    /\ returned \in SUBSET Nat /\ wanted \in [Clients -> SUBSET Nat]

\* Where a client can be: one that does not use the logger is idle, the others
\* follow the mode and the life of the logger.
ClientMode(c, at) ==
    /\ c \notin active => at = "idle"
    /\ at \in {"push", "post", "check", "loop", "await"} => async
    /\ at \in {"write", "store"} => ~async
    /\ at \in {"push", "post", "write", "store"} => life = "open"
    /\ at \in {"stop", "join"} => c = Owner /\ life = "closing"
    /\ life = "new" => at = "idle"

\* A worker runs exactly if the logger is asynchronous, and it goes only when the
\* logger is being deleted, the queue is empty and nobody logs any more.
WorkerMode ==
    /\ life # "new" => sinks >= 1 /\ (async <=> worker # "none")
    /\ life = "new" => worker = "none" /\ \A s \in 1..MaxSinks : out[s] = << >>
    /\ ~async => queue = << >>
    /\ async /\ life = "open" => running
    /\ worker = "gone" => queue = << >> /\ life \in {"closing", "closed"}
    /\ life = "closed" => worker \in {"gone", "none"}

ModeInv == WorkerMode /\ \A c \in Clients : ClientMode(c, client[c].at)

\* The records on their way: with a client, with the worker, in the queue.
Carries(c) == client[c].at \in {"push", "write"}
Carried == {client[c].seq : c \in {d \in Clients : Carries(d)}}
InWork  == IF worker = "write" THEN {record} ELSE {}
Queued  == Range(queue)

\* A record is in one place at a time, and at most once in each.
UniqueInv ==
    /\ \A c, d \in Clients :
        Carries(c) /\ Carries(d) /\ client[c].seq = client[d].seq => c = d
    /\ IsInjective(queue) /\ IsInjective(out[1])
    /\ Written(1) \cap (InWork \cup Queued \cup Carried) = {}
    /\ InWork \cap (Queued \cup Carried) = {}
    /\ Queued \cap Carried = {}
    /\ Written(1) \cup InWork \cup Queued \cup Carried \subseteq 1..enqueued

\* What a sink has received is the end of what the first one has.
SinksInv ==
    \A s \in 1..MaxSinks :
        /\ s > sinks => out[s] = << >>
        /\ Len(out[s]) <= Len(out[1])
        /\ \A i \in 1..Len(out[s]) : out[s][i] = out[1][Len(out[1]) - Len(out[s]) + i]

\* A record whose call has returned, or is about to, is past the client.
Past == Written(1) \cup InWork \cup Queued
HandedInv ==
    /\ returned \subseteq Past
    /\ \A c \in Clients :
        /\ At(c, "post") => client[c].seq \in Past
        /\ At(c, "store") => client[c].seq \in Written(1)
    /\ worker = "store" => record \in Written(1)

\* What a flush waits for was enqueued before it began.
TargetInv ==
    \A c \in Clients :
        /\ wanted[c] \subseteq returned
        /\ client[c].at \in {"check", "loop", "await"} => wanted[c] \subseteq 1..client[c].target

Increasing(s) == \A i, j \in 1..Len(s) : i < j => s[i] < s[j]

\* One client's records are written, queued and drawn in order, and the last one
\* processed is one that was written.
OrderInv ==
    Solo =>
        /\ Increasing(out[1]) /\ Increasing(queue)
        /\ \A r \in Written(1), q \in InWork \cup Queued \cup Carried : r < q
        /\ \A r \in InWork, q \in Queued \cup Carried : r < q
        /\ \A r \in Queued, q \in Carried : r < q
        /\ processed \in Written(1) \cup {0}

LoggerInv == /\ LoggerTypeOK /\ ModeInv /\ UniqueInv /\ SinksInv
             /\ HandedInv /\ TargetInv /\ OrderInv /\ FlushComplete

============================================================================
