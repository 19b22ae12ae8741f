------------------------------ MODULE LoggerProofs ------------------------------
(***************************************************************************)
(* Proofs about Logger, for any number of clients, messages and sinks.     *)
(***************************************************************************)
EXTENDS Logger, FiniteSetTheorems, TLAPS

\* The client that deletes the logger is one of the clients.
LEMMA OwnerIsClient == Owner \in Clients
  BY LoggerAssumption DEF Owner

\* What appending a record does to a queue or to what a sink has received.
LEMMA AppendFacts ==
  ASSUME NEW s \in Seq(Nat), NEW x \in Nat
  PROVE  /\ Append(s, x) \in Seq(Nat)
         /\ Len(Append(s, x)) = Len(s) + 1
         /\ \A i \in 1..Len(s) : Append(s, x)[i] = s[i]
         /\ Append(s, x)[Len(s) + 1] = x
         /\ Range(Append(s, x)) = Range(s) \cup {x}
         /\ IsInjective(s) /\ x \notin Range(s) => IsInjective(Append(s, x))
         /\ Increasing(s) /\ (\A r \in Range(s) : r < x) => Increasing(Append(s, x))
<1> DEFINE t == Append(s, x)
<1>1. /\ Len(s) \in Nat /\ DOMAIN s = 1..Len(s)
      /\ \A i \in 1..Len(s) : s[i] \in Nat /\ s[i] \in Range(s)
  BY DEF Range
<1>2. /\ t \in Seq(Nat) /\ Len(t) = Len(s) + 1 /\ DOMAIN t = 1..(Len(s) + 1)
      /\ \A i \in 1..Len(s) : t[i] = s[i]
      /\ t[Len(s) + 1] = x
  OBVIOUS
<1> HIDE DEF t
<1>3. \A i \in 1..(Len(s) + 1) : i \in 1..Len(s) \/ i = Len(s) + 1 BY <1>1
<1>4. 1..Len(s) \subseteq 1..(Len(s) + 1) /\ Len(s) + 1 \in 1..(Len(s) + 1) BY <1>1
<1>5. Range(t) = Range(s) \cup {x} BY <1>1, <1>2, <1>3, <1>4 DEF Range
<1>6. ASSUME IsInjective(s), x \notin Range(s) PROVE IsInjective(t)
  BY <1>1, <1>2, <1>3, <1>6 DEF IsInjective
<1>7. ASSUME Increasing(s), \A r \in Range(s) : r < x PROVE Increasing(t)
  <2> SUFFICES ASSUME NEW i \in 1..(Len(s) + 1), NEW j \in 1..(Len(s) + 1), i < j
               PROVE  t[i] < t[j]
    BY <1>2 DEF Increasing
  <2>1. i \in 1..Len(s) /\ t[i] = s[i] BY <1>1, <1>2
  <2>2. CASE j \in 1..Len(s) BY <1>2, <1>7, <2>1, <2>2 DEF Increasing
  <2>3. CASE j = Len(s) + 1 BY <1>1, <1>2, <1>7, <2>1, <2>3
  <2>4. QED BY <1>3, <2>2, <2>3
<1>8. QED BY <1>2, <1>5, <1>6, <1>7 DEF t

\* What taking the first record does to a queue.
LEMMA PopFacts ==
  ASSUME NEW s \in Seq(Nat), s # << >>
  PROVE  /\ Head(s) \in Nat /\ Tail(s) \in Seq(Nat)
         /\ Range(s) = {Head(s)} \cup Range(Tail(s))
         /\ IsInjective(s) => IsInjective(Tail(s)) /\ Head(s) \notin Range(Tail(s))
         /\ Increasing(s) => Increasing(Tail(s)) /\ \A r \in Range(Tail(s)) : Head(s) < r
<1> DEFINE t == Tail(s)
<1>1. /\ Len(s) \in Nat /\ Len(s) >= 1 /\ DOMAIN s = 1..Len(s)
      /\ \A i \in 1..Len(s) : s[i] \in Nat
      /\ Head(s) = s[1]
  OBVIOUS
<1>2. /\ t \in Seq(Nat) /\ Len(t) = Len(s) - 1 /\ DOMAIN t = 1..(Len(s) - 1)
      /\ \A i \in 1..(Len(s) - 1) : t[i] = s[i + 1]
  OBVIOUS
<1> HIDE DEF t
<1> DEFINE n == Len(s)
<1>3. \A i \in 1..(n - 1) : /\ i + 1 \in 1..n /\ 1 < i + 1 /\ i + 1 # 1 /\ i \in Int
  BY <1>1
<1>4. 1 \in 1..n /\ \A i \in 1..n : i = 1 \/ (i - 1 \in 1..(n - 1) /\ t[i - 1] = s[i])
  BY <1>1, <1>2
<1>5. Range(s) = {s[1]} \cup Range(t)
  <2>1. Range(s) = {s[i] : i \in 1..n} /\ Range(t) = {t[i] : i \in 1..(n - 1)}
    BY <1>1, <1>2 DEF Range
  <2> HIDE DEF n
  <2>2. QED BY <1>2, <1>3, <1>4, <2>1 DEF n
<1>6. ASSUME IsInjective(s) PROVE IsInjective(t) /\ s[1] \notin Range(t)
  <2>1. \A i, j \in 1..n : s[i] = s[j] => i = j BY <1>1, <1>6 DEF IsInjective
  <2>2. \A i, j \in 1..(n - 1) : t[i] = t[j] => i = j
    <3> TAKE i, j \in 1..(n - 1)
    <3>1. t[i] = s[i + 1] /\ t[j] = s[j + 1] /\ i + 1 \in 1..n /\ j + 1 \in 1..n
      BY <1>2, <1>3
    <3>2. s[i + 1] = s[j + 1] => i + 1 = j + 1 BY <2>1, <3>1
    <3>3. QED BY <1>3, <3>1, <3>2
  <2>3. \A i \in 1..(n - 1) : t[i] # s[1]
    <3> TAKE i \in 1..(n - 1)
    <3>1. t[i] = s[i + 1] /\ i + 1 \in 1..n /\ i + 1 # 1 BY <1>2, <1>3
    <3>2. QED BY <1>4, <2>1, <3>1
  <2>4. QED BY <1>2, <2>2, <2>3 DEF IsInjective, Range
<1>7. ASSUME Increasing(s) PROVE Increasing(t) /\ \A r \in Range(t) : s[1] < r
  <2>1. \A i, j \in 1..n : i < j => s[i] < s[j] BY <1>7 DEF Increasing
  <2>2. \A i, j \in 1..(n - 1) : i < j => t[i] < t[j]
    <3> TAKE i, j \in 1..(n - 1)
    <3>1. t[i] = s[i + 1] /\ t[j] = s[j + 1] /\ i + 1 \in 1..n /\ j + 1 \in 1..n
      BY <1>2, <1>3
    <3>2. i < j => i + 1 < j + 1 OBVIOUS
    <3>3. QED BY <2>1, <3>1, <3>2
  <2>3. \A i \in 1..(n - 1) : s[1] < t[i]
    <3> TAKE i \in 1..(n - 1)
    <3>1. t[i] = s[i + 1] /\ i + 1 \in 1..n /\ 1 < i + 1 BY <1>2, <1>3
    <3>2. QED BY <1>4, <2>1, <3>1
  <2>4. QED BY <1>2, <2>2, <2>3 DEF Increasing, Range
<1>8. QED BY <1>1, <1>2, <1>5, <1>6, <1>7 DEF t

\* The empty queue.
LEMMA EmptyFacts ==
  Range(<< >>) = {} /\ IsInjective(<< >>) /\ Increasing(<< >>) /\ << >> \in Seq(Nat)
  BY DEF Range, IsInjective, Increasing

-------------------------------------------------------------------------------
\* Client c moves to label a with record number s and flush target t.
Moved(c, a, s, t) ==
    /\ client' \in [Clients -> ClientState]
    /\ client'[c].at = a /\ client'[c].seq = s /\ client'[c].target = t
    /\ \A d \in Clients : d # c => client'[d] = client[d]

\* The client steps as moves.
LEMMA GotoMoves ==
  ASSUME LoggerTypeOK, NEW c \in Clients, NEW a \in ClientPc, Goto(c, a)
  PROVE  Moved(c, a, client[c].seq, client[c].target)
<1>1. client \in [Clients -> ClientState] BY DEF LoggerTypeOK
<1>2. client' = [client EXCEPT ![c] = [client[c] EXCEPT !.at = a]] BY DEF Goto
<1>3. client[c] \in ClientState BY <1>1
<1>4. [client[c] EXCEPT !.at = a] \in ClientState BY <1>3 DEF ClientState
<1>5. /\ [client[c] EXCEPT !.at = a].at = a
      /\ [client[c] EXCEPT !.at = a].seq = client[c].seq
      /\ [client[c] EXCEPT !.at = a].target = client[c].target
  BY <1>3 DEF ClientState
<1>6. QED BY <1>1, <1>2, <1>4, <1>5 DEF Moved

\* A caller that draws a number carries a record with it.
LEMMA DrawMoves ==
  ASSUME LoggerTypeOK, NEW c \in Clients, DrawSeq(c)
  PROVE  Moved(c, IF async THEN "push" ELSE "write", enqueued + 1, client[c].target)
<1> DEFINE new == [client[c] EXCEPT !.at = IF async THEN "push" ELSE "write",
                                    !.seq = enqueued + 1, !.left = @ - 1]
<1>1. client \in [Clients -> ClientState] /\ enqueued \in Nat BY DEF LoggerTypeOK
<1>2. client' = [client EXCEPT ![c] = new] BY DEF DrawSeq
<1>3. client[c] \in ClientState /\ client[c].left > 0 BY <1>1 DEF DrawSeq
<1>4. new \in ClientState
  <2>1. enqueued + 1 \in Nat /\ client[c].left - 1 \in Nat BY <1>1, <1>3 DEF ClientState
  <2>2. (IF async THEN "push" ELSE "write") \in ClientPc BY DEF ClientPc
  <2>3. QED BY <1>3, <2>1, <2>2 DEF ClientState
<1>5. /\ new.at = (IF async THEN "push" ELSE "write")
      /\ new.seq = enqueued + 1 /\ new.target = client[c].target
  BY <1>3 DEF ClientState
<1> HIDE DEF new
<1>6. QED BY <1>1, <1>2, <1>4, <1>5 DEF Moved

\* A flush (or vlLoggerDelete's) takes the last number drawn for its target.
LEMMA TargetMoves ==
  ASSUME LoggerTypeOK, NEW c \in Clients, FlushTarget(c) \/ (CallDelete /\ c = Owner)
  PROVE  Moved(c, IF async THEN "check" ELSE "done", client[c].seq, enqueued)
<1> DEFINE new == [client[c] EXCEPT !.target = enqueued,
                                    !.at = IF async THEN "check" ELSE "done"]
<1>1. client \in [Clients -> ClientState] /\ enqueued \in Nat BY DEF LoggerTypeOK
<1>2. client' = [client EXCEPT ![c] = new] BY <1>1 DEF FlushTarget, CallDelete
<1>3. client[c] \in ClientState BY <1>1
<1>4. new \in ClientState BY <1>1, <1>3 DEF ClientState, ClientPc
<1>5. /\ new.at = (IF async THEN "check" ELSE "done")
      /\ new.seq = client[c].seq /\ new.target = enqueued
  BY <1>3 DEF ClientState
<1> HIDE DEF new
<1>6. QED BY <1>1, <1>2, <1>4, <1>5 DEF Moved

\* A flush that ends forgets its target.
LEMMA ReturnMoves ==
  ASSUME LoggerTypeOK, NEW c \in Clients, FlushReturn(c)
  PROVE  Moved(c, IF life = "closing" /\ c = Owner THEN "stop" ELSE "idle", 0, 0)
<1> DEFINE a == IF life = "closing" /\ c = Owner THEN "stop" ELSE "idle"
           new == [client[c] EXCEPT !.at = a, !.target = 0, !.seq = 0]
<1>1. client \in [Clients -> ClientState] BY DEF LoggerTypeOK
<1>2. client' = [client EXCEPT ![c] = new] BY <1>1 DEF FlushReturn
<1>3. client[c] \in ClientState /\ a \in ClientPc BY <1>1 DEF ClientPc
<1> HIDE DEF a
<1>4. new \in ClientState BY <1>3 DEF ClientState
<1>5. new.at = a /\ new.seq = 0 /\ new.target = 0
  BY <1>3 DEF ClientState
<1> HIDE DEF new
<1>6. QED BY <1>1, <1>2, <1>4, <1>5 DEF Moved, a

\* What writing a record does to the sinks.
LEMMA WriteFacts ==
  ASSUME LoggerTypeOK, NEW r \in Nat, WriteToSinks(r)
  PROVE  /\ out' \in [1..MaxSinks -> Seq(Nat)]
         /\ \A s \in 1..MaxSinks : out'[s] = IF s <= sinks THEN Append(out[s], r) ELSE out[s]
<1>1. \A s \in 1..MaxSinks : out[s] \in Seq(Nat) BY DEF LoggerTypeOK
<1>2. \A s \in 1..MaxSinks : Append(out[s], r) \in Seq(Nat) BY <1>1, AppendFacts
<1>3. QED BY <1>1, <1>2 DEF WriteToSinks

\* Semaphores count up to a bound.
LEMMA PostFacts == \A n \in Nat : Post(n) \in Nat
  BY DEF Post

\* Clients that use the logger are clients.
LEMMA ActiveClients == LoggerTypeOK => active \subseteq Clients /\ Owner \in active
  BY OwnerIsClient DEF LoggerTypeOK

-------------------------------------------------------------------------------
\* Every step keeps the types.
LEMMA LoggerTypeStep == LoggerTypeOK /\ ModeInv /\ [LoggerNext]_logVars => LoggerTypeOK'
<1> SUFFICES ASSUME LoggerTypeOK, ModeInv, [LoggerNext]_logVars PROVE LoggerTypeOK'
  OBVIOUS
<1> USE LoggerAssumption
<1>0. active \subseteq Clients /\ Owner \in Clients BY ActiveClients
<1>1. client \in [Clients -> ClientState] BY DEF LoggerTypeOK
<1>2. ASSUME NEW c \in Clients
      PROVE  client[c].seq \in Nat /\ client[c].target \in Nat
  BY <1>1 DEF ClientState
<1>3. CASE LoggerNew
  BY <1>3 DEF LoggerNew, LoggerTypeOK, cfgVars, seqVars, semVars, histVars
<1>4. CASE LoggerAddSink
  BY <1>4 DEF LoggerAddSink, LoggerTypeOK, cfgVars, seqVars, semVars, workVars, histVars
<1>5. ASSUME NEW c \in active, DrawSeq(c) PROVE LoggerTypeOK'
  <2>1. client' \in [Clients -> ClientState] BY <1>0, <1>5, DrawMoves DEF Moved
  <2>2. QED BY <1>5, <2>1
        DEF DrawSeq, LoggerTypeOK, cfgVars, seqVars, semVars, sinkVars, workVars, histVars
<1>6. ASSUME NEW c \in active, FlushTarget(c) PROVE LoggerTypeOK'
  <2>1. client' \in [Clients -> ClientState]
    <3>1. c \in Clients /\ (FlushTarget(c) \/ (CallDelete /\ c = Owner)) BY <1>0, <1>6
    <3>2. Moved(c, IF async THEN "check" ELSE "done", client[c].seq, enqueued)
      BY <3>1, TargetMoves
    <3>3. QED BY <3>2 DEF Moved
  <2>2. wanted' \in [Clients -> SUBSET Nat] BY <1>6 DEF FlushTarget, LoggerTypeOK
  <2>3. QED BY <1>6, <2>1, <2>2
        DEF FlushTarget, LoggerTypeOK, cfgVars, seqVars, semVars, sinkVars, workVars
<1>7. ASSUME NEW c \in active, ClientStep(c) PROVE LoggerTypeOK'
  <2>1. ASSUME NEW a \in ClientPc, Goto(c, a) PROVE client' \in [Clients -> ClientState]
    BY <1>0, <2>1, GotoMoves DEF Moved
  <2>2. CASE Push(c)
    <3>1. client' \in [Clients -> ClientState] BY <2>1, <2>2 DEF Push, ClientPc
    <3>2. queue' \in Seq(Nat) BY <1>0, <1>2, <2>2, AppendFacts DEF Push, LoggerTypeOK
    <3>3. QED BY <2>2, <3>1, <3>2
          DEF Push, LoggerTypeOK, cfgVars, seqVars, semVars, sinkVars, workVars, histVars
  <2>3. CASE PostItem(c)
    <3>1. client' \in [Clients -> ClientState] BY <2>1, <2>3 DEF PostItem, ClientPc
    <3>2. returned' \in SUBSET Nat BY <1>0, <1>2, <2>3 DEF PostItem, LoggerTypeOK
    <3>3. items' \in Nat BY <2>3, PostFacts DEF PostItem, LoggerTypeOK
    <3>4. QED BY <2>3, <3>1, <3>2, <3>3
          DEF PostItem, LoggerTypeOK, cfgVars, seqVars, sinkVars, workVars
  <2>4. CASE SyncWrite(c)
    <3>1. client' \in [Clients -> ClientState] BY <2>1, <2>4 DEF SyncWrite, ClientPc
    <3>2. out' \in [1..MaxSinks -> Seq(Nat)]
      BY <1>0, <1>2, <2>4, WriteFacts DEF SyncWrite
    <3>3. QED BY <2>4, <3>1, <3>2
          DEF SyncWrite, LoggerTypeOK, cfgVars, seqVars, semVars, workVars, histVars
  <2>5. CASE SyncStore(c)
    <3>1. client' \in [Clients -> ClientState] BY <2>1, <2>5 DEF SyncStore, ClientPc
    <3>2. returned' \in SUBSET Nat /\ processed' \in Nat
      BY <1>0, <1>2, <2>5 DEF SyncStore, LoggerTypeOK
    <3>3. QED BY <2>5, <3>1, <3>2
          DEF SyncStore, LoggerTypeOK, cfgVars, semVars, sinkVars, workVars
  <2>6. CASE FlushCheck(c)
    <3>1. client' \in [Clients -> ClientState] BY <2>1, <2>6 DEF FlushCheck, ClientPc
    <3>2. items' \in Nat BY <2>6, PostFacts DEF FlushCheck, LoggerTypeOK
    <3>3. QED BY <2>6, <3>1, <3>2
          DEF FlushCheck, LoggerTypeOK, cfgVars, seqVars, sinkVars, workVars, histVars
  <2>7. CASE FlushLoop(c)
    <3>1. (IF processed >= client[c].target THEN "done" ELSE "await") \in ClientPc
      BY DEF ClientPc
    <3>2. client' \in [Clients -> ClientState] BY <2>1, <2>7, <3>1 DEF FlushLoop
    <3>3. QED BY <2>7, <3>2
          DEF FlushLoop, LoggerTypeOK, cfgVars, seqVars, semVars, sinkVars, workVars, histVars
  <2>8. CASE FlushAwait(c)
    <3>1. client' \in [Clients -> ClientState] BY <2>1, <2>8 DEF FlushAwait, ClientPc
    <3>2. flushed' \in Nat BY <2>8 DEF FlushAwait, LoggerTypeOK
    <3>3. QED BY <2>8, <3>1, <3>2
          DEF FlushAwait, LoggerTypeOK, cfgVars, seqVars, sinkVars, workVars, histVars
  <2>9. CASE FlushReturn(c)
    <3>1. client' \in [Clients -> ClientState] BY <1>0, <2>9, ReturnMoves DEF Moved
    <3>2. wanted' \in [Clients -> SUBSET Nat] BY <2>9 DEF FlushReturn, LoggerTypeOK
    <3>3. QED BY <2>9, <3>1, <3>2
          DEF FlushReturn, LoggerTypeOK, cfgVars, seqVars, semVars, sinkVars, workVars
  <2>10. QED BY <1>7, <2>2, <2>3, <2>4, <2>5, <2>6, <2>7, <2>8, <2>9 DEF ClientStep
<1>8. CASE Worker
  <2> USE DEF LoggerTypeOK, cfgVars, seqVars, semVars, sinkVars, workVars, histVars
  <2>1. CASE WorkerWait BY <2>1 DEF WorkerWait
  <2>2. CASE WorkerPop
    <3>1. queue' \in Seq(Nat) /\ record' \in Nat
      <4>1. CASE queue = << >> BY <2>2, <4>1 DEF WorkerPop
      <4>2. CASE queue # << >>
        <5>1. Head(queue) \in Nat /\ Tail(queue) \in Seq(Nat) BY <4>2, PopFacts
        <5>2. record' = Head(queue) /\ queue' = Tail(queue) BY <2>2, <4>2 DEF WorkerPop
        <5>3. QED BY <5>1, <5>2
      <4>3. QED BY <4>1, <4>2
    <3>2. QED BY <2>2, <3>1 DEF WorkerPop
  <2>3. CASE WorkerWrite
    <3>1. out' \in [1..MaxSinks -> Seq(Nat)] BY <2>3, WriteFacts DEF WorkerWrite
    <3>2. QED BY <2>3, <3>1 DEF WorkerWrite
  <2>4. CASE WorkerStore BY <2>4 DEF WorkerStore
  <2>5. CASE WorkerPost BY <2>5, PostFacts DEF WorkerPost
  <2>6. CASE WorkerLeave BY <2>6, PostFacts DEF WorkerLeave
  <2>7. QED BY <1>8, <2>1, <2>2, <2>3, <2>4, <2>5, <2>6 DEF Worker
<1>9. CASE CallDelete
  <2>1. client' \in [Clients -> ClientState] BY <1>0, <1>9, TargetMoves DEF Moved
  <2>2. wanted' \in [Clients -> SUBSET Nat] BY <1>0, <1>9 DEF CallDelete, LoggerTypeOK
  <2>3. QED BY <1>9, <2>1, <2>2
        DEF CallDelete, LoggerTypeOK, cfgVars, seqVars, semVars, sinkVars, workVars
<1>10. CASE DeleteStop
  <2>1. client' \in [Clients -> ClientState]
    BY <1>0, <1>10, GotoMoves DEF Moved, DeleteStop, ClientPc
  <2>2. items' \in Nat BY <1>10, PostFacts DEF DeleteStop, LoggerTypeOK
  <2>3. QED BY <1>10, <2>1, <2>2
        DEF DeleteStop, LoggerTypeOK, cfgVars, seqVars, sinkVars, workVars, histVars
<1>11. CASE DeleteJoin
  <2>1. client' \in [Clients -> ClientState]
    BY <1>0, <1>11, GotoMoves DEF Moved, DeleteJoin, ClientPc
  <2>2. QED BY <1>11, <2>1
        DEF DeleteJoin, LoggerTypeOK, cfgVars, seqVars, semVars, sinkVars, workVars, histVars
<1>12. CASE UNCHANGED logVars
  BY <1>12 DEF LoggerTypeOK, logVars, cfgVars, seqVars, semVars, sinkVars, workVars, histVars
<1>13. QED BY <1>3, <1>4, <1>5, <1>6, <1>7, <1>8, <1>9, <1>10, <1>11, <1>12 DEF LoggerNext

-------------------------------------------------------------------------------
\* A client that moves while the logger's life goes on as it was.
LEMMA ClientModeMoves ==
  ASSUME \A d \in Clients : ClientMode(d, client[d].at),
         NEW c \in Clients, NEW a, NEW s, NEW t, Moved(c, a, s, t),
         UNCHANGED <<active, async, life>>, ClientMode(c, a)
  PROVE  \A d \in Clients : ClientMode(d, client[d].at)'
  BY DEF Moved, ClientMode

\* Every step keeps clients and worker where the mode and the life of the logger
\* allow them.
LEMMA LoggerModeStep ==
  LoggerTypeOK /\ ModeInv /\ [LoggerNext]_logVars => ModeInv'
<1> SUFFICES ASSUME LoggerTypeOK, ModeInv, [LoggerNext]_logVars PROVE ModeInv'
  OBVIOUS
<1>0. active \subseteq Clients /\ Owner \in Clients /\ Owner \in active
  BY ActiveClients DEF LoggerTypeOK
<1>1. (\A d \in Clients : ClientMode(d, client[d].at)) /\ WorkerMode BY DEF ModeInv
<1>a. ASSUME NEW c \in Clients, NEW a \in ClientPc, Goto(c, a),
             UNCHANGED <<active, async, life>>, ClientMode(c, a), WorkerMode'
      PROVE  ModeInv'
  <2>1. Moved(c, a, client[c].seq, client[c].target) BY <1>a, GotoMoves
  <2>2. \A d \in Clients : ClientMode(d, client[d].at)' BY <1>1, <1>a, <2>1, ClientModeMoves
  <2>3. QED BY <1>a, <2>2 DEF ModeInv
<1>b. ASSUME UNCHANGED <<active, async, life, client>>, WorkerMode'
      PROVE  ModeInv'
  BY <1>1, <1>b DEF ModeInv, ClientMode
<1>c. ASSUME life' = life, async' = async, running' = running, worker' = worker,
             sinks' = sinks, life # "new" \/ out' = out,
             queue' = queue \/ (async /\ worker # "gone")
      PROVE  WorkerMode'
  BY <1>1, <1>c DEF WorkerMode
<1> USE DEF cfgVars, seqVars, semVars, sinkVars, workVars, histVars
<1>3. CASE LoggerNew
  <2>1. \A d \in Clients : ClientMode(d, client[d].at)'
    BY <1>1, <1>3 DEF LoggerNew, ClientMode
  <2>2. WorkerMode' BY <1>1, <1>3 DEF LoggerNew, WorkerMode
  <2>3. QED BY <2>1, <2>2 DEF ModeInv
<1>4. CASE LoggerAddSink
  <2>1. sinks >= 1 /\ sinks \in Nat BY <1>1, <1>4, LoggerAssumption
    DEF LoggerAddSink, WorkerMode, LoggerTypeOK
  <2>2. WorkerMode' BY <1>1, <1>4, <2>1 DEF LoggerAddSink, WorkerMode
  <2>3. QED BY <1>b, <1>4, <2>2 DEF LoggerAddSink
<1>5. ASSUME NEW c \in active, DrawSeq(c) PROVE ModeInv'
  <2>1. Moved(c, IF async THEN "push" ELSE "write", enqueued + 1, client[c].target)
    BY <1>0, <1>5, DrawMoves
  <2>2. ClientMode(c, IF async THEN "push" ELSE "write") BY <1>5 DEF DrawSeq, ClientMode
  <2>3. WorkerMode' BY <1>c, <1>5 DEF DrawSeq
  <2>4. UNCHANGED <<active, async, life>> BY <1>5 DEF DrawSeq
  <2>5. QED BY <1>0, <1>1, <2>1, <2>2, <2>3, <2>4, ClientModeMoves DEF ModeInv
<1>6. ASSUME NEW c \in active, FlushTarget(c) PROVE ModeInv'
  <2>1. Moved(c, IF async THEN "check" ELSE "done", client[c].seq, enqueued)
    <3>1. c \in Clients /\ (FlushTarget(c) \/ (CallDelete /\ c = Owner)) BY <1>0, <1>6
    <3>2. QED BY <3>1, TargetMoves
  <2>2. ClientMode(c, IF async THEN "check" ELSE "done")
    BY <1>6 DEF FlushTarget, ClientMode
  <2>3. WorkerMode' BY <1>c, <1>6 DEF FlushTarget
  <2>4. UNCHANGED <<active, async, life>> BY <1>6 DEF FlushTarget
  <2>5. QED BY <1>0, <1>1, <2>1, <2>2, <2>3, <2>4, ClientModeMoves DEF ModeInv
<1>7. ASSUME NEW c \in active, ClientStep(c) PROVE ModeInv'
  <2>0. c \in Clients /\ ClientMode(c, client[c].at) BY <1>0, <1>1
  <2>1. life = "new" => client[c].at = "idle" BY <2>0 DEF ClientMode
  <2>2. CASE Push(c)
    <3>1. async /\ life = "open" BY <2>0, <2>2 DEF Push, At, ClientMode
    <3>2. ClientMode(c, "post") /\ "post" \in ClientPc BY <3>1, <1>7 DEF ClientMode, ClientPc
    <3>3. worker # "gone" BY <1>1, <3>1 DEF WorkerMode
    <3>4. WorkerMode' BY <1>c, <2>2, <3>1, <3>3 DEF Push
    <3>5. QED BY <1>a, <2>0, <2>2, <3>2, <3>4 DEF Push
  <2>3. CASE PostItem(c)
    <3>1. ClientMode(c, "idle") /\ "idle" \in ClientPc
      BY <2>0 DEF ClientMode, ClientPc
    <3>2. WorkerMode' BY <1>c, <2>3 DEF PostItem
    <3>3. QED BY <1>a, <2>0, <2>3, <3>1, <3>2 DEF PostItem
  <2>4. CASE SyncWrite(c)
    <3>1. ~async /\ life = "open" BY <2>0, <2>4 DEF SyncWrite, At, ClientMode
    <3>2. ClientMode(c, "store") /\ "store" \in ClientPc
      BY <1>7, <3>1 DEF ClientMode, ClientPc
    <3>3. WorkerMode' BY <1>c, <2>4, <3>1 DEF SyncWrite
    <3>4. QED BY <1>a, <2>0, <2>4, <3>2, <3>3 DEF SyncWrite
  <2>5. CASE SyncStore(c)
    <3>1. ClientMode(c, "idle") /\ "idle" \in ClientPc
      BY <2>0 DEF ClientMode, ClientPc
    <3>2. WorkerMode' BY <1>c, <2>5 DEF SyncStore
    <3>3. QED BY <1>a, <2>0, <2>5, <3>1, <3>2 DEF SyncStore
  <2>6. CASE FlushCheck(c)
    <3>1. \A a \in {"done", "loop"} : ClientMode(c, a) /\ a \in ClientPc
      BY <1>7, <2>0, <2>6 DEF FlushCheck, At, ClientMode, ClientPc
    <3>2. WorkerMode' BY <1>c, <2>6 DEF FlushCheck
    <3>3. PICK a \in {"done", "loop"} : Goto(c, a) BY <2>6 DEF FlushCheck
    <3>4. QED BY <1>a, <2>0, <2>6, <3>1, <3>2, <3>3 DEF FlushCheck
  <2>7. CASE FlushLoop(c)
    <3>1. \A a \in {"done", "await"} : ClientMode(c, a) /\ a \in ClientPc
      BY <1>7, <2>0, <2>7 DEF FlushLoop, At, ClientMode, ClientPc
    <3>2. WorkerMode' BY <1>c, <2>7 DEF FlushLoop
    <3>3. PICK a \in {"done", "await"} : Goto(c, a) BY <2>7 DEF FlushLoop
    <3>4. QED BY <1>a, <2>0, <2>7, <3>1, <3>2, <3>3 DEF FlushLoop
  <2>8. CASE FlushAwait(c)
    <3>1. ClientMode(c, "loop") /\ "loop" \in ClientPc
      BY <1>7, <2>0, <2>8 DEF FlushAwait, At, ClientMode, ClientPc
    <3>2. WorkerMode' BY <1>c, <2>8 DEF FlushAwait
    <3>3. QED BY <1>a, <2>0, <2>8, <3>1, <3>2 DEF FlushAwait
  <2>9. CASE FlushReturn(c)
    <3>1. Moved(c, IF life = "closing" /\ c = Owner THEN "stop" ELSE "idle", 0, 0)
      BY <2>0, <2>9, ReturnMoves
    <3>2. ClientMode(c, IF life = "closing" /\ c = Owner THEN "stop" ELSE "idle")
      BY <1>7 DEF ClientMode
    <3>3. WorkerMode' BY <1>c, <2>9 DEF FlushReturn
    <3>4. UNCHANGED <<active, async, life>> BY <2>9 DEF FlushReturn
    <3>5. QED BY <1>1, <2>0, <3>1, <3>2, <3>3, <3>4, ClientModeMoves DEF ModeInv
  <2>10. QED BY <1>7, <2>2, <2>3, <2>4, <2>5, <2>6, <2>7, <2>8, <2>9 DEF ClientStep
<1>8. CASE Worker
  <2>1. WorkerMode'
    <3>1. CASE WorkerWait BY <1>1, <3>1 DEF WorkerWait, WorkerMode
    <3>2. CASE WorkerPop BY <1>1, <3>2 DEF WorkerPop, WorkerMode
    <3>3. CASE WorkerWrite BY <1>1, <3>3 DEF WorkerWrite, WorkerMode
    <3>4. CASE WorkerStore BY <1>1, <3>4 DEF WorkerStore, WorkerMode
    <3>5. CASE WorkerPost BY <1>1, <3>5 DEF WorkerPost, WorkerMode
    <3>6. CASE WorkerLeave
      <4>1. life # "new" /\ async /\ (life = "open" => running) /\ life # "closed"
        BY <1>1, <3>6 DEF WorkerLeave, WorkerMode
      <4>2. life \in {"new", "open", "closing", "closed"} BY DEF LoggerTypeOK
      <4>3. QED BY <1>1, <3>6, <4>1, <4>2 DEF WorkerLeave, WorkerMode
    <3>7. QED BY <1>8, <3>1, <3>2, <3>3, <3>4, <3>5, <3>6 DEF Worker
  <2>2. UNCHANGED <<active, async, life, client>>
    BY <1>8 DEF Worker, WorkerWait, WorkerPop, WorkerWrite, WorkerStore, WorkerPost, WorkerLeave
  <2>3. QED BY <1>b, <2>1, <2>2
<1>9. CASE CallDelete
  <2>0. \A d \in Clients : client[d].at = "idle"
    BY <1>0, <1>1, <1>9 DEF CallDelete, At, ClientMode
  <2>1. Moved(Owner, IF async THEN "check" ELSE "done", client[Owner].seq, enqueued)
    BY <1>0, <1>9, TargetMoves
  <2>2. \A d \in Clients : ClientMode(d, client[d].at)'
    BY <1>0, <1>9, <2>0, <2>1 DEF CallDelete, ClientMode, Moved
  <2>3. WorkerMode' BY <1>1, <1>9 DEF CallDelete, WorkerMode
  <2>4. QED BY <2>2, <2>3 DEF ModeInv
<1>10. CASE DeleteStop
  <2>1. life = "closing" BY <1>0, <1>1, <1>10 DEF DeleteStop, At, ClientMode
  <2>2. ClientMode(Owner, "join") /\ "join" \in ClientPc
    BY <1>0, <2>1 DEF ClientMode, ClientPc
  <2>3. WorkerMode' BY <1>1, <1>10, <2>1 DEF DeleteStop, WorkerMode
  <2>4. QED BY <1>a, <1>0, <1>10, <2>2, <2>3 DEF DeleteStop
<1>11. CASE DeleteJoin
  <2>1. life = "closing" BY <1>0, <1>1, <1>11 DEF DeleteJoin, At, ClientMode
  <2>2. Moved(Owner, "gone", client[Owner].seq, client[Owner].target)
    BY <1>0, <1>11, GotoMoves DEF DeleteJoin, ClientPc
  <2>3. \A d \in Clients : ClientMode(d, client[d].at)'
    BY <1>0, <1>1, <1>11, <2>1, <2>2 DEF DeleteJoin, ClientMode, Moved
  <2>4. WorkerMode' BY <1>1, <1>11, <2>1 DEF DeleteJoin, WorkerMode
  <2>5. QED BY <2>3, <2>4 DEF ModeInv
<1>12. CASE UNCHANGED logVars
  BY <1>1, <1>12 DEF ModeInv, ClientMode, WorkerMode, logVars
<1>13. QED BY <1>3, <1>4, <1>5, <1>6, <1>7, <1>8, <1>9, <1>10, <1>11, <1>12 DEF LoggerNext

-------------------------------------------------------------------------------
\* A step that moves no record.
NoFlow ==
    /\ enqueued' = enqueued /\ queue' = queue /\ out' = out /\ InWork' = InWork
    /\ \A d \in Clients : /\ Carries(d)' <=> Carries(d)
                          /\ Carries(d) => client'[d].seq = client[d].seq

\* A caller that moves without a record leaves the carried records alone.
LEMMA NoFlowMoves ==
  ASSUME NEW c \in Clients, NEW a, NEW s, NEW t, Moved(c, a, s, t),
         ~Carries(c), a \notin {"push", "write"}
  PROVE  \A d \in Clients : /\ Carries(d)' <=> Carries(d)
                            /\ Carries(d) => client'[d].seq = client[d].seq
  BY DEF Moved, Carries

\* Five steps move a record, the others none.
LEMMA FlowCases ==
  LoggerTypeOK /\ ModeInv /\ [LoggerNext]_logVars =>
    \/ NoFlow
    \/ \E c \in Clients : DrawSeq(c) \/ Push(c) \/ SyncWrite(c)
    \/ WorkerPop /\ queue # << >>
    \/ WorkerWrite
<1> SUFFICES ASSUME LoggerTypeOK, ModeInv, [LoggerNext]_logVars,
                    ~ \E c \in Clients : DrawSeq(c) \/ Push(c) \/ SyncWrite(c),
                    ~ (WorkerPop /\ queue # << >>), ~ WorkerWrite
             PROVE  NoFlow
  OBVIOUS
<1>0. active \subseteq Clients /\ Owner \in Clients /\ Owner \in active
  BY ActiveClients DEF LoggerTypeOK
<1>1. \A d \in Clients : ClientMode(d, client[d].at) BY DEF ModeInv
<1>a. ASSUME NEW c \in Clients, NEW a \in ClientPc, Goto(c, a), ~Carries(c),
             a \notin {"push", "write"},
             enqueued' = enqueued, queue' = queue, out' = out,
             worker' = worker, record' = record
      PROVE  NoFlow
  <2>1. Moved(c, a, client[c].seq, client[c].target) BY <1>a, GotoMoves
  <2>2. QED BY <1>a, <2>1, NoFlowMoves DEF NoFlow, InWork
<1>b. ASSUME enqueued' = enqueued, queue' = queue, out' = out, client' = client,
             InWork' = InWork
      PROVE  NoFlow
  BY <1>b DEF NoFlow, Carries
<1> USE DEF cfgVars, seqVars, semVars, sinkVars, workVars, histVars
<1>3. CASE LoggerNew
  <2>1. worker = "none" /\ worker' \in {"wait", "none"}
    BY <1>3 DEF LoggerNew, ModeInv, WorkerMode
  <2>2. InWork' = InWork BY <2>1 DEF InWork
  <2>3. QED BY <1>b, <1>3, <2>2 DEF LoggerNew
<1>4. CASE LoggerAddSink BY <1>b, <1>4 DEF LoggerAddSink, InWork
<1>6. ASSUME NEW c \in active, FlushTarget(c) PROVE NoFlow
  <2>1. Moved(c, IF async THEN "check" ELSE "done", client[c].seq, enqueued)
    <3>1. c \in Clients /\ (FlushTarget(c) \/ (CallDelete /\ c = Owner)) BY <1>0, <1>6
    <3>2. QED BY <3>1, TargetMoves
  <2>2. ~Carries(c) BY <1>6 DEF FlushTarget, At, Carries
  <2>3. \A d \in Clients : /\ Carries(d)' <=> Carries(d)
                           /\ Carries(d) => client'[d].seq = client[d].seq
    <3>1. c \in Clients /\ (IF async THEN "check" ELSE "done") \notin {"push", "write"}
      BY <1>0
    <3>2. QED BY <2>1, <2>2, <3>1, NoFlowMoves
  <2>4. QED BY <1>6, <2>3 DEF FlushTarget, NoFlow, InWork
<1>7. ASSUME NEW c \in active, ClientStep(c) PROVE NoFlow
  <2>0. c \in Clients BY <1>0
  <2> USE DEF At, Carries, ClientPc
  <2>3. CASE PostItem(c) BY <1>a, <2>0, <2>3 DEF PostItem
  <2>5. CASE SyncStore(c) BY <1>a, <2>0, <2>5 DEF SyncStore
  <2>6. CASE FlushCheck(c)
    <3>1. PICK a \in {"done", "loop"} : Goto(c, a) BY <2>6 DEF FlushCheck
    <3>2. QED BY <1>a, <2>0, <2>6, <3>1 DEF FlushCheck
  <2>7. CASE FlushLoop(c)
    <3>1. PICK a \in {"done", "await"} : Goto(c, a) BY <2>7 DEF FlushLoop
    <3>2. QED BY <1>a, <2>0, <2>7, <3>1 DEF FlushLoop
  <2>8. CASE FlushAwait(c) BY <1>a, <2>0, <2>8 DEF FlushAwait
  <2>9. CASE FlushReturn(c)
    <3>1. Moved(c, IF life = "closing" /\ c = Owner THEN "stop" ELSE "idle", 0, 0)
      BY <2>0, <2>9, ReturnMoves
    <3>2. ~Carries(c) BY <2>9 DEF FlushReturn
    <3>3. \A d \in Clients : /\ Carries(d)' <=> Carries(d)
                             /\ Carries(d) => client'[d].seq = client[d].seq
      <4>1. (IF life = "closing" /\ c = Owner THEN "stop" ELSE "idle")
               \notin {"push", "write"}
        OBVIOUS
      <4>2. QED BY <2>0, <3>1, <3>2, <4>1, NoFlowMoves
    <3>4. QED BY <2>9, <3>3 DEF FlushReturn, NoFlow, InWork
  <2>10. QED BY <1>7, <2>0, <2>3, <2>5, <2>6, <2>7, <2>8, <2>9 DEF ClientStep
<1>8. CASE Worker
  <2>1. CASE WorkerWait BY <1>b, <2>1 DEF WorkerWait, InWork
  <2>2. CASE WorkerPop
    <3>1. queue = << >> /\ queue' = queue BY <2>2 DEF WorkerPop
    <3>2. QED BY <1>b, <2>2, <3>1 DEF WorkerPop, InWork
  <2>4. CASE WorkerStore BY <1>b, <2>4 DEF WorkerStore, InWork
  <2>5. CASE WorkerPost BY <1>b, <2>5 DEF WorkerPost, InWork
  <2>6. CASE WorkerLeave BY <1>b, <2>6 DEF WorkerLeave, InWork
  <2>7. QED BY <1>8, <2>1, <2>2, <2>4, <2>5, <2>6 DEF Worker
<1>9. CASE CallDelete
  <2>1. Moved(Owner, IF async THEN "check" ELSE "done", client[Owner].seq, enqueued)
    BY <1>0, <1>9, TargetMoves
  <2>2. ~Carries(Owner) BY <1>0, <1>9 DEF CallDelete, At, Carries
  <2>3. \A d \in Clients : /\ Carries(d)' <=> Carries(d)
                           /\ Carries(d) => client'[d].seq = client[d].seq
    <3>1. (IF async THEN "check" ELSE "done") \notin {"push", "write"} OBVIOUS
    <3>2. QED BY <1>0, <2>1, <2>2, <3>1, NoFlowMoves
  <2>4. QED BY <1>9, <2>3 DEF CallDelete, NoFlow, InWork
<1>10. CASE DeleteStop BY <1>a, <1>0, <1>10 DEF DeleteStop, At, Carries, ClientPc
<1>11. CASE DeleteJoin BY <1>a, <1>0, <1>11 DEF DeleteJoin, At, Carries, ClientPc
<1>12. CASE UNCHANGED logVars BY <1>b, <1>12 DEF logVars, InWork
<1>13. QED
  BY <1>0, <1>3, <1>4, <1>6, <1>7, <1>8, <1>9, <1>10, <1>11, <1>12 DEF LoggerNext

\* What each of these steps does to the records on their way.
LEMMA NoFlowFacts ==
  ASSUME NoFlow
  PROVE  /\ Written(1)' = Written(1) /\ Queued' = Queued
         /\ InWork' = InWork /\ Carried' = Carried
  BY DEF NoFlow, Written, Queued, Carried

\* A drawn number is a record its caller carries.
LEMMA DrawFlow ==
  ASSUME LoggerTypeOK, NEW c \in Clients, DrawSeq(c)
  PROVE  /\ enqueued' = enqueued + 1 /\ queue' = queue /\ out' = out /\ active' = active
         /\ InWork' = InWork
         /\ Carried' = Carried \cup {enqueued + 1}
         /\ ~Carries(c) /\ Carries(c)' /\ client'[c].seq = enqueued + 1
         /\ \A d \in Clients : d # c => client'[d] = client[d]
<1>1. Moved(c, IF async THEN "push" ELSE "write", enqueued + 1, client[c].target)
  BY DrawMoves
<1>2. ~Carries(c) BY DEF DrawSeq, At, Carries
<1>3. Carries(c)' BY <1>1 DEF Moved, Carries
<1>4. client'[c].seq = enqueued + 1 /\ \A d \in Clients : d # c => client'[d] = client[d]
  BY <1>1 DEF Moved
<1>5. Carried' = Carried \cup {enqueued + 1} BY <1>2, <1>3, <1>4 DEF Carried, Carries
<1>6. QED BY <1>2, <1>3, <1>4, <1>5
      DEF DrawSeq, InWork, cfgVars, sinkVars, workVars

\* A client that hands its record over.
LEMMA HandOver ==
  ASSUME LoggerTypeOK, UniqueInv, NEW c \in Clients, Carries(c),
         NEW a \in ClientPc, a \notin {"push", "write"}, Goto(c, a)
  PROVE  /\ client[c].seq \in Carried
         /\ Carried' = Carried \ {client[c].seq}
         /\ \A d \in Clients : Carries(d)' => Carries(d) /\ client'[d].seq = client[d].seq
<1>1. Moved(c, a, client[c].seq, client[c].target) BY GotoMoves
<1>2. ~Carries(c)' BY <1>1 DEF Moved, Carries
<1>3. \A d \in Clients : d # c => client'[d] = client[d] BY <1>1 DEF Moved
<1>4. \A d \in Clients : Carries(d) /\ client[d].seq = client[c].seq => d = c
  BY DEF UniqueInv
<1>5. QED BY <1>2, <1>3, <1>4 DEF Carried, Carries

\* A pushed record goes from its caller to the queue.
LEMMA PushFlow ==
  ASSUME LoggerTypeOK, UniqueInv, NEW c \in Clients, Push(c)
  PROVE  /\ enqueued' = enqueued /\ out' = out /\ InWork' = InWork /\ active' = active
         /\ client[c].seq \in Carried /\ client[c].seq \in Nat
         /\ Carried' = Carried \ {client[c].seq}
         /\ \A d \in Clients : Carries(d)' => Carries(d) /\ client'[d].seq = client[d].seq
         /\ queue' = Append(queue, client[c].seq)
         /\ Queued' = Queued \cup {client[c].seq}
<1>1. client[c].seq \in Nat /\ queue \in Seq(Nat) BY DEF LoggerTypeOK, ClientState
<1>2. Carries(c) /\ Goto(c, "post") /\ "post" \in ClientPc
  BY DEF Push, At, Carries, ClientPc
<1>3. queue' = Append(queue, client[c].seq) BY DEF Push
<1>4. Queued' = Queued \cup {client[c].seq} BY <1>1, <1>3, AppendFacts DEF Queued
<1>5. QED BY <1>1, <1>2, <1>3, <1>4, HandOver
      DEF Push, InWork, cfgVars, seqVars, sinkVars, workVars

\* There is a first sink, and what it received is a sequence of numbers.
LEMMA OutFirst == LoggerTypeOK => 1 \in 1..MaxSinks /\ out[1] \in Seq(Nat)
  BY LoggerAssumption DEF LoggerTypeOK

\* A record written by its caller goes from it to the first sink.
LEMMA SyncWriteFlow ==
  ASSUME LoggerTypeOK, ModeInv, UniqueInv, NEW c \in Clients, SyncWrite(c)
  PROVE  /\ enqueued' = enqueued /\ queue' = queue /\ InWork' = InWork /\ active' = active
         /\ client[c].seq \in Carried /\ client[c].seq \in Nat
         /\ Carried' = Carried \ {client[c].seq}
         /\ \A d \in Clients : Carries(d)' => Carries(d) /\ client'[d].seq = client[d].seq
         /\ out'[1] = Append(out[1], client[c].seq)
         /\ Written(1)' = Written(1) \cup {client[c].seq}
<1>1. client[c].seq \in Nat BY DEF LoggerTypeOK, ClientState
<1>2. Carries(c) /\ Goto(c, "store") /\ "store" \in ClientPc
  BY DEF SyncWrite, At, Carries, ClientPc
<1>3. sinks >= 1 /\ sinks \in Nat
  BY LoggerAssumption DEF SyncWrite, At, ModeInv, WorkerMode, ClientMode, LoggerTypeOK
<1>4. out'[1] = Append(out[1], client[c].seq)
  <2>1. WriteToSinks(client[c].seq) BY DEF SyncWrite
  <2>2. \A s \in 1..MaxSinks :
          out'[s] = IF s <= sinks THEN Append(out[s], client[c].seq) ELSE out[s]
    BY <1>1, <2>1, WriteFacts
  <2>3. QED BY <1>3, <2>2, OutFirst
<1>5. Written(1)' = Written(1) \cup {client[c].seq}
  BY <1>1, <1>4, OutFirst, AppendFacts DEF Written
<1>6. QED BY <1>1, <1>2, <1>4, <1>5, HandOver
      DEF SyncWrite, InWork, cfgVars, seqVars, workVars

\* A popped record goes from the queue to the worker.
LEMMA PopFlow ==
  ASSUME LoggerTypeOK, WorkerPop, queue # << >>
  PROVE  /\ enqueued' = enqueued /\ out' = out /\ client' = client /\ active' = active
         /\ InWork = {} /\ InWork' = {Head(queue)} /\ Head(queue) \in Queued
         /\ queue' = Tail(queue) /\ Queued = {Head(queue)} \cup Queued'
<1>1. queue \in Seq(Nat) BY DEF LoggerTypeOK
<1>2. Range(queue) = {Head(queue)} \cup Range(Tail(queue)) BY <1>1, PopFacts
<1>3. queue' = Tail(queue) BY DEF WorkerPop
<1>4. Queued = {Head(queue)} \cup Queued' BY <1>2, <1>3 DEF Queued
<1>5. QED BY <1>3, <1>4
      DEF WorkerPop, InWork, cfgVars, seqVars, sinkVars

\* A record the worker writes goes from it to the first sink.
LEMMA WorkerWriteFlow ==
  ASSUME LoggerTypeOK, ModeInv, WorkerWrite
  PROVE  /\ enqueued' = enqueued /\ queue' = queue /\ client' = client /\ active' = active
         /\ InWork = {record} /\ InWork' = {} /\ record \in Nat
         /\ out'[1] = Append(out[1], record)
         /\ Written(1)' = Written(1) \cup {record}
<1>1. record \in Nat BY DEF LoggerTypeOK
<1>2. sinks >= 1 /\ sinks \in Nat
  BY LoggerAssumption DEF WorkerWrite, ModeInv, WorkerMode, LoggerTypeOK
<1>3. out'[1] = Append(out[1], record)
  <2>1. WriteToSinks(record) BY DEF WorkerWrite
  <2>2. \A s \in 1..MaxSinks : out'[s] = IF s <= sinks THEN Append(out[s], record) ELSE out[s]
    BY <1>1, <2>1, WriteFacts
  <2>3. QED BY <1>2, <2>2, OutFirst
<1>4. Written(1)' = Written(1) \cup {record}
  BY <1>1, <1>3, OutFirst, AppendFacts DEF Written
<1>5. QED BY <1>1, <1>3, <1>4
      DEF WorkerWrite, InWork, cfgVars, seqVars

-------------------------------------------------------------------------------
\* Every step keeps each record in one place.
LEMMA LoggerUniqueStep ==
  LoggerTypeOK /\ ModeInv /\ UniqueInv /\ [LoggerNext]_logVars => UniqueInv'
<1> SUFFICES ASSUME LoggerTypeOK, ModeInv, UniqueInv, [LoggerNext]_logVars
             PROVE  UniqueInv'
  OBVIOUS
<1> DEFINE Here == Written(1) \cup InWork \cup Queued \cup Carried
<1>0. /\ out[1] \in Seq(Nat) /\ queue \in Seq(Nat) /\ enqueued \in Nat
      /\ Here \subseteq 1..enqueued
  BY OutFirst DEF LoggerTypeOK, UniqueInv
<1>1. CASE NoFlow
  <2>1. \A c, d \in Clients :
          Carries(c)' /\ Carries(d)' /\ client'[c].seq = client'[d].seq => c = d
    BY <1>1 DEF NoFlow, UniqueInv
  <2>2. /\ Written(1)' = Written(1) /\ Queued' = Queued
        /\ InWork' = InWork /\ Carried' = Carried
    BY <1>1, NoFlowFacts
  <2>3. IsInjective(queue)' /\ IsInjective(out[1])' BY <1>1 DEF NoFlow, UniqueInv
  <2>4. enqueued' = enqueued BY <1>1 DEF NoFlow
  <2>5. QED BY <2>1, <2>2, <2>3, <2>4 DEF UniqueInv
<1>2. ASSUME NEW c \in Clients, DrawSeq(c) PROVE UniqueInv'
  <2>0. /\ enqueued' = enqueued + 1 /\ queue' = queue /\ out' = out
        /\ InWork' = InWork /\ Carried' = Carried \cup {enqueued + 1}
        /\ Carries(c)' /\ client'[c].seq = enqueued + 1
        /\ \A d \in Clients : d # c => client'[d] = client[d]
    BY <1>2, DrawFlow
  <2>1. enqueued + 1 \notin 1..enqueued /\ 1..enqueued \subseteq 1..(enqueued + 1)
        /\ enqueued + 1 \in 1..(enqueued + 1)
    BY <1>0
  <2>2. enqueued + 1 \notin Here BY <1>0, <2>1
  <2>3. \A d \in Clients : Carries(d) => client[d].seq # enqueued + 1
    BY <2>2 DEF Carried
  <2>4. \A d \in Clients : d # c => (Carries(d)' <=> Carries(d))
    BY <2>0 DEF Carries
  <2>5. \A d, e \in Clients :
          Carries(d)' /\ Carries(e)' /\ client'[d].seq = client'[e].seq => d = e
    BY <2>0, <2>3, <2>4 DEF UniqueInv
  <2>6. Written(1)' = Written(1) /\ Queued' = Queued BY <2>0 DEF Written, Queued
  <2>7. IsInjective(queue)' /\ IsInjective(out[1])' BY <2>0 DEF UniqueInv
  <2>8. Here' \subseteq 1..enqueued' BY <1>0, <2>0, <2>1, <2>6
  <2>9. QED BY <2>0, <2>2, <2>5, <2>6, <2>7, <2>8 DEF UniqueInv
<1>3. ASSUME NEW c \in Clients, Push(c) PROVE UniqueInv'
  <2> DEFINE x == client[c].seq
  <2>0. /\ enqueued' = enqueued /\ out' = out /\ InWork' = InWork
        /\ x \in Carried /\ x \in Nat /\ Carried' = Carried \ {x}
        /\ \A d \in Clients : Carries(d)' => Carries(d) /\ client'[d].seq = client[d].seq
        /\ queue' = Append(queue, x) /\ Queued' = Queued \cup {x}
    BY <1>3, PushFlow
  <2> HIDE DEF x
  <2>1. \A d, e \in Clients :
          Carries(d)' /\ Carries(e)' /\ client'[d].seq = client'[e].seq => d = e
    BY <2>0 DEF UniqueInv
  <2>2. x \notin Queued BY <2>0 DEF UniqueInv
  <2>3. IsInjective(queue)' BY <1>0, <2>0, <2>2, AppendFacts DEF UniqueInv, Queued
  <2>4. IsInjective(out[1])' /\ Written(1)' = Written(1) BY <2>0 DEF UniqueInv, Written
  <2>5. QED BY <2>0, <2>1, <2>3, <2>4 DEF UniqueInv
<1>4. ASSUME NEW c \in Clients, SyncWrite(c) PROVE UniqueInv'
  <2> DEFINE x == client[c].seq
  <2>0. /\ enqueued' = enqueued /\ queue' = queue /\ InWork' = InWork
        /\ x \in Carried /\ x \in Nat /\ Carried' = Carried \ {x}
        /\ \A d \in Clients : Carries(d)' => Carries(d) /\ client'[d].seq = client[d].seq
        /\ out'[1] = Append(out[1], x) /\ Written(1)' = Written(1) \cup {x}
    BY <1>4, SyncWriteFlow
  <2> HIDE DEF x
  <2>1. \A d, e \in Clients :
          Carries(d)' /\ Carries(e)' /\ client'[d].seq = client'[e].seq => d = e
    BY <2>0 DEF UniqueInv
  <2>2. x \notin Written(1) BY <2>0 DEF UniqueInv
  <2>3. IsInjective(out[1])' BY <1>0, <2>0, <2>2, AppendFacts DEF UniqueInv, Written
  <2>4. IsInjective(queue)' /\ Queued' = Queued BY <2>0 DEF UniqueInv, Queued
  <2>5. QED BY <2>0, <2>1, <2>3, <2>4 DEF UniqueInv
<1>5. CASE WorkerPop /\ queue # << >>
  <2> DEFINE x == Head(queue)
  <2>0. /\ enqueued' = enqueued /\ out' = out /\ client' = client
        /\ InWork = {} /\ InWork' = {x} /\ x \in Queued
        /\ queue' = Tail(queue) /\ Queued = {x} \cup Queued'
    BY <1>5, PopFlow
  <2>1. IsInjective(queue)' /\ x \notin Queued'
    BY <1>0, <1>5, <2>0, PopFacts DEF UniqueInv, Queued
  <2> HIDE DEF x
  <2>2. IsInjective(out[1])' /\ Written(1)' = Written(1) BY <2>0 DEF UniqueInv, Written
  <2>3. Carried' = Carried BY <2>0 DEF Carried, Carries
  <2>4. \A d, e \in Clients :
          Carries(d)' /\ Carries(e)' /\ client'[d].seq = client'[e].seq => d = e
    BY <2>0 DEF UniqueInv, Carries
  <2>5. QED BY <2>0, <2>1, <2>2, <2>3, <2>4 DEF UniqueInv
<1>6. CASE WorkerWrite
  <2>0. /\ enqueued' = enqueued /\ queue' = queue /\ client' = client
        /\ InWork = {record} /\ InWork' = {} /\ record \in Nat
        /\ out'[1] = Append(out[1], record) /\ Written(1)' = Written(1) \cup {record}
    BY <1>6, WorkerWriteFlow
  <2>1. record \notin Written(1) BY <2>0 DEF UniqueInv
  <2>2. IsInjective(out[1])' BY <1>0, <2>0, <2>1, AppendFacts DEF UniqueInv, Written
  <2>3. IsInjective(queue)' /\ Queued' = Queued BY <2>0 DEF UniqueInv, Queued
  <2>4. Carried' = Carried BY <2>0 DEF Carried, Carries
  <2>5. \A d, e \in Clients :
          Carries(d)' /\ Carries(e)' /\ client'[d].seq = client'[e].seq => d = e
    BY <2>0 DEF UniqueInv, Carries
  <2>6. QED BY <2>0, <2>2, <2>3, <2>4, <2>5 DEF UniqueInv
<1>7. QED BY <1>1, <1>2, <1>3, <1>4, <1>5, <1>6, FlowCases

-------------------------------------------------------------------------------
\* What has been handed over stays so, and what is written stays written.
LEMMA PastGrows ==
  LoggerTypeOK /\ ModeInv /\ UniqueInv /\ [LoggerNext]_logVars =>
    Written(1) \subseteq Written(1)' /\ Past \subseteq Past'
<1> SUFFICES ASSUME LoggerTypeOK, ModeInv, UniqueInv, [LoggerNext]_logVars
             PROVE  Written(1) \subseteq Written(1)' /\ Past \subseteq Past'
  OBVIOUS
<1>1. CASE NoFlow BY <1>1, NoFlowFacts DEF Past
<1>2. ASSUME NEW c \in Clients, DrawSeq(c)
      PROVE  Written(1) \subseteq Written(1)' /\ Past \subseteq Past'
  <2>1. out' = out /\ queue' = queue /\ InWork' = InWork BY <1>2, DrawFlow
  <2>2. QED BY <2>1 DEF Past, Written, Queued
<1>3. ASSUME NEW c \in Clients, Push(c)
      PROVE  Written(1) \subseteq Written(1)' /\ Past \subseteq Past'
  <2>1. /\ out' = out /\ InWork' = InWork /\ Queued' = Queued \cup {client[c].seq}
    BY <1>3, PushFlow
  <2>2. Written(1)' = Written(1) BY <2>1 DEF Written
  <2>3. QED BY <2>1, <2>2 DEF Past
<1>4. ASSUME NEW c \in Clients, SyncWrite(c)
      PROVE  Written(1) \subseteq Written(1)' /\ Past \subseteq Past'
  <2>1. queue' = queue /\ InWork' = InWork /\ Written(1)' = Written(1) \cup {client[c].seq}
    BY <1>4, SyncWriteFlow
  <2>2. QED BY <2>1 DEF Past, Queued
<1>5. CASE WorkerPop /\ queue # << >>
  <2>1. /\ out' = out /\ InWork = {} /\ InWork' = {Head(queue)}
        /\ Queued = {Head(queue)} \cup Queued'
    BY <1>5, PopFlow
  <2>2. Written(1)' = Written(1) BY <2>1 DEF Written
  <2>3. QED BY <2>1, <2>2 DEF Past
<1>6. CASE WorkerWrite
  <2>1. /\ queue' = queue /\ InWork = {record} /\ InWork' = {}
        /\ Written(1)' = Written(1) \cup {record}
    BY <1>6, WorkerWriteFlow
  <2>2. QED BY <2>1 DEF Past, Queued
<1>7. QED BY <1>1, <1>2, <1>3, <1>4, <1>5, <1>6, FlowCases

\* A logger on its own uses one client.
LEMMA SoloFacts ==
  ASSUME LoggerTypeOK, Solo PROVE \A c, d \in active : c = d
<1>1. IsFiniteSet(active)
  BY LoggerAssumption, OwnerIsClient, FS_Subset, FS_Singleton DEF LoggerTypeOK
<1>2. PICK x : active = {x} BY <1>1, FS_Singleton DEF Solo
<1>3. QED BY <1>2

\* With one client, a target that was processed covers what was logged before.
LEMMA TargetCovers ==
  ASSUME LoggerTypeOK, UniqueInv, HandedInv, TargetInv, OrderInv, Solo,
         NEW c \in Clients, client[c].at \in {"check", "loop", "await"},
         processed >= client[c].target
  PROVE  wanted[c] \subseteq Written(1)
<1> SUFFICES ASSUME NEW r \in wanted[c], r \notin Written(1) PROVE FALSE
  OBVIOUS
<1>1. r \in InWork \cup Queued BY DEF TargetInv, HandedInv, Past
<1>2. r \in 1..client[c].target BY DEF TargetInv
<1>3. client[c].target \in Nat /\ processed \in Nat BY DEF LoggerTypeOK, ClientState
<1>4. processed \in Written(1) \cup {0} BY DEF OrderInv
<1>5. processed \in Written(1) => processed < r BY <1>1 DEF OrderInv
<1>6. QED BY <1>2, <1>3, <1>4, <1>5

\* Without a worker, what was handed over is written.
LEMMA SyncWritten ==
  ASSUME LoggerTypeOK, ModeInv, HandedInv, ~async
  PROVE  InWork = {} /\ Queued = {} /\ returned \subseteq Written(1)
<1>1. worker = "none" /\ queue = << >> BY DEF ModeInv, WorkerMode
<1>2. InWork = {} /\ Queued = {} BY <1>1, EmptyFacts DEF InWork, Queued
<1>3. QED BY <1>2 DEF HandedInv, Past

\* What is known of the returned calls and of the flushes under way.
FlushInv == HandedInv /\ TargetInv /\ FlushComplete

\* Every step keeps a flush's target covered: the records up to it are queued,
\* with the worker, or written when it returns.
LEMMA LoggerFlushStep ==
  LoggerTypeOK /\ ModeInv /\ UniqueInv /\ OrderInv /\ FlushInv /\ [LoggerNext]_logVars
    => FlushInv'
<1> SUFFICES ASSUME LoggerTypeOK, ModeInv, UniqueInv, OrderInv, FlushInv,
                    [LoggerNext]_logVars
             PROVE  FlushInv'
  OBVIOUS
<1>0. active \subseteq Clients /\ Owner \in Clients /\ Owner \in active
  BY ActiveClients DEF LoggerTypeOK
<1>1. HandedInv /\ TargetInv /\ FlushComplete BY DEF FlushInv
<1>2. Written(1) \subseteq Written(1)' /\ Past \subseteq Past' BY PastGrows
<1>3. client \in [Clients -> ClientState] /\ wanted \in [Clients -> SUBSET Nat]
  BY DEF LoggerTypeOK
<1>4. ASSUME NEW c \in Clients
      PROVE  /\ client[c].seq \in Nat /\ client[c].target \in Nat
             /\ At(c, "post") => client[c].seq \in Past
             /\ At(c, "store") => client[c].seq \in Written(1)
             /\ wanted[c] \subseteq returned
             /\ client[c].at \in {"check", "loop", "await"} =>
                  wanted[c] \subseteq 1..client[c].target
  BY <1>1, <1>3 DEF HandedInv, TargetInv, ClientState
<1>5. returned \subseteq Past /\ (worker = "store" => record \in Written(1))
  BY <1>1 DEF HandedInv
<1>6. ASSUME NEW c \in active, Solo PROVE At(c, "done") => wanted[c] \subseteq Written(1)
  BY <1>1, <1>6 DEF FlushComplete, FlushCovers
\* One client moves.
<1>a. ASSUME NEW c \in Clients, NEW a, NEW s, NEW t, Moved(c, a, s, t),
             active' = active, worker' = worker, record' = record,
             \A d \in Clients : d # c => wanted'[d] = wanted[d],
             returned \subseteq returned', returned' \subseteq Past',
             a = "post" => s \in Past', a = "store" => s \in Written(1)',
             wanted'[c] \subseteq returned',
             a \in {"check", "loop", "await"} => wanted'[c] \subseteq 1..t,
             a = "done" /\ Solo => wanted'[c] \subseteq Written(1)'
      PROVE  FlushInv'
  <2>1. ASSUME NEW d \in Clients
        PROVE  /\ At(d, "post")' => client'[d].seq \in Past'
               /\ At(d, "store")' => client'[d].seq \in Written(1)'
               /\ wanted'[d] \subseteq returned'
               /\ client'[d].at \in {"check", "loop", "await"} =>
                    wanted'[d] \subseteq 1..client'[d].target
    <3>1. CASE d = c BY <1>a, <3>1 DEF Moved, At
    <3>2. CASE d # c
      <4>1. client'[d] = client[d] /\ wanted'[d] = wanted[d] BY <1>a, <3>2 DEF Moved
      <4>2. QED BY <1>2, <1>4, <1>a, <4>1 DEF At
    <3>3. QED BY <3>1, <3>2
  <2>2. ASSUME NEW d \in active, Solo, At(d, "done")'
        PROVE  wanted'[d] \subseteq Written(1)'
    <3>1. CASE d = c BY <1>a, <2>2, <3>1 DEF Moved, At
    <3>2. CASE d # c
      <4>1. client'[d] = client[d] /\ wanted'[d] = wanted[d]
        BY <1>0, <1>a, <3>2 DEF Moved
      <4>2. QED BY <1>2, <1>6, <2>2, <4>1 DEF At
    <3>3. QED BY <3>1, <3>2
  <2>3. Solo' <=> Solo BY <1>a DEF Solo
  <2>4. HandedInv' BY <1>2, <1>5, <1>a, <2>1 DEF HandedInv
  <2>5. TargetInv' BY <2>1 DEF TargetInv
  <2>6. FlushComplete' BY <1>a, <2>2, <2>3 DEF FlushComplete, FlushCovers
  <2>7. QED BY <2>4, <2>5, <2>6 DEF FlushInv
\* No client moves.
<1>b. ASSUME active' = active, client' = client, wanted' = wanted, returned' = returned,
             worker' = "store" => record' \in Written(1)'
      PROVE  FlushInv'
  <2>1. \A d \in Clients :
          /\ At(d, "post")' => client'[d].seq \in Past'
          /\ At(d, "store")' => client'[d].seq \in Written(1)'
    BY <1>2, <1>4, <1>b DEF At
  <2>2. HandedInv' BY <1>2, <1>5, <1>b, <2>1 DEF HandedInv
  <2>3. TargetInv' BY <1>4, <1>b DEF TargetInv
  <2>4. FlushComplete' BY <1>2, <1>6, <1>b DEF FlushComplete, FlushCovers, Solo, At
  <2>5. QED BY <2>2, <2>3, <2>4 DEF FlushInv
\* One client moves and no call returns.
<1>c. ASSUME NEW c \in Clients, NEW a \in ClientPc, Goto(c, a),
             active' = active, worker' = worker, record' = record,
             wanted' = wanted, returned' = returned,
             a = "post" => client[c].seq \in Past',
             a = "store" => client[c].seq \in Written(1)',
             a \in {"check", "loop", "await"} =>
                client[c].at \in {"check", "loop", "await"},
             a = "done" /\ Solo => wanted[c] \subseteq Written(1)
      PROVE  FlushInv'
  <2>1. Moved(c, a, client[c].seq, client[c].target) BY <1>c, GotoMoves
  <2>2. \A d \in Clients : wanted'[d] = wanted[d] BY <1>c
  <2>3. returned' \subseteq Past' /\ returned \subseteq returned' BY <1>2, <1>5, <1>c
  <2>4. wanted'[c] \subseteq returned' BY <1>4, <1>c
  <2>5. a \in {"check", "loop", "await"} => wanted'[c] \subseteq 1..client[c].target
    BY <1>4, <1>c
  <2>6. a = "done" /\ Solo => wanted'[c] \subseteq Written(1)' BY <1>2, <1>c
  <2>7. QED BY <1>a, <1>c, <2>1, <2>2, <2>3, <2>4, <2>5, <2>6
\* One client begins a flush.
<1>d. ASSUME NEW c \in Clients, Moved(c, IF async THEN "check" ELSE "done",
                                      client[c].seq, enqueued),
             active' = active, worker' = worker, record' = record,
             wanted' = [wanted EXCEPT ![c] = returned], returned' = returned
      PROVE  FlushInv'
  <2>1. wanted'[c] = returned /\ \A d \in Clients : d # c => wanted'[d] = wanted[d]
    BY <1>3, <1>d
  <2>2. returned' \subseteq Past' /\ returned \subseteq returned' BY <1>2, <1>5, <1>d
  <2>3. returned \subseteq 1..enqueued BY <1>5 DEF UniqueInv, Past
  <2>4. ~async => returned \subseteq Written(1) BY <1>1, SyncWritten
  <2>5. ASSUME NEW a, a = IF async THEN "check" ELSE "done" PROVE FlushInv'
    <3>1. Moved(c, a, client[c].seq, enqueued) BY <1>d, <2>5
    <3>2. a # "post" /\ a # "store" /\ (a = "done" => ~async) BY <2>5
    <3>3. a = "done" /\ Solo => wanted'[c] \subseteq Written(1)'
      BY <1>2, <2>1, <2>4, <3>2
    <3>4. wanted'[c] \subseteq returned' /\ wanted'[c] \subseteq 1..enqueued
      BY <1>d, <2>1, <2>3
    <3>5. QED BY <1>a, <1>d, <2>1, <2>2, <3>1, <3>2, <3>3, <3>4
  <2>6. QED BY <2>5
<1> USE DEF cfgVars, seqVars, semVars, sinkVars, workVars, histVars
<1>7. CASE LoggerNew
  <2>1. worker' # "store" BY <1>7 DEF LoggerNew
  <2>2. QED BY <1>b, <1>7, <2>1 DEF LoggerNew
<1>8. CASE LoggerAddSink BY <1>b, <1>2, <1>5, <1>8 DEF LoggerAddSink
<1>9. ASSUME NEW c \in active, DrawSeq(c) PROVE FlushInv'
  <2>1. Moved(c, IF async THEN "push" ELSE "write", enqueued + 1, client[c].target)
    BY <1>0, <1>9, DrawMoves
  <2>2. PICK a \in {"push", "write"} : a = IF async THEN "push" ELSE "write"
    OBVIOUS
  <2>3. Moved(c, a, enqueued + 1, client[c].target) BY <2>1, <2>2
  <2>4. returned' = returned /\ wanted' = wanted /\ c \in Clients
    BY <1>0, <1>9 DEF DrawSeq
  <2>5. returned' \subseteq Past' /\ returned \subseteq returned'
    BY <1>2, <1>5, <2>4
  <2>6. wanted'[c] \subseteq returned' BY <1>4, <2>4
  <2>7. active' = active /\ worker' = worker /\ record' = record BY <1>9 DEF DrawSeq
  <2>8. QED BY <1>a, <2>2, <2>3, <2>4, <2>5, <2>6, <2>7
<1>10. ASSUME NEW c \in active, FlushTarget(c) PROVE FlushInv'
  <2>1. Moved(c, IF async THEN "check" ELSE "done", client[c].seq, enqueued)
    <3>1. c \in Clients /\ (FlushTarget(c) \/ (CallDelete /\ c = Owner)) BY <1>0, <1>10
    <3>2. QED BY <3>1, TargetMoves
  <2>2. /\ active' = active /\ worker' = worker /\ record' = record
        /\ wanted' = [wanted EXCEPT ![c] = returned] /\ returned' = returned
    BY <1>10 DEF FlushTarget
  <2>3. c \in Clients BY <1>0
  <2>4. QED BY <1>d, <2>1, <2>2, <2>3
<1>11. ASSUME NEW c \in active, ClientStep(c) PROVE FlushInv'
  <2>0. c \in Clients BY <1>0
  <2>b. ASSUME At(c, "post") \/ At(c, "store"), Goto(c, "idle"),
               active' = active, worker' = worker, record' = record, wanted' = wanted,
               returned' = returned \cup {client[c].seq}
        PROVE  FlushInv'
    <3>1. Moved(c, "idle", client[c].seq, client[c].target)
      BY <2>0, <2>b, GotoMoves DEF ClientPc
    <3>2. client[c].seq \in Past BY <1>4, <2>0, <2>b DEF Past
    <3>3. returned' \subseteq Past' /\ returned \subseteq returned'
      BY <1>2, <1>5, <2>b, <3>2
    <3>4. wanted'[c] \subseteq returned' BY <1>4, <2>0, <2>b
    <3>5. QED BY <1>a, <2>0, <2>b, <3>1, <3>3, <3>4
  <2>1. CASE Push(c)
    <3>1. client[c].seq \in Past'
      <4>1. Queued' = Queued \cup {client[c].seq} BY <2>0, <2>1, PushFlow
      <4>2. QED BY <4>1 DEF Past
    <3>2. QED BY <1>c, <2>0, <2>1, <3>1 DEF Push, ClientPc
  <2>2. CASE PostItem(c) BY <2>b, <2>2 DEF PostItem
  <2>3. CASE SyncWrite(c)
    <3>1. client[c].seq \in Written(1)'
      <4>1. Written(1)' = Written(1) \cup {client[c].seq} BY <2>0, <2>3, SyncWriteFlow
      <4>2. QED BY <4>1
    <3>2. QED BY <1>c, <2>0, <2>3, <3>1 DEF SyncWrite, ClientPc
  <2>4. CASE SyncStore(c) BY <2>b, <2>4 DEF SyncStore
  <2>5. CASE FlushCheck(c)
    <3>1. CASE processed >= client[c].target
      <4>1. Solo => wanted[c] \subseteq Written(1)
        BY <1>1, <2>0, <2>5, <3>1, TargetCovers DEF FlushCheck, At
      <4>2. QED BY <1>c, <2>0, <2>5, <3>1, <4>1 DEF FlushCheck, ClientPc
    <3>2. CASE ~(processed >= client[c].target)
      BY <1>c, <2>0, <2>5, <3>2 DEF FlushCheck, At, ClientPc
    <3>3. QED BY <3>1, <3>2
  <2>6. CASE FlushLoop(c)
    <3>1. CASE processed >= client[c].target
      <4>1. Solo => wanted[c] \subseteq Written(1)
        BY <1>1, <2>0, <2>6, <3>1, TargetCovers DEF FlushLoop, At
      <4>2. Goto(c, "done") BY <2>6, <3>1 DEF FlushLoop
      <4>3. QED BY <1>c, <2>0, <2>6, <4>1, <4>2 DEF FlushLoop, ClientPc
    <3>2. CASE ~(processed >= client[c].target)
      <4>1. Goto(c, "await") BY <2>6, <3>2 DEF FlushLoop
      <4>2. QED BY <1>c, <2>0, <2>6, <4>1 DEF FlushLoop, At, ClientPc
    <3>3. QED BY <3>1, <3>2
  <2>7. CASE FlushAwait(c) BY <1>c, <2>0, <2>7 DEF FlushAwait, At, ClientPc
  <2>8. CASE FlushReturn(c)
    <3>1. Moved(c, IF life = "closing" /\ c = Owner THEN "stop" ELSE "idle", 0, 0)
      BY <2>0, <2>8, ReturnMoves
    <3>2. PICK a \in {"stop", "idle"} :
            a = IF life = "closing" /\ c = Owner THEN "stop" ELSE "idle"
      OBVIOUS
    <3>3. Moved(c, a, 0, 0) BY <3>1, <3>2
    <3>4. wanted'[c] = {} /\ \A d \in Clients : d # c => wanted'[d] = wanted[d]
      BY <1>3, <2>0, <2>8 DEF FlushReturn
    <3>5. returned' = returned /\ active' = active /\ worker' = worker /\ record' = record
      BY <2>8 DEF FlushReturn
    <3>6. returned' \subseteq Past' /\ returned \subseteq returned'
      BY <1>2, <1>5, <3>5
    <3>7. wanted'[c] \subseteq returned' BY <3>4
    <3>8. QED BY <1>a, <2>0, <3>2, <3>3, <3>4, <3>5, <3>6, <3>7
  <2>9. QED BY <1>11, <2>1, <2>2, <2>3, <2>4, <2>5, <2>6, <2>7, <2>8 DEF ClientStep
<1>12. CASE Worker
  <2>1. active' = active /\ client' = client /\ wanted' = wanted /\ returned' = returned
    BY <1>12
    DEF Worker, WorkerWait, WorkerPop, WorkerWrite, WorkerStore, WorkerPost, WorkerLeave
  <2>2. CASE WorkerWrite
    <3>1. Written(1)' = Written(1) \cup {record} BY <2>2, WorkerWriteFlow
    <3>2. record' = record BY <2>2 DEF WorkerWrite
    <3>3. QED BY <1>b, <2>1, <3>1, <3>2
  <2>3. CASE ~WorkerWrite
    <3>1. worker' # "store"
      BY <1>12, <2>3 DEF Worker, WorkerWait, WorkerPop, WorkerStore, WorkerPost, WorkerLeave
    <3>2. QED BY <1>b, <2>1, <3>1
  <2>4. QED BY <2>2, <2>3
<1>13. CASE CallDelete
  <2>1. Moved(Owner, IF async THEN "check" ELSE "done", client[Owner].seq, enqueued)
    BY <1>0, <1>13, TargetMoves
  <2>2. /\ active' = active /\ worker' = worker /\ record' = record
        /\ wanted' = [wanted EXCEPT ![Owner] = returned] /\ returned' = returned
    BY <1>13 DEF CallDelete
  <2>3. QED BY <1>0, <1>d, <2>1, <2>2
<1>14. CASE DeleteStop BY <1>c, <1>0, <1>14 DEF DeleteStop, ClientPc
<1>15. CASE DeleteJoin BY <1>c, <1>0, <1>15 DEF DeleteJoin, ClientPc
<1>16. CASE UNCHANGED logVars BY <1>b, <1>2, <1>5, <1>16 DEF logVars
<1>17. QED BY <1>7, <1>8, <1>9, <1>10, <1>11, <1>12, <1>13, <1>14, <1>15, <1>16 DEF LoggerNext

-------------------------------------------------------------------------------
\* A step that writes no record leaves the sinks' contents alone.
LEMMA OutCases ==
  [LoggerNext]_logVars =>
    \/ \E c \in active : SyncWrite(c)
    \/ WorkerWrite
    \/ LoggerNew /\ out' = out
    \/ LoggerAddSink /\ out' = out
    \/ out' = out /\ sinks' = sinks
<1> USE DEF cfgVars, seqVars, semVars, sinkVars, workVars, histVars
<1> SUFFICES ASSUME [LoggerNext]_logVars, ~ \E c \in active : SyncWrite(c), ~WorkerWrite,
                    ~LoggerNew, ~LoggerAddSink
             PROVE  out' = out /\ sinks' = sinks
  BY DEF LoggerNew, LoggerAddSink
<1>1. ASSUME NEW c \in active, DrawSeq(c) PROVE out' = out /\ sinks' = sinks
  BY <1>1 DEF DrawSeq
<1>2. ASSUME NEW c \in active, FlushTarget(c) PROVE out' = out /\ sinks' = sinks
  BY <1>2 DEF FlushTarget
<1>3. ASSUME NEW c \in active, ClientStep(c) PROVE out' = out /\ sinks' = sinks
  BY <1>3 DEF ClientStep, Push, PostItem, SyncStore, FlushCheck, FlushLoop, FlushAwait,
              FlushReturn
<1>4. CASE Worker
  BY <1>4 DEF Worker, WorkerWait, WorkerPop, WorkerStore, WorkerPost, WorkerLeave
<1>5. CASE CallDelete \/ DeleteStop \/ DeleteJoin
  BY <1>5 DEF CallDelete, DeleteStop, DeleteJoin
<1>6. CASE UNCHANGED logVars BY <1>6 DEF logVars
<1>7. QED BY <1>1, <1>2, <1>3, <1>4, <1>5, <1>6 DEF LoggerNext

\* Writing a record to the sinks keeps them alike.
LEMMA WriteAlike ==
  ASSUME LoggerTypeOK, SinksInv, NEW r \in Nat, WriteToSinks(r), sinks' = sinks, sinks >= 1
  PROVE  SinksInv'
<1>1. \A s \in 1..MaxSinks : out'[s] = IF s <= sinks THEN Append(out[s], r) ELSE out[s]
  BY WriteFacts
<1>2. 1 \in 1..MaxSinks /\ sinks \in Nat /\ out[1] \in Seq(Nat)
  BY LoggerAssumption, OutFirst DEF LoggerTypeOK
<1> DEFINE o == out[1]
           p == out'[1]
<1>3. p = Append(o, r) BY <1>1, <1>2
<1>4. /\ Len(o) \in Nat /\ Len(p) = Len(o) + 1
      /\ \A i \in 1..Len(o) : p[i] = o[i]
      /\ p[Len(o) + 1] = r
  BY <1>2, <1>3, AppendFacts
<1> SUFFICES ASSUME NEW s \in 1..MaxSinks
             PROVE  /\ s > sinks => out'[s] = << >>
                    /\ Len(out'[s]) <= Len(p)
                    /\ \A i \in 1..Len(out'[s]) : out'[s][i] = p[Len(p) - Len(out'[s]) + i]
  BY <1>4, Zenon DEF SinksInv
<1>5. CASE s > sinks
  <2>1. out[s] = << >> BY <1>5 DEF SinksInv
  <2>2. out'[s] = << >> BY <1>1, <1>2, <1>5, <2>1
  <2>3. QED BY <1>4, <2>2
<1>6. CASE s <= sinks
  <2> DEFINE a == out[s]
             b == out'[s]
  <2>1. b = Append(a, r) /\ a \in Seq(Nat) BY <1>1, <1>6 DEF LoggerTypeOK
  <2>2. /\ Len(a) \in Nat /\ Len(b) = Len(a) + 1
        /\ \A i \in 1..Len(a) : b[i] = a[i]
        /\ b[Len(a) + 1] = r
    BY <2>1, AppendFacts
  <2>3. /\ Len(a) <= Len(o)
        /\ \A i \in 1..Len(a) : a[i] = o[Len(o) - Len(a) + i]
    BY DEF SinksInv
  <2>4. ~(s > sinks) BY <1>2, <1>6
  <2> HIDE DEF a, b, o, p
  <2>5. Len(b) <= Len(p) BY <1>4, <2>2, <2>3
  <2>6. ASSUME NEW i \in 1..Len(b) PROVE b[i] = p[Len(p) - Len(b) + i]
    <3>1. Len(p) - Len(b) + i = Len(o) - Len(a) + i BY <1>4, <2>2
    <3>2. CASE i \in 1..Len(a)
      <4>1. Len(o) - Len(a) + i \in 1..Len(o) BY <1>4, <2>2, <2>3, <3>2
      <4>2. QED BY <1>4, <2>2, <2>3, <3>1, <3>2, <4>1
    <3>3. CASE i = Len(a) + 1
      <4>1. Len(o) - Len(a) + i = Len(o) + 1 BY <1>4, <2>2, <3>3
      <4>2. QED BY <1>4, <2>2, <3>1, <3>3, <4>1
    <3>4. QED BY <2>2, <3>2, <3>3
  <2>7. QED BY <2>4, <2>5, <2>6 DEF b, p
<1>7. s > sinks \/ s <= sinks BY <1>2, LoggerAssumption
<1>8. QED BY <1>5, <1>6, <1>7, Zenon

\* Every step keeps the sinks alike.
LEMMA LoggerSinksStep ==
  LoggerTypeOK /\ ModeInv /\ SinksInv /\ [LoggerNext]_logVars => SinksInv'
<1> SUFFICES ASSUME LoggerTypeOK, ModeInv, SinksInv, [LoggerNext]_logVars PROVE SinksInv'
  OBVIOUS
<1>0. active \subseteq Clients BY ActiveClients
<1>1. ASSUME NEW c \in active, SyncWrite(c) PROVE SinksInv'
  <2>1. sinks >= 1
    BY <1>0, <1>1 DEF SyncWrite, At, ModeInv, WorkerMode, ClientMode
  <2>2. client[c].seq \in Nat BY <1>0 DEF LoggerTypeOK, ClientState
  <2>3. QED BY <1>1, <2>1, <2>2, WriteAlike DEF SyncWrite
<1>2. CASE WorkerWrite
  <2>1. sinks >= 1 BY <1>2 DEF WorkerWrite, ModeInv, WorkerMode
  <2>2. record \in Nat BY DEF LoggerTypeOK
  <2>3. QED BY <1>2, <2>1, <2>2, WriteAlike DEF WorkerWrite
<1>3. CASE LoggerNew /\ out' = out
  <2>1. \A s \in 1..MaxSinks : out[s] = << >>
    BY <1>3 DEF LoggerNew, ModeInv, WorkerMode
  <2>2. 1 \in 1..MaxSinks BY OutFirst
  <2>3. QED BY <1>3, <2>1, <2>2 DEF SinksInv
<1>4. CASE LoggerAddSink /\ out' = out
  <2>1. sinks' = sinks + 1 /\ sinks \in Int
    BY <1>4, LoggerAssumption DEF LoggerAddSink, LoggerTypeOK
  <2>2. \A s \in 1..MaxSinks : s > sinks' => s > sinks BY <2>1, LoggerAssumption
  <2>3. QED BY <1>4, <2>2 DEF SinksInv
<1>5. CASE out' = out /\ sinks' = sinks BY <1>5 DEF SinksInv
<1>6. QED BY <1>1, <1>2, <1>3, <1>4, <1>5, OutCases

-------------------------------------------------------------------------------
\* What is processed was written.
LEMMA ProcessedCases ==
  ASSUME LoggerTypeOK, HandedInv, [LoggerNext]_logVars
  PROVE  active' = active /\ (processed' = processed \/ processed' \in Written(1))
<1> USE DEF cfgVars, seqVars, semVars, sinkVars, workVars, histVars
<1>0. active \subseteq Clients BY ActiveClients
<1>1. ASSUME NEW c \in active, DrawSeq(c) PROVE active' = active /\ processed' = processed
  BY <1>1 DEF DrawSeq
<1>2. ASSUME NEW c \in active, FlushTarget(c) PROVE active' = active /\ processed' = processed
  BY <1>2 DEF FlushTarget
<1>3. ASSUME NEW c \in active, ClientStep(c)
      PROVE  active' = active /\ (processed' = processed \/ processed' \in Written(1))
  <2>1. CASE SyncStore(c) BY <1>0, <2>1 DEF SyncStore, HandedInv
  <2>2. CASE ~SyncStore(c)
    BY <1>3, <2>2 DEF ClientStep, Push, PostItem, SyncWrite, FlushCheck, FlushLoop, FlushAwait,
                      FlushReturn
  <2>3. QED BY <2>1, <2>2
<1>4. CASE Worker
  BY <1>4 DEF Worker, WorkerWait, WorkerPop, WorkerWrite, WorkerStore, WorkerPost, WorkerLeave,
              HandedInv
<1>5. CASE CallDelete \/ DeleteStop \/ DeleteJoin
  BY <1>5 DEF CallDelete, DeleteStop, DeleteJoin
<1>6. CASE UNCHANGED logVars BY <1>6 DEF logVars
<1>7. CASE LoggerNew \/ LoggerAddSink BY <1>7 DEF LoggerNew, LoggerAddSink
<1>8. QED BY <1>1, <1>2, <1>3, <1>4, <1>5, <1>6, <1>7 DEF LoggerNext

\* Every step keeps one client's records in order.
LEMMA LoggerOrderStep ==
  LoggerTypeOK /\ ModeInv /\ UniqueInv /\ HandedInv /\ OrderInv /\ [LoggerNext]_logVars
    => OrderInv'
<1> SUFFICES ASSUME LoggerTypeOK, ModeInv, UniqueInv, HandedInv, OrderInv,
                    [LoggerNext]_logVars, Solo'
             PROVE  OrderInv'
  BY DEF OrderInv
<1>0. active \subseteq Clients BY ActiveClients
<1>1. Solo BY ProcessedCases DEF Solo
<1>2. /\ Increasing(out[1]) /\ Increasing(queue)
      /\ \A r \in Written(1), q \in InWork \cup Queued \cup Carried : r < q
      /\ \A r \in InWork, q \in Queued \cup Carried : r < q
      /\ \A r \in Queued, q \in Carried : r < q
      /\ processed \in Written(1) \cup {0}
  BY <1>1 DEF OrderInv
<1>3. processed' \in Written(1)' \cup {0} BY <1>2, PastGrows, ProcessedCases
<1>4. out[1] \in Seq(Nat) /\ queue \in Seq(Nat) /\ enqueued \in Nat
  BY OutFirst DEF LoggerTypeOK
<1>5. Written(1) \cup InWork \cup Queued \cup Carried \subseteq 1..enqueued
  BY DEF UniqueInv
<1>a. ASSUME NEW c \in Clients, Carries(c) PROVE Carried = {client[c].seq}
  <2>1. \A d \in Clients : Carries(d) => d = c
    <3>1. \A d \in Clients : Carries(d) => d \in active
      BY DEF ModeInv, ClientMode, Carries
    <3>2. QED BY <1>1, <1>a, <3>1, SoloFacts
  <2>2. QED BY <1>a, <2>1 DEF Carried
<1>6. CASE NoFlow
  <2>1. /\ Written(1)' = Written(1) /\ Queued' = Queued
        /\ InWork' = InWork /\ Carried' = Carried
    BY <1>6, NoFlowFacts
  <2>2. Increasing(out[1])' /\ Increasing(queue)' BY <1>2, <1>6 DEF NoFlow
  <2>3. QED BY <1>2, <1>3, <2>1, <2>2 DEF OrderInv
<1>7. ASSUME NEW c \in Clients, DrawSeq(c) PROVE OrderInv'
  <2>1. /\ queue' = queue /\ out' = out /\ InWork' = InWork
        /\ Carried' = Carried \cup {enqueued + 1}
    BY <1>7, DrawFlow
  <2>2. Written(1)' = Written(1) /\ Queued' = Queued BY <2>1 DEF Written, Queued
  <2>3. Increasing(out[1])' /\ Increasing(queue)' BY <1>2, <2>1
  <2>4. \A r \in 1..enqueued : r < enqueued + 1 BY <1>4
  <2>5. \A r \in Written(1) \cup InWork \cup Queued : r < enqueued + 1 BY <1>5, <2>4
  <2>6. QED BY <1>2, <1>3, <2>1, <2>2, <2>3, <2>5 DEF OrderInv
<1>8. ASSUME NEW c \in Clients, Push(c) PROVE OrderInv'
  <2> DEFINE x == client[c].seq
  <2>1. /\ out' = out /\ InWork' = InWork /\ x \in Carried /\ x \in Nat
        /\ Carried' = Carried \ {x}
        /\ queue' = Append(queue, x) /\ Queued' = Queued \cup {x}
    BY <1>8, PushFlow
  <2>2. Carried = {x} BY <1>8, <1>a DEF Push, At, Carries
  <2> HIDE DEF x
  <2>3. Carried' = {} BY <2>1, <2>2
  <2>4. Increasing(queue)' BY <1>2, <1>4, <2>1, AppendFacts DEF Queued
  <2>5. Increasing(out[1])' /\ Written(1)' = Written(1) BY <1>2, <2>1 DEF Written
  <2>6. QED BY <1>2, <1>3, <2>1, <2>3, <2>4, <2>5 DEF OrderInv
<1>9. ASSUME NEW c \in Clients, SyncWrite(c) PROVE OrderInv'
  <2> DEFINE x == client[c].seq
  <2>1. /\ queue' = queue /\ InWork' = InWork /\ x \in Carried /\ x \in Nat
        /\ Carried' = Carried \ {x}
        /\ out'[1] = Append(out[1], x) /\ Written(1)' = Written(1) \cup {x}
    BY <1>9, SyncWriteFlow
  <2>2. Carried = {x} BY <1>9, <1>a DEF SyncWrite, At, Carries
  <2>3. InWork = {} /\ Queued = {}
    <3>1. ~async BY <1>9 DEF SyncWrite, At, ModeInv, ClientMode
    <3>2. QED BY <3>1, SyncWritten
  <2> HIDE DEF x
  <2>4. Carried' = {} /\ InWork' = {} /\ Queued' = {} BY <2>1, <2>2, <2>3 DEF Queued
  <2>5. Increasing(queue)' BY <1>2, <2>1
  <2>6. \A r \in Range(out[1]) : r < x BY <1>2, <2>1 DEF Written
  <2>7. Increasing(out[1])' BY <1>2, <1>4, <2>1, <2>6, AppendFacts
  <2>8. QED BY <1>3, <2>4, <2>5, <2>7 DEF OrderInv
<1>10. CASE WorkerPop /\ queue # << >>
  <2> DEFINE x == Head(queue)
  <2>1. /\ out' = out /\ client' = client
        /\ InWork = {} /\ InWork' = {x} /\ x \in Queued
        /\ queue' = Tail(queue) /\ Queued = {x} \cup Queued'
    BY <1>10, PopFlow
  <2>2. Increasing(queue)' /\ \A r \in Queued' : x < r
    BY <1>2, <1>4, <1>10, <2>1, PopFacts DEF Queued
  <2> HIDE DEF x
  <2>3. Increasing(out[1])' /\ Written(1)' = Written(1) BY <1>2, <2>1 DEF Written
  <2>4. Carried' = Carried BY <2>1 DEF Carried, Carries
  <2>5. QED BY <1>2, <1>3, <2>1, <2>2, <2>3, <2>4 DEF OrderInv
<1>11. CASE WorkerWrite
  <2>1. /\ queue' = queue /\ client' = client
        /\ InWork = {record} /\ InWork' = {} /\ record \in Nat
        /\ out'[1] = Append(out[1], record) /\ Written(1)' = Written(1) \cup {record}
    BY <1>11, WorkerWriteFlow
  <2>2. \A r \in Range(out[1]) : r < record BY <1>2, <2>1 DEF Written
  <2>3. Increasing(out[1])' BY <1>2, <1>4, <2>1, <2>2, AppendFacts
  <2>4. Increasing(queue)' /\ Queued' = Queued BY <1>2, <2>1 DEF Queued
  <2>5. Carried' = Carried BY <2>1 DEF Carried, Carries
  <2>6. QED BY <1>2, <1>3, <2>1, <2>3, <2>4, <2>5 DEF OrderInv
<1>12. QED BY <1>6, <1>7, <1>8, <1>9, <1>10, <1>11, FlowCases

-------------------------------------------------------------------------------
\* The initial states.
LEMMA LoggerInvInit == LoggerInit => LoggerInv
<1> SUFFICES ASSUME LoggerInit PROVE LoggerInv
  OBVIOUS
<1> USE LoggerAssumption
<1>0. 1 \in 1..MaxSinks /\ Owner \in Clients BY OwnerIsClient
<1>1. \A c \in Clients : /\ client[c] \in ClientState /\ client[c].at = "idle"
                         /\ ~Carries(c)
  <2> DEFINE n == IF Cardinality(active) = 1 THEN MaxMessages ELSE MaxShared
  <2>1. n \in Nat OBVIOUS
  <2>2. client = [c \in Clients |-> [at |-> "idle", seq |-> 0, target |-> 0, left |-> n]]
    BY DEF LoggerInit
  <2> HIDE DEF n
  <2>3. QED BY <2>1, <2>2 DEF ClientState, ClientPc, Carries
<1>2. /\ active \in {{Owner}, Clients} /\ async \in BOOLEAN /\ running = FALSE /\ life = "new"
      /\ enqueued = 0 /\ processed = 0 /\ queue = << >> /\ items = 0 /\ flushed = 0
      /\ sinks = 0 /\ out = [s \in 1..MaxSinks |-> << >>] /\ worker = "none" /\ record = 0
      /\ returned = {} /\ wanted = [c \in Clients |-> {}]
      /\ client = [c \in Clients |-> client[c]]
  BY DEF LoggerInit
<1>3. LoggerTypeOK
  <2>1. client \in [Clients -> ClientState] BY <1>1, <1>2
  <2>2. out \in [1..MaxSinks -> Seq(Nat)] BY <1>2, EmptyFacts
  <2>3. wanted \in [Clients -> SUBSET Nat] /\ returned \in SUBSET Nat BY <1>2
  <2>4. queue \in Seq(Nat) /\ sinks \in 0..MaxSinks BY <1>2, EmptyFacts
  <2>5. QED BY <1>2, <2>1, <2>2, <2>3, <2>4 DEF LoggerTypeOK
<1>4. ModeInv BY <1>1, <1>2 DEF ModeInv, WorkerMode, ClientMode, At
<1>5. Written(1) = {} /\ InWork = {} /\ Queued = {} /\ Carried = {}
  BY <1>0, <1>1, <1>2, EmptyFacts DEF Written, InWork, Queued, Carried
<1>6. UniqueInv BY <1>0, <1>1, <1>2, <1>5, EmptyFacts DEF UniqueInv
<1>7. SinksInv
  <2>1. \A s \in 1..MaxSinks : out[s] = << >> BY <1>2
  <2>2. Len(<< >>) = 0 /\ 1..0 = {} OBVIOUS
  <2>3. \A s \in 1..MaxSinks : Len(out[s]) = 0 /\ 1..Len(out[s]) = {}
    BY <2>1, <2>2
  <2>4. Len(out[1]) = 0 BY <1>0, <2>3
  <2>5. QED BY <2>1, <2>3, <2>4 DEF SinksInv
<1>8. HandedInv BY <1>1, <1>2 DEF HandedInv, At
<1>9. TargetInv BY <1>1, <1>2 DEF TargetInv
<1>10. OrderInv BY <1>0, <1>2, <1>5, EmptyFacts DEF OrderInv
<1>11. FlushComplete
  <2>1. active \subseteq Clients BY <1>3, ActiveClients
  <2>2. QED BY <1>1, <2>1 DEF FlushComplete, FlushCovers, At
<1>12. QED BY <1>3, <1>4, <1>6, <1>7, <1>8, <1>9, <1>10, <1>11 DEF LoggerInv

\* The inductive invariant holds whatever vlLoggerMessage, vlLoggerFlush,
\* vlLoggerDelete and the worker do: types, who is where, each record in one place,
\* the sinks alike, returned records past the client, flush targets, one client's
\* order.
THEOREM LoggerInvariant == LoggerSpec => []LoggerInv
<1>1. LoggerInit => LoggerInv BY LoggerInvInit
<1>2. LoggerInv /\ [LoggerNext]_logVars => LoggerInv'
  <2> SUFFICES ASSUME LoggerInv, [LoggerNext]_logVars PROVE LoggerInv'
    OBVIOUS
  <2>1. /\ LoggerTypeOK /\ ModeInv /\ UniqueInv /\ SinksInv
        /\ HandedInv /\ TargetInv /\ OrderInv /\ FlushComplete
    BY DEF LoggerInv
  <2>2. LoggerTypeOK' BY <2>1, LoggerTypeStep
  <2>3. ModeInv' BY <2>1, LoggerModeStep
  <2>4. UniqueInv' BY <2>1, LoggerUniqueStep
  <2>5. SinksInv' BY <2>1, LoggerSinksStep
  <2>6. FlushInv' BY <2>1, LoggerFlushStep DEF FlushInv
  <2>7. OrderInv' BY <2>1, LoggerOrderStep
  <2>8. QED BY <2>2, <2>3, <2>4, <2>5, <2>6, <2>7 DEF LoggerInv, FlushInv
<1>3. QED BY <1>1, <1>2, PTL DEF LoggerSpec

\* A sequence without repetition is as long as the set of its elements.
LEMMA InjectiveLength ==
  ASSUME NEW s \in Seq(Nat), IsInjective(s) PROVE Len(s) = Cardinality(Range(s))
<1>1. Len(s) \in Nat /\ DOMAIN s = 1..Len(s) OBVIOUS
<1>2. s \in [1..Len(s) -> Range(s)] BY <1>1 DEF Range
<1>3. s \in Bijection(1..Len(s), Range(s))
  BY <1>1, <1>2 DEF Bijection, Injection, Surjection, IsInjective, Range
<1>4. IsFiniteSet(1..Len(s)) /\ Cardinality(1..Len(s)) = Len(s)
  <2>1. 1 \in Int /\ Len(s) \in Int BY <1>1
  <2>2. /\ IsFiniteSet(1..Len(s))
        /\ Cardinality(1..Len(s)) = IF 1 > Len(s) THEN 0 ELSE Len(s) - 1 + 1
    BY <2>1, FS_Interval
  <2>3. (IF 1 > Len(s) THEN 0 ELSE Len(s) - 1 + 1) = Len(s) BY <1>1
  <2>4. QED BY <2>2, <2>3
<1>5. ExistsBijection(1..Len(s), Range(s)) BY <1>3 DEF ExistsBijection
<1>6. QED BY <1>4, <1>5, FS_Bijection

\* A sequence that agrees with the end of another one is a suffix of it.
LEMMA SuffixFacts ==
  ASSUME NEW s \in Seq(Nat), NEW t \in Seq(Nat), Len(s) <= Len(t),
         \A i \in 1..Len(s) : s[i] = t[Len(t) - Len(s) + i]
  PROVE  IsSuffix(s, t)
<1>1. Len(s) \in Nat /\ Len(t) \in Nat OBVIOUS
<1> DEFINE u == [i \in 1..Len(s) |-> s[(Len(s) - i) + 1]]
           v == [i \in 1..Len(t) |-> t[(Len(t) - i) + 1]]
<1>2. u \in Seq(Nat) /\ Len(u) = Len(s)
  <2>1. \A i \in 1..Len(s) : s[(Len(s) - i) + 1] \in Nat BY <1>1
  <2>2. QED BY <1>1, <2>1
<1>3. v \in Seq(Nat) /\ Len(v) = Len(t)
  <2>1. \A i \in 1..Len(t) : t[(Len(t) - i) + 1] \in Nat BY <1>1
  <2>2. QED BY <1>1, <2>1
<1>4. \A i \in 1..Len(s) : u[i] = v[i]
  <2> TAKE i \in 1..Len(s)
  <2>1. (Len(s) - i) + 1 \in 1..Len(s) /\ i \in 1..Len(t) BY <1>1
  <2>2. Len(t) - Len(s) + ((Len(s) - i) + 1) = (Len(t) - i) + 1 BY <1>1
  <2>3. QED BY <2>1, <2>2
<1> HIDE DEF u, v
<1>5. SubSeq(u, 1, Len(u)) = SubSeq(v, 1, Len(u))
  <2>1. \A w \in Seq(Nat) : Len(s) <= Len(w) =>
          /\ SubSeq(w, 1, Len(s)) = [i \in 1..Len(s) |-> w[i]]
    BY <1>1
  <2>2. QED BY <1>1, <1>2, <1>3, <1>4, <2>1
<1>6. Reverse(s) = u /\ Reverse(t) = v BY DEF Reverse, u, v
<1>7. QED BY <1>2, <1>3, <1>5, <1>6 DEF IsSuffix, IsPrefix

\* vlLogWriteToSinks_NoLock gives no record to a sink twice and all sinks the same
\* records; when vlLoggerDelete has joined the worker, every record whose
\* vlLoggerMessage returned is written; one client's records keep their order.
THEOREM RecordsReachTheSinks == LoggerSpec => []RecordsDelivered
<1>1. LoggerInv => RecordsDelivered
  <2> SUFFICES ASSUME LoggerInv PROVE RecordsDelivered
    OBVIOUS
  <2>0. LoggerTypeOK /\ ModeInv /\ UniqueInv /\ SinksInv /\ HandedInv /\ OrderInv
    BY DEF LoggerInv
  <2>1. 1 \in 1..MaxSinks /\ out[1] \in Seq(Nat) BY <2>0, OutFirst
  <2>2. ASSUME NEW s \in 1..sinks
        PROVE  Len(out[s]) = Cardinality(Written(s)) /\ IsSuffix(out[s], out[1])
    <3>1. s \in 1..MaxSinks BY <2>0, LoggerAssumption DEF LoggerTypeOK
    <3> DEFINE a == out[s]
               o == out[1]
    <3>2. /\ a \in Seq(Nat) /\ Len(a) <= Len(o) /\ o \in Seq(Nat)
          /\ \A i \in 1..Len(a) : a[i] = o[Len(o) - Len(a) + i]
      BY <2>0, <2>1, <3>1 DEF LoggerTypeOK, SinksInv
    <3>3. IsInjective(o) BY <2>0 DEF UniqueInv
    <3> HIDE DEF a, o
    <3>4. IsInjective(a)
      <4>0. /\ Len(a) \in Nat /\ Len(o) \in Nat
            /\ DOMAIN a = 1..Len(a) /\ DOMAIN o = 1..Len(o)
        BY <3>2
      <4> SUFFICES ASSUME NEW i \in 1..Len(a), NEW j \in 1..Len(a), a[i] = a[j]
                   PROVE  i = j
        BY <4>0 DEF IsInjective
      <4>1. Len(o) - Len(a) + i \in DOMAIN o /\ Len(o) - Len(a) + j \in DOMAIN o
        BY <3>2, <4>0
      <4>2. o[Len(o) - Len(a) + i] = o[Len(o) - Len(a) + j] BY <3>2
      <4>3. Len(o) - Len(a) + i = Len(o) - Len(a) + j BY <3>3, <4>1, <4>2 DEF IsInjective
      <4>4. QED BY <4>0, <4>3
    <3>5. Len(a) = Cardinality(Range(a)) BY <3>2, <3>4, InjectiveLength
    <3>6. IsSuffix(a, o) BY <3>2, SuffixFacts
    <3>7. QED BY <3>5, <3>6 DEF a, o, Written
  <2>3. life = "closed" => returned \subseteq Written(1)
    <3> SUFFICES ASSUME life = "closed" PROVE returned \subseteq Written(1)
      OBVIOUS
    <3>1. worker \in {"gone", "none"} /\ queue = << >> BY <2>0 DEF ModeInv, WorkerMode
    <3>2. InWork = {} /\ Queued = {} BY <3>1, EmptyFacts DEF InWork, Queued
    <3>3. QED BY <2>0, <3>2 DEF HandedInv, Past
  <2>4. Solo => \A i, j \in DOMAIN out[1] : i < j => out[1][i] < out[1][j]
    <3>1. DOMAIN out[1] = 1..Len(out[1]) BY <2>1
    <3>2. QED BY <2>0, <3>1 DEF OrderInv, Increasing
  <2>5. QED BY <2>2, <2>3, <2>4 DEF RecordsDelivered
<1>2. QED BY <1>1, LoggerInvariant, PTL

\* With one client, vlLoggerFlush returns only when every record whose
\* vlLoggerMessage returned before the call is written.
THEOREM FlushIsComplete == LoggerSpec => []FlushComplete
<1>1. LoggerInv => FlushComplete BY DEF LoggerInv
<1>2. QED BY <1>1, LoggerInvariant, PTL

===============================================================================
