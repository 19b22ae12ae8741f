---------------------------- MODULE SharedProofs ----------------------------
(***************************************************************************)
(* Proofs about the shared parts, for any number of threads, connections,  *)
(* platforms and builds.  s1, s2, ... are the variables of the part that   *)
(* subject names, in the order in which Shared instantiates it.            *)
(***************************************************************************)
EXTENDS Shared, Sequences, FiniteSetTheorems, TLAPS

----------------------------------------------------------------------------
(* Threads: s1 is the record, s2 the worker, s3 the owner, s4 and s5 what  *)
(* vlThreadCurrent has given out.                                          *)

\* A call of vlThreadCurrent leaves each main record with the thread it is for.
LEMMA CurrentKeeps ==
  ASSUME Thr!ThreadInv, NEW f \in Threads,
         Thr!PosixCurrent(f) \/ Thr!WinCurrent(f) \/ Thr!WinMain(f)
  PROVE  /\ s4' \in [Threads -> {"null", "first", "main", "own"}] /\ s5' \in Threads \cup {NoThread}
         /\ s5' # NoThread => s4'[s5'] = "main"
         /\ \A g \in Threads : s4'[g] \in {"main", "own"} => s5' # NoThread
<1>1. /\ s4 \in [Threads -> {"null", "first", "main", "own"}] /\ s5 \in Threads \cup {NoThread}
      /\ s5 # NoThread => s4[s5] = "main"
      /\ \A g \in Threads : s4[g] \in {"main", "own"} => s5 # NoThread
  BY DEF Thr!ThreadInv, Thr!ThreadTypes, Thr!ThreadSound
<1>2. CASE s5' = f /\ s4' = [s4 EXCEPT ![f] = "main"] BY <1>1, <1>2, SharedAssumption
<1>3. CASE Thr!WinCurrent(f)
  <2>1. CASE s5 = NoThread
    <3>1. s5' = NoThread /\ s4' = [s4 EXCEPT ![f] = "first"] BY <1>3, <2>1 DEF Thr!WinCurrent
    <3>2. QED BY <1>1, <2>1, <3>1
  <2>2. CASE s5 # NoThread
    <3>1. s5' = s5 /\ s4' = [s4 EXCEPT ![f] = "own"] /\ s4[f] = "null"
      BY <1>3, <2>2 DEF Thr!WinCurrent
    <3>2. QED BY <1>1, <2>2, <3>1
  <2>3. QED BY <2>1, <2>2
<1>4. QED BY <1>2, <1>3 DEF Thr!PosixCurrent, Thr!WinMain

\* The initial record is nobody's.
LEMMA ThreadStart == Thr!ThreadInit => Thr!ThreadInv
  BY SharedAssumption
  DEF Thr!ThreadInit, Thr!ThreadInv, Thr!ThreadTypes, Thr!RecordInv, Thr!ThreadSound, Thr!NoMeta,
      Thr!Posix

\* The record of a new thread is live and has not been joined.
LEMMA NewRecord ==
  ASSUME NEW n \in Nat, NEW r, r = [Thr!NoMeta EXCEPT !.live = TRUE, !.made = n, !.touched = FALSE]
  PROVE  /\ r \in [live : BOOLEAN, finished : BOOLEAN, lock : {NoThread, "worker"}, joins : 0..1,
                   made : Nat, touched : BOOLEAN]
         /\ r.live /\ ~r.finished /\ r.joins = 0 /\ ~r.touched
<1>1. Thr!NoMeta \in [live : BOOLEAN, finished : BOOLEAN, lock : {NoThread, "worker"}, joins : 0..1,
                     made : Nat, touched : BOOLEAN]
  BY DEF Thr!NoMeta
<1>2. Thr!NoMeta.finished = FALSE /\ Thr!NoMeta.joins = 0 BY DEF Thr!NoMeta
<1>3. QED BY <1>1, <1>2

\* An access to a record that is live leaves no trace.
LEMMA TouchStays ==
  ASSUME Thr!ThreadInv, s1.live
  PROVE  Thr!Touch(s1) = s1
<1>1. s1.touched = FALSE /\ s1.live = TRUE
  BY DEF Thr!ThreadInv, Thr!ThreadTypes, Thr!ThreadSound
<1>2. [s1 EXCEPT !.touched = s1.touched \/ ~s1.live] = s1
  BY <1>1 DEF Thr!ThreadInv, Thr!ThreadTypes
<1>3. QED BY <1>2 DEF Thr!Touch

\* Every step of the thread and of its owner keeps the invariant.
LEMMA ThreadStep ==
  ASSUME Thr!ThreadInv, Thr!ThreadNext \/ UNCHANGED Thr!threadVars
  PROVE  Thr!ThreadInv'
<1> USE SharedAssumption
    DEF Thr!ThreadInv, Thr!ThreadTypes, Thr!RecordInv, Thr!ThreadSound, Thr!Posix
<1>1. ASSUME NEW ok \in BOOLEAN, Thr!PosixNew(ok) \/ Thr!WinNew(ok)
      PROVE  Thr!ThreadInv'
  <2>1. Thr!Create(ok) BY <1>1 DEF Thr!PosixNew, Thr!WinNew
  <2>2. /\ s3' = s3 /\ s6' = s6 /\ s3.at = "idle" /\ ~s1.live /\ s2 \in {"none", "ended"}
        /\ s4' = s4 /\ s5' = s5
        /\ IF ok THEN /\ s1' = [Thr!NoMeta EXCEPT !.live = TRUE, !.made = s1.made + 1,
                                                 !.touched = s1.touched]
                      /\ s2' = "proc"
                 ELSE s1' = s1 /\ s2' = s2
    BY <2>1 DEF Thr!Create, Thr!SameMain
  <2>4. /\ s4' \in [Threads -> {"null", "first", "main", "own"}] /\ s5' \in Threads \cup {NoThread}
        /\ s5' # NoThread => s4'[s5'] = "main"
        /\ \A g \in Threads : s4'[g] \in {"main", "own"} => s5' # NoThread
    BY <2>2
  <2>5. CASE ok
    <3>1. s1' = [Thr!NoMeta EXCEPT !.live = TRUE, !.made = s1.made + 1, !.touched = FALSE]
      <4>1. s1.touched = FALSE OBVIOUS
      <4>2. QED BY <2>2, <2>5, <4>1
    <3>2. s1.made + 1 \in Nat OBVIOUS
    <3>3. ~s3.result BY <2>2
    <3>4. /\ s1' \in [live : BOOLEAN, finished : BOOLEAN, lock : {NoThread, "worker"}, joins : 0..1,
                      made : Nat, touched : BOOLEAN]
          /\ s1'.live /\ ~s1'.finished /\ s1'.joins = 0 /\ ~s1'.touched
      BY <3>1, <3>2, NewRecord
    <3>5. QED BY <2>2, <2>4, <2>5, <3>3, <3>4
  <2>6. CASE ~ok BY <2>2, <2>4, <2>6
  <2>7. QED BY <2>5, <2>6
<1>2. CASE Thr!ProcReturns BY <1>2 DEF Thr!ProcReturns, Thr!SameMain
<1>3. CASE Thr!ThreadExit BY <1>3 DEF Thr!ThreadExit, Thr!SameMain
<1>4. CASE Thr!BootstrapFinish
  <2>1. s1.live BY <1>4 DEF Thr!BootstrapFinish
  <2>2. Thr!Touch(s1) = s1 BY <2>1, TouchStays
  <2>3. /\ s2 = "finish" /\ s2' = "unlock" /\ s4' = s4 /\ s5' = s5 /\ s6' = s6
        /\ s1' = [s1 EXCEPT !.finished = TRUE, !.lock = "worker"]
        /\ s3' = [s3 EXCEPT !.told = s3.told \/ s3.at = "waiting"]
    BY <1>4, <2>2 DEF Thr!BootstrapFinish, Thr!SameMain
  <2>4. CASE s3.at = "waiting"
    <3>1. s3' = [s3 EXCEPT !.told = TRUE] BY <2>3, <2>4
    <3>2. QED BY <2>1, <2>3, <2>4, <3>1
  <2>5. CASE s3.at # "waiting"
    <3>1. (s3.told \/ s3.at = "waiting") \in BOOLEAN OBVIOUS
    <3>2. PICK b \in BOOLEAN : s3' = [s3 EXCEPT !.told = b] BY <2>3, <3>1
    <3>3. s3' \in [at : {"idle", "join", "waiting", "woken"}, result : BOOLEAN, told : BOOLEAN]
      BY <3>2
    <3>4. s3'.at = s3.at /\ s3'.result = s3.result BY <3>2
    <3>5. s1' \in [live : BOOLEAN, finished : BOOLEAN, lock : {NoThread, "worker"}, joins : 0..1,
                   made : Nat, touched : BOOLEAN]
      BY <2>3
    <3>6. s1'.live /\ s1'.joins = s1.joins /\ s1'.touched = s1.touched BY <2>1, <2>3
    <3>7. s2 = "finish" /\ s1.joins = 0 BY <2>3
    <3>8. Thr!ThreadTypes' BY <2>3, <3>3, <3>5
    <3>9. Thr!RecordInv' BY <2>1, <2>3, <3>4, <3>6, <3>7
    <3>10. Thr!ThreadSound' BY <2>3, <2>5, <3>4, <3>6, <3>7
    <3>11. QED BY <3>8, <3>9, <3>10
  <2>6. QED BY <2>4, <2>5
<1>5. CASE Thr!BootstrapUnlock
  <2>1. s1.live BY <1>5 DEF Thr!BootstrapUnlock
  <2>2. Thr!Touch(s1) = s1 BY <2>1, TouchStays
  <2>3. QED BY <1>5, <2>2 DEF Thr!BootstrapUnlock, Thr!SameMain
<1>6. CASE Thr!JoinCall BY <1>6 DEF Thr!JoinCall, Thr!May, Thr!Owner_, Thr!SameMain
<1>7. CASE Thr!JoinReturns
  <2>1. s1.live /\ s1.joins = 0 BY <1>7 DEF Thr!JoinReturns
  <2>2. Thr!Touch(s1) = s1 BY <2>1, TouchStays
  <2>3. Thr!Joined(s1) = [s1 EXCEPT !.joins = 1] BY <2>1, <2>2 DEF Thr!Joined
  <2>4. /\ s2 = "ended" /\ s2' = s2 /\ s4' = s4 /\ s5' = s5 /\ s6' = s6
        /\ s1' = [s1 EXCEPT !.joins = 1] /\ s3' = [s3 EXCEPT !.at = "idle", !.result = TRUE]
    BY <1>7, <2>3 DEF Thr!JoinReturns, Thr!SameMain
  <2>5. s1'.live /\ s1'.joins = 1 /\ s1'.touched = s1.touched /\ s3'.at = "idle"
    BY <2>1, <2>4
  <2>6. s1' \in [live : BOOLEAN, finished : BOOLEAN, lock : {NoThread, "worker"}, joins : 0..1,
                 made : Nat, touched : BOOLEAN]
    BY <2>4
  <2>7. s3' \in [at : {"idle", "join", "waiting", "woken"}, result : BOOLEAN, told : BOOLEAN]
    BY <2>4
  <2>8. QED BY <2>4, <2>5, <2>6, <2>7
<1>8. CASE Thr!WinJoinTimeout
  <2>1. s1.live /\ s1.joins = 0 BY <1>8 DEF Thr!WinJoinTimeout, Thr!May
  <2>2. Thr!Touch(s1) = s1 BY <2>1, TouchStays
  <2>3. Thr!Joined(s1) = [s1 EXCEPT !.joins = 1] BY <2>1, <2>2 DEF Thr!Joined
  <2>4. s3.at = "idle" /\ s3' = [s3 EXCEPT !.result = (s2 = "ended")] /\ s2' = s2
        /\ (IF s2 = "ended" THEN s1' = [s1 EXCEPT !.joins = 1] ELSE s1' = s1)
        /\ s4' = s4 /\ s5' = s5 /\ s6' = s6
    BY <1>8, <2>3 DEF Thr!WinJoinTimeout, Thr!May, Thr!SameMain
  <2>5. CASE s2 = "ended"
    <3>1. s3' = [s3 EXCEPT !.result = TRUE] /\ s1' = [s1 EXCEPT !.joins = 1] BY <2>4, <2>5
    <3>2. QED BY <2>1, <2>4, <2>5, <3>1
  <2>6. CASE s2 # "ended"
    <3>1. s3' = [s3 EXCEPT !.result = FALSE] /\ s1' = s1 BY <2>4, <2>6
    <3>2. QED BY <2>1, <2>4, <2>6, <3>1
  <2>7. QED BY <2>5, <2>6
<1>9. ASSUME NEW from \in {"idle", "woken"}, Thr!TimedLook(from, "waiting"), s1.live, s1.joins = 0
      PROVE  Thr!ThreadInv'
  <2>1. Thr!Touch(s1) = s1 BY <1>9, TouchStays
  <2>2. /\ s1' = s1 /\ s2' = s2 /\ s4' = s4 /\ s5' = s5 /\ s6' = s6
        /\ \/ s1.finished /\ s3' = [s3 EXCEPT !.at = "join", !.told = FALSE]
           \/ ~s1.finished /\ s3' = [s3 EXCEPT !.at = "waiting", !.told = FALSE]
    BY <1>9, <2>1 DEF Thr!TimedLook, Thr!SameMain
  <2>3. QED BY <1>9, <2>2
<1>10. CASE Thr!TimedWake BY <1>10 DEF Thr!TimedWake, Thr!Owner_, Thr!SameMain
<1>11. CASE Thr!PosixJoinTimeout \/ Thr!TimedAgain
  <2>1. \E from \in {"idle", "woken"} : Thr!TimedLook(from, "waiting") /\ s1.live /\ s1.joins = 0
    BY <1>11 DEF Thr!PosixJoinTimeout, Thr!May, Thr!TimedAgain, Thr!TimedLook
  <2>2. QED BY <1>9, <2>1
<1>12. CASE Thr!TimedOut
  <2>1. s1.live /\ s1.joins = 0 BY <1>12 DEF Thr!TimedOut
  <2>2. Thr!Touch(s1) = s1 BY <2>1, TouchStays
  <2>3. /\ s1' = s1 /\ s2' = s2 /\ s4' = s4 /\ s5' = s5 /\ s6' = s6
        /\ \/ s3' = [s3 EXCEPT !.at = "join", !.told = FALSE]
           \/ s3' = [s3 EXCEPT !.at = "idle", !.result = FALSE, !.told = FALSE]
    BY <1>12, <2>2 DEF Thr!TimedOut, Thr!SameMain
  <2>4. QED BY <1>12, <2>1, <2>3 DEF Thr!TimedOut
<1>13. CASE Thr!PosixDelete \/ Thr!WinDelete
  <2>1. Thr!Delete BY <1>13 DEF Thr!PosixDelete, Thr!WinDelete
  <2>2. /\ s3.at = "idle" /\ s1.joins = 1 /\ s2' = s2 /\ s4' = s4 /\ s5' = s5 /\ s6' = s6
        /\ s1' = [s1 EXCEPT !.live = FALSE] /\ s3' = [s3 EXCEPT !.result = FALSE]
    BY <2>1 DEF Thr!Delete, Thr!SameMain
  <2>3. s1'.joins = 1 /\ s1'.touched = s1.touched /\ s1'.live = FALSE /\ s2 = "ended"
    BY <2>2
  <2>4. s3'.at = "idle" /\ s3'.result = FALSE BY <2>2
  <2>5. Thr!ThreadTypes' BY <2>2
  <2>6. QED BY <2>2, <2>3, <2>4, <2>5
<1>14. ASSUME NEW f \in Threads, Thr!Current(f)
       PROVE  Thr!ThreadInv'
  <2>1. /\ s1' = s1 /\ s2' = s2 /\ s3' = s3 /\ s6' = s6
        /\ Thr!PosixCurrent(f) \/ Thr!WinCurrent(f) \/ Thr!WinMain(f)
    BY <1>14 DEF Thr!Current
  <2>2. /\ s4' \in [Threads -> {"null", "first", "main", "own"}] /\ s5' \in Threads \cup {NoThread}
        /\ s5' # NoThread => s4'[s5'] = "main"
        /\ \A g \in Threads : s4'[g] \in {"main", "own"} => s5' # NoThread
    <3> HIDE DEF Thr!ThreadInv, Thr!Posix
    <3>1. QED BY <2>1, CurrentKeeps
  <2>3. QED BY <2>1, <2>2
<1>15. CASE UNCHANGED Thr!threadVars BY <1>15 DEF Thr!threadVars
<1>16. QED
  BY <1>1, <1>2, <1>3, <1>4, <1>5, <1>6, <1>7, <1>8, <1>10, <1>11, <1>12, <1>13,
     <1>14, <1>15 DEF Thr!ThreadNext

----------------------------------------------------------------------------
(* Locks: s1 is the handles, s2 and s3 who holds the mutex and the         *)
(* reader-writer lock, s4 the semaphore, s5 the clients.                   *)

\* The instance counts as FiniteSets does.
LEMMA SynCardinality ==
  ASSUME NEW S
  PROVE  Syn!Cardinality(S) = Cardinality(S)
  BY DEF Syn!Cardinality, Cardinality

\* A set of at most one element.
LEMMA AtMostOne ==
  ASSUME NEW S, \A c, d \in S : c = d
  PROVE  Cardinality(S) <= 1
<1>1. CASE S = {} BY <1>1, FS_EmptySet
<1>2. CASE S # {}
  <2>1. PICK c \in S : TRUE BY <1>2
  <2>2. S = {c} BY <2>1
  <2>3. Cardinality({c}) = 1 BY FS_Singleton
  <2>4. QED BY <2>2, <2>3
<1>3. QED BY <1>1, <1>2

\* The invariant says what SyncSound says.
LEMMA SyncInvSound ==
  ASSUME Syn!SyncInv
  PROVE  Syn!SyncSound
<1>1. Cardinality(s2) <= 1 BY AtMostOne DEF Syn!SyncInv, Syn!MutexInv
<1>2. s4.count >= 0 /\ s4.count + s4.takes = s4.initial + s4.posts BY DEF Syn!SyncInv, Syn!SyncTypes
<1>3. ASSUME s1.rwlock, NEW mode \in Syn!Modes PROVE s3[mode] = {c \in Clients : Syn!At(c, {mode})}
  <2>1. s3[mode] \subseteq Clients BY DEF Syn!SyncInv, Syn!SyncTypes
  <2>2. \A c \in Clients : c \in s3[mode] <=> s5[c].at = mode BY <1>3 DEF Syn!SyncInv, Syn!RwInv
  <2>3. QED BY <2>1, <2>2 DEF Syn!At
<1>4. ASSUME s1.rwlock, NEW c \in Clients, NEW d \in Clients, c # d, Syn!At(c, {"exclusive"})
      PROVE  ~Syn!At(d, Syn!Modes)
  BY <1>4 DEF Syn!At, Syn!SyncInv, Syn!RwInv
<1>5. ASSUME s1.mutex PROVE s2 = {c \in Clients : Syn!At(c, {"mutex"})}
  <2>1. s2 \subseteq Clients BY DEF Syn!SyncInv, Syn!SyncTypes
  <2>2. \A c \in Clients : c \in s2 <=> s5[c].at = "mutex" BY <1>5 DEF Syn!SyncInv, Syn!MutexInv
  <2>3. QED BY <2>1, <2>2 DEF Syn!At
<1>6. \A c \in Clients : s5[c].told => Syn!At(c, {"wait", "timedwait"})
  BY DEF Syn!At, Syn!SyncInv, Syn!ToldInv
<1>7. s1.rwlock => \A mode \in Syn!Modes : s3[mode] = {c \in Clients : Syn!At(c, {mode})} BY <1>3
<1>8. s1.rwlock => \A c, d \in Clients : c # d /\ Syn!At(c, {"exclusive"}) => ~Syn!At(d, Syn!Modes)
  BY <1>4
<1>9. s1.mutex => s2 = {c \in Clients : Syn!At(c, {"mutex"})} /\ Syn!Cardinality(s2) <= 1
  BY <1>1, <1>5, SynCardinality
<1>10. QED BY <1>2, <1>6, <1>7, <1>8, <1>9 DEF Syn!SyncSound

\* In the beginning nobody holds anything.
LEMMA SyncStart == Syn!SyncInit => Syn!SyncInv
<1> SUFFICES ASSUME Syn!SyncInit PROVE Syn!SyncInv OBVIOUS
<1>1. /\ s2 = {} /\ s3 = [mode \in Syn!Modes |-> {}]
      /\ s5 = [c \in Clients |-> [at |-> "idle", told |-> FALSE]]
  BY DEF Syn!SyncInit
<1>2. PICK os \in Platforms, m \in BOOLEAN, l \in BOOLEAN :
        s1 = [os |-> os, mutex |-> m, rwlock |-> l, live |-> TRUE]
  BY DEF Syn!SyncInit
<1>3. PICK n \in 0..1 : s4 = [count |-> n, initial |-> n, posts |-> 0, takes |-> 0]
  BY DEF Syn!SyncInit
<1>4. Syn!SyncTypes BY <1>1, <1>2, <1>3 DEF Syn!SyncTypes, Syn!Modes
<1>5. \A c \in Clients : s5[c].at = "idle" /\ ~s5[c].told BY <1>1
<1>6. s4.count + s4.takes = s4.initial + s4.posts BY <1>3
<1>7. QED BY <1>1, <1>4, <1>5, <1>6 DEF Syn!SyncInv, Syn!MutexInv, Syn!RwInv, Syn!ToldInv, Syn!Modes

\* What a client that changes its place leaves alone.
LEMMA GoFacts ==
  ASSUME Syn!SyncTypes, NEW c \in Clients,
         NEW l \in {"idle", "mutex", "wait", "timedwait", "sem", "semforever", "shared", "exclusive"},
         Syn!Go(c, l)
  PROVE  /\ s5' \in [Clients -> [at : {"idle", "mutex", "wait", "timedwait", "sem", "semforever"} \cup Syn!Modes,
                                told : BOOLEAN]]
         /\ s5'[c].at = l /\ s5'[c].told = s5[c].told
         /\ \A d \in Clients \ {c} : s5'[d] = s5[d]
  BY DEF Syn!Go, Syn!SyncTypes, Syn!Modes

\* A step with the mutex, alone or with the condition, keeps who holds what.
LEMMA MutexStep ==
  ASSUME Syn!SyncInv, NEW c \in Clients, s1' = s1, s3' = s3, s4' = s4,
         \/ Syn!PosixMutex(c) \/ Syn!WinMutex(c)
         \/ Syn!PosixCondition(c) \/ Syn!WinCondition(c) \/ Syn!ConditionReturn(c)
  PROVE  Syn!SyncInv'
<1> DEFINE Labels == {"idle", "mutex", "wait", "timedwait", "sem", "semforever"} \cup Syn!Modes
<1>1. /\ Syn!SyncTypes /\ Syn!MutexInv /\ Syn!RwInv /\ Syn!ToldInv
      /\ s4.count + s4.takes = s4.initial + s4.posts
      /\ s5 \in [Clients -> [at : Labels, told : BOOLEAN]] /\ s2 \subseteq Clients
  BY DEF Syn!SyncInv, Syn!SyncTypes
<1>2. Syn!Modes = {"shared", "exclusive"} BY DEF Syn!Modes
\* What is to show of such a step, if c is the only client that moves.
<1>3. ASSUME s5' \in [Clients -> [at : Labels, told : BOOLEAN]], s2' \subseteq Clients,
             \A d \in Clients \ {c} : s5'[d].at = s5[d].at,
             s5[c].at \notin Syn!Modes, s5'[c].at \notin Syn!Modes,
             Syn!MutexInv', Syn!ToldInv'
      PROVE  Syn!SyncInv'
  <2>1. Syn!SyncTypes' BY <1>1, <1>3 DEF Syn!SyncTypes
  <2>2. \A d \in Clients : \A mode \in Syn!Modes : s5'[d].at = mode <=> s5[d].at = mode
    BY <1>3
  <2>3. \A d \in Clients : /\ s5'[d].at = "exclusive" <=> s5[d].at = "exclusive"
                           /\ s5'[d].at \in Syn!Modes <=> s5[d].at \in Syn!Modes
    BY <1>2, <1>3
  <2>4. Syn!RwInv' BY <1>1, <2>2, <2>3 DEF Syn!RwInv
  <2>5. QED BY <1>1, <1>3, <2>1, <2>4 DEF Syn!SyncInv
<1>4. ASSUME s5[c].at = "idle", s1.mutex => s2 = {}, s2' = IF s1.mutex THEN {c} ELSE s2,
             Syn!Go(c, "mutex")
      PROVE  Syn!SyncInv'
  <2>1. /\ s5' \in [Clients -> [at : Labels, told : BOOLEAN]]
        /\ s5'[c].at = "mutex" /\ s5'[c].told = s5[c].told
        /\ \A d \in Clients \ {c} : s5'[d] = s5[d]
    BY <1>1, <1>4, GoFacts
  <2>2. Syn!MutexInv' BY <1>1, <1>4, <2>1 DEF Syn!MutexInv
  <2>3. Syn!ToldInv' BY <1>1, <1>4, <2>1 DEF Syn!ToldInv
  <2>4. QED BY <1>1, <1>2, <1>3, <1>4, <2>1, <2>2, <2>3
<1>5. ASSUME s5[c].at = "mutex", s2' = s2 \ {c}, Syn!Go(c, "idle")
      PROVE  Syn!SyncInv'
  <2>1. /\ s5' \in [Clients -> [at : Labels, told : BOOLEAN]]
        /\ s5'[c].at = "idle" /\ s5'[c].told = s5[c].told
        /\ \A d \in Clients \ {c} : s5'[d] = s5[d]
    BY <1>1, <1>5, GoFacts
  <2>2. Syn!MutexInv' BY <1>1, <1>5, <2>1 DEF Syn!MutexInv
  <2>3. Syn!ToldInv' BY <1>1, <1>5, <2>1 DEF Syn!ToldInv
  <2>4. QED BY <1>1, <1>2, <1>3, <1>5, <2>1, <2>2, <2>3
<1>6. ASSUME NEW label \in {"wait", "timedwait"}, s1.mutex, s5[c].at = "mutex", s2' = {},
             s5' = [s5 EXCEPT ![c] = [at |-> label, told |-> FALSE]]
      PROVE  Syn!SyncInv'
  <2>1. /\ s5' \in [Clients -> [at : Labels, told : BOOLEAN]]
        /\ s5'[c].at = label /\ ~s5'[c].told
        /\ \A d \in Clients \ {c} : s5'[d] = s5[d]
    BY <1>1, <1>6
  <2>2. Syn!MutexInv' BY <1>1, <1>6, <2>1 DEF Syn!MutexInv
  <2>3. Syn!ToldInv' BY <1>1, <1>6, <2>1 DEF Syn!ToldInv
  <2>4. QED BY <1>1, <1>2, <1>3, <1>6, <2>1, <2>2, <2>3
<1>7. ASSUME s5[c].at \in {"wait", "timedwait"}, s2 = {}, s2' = {c},
             s5' = [s5 EXCEPT ![c] = [at |-> "mutex", told |-> FALSE]]
      PROVE  Syn!SyncInv'
  <2>1. /\ s5' \in [Clients -> [at : Labels, told : BOOLEAN]]
        /\ s5'[c].at = "mutex" /\ ~s5'[c].told
        /\ \A d \in Clients \ {c} : s5'[d] = s5[d]
    BY <1>1, <1>7
  <2>2. Syn!MutexInv' BY <1>1, <1>7, <2>1 DEF Syn!MutexInv
  <2>3. Syn!ToldInv' BY <1>1, <1>7, <2>1 DEF Syn!ToldInv
  <2>4. QED BY <1>1, <1>2, <1>3, <1>7, <2>1, <2>2, <2>3
<1>8. ASSUME s5[c].at = "mutex", NEW C \in SUBSET Syn!Waiting, Syn!Tell(C)
      PROVE  Syn!SyncInv'
  <2>1. \A d \in Clients : s5'[d] = [s5[d] EXCEPT !.told = s5[d].told \/ d \in C]
    BY <1>8 DEF Syn!Tell
  <2>2. \A d \in Clients : (s5[d].told \/ d \in C) \in BOOLEAN /\ s5[d] \in [at : Labels, told : BOOLEAN]
    BY <1>1
  <2>3. \A d \in Clients : /\ s5'[d] \in [at : Labels, told : BOOLEAN] /\ s5'[d].at = s5[d].at
                           /\ s5'[d].told <=> s5[d].told \/ d \in C
    BY <2>1, <2>2
  <2>4. s5' \in [Clients -> [at : Labels, told : BOOLEAN]] /\ s2' = s2
    BY <1>8, <2>3 DEF Syn!Tell
  <2>5. Syn!MutexInv' BY <1>1, <2>3, <2>4 DEF Syn!MutexInv
  <2>6. \A d \in C : d \in Clients /\ s5[d].at \in {"wait", "timedwait"}
    BY <1>8 DEF Syn!Waiting, Syn!At
  <2>7. Syn!ToldInv' BY <1>1, <2>3, <2>6 DEF Syn!ToldInv
  <2>8. QED BY <1>1, <1>2, <1>3, <1>8, <2>3, <2>4, <2>5, <2>7
<1>9. CASE s2' = s2 /\ s5' = s5
  BY <1>1, <1>9 DEF Syn!SyncInv, Syn!SyncTypes, Syn!MutexInv, Syn!RwInv, Syn!ToldInv
<1>10. ASSUME s5[c].at = "idle", Syn!MutexLock(c) \/ Syn!MutexTry(c)
       PROVE  Syn!SyncInv'
  <2>1. CASE Syn!MutexLock(c) BY <1>4, <1>10, <2>1 DEF Syn!MutexLock
  <2>2. CASE Syn!MutexTry(c) BY <1>4, <1>9, <1>10, <2>2 DEF Syn!MutexTry
  <2>3. QED BY <1>10, <2>1, <2>2
<1>11. CASE Syn!PosixMutex(c) \/ Syn!WinMutex(c)
  <2>1. \/ s5[c].at = "idle" /\ (Syn!MutexLock(c) \/ Syn!MutexTry(c))
        \/ s5[c].at = "mutex" /\ Syn!MutexUnlock(c)
    BY <1>11 DEF Syn!PosixMutex, Syn!WinMutex, Syn!Starts, Syn!Holds, Syn!At
  <2>2. QED BY <1>5, <1>10, <2>1 DEF Syn!MutexUnlock
<1>12. CASE Syn!PosixCondition(c) \/ Syn!WinCondition(c)
  <2>1. \/ \E label \in {"wait", "timedwait"} : Syn!ConditionWait(c, label)
        \/ s5[c].at = "mutex" /\ \E C \in SUBSET Syn!Waiting : Syn!Tell(C)
    BY <1>12 DEF Syn!PosixCondition, Syn!WinCondition, Syn!Holds, Syn!At
  <2>2. QED BY <1>6, <1>8, <2>1 DEF Syn!ConditionWait, Syn!At
<1>13. CASE Syn!ConditionReturn(c) BY <1>7, <1>13 DEF Syn!ConditionReturn, Syn!At
<1>14. QED BY <1>11, <1>12, <1>13

\* A step with the reader-writer lock keeps who holds it, alone if exclusively.
LEMMA RwStep ==
  ASSUME Syn!SyncInv, NEW c \in Clients, NEW mode \in Syn!Modes, s1' = s1, s2' = s2, s4' = s4,
         Syn!PosixSRWLock(c, mode) \/ Syn!WinSRWLock(c, mode)
  PROVE  Syn!SyncInv'
<1> DEFINE Labels == {"idle", "mutex", "wait", "timedwait", "sem", "semforever"} \cup Syn!Modes
<1>1. /\ Syn!SyncTypes /\ Syn!MutexInv /\ Syn!RwInv /\ Syn!ToldInv
      /\ s4.count + s4.takes = s4.initial + s4.posts
      /\ s5 \in [Clients -> [at : Labels, told : BOOLEAN]] /\ s3 \in [Syn!Modes -> SUBSET Clients]
  BY DEF Syn!SyncInv, Syn!SyncTypes
<1>2. Syn!Modes = {"shared", "exclusive"} BY DEF Syn!Modes
<1>3. ASSUME NEW l \in {"idle", "shared", "exclusive"}, Syn!Go(c, l), s5[c].at = "idle" \/ s5[c].at = mode,
             s3' \in [Syn!Modes -> SUBSET Clients], Syn!RwInv'
      PROVE  Syn!SyncInv'
  <2>1. /\ s5' \in [Clients -> [at : Labels, told : BOOLEAN]]
        /\ s5'[c].at = l /\ s5'[c].told = s5[c].told
        /\ \A d \in Clients \ {c} : s5'[d] = s5[d]
    BY <1>1, <1>3, GoFacts
  <2>2. Syn!SyncTypes' BY <1>1, <1>3, <2>1 DEF Syn!SyncTypes
  <2>3. Syn!MutexInv' BY <1>1, <1>2, <1>3, <2>1 DEF Syn!MutexInv
  <2>4. Syn!ToldInv' BY <1>1, <1>2, <1>3, <2>1 DEF Syn!ToldInv
  <2>5. QED BY <1>1, <1>3, <2>2, <2>3, <2>4 DEF Syn!SyncInv
<1>4. ASSUME s5[c].at = "idle", Syn!RwLock(c, mode)
      PROVE  Syn!SyncInv'
  <2>1. /\ s5' \in [Clients -> [at : Labels, told : BOOLEAN]]
        /\ s5'[c].at = mode
        /\ \A d \in Clients \ {c} : s5'[d] = s5[d]
    BY <1>1, <1>2, <1>4, GoFacts DEF Syn!RwLock
  <2>2. s3' = IF s1.rwlock THEN [s3 EXCEPT ![mode] = s3[mode] \cup {c}] ELSE s3 BY <1>4 DEF Syn!RwLock
  <2>3. s3' \in [Syn!Modes -> SUBSET Clients] BY <1>1, <2>2
  <2>4. ASSUME s1.rwlock
        PROVE  /\ \A d \in Clients, m \in Syn!Modes : d \in s3'[m] <=> s5'[d].at = m
               /\ \A d, e \in Clients : d # e /\ s5'[d].at = "exclusive" => s5'[e].at \notin Syn!Modes
    <3>1. /\ s3["exclusive"] = {} /\ (mode = "exclusive" => s3["shared"] = {})
          /\ s3' = [s3 EXCEPT ![mode] = s3[mode] \cup {c}]
      BY <1>4, <2>2, <2>4 DEF Syn!RwLock, Syn!Grants
    <3>2. \A d \in Clients, m \in Syn!Modes : d \in s3[m] <=> s5[d].at = m
      BY <1>1, <2>4 DEF Syn!RwInv
    <3>3. \A d \in Clients, m \in Syn!Modes : d \in s3'[m] <=> d \in s3[m] \/ (d = c /\ m = mode)
      BY <1>1, <3>1
    <3>4. \A d \in Clients, m \in Syn!Modes : s5'[d].at = m <=> (d # c /\ s5[d].at = m) \/ (d = c /\ m = mode)
      BY <2>1
    <3>5. \A d \in Clients, m \in Syn!Modes : d \in s3'[m] <=> s5'[d].at = m
      BY <1>2, <1>4, <3>2, <3>3, <3>4
    <3>6. \A d \in Clients : s5[d].at # "exclusive" /\ (mode = "exclusive" => s5[d].at # "shared")
      BY <1>2, <3>1, <3>2
    <3>7. \A d, e \in Clients : d # e /\ s5'[d].at = "exclusive" => s5'[e].at \notin Syn!Modes
      BY <1>2, <2>1, <3>6
    <3>8. QED BY <3>5, <3>7
  <2>5. Syn!RwInv' BY <2>4 DEF Syn!RwInv
  <2>6. QED BY <1>2, <1>3, <1>4, <2>3, <2>5 DEF Syn!RwLock
<1>5. CASE s3' = s3 /\ s5' = s5
  BY <1>1, <1>5 DEF Syn!SyncInv, Syn!SyncTypes, Syn!MutexInv, Syn!RwInv, Syn!ToldInv
<1>6. ASSUME s5[c].at = mode, Syn!Go(c, "idle"),
             \/ s3' = [m \in Syn!Modes |-> s3[m] \ {c}]
             \/ s3' = [s3 EXCEPT ![mode] = s3[mode] \ {c}]
      PROVE  Syn!SyncInv'
  <2>1. /\ s5' \in [Clients -> [at : Labels, told : BOOLEAN]]
        /\ s5'[c].at = "idle"
        /\ \A d \in Clients \ {c} : s5'[d] = s5[d]
    BY <1>1, <1>6, GoFacts
  <2>2. s3' \in [Syn!Modes -> SUBSET Clients] BY <1>1, <1>6
  <2>3. ASSUME s1.rwlock
        PROVE  /\ \A d \in Clients, m \in Syn!Modes : d \in s3'[m] <=> s5'[d].at = m
               /\ \A d, e \in Clients : d # e /\ s5'[d].at = "exclusive" => s5'[e].at \notin Syn!Modes
    <3>1. \A d \in Clients, m \in Syn!Modes : d \in s3[m] <=> s5[d].at = m
      BY <1>1, <2>3 DEF Syn!RwInv
    <3>2. \A m \in Syn!Modes : c \in s3[m] <=> m = mode BY <1>6, <3>1
    <3>3. \A d \in Clients, m \in Syn!Modes : d \in s3'[m] <=> d \in s3[m] /\ d # c
      BY <1>1, <1>6, <3>2
    <3>4. \A d \in Clients, m \in Syn!Modes : s5'[d].at = m <=> d # c /\ s5[d].at = m
      BY <1>2, <2>1
    <3>5. \A d \in Clients, m \in Syn!Modes : d \in s3'[m] <=> s5'[d].at = m
      BY <3>1, <3>3, <3>4
    <3>6. \A d, e \in Clients : d # e /\ s5[d].at = "exclusive" => s5[e].at \notin Syn!Modes
      BY <1>1, <2>3 DEF Syn!RwInv
    <3>7. \A d, e \in Clients : d # e /\ s5'[d].at = "exclusive" => s5'[e].at \notin Syn!Modes
      BY <1>2, <2>1, <3>4, <3>6
    <3>8. QED BY <3>5, <3>7
  <2>4. Syn!RwInv' BY <2>3 DEF Syn!RwInv
  <2>5. QED BY <1>3, <1>6, <2>2, <2>4
<1>7. ASSUME s5[c].at = "idle", Syn!RwLock(c, mode) \/ Syn!RwTry(c, mode)
      PROVE  Syn!SyncInv'
  BY <1>4, <1>5, <1>7 DEF Syn!RwTry
<1>8. \/ s5[c].at = "idle" /\ (Syn!RwLock(c, mode) \/ Syn!RwTry(c, mode))
      \/ /\ s5[c].at = mode /\ Syn!Go(c, "idle")
         /\ \/ s3' = [m \in Syn!Modes |-> s3[m] \ {c}]
            \/ s3' = [s3 EXCEPT ![mode] = s3[mode] \ {c}]
  BY DEF Syn!PosixSRWLock, Syn!WinSRWLock, Syn!Starts, Syn!Holds, Syn!At
<1>9. QED BY <1>6, <1>7, <1>8

\* A step with the semaphore keeps the count of units.
LEMMA SemStep ==
  ASSUME Syn!SyncInv, NEW c \in Clients, s1' = s1, s2' = s2, s3' = s3,
         \/ Syn!SemReturn(c)
         \/ \E limit \in 0..1 : Syn!PosixSemaphore(c, limit) \/ Syn!WinSemaphore(c, limit)
  PROVE  Syn!SyncInv'
<1> DEFINE Labels == {"idle", "mutex", "wait", "timedwait", "sem", "semforever"} \cup Syn!Modes
<1>1. /\ Syn!SyncTypes /\ Syn!MutexInv /\ Syn!RwInv /\ Syn!ToldInv
      /\ s4.count + s4.takes = s4.initial + s4.posts
      /\ s4 \in [count : Nat, initial : Nat, posts : Nat, takes : Nat]
      /\ s5 \in [Clients -> [at : Labels, told : BOOLEAN]] /\ s3 \in [Syn!Modes -> SUBSET Clients]
  BY DEF Syn!SyncInv, Syn!SyncTypes
<1>2. Syn!Modes = {"shared", "exclusive"} BY DEF Syn!Modes
<1>3. ASSUME s4.count > 0, s4' = Syn!SemTake
      PROVE  s4' \in [count : Nat, initial : Nat, posts : Nat, takes : Nat]
             /\ s4'.count + s4'.takes = s4'.initial + s4'.posts
  <2>1. s4' = [s4 EXCEPT !.count = s4.count - 1, !.takes = s4.takes + 1] BY <1>3 DEF Syn!SemTake
  <2>2. /\ s4'.count = s4.count - 1 /\ s4'.takes = s4.takes + 1
        /\ s4'.initial = s4.initial /\ s4'.posts = s4.posts
    BY <1>1, <2>1
  <2>3. s4.count \in Nat /\ s4.takes \in Nat /\ s4.initial \in Nat /\ s4.posts \in Nat BY <1>1
  <2>4. s4'.count \in Nat /\ s4'.takes \in Nat BY <1>3, <2>2, <2>3
  <2>5. s4' \in [count : Nat, initial : Nat, posts : Nat, takes : Nat]
    <3>1. s4.count - 1 \in Nat /\ s4.takes + 1 \in Nat BY <2>2, <2>4
    <3>2. ASSUME NEW x \in Nat, NEW y \in Nat
          PROVE  [s4 EXCEPT !.count = x, !.takes = y] \in [count : Nat, initial : Nat, posts : Nat, takes : Nat]
      BY <1>1
    <3>3. QED BY <2>1, <3>1, <3>2
  <2>6. s4'.count + s4'.takes = s4'.initial + s4'.posts BY <1>1, <2>2, <2>3
  <2>7. QED BY <2>5, <2>6
<1>4. ASSUME Syn!SemPost
      PROVE  s4' \in [count : Nat, initial : Nat, posts : Nat, takes : Nat]
             /\ s4'.count + s4'.takes = s4'.initial + s4'.posts
  <2>1. s4' = [s4 EXCEPT !.count = s4.count + 1, !.posts = s4.posts + 1] BY <1>4 DEF Syn!SemPost
  <2>2. /\ s4'.count = s4.count + 1 /\ s4'.posts = s4.posts + 1
        /\ s4'.initial = s4.initial /\ s4'.takes = s4.takes
    BY <1>1, <2>1
  <2>3. s4.count \in Nat /\ s4.takes \in Nat /\ s4.initial \in Nat /\ s4.posts \in Nat BY <1>1
  <2>4. s4'.count \in Nat /\ s4'.posts \in Nat BY <2>2, <2>3
  <2>5. s4' \in [count : Nat, initial : Nat, posts : Nat, takes : Nat]
    <3>1. s4.count + 1 \in Nat /\ s4.posts + 1 \in Nat BY <2>2, <2>4
    <3>2. ASSUME NEW x \in Nat, NEW y \in Nat
          PROVE  [s4 EXCEPT !.count = x, !.posts = y] \in [count : Nat, initial : Nat, posts : Nat, takes : Nat]
      BY <1>1
    <3>3. QED BY <2>1, <3>1, <3>2
  <2>6. s4'.count + s4'.takes = s4'.initial + s4'.posts BY <1>1, <2>2, <2>3
  <2>7. QED BY <2>5, <2>6
<1>5. \/ s4' = s4
      \/ s4.count > 0 /\ s4' = Syn!SemTake
      \/ Syn!SemPost
  BY DEF Syn!SemReturn, Syn!SemTryWait, Syn!PosixSemaphore, Syn!WinSemaphore
<1>6. s4' \in [count : Nat, initial : Nat, posts : Nat, takes : Nat]
      /\ s4'.count + s4'.takes = s4'.initial + s4'.posts
  BY <1>1, <1>3, <1>4, <1>5
<1>7. \/ s5' = s5
      \/ /\ s5[c].at \in {"idle", "sem", "semforever"}
         /\ \E l \in {"idle", "sem", "semforever"} : Syn!Go(c, l)
  BY DEF Syn!SemReturn, Syn!SemTryWait, Syn!PosixSemaphore, Syn!WinSemaphore, Syn!Starts, Syn!At
<1>8. CASE s5' = s5
  BY <1>1, <1>6, <1>8 DEF Syn!SyncInv, Syn!SyncTypes, Syn!MutexInv, Syn!RwInv, Syn!ToldInv
<1>9. ASSUME NEW l \in {"idle", "sem", "semforever"}, Syn!Go(c, l), s5[c].at \in {"idle", "sem", "semforever"}
      PROVE  Syn!SyncInv'
  <2>1. /\ s5' \in [Clients -> [at : Labels, told : BOOLEAN]]
        /\ s5'[c].at = l /\ s5'[c].told = s5[c].told
        /\ \A d \in Clients \ {c} : s5'[d] = s5[d]
    BY <1>1, <1>9, GoFacts
  <2>2. Syn!SyncTypes' BY <1>1, <1>6, <2>1 DEF Syn!SyncTypes
  <2>3. Syn!MutexInv' BY <1>1, <1>9, <2>1 DEF Syn!MutexInv
  <2>4. Syn!ToldInv' BY <1>1, <1>9, <2>1 DEF Syn!ToldInv
  <2>5. \A d \in Clients : \A m \in Syn!Modes : s5'[d].at = m <=> s5[d].at = m
    BY <1>2, <1>9, <2>1
  <2>6. \A d \in Clients : /\ s5'[d].at = "exclusive" <=> s5[d].at = "exclusive"
                           /\ s5'[d].at \in Syn!Modes <=> s5[d].at \in Syn!Modes
    BY <1>2, <2>5
  <2>7. Syn!RwInv' BY <1>1, <2>5, <2>6 DEF Syn!RwInv
  <2>8. QED BY <1>6, <2>2, <2>3, <2>4, <2>7 DEF Syn!SyncInv
<1>10. QED BY <1>7, <1>8, <1>9

\* Every step of the clients keeps the invariant.
LEMMA SyncStep ==
  ASSUME Syn!SyncInv, Syn!SyncNext \/ UNCHANGED Syn!syncVars
  PROVE  Syn!SyncInv'
<1>1. CASE Syn!DeleteHandles
  <2>1. /\ s1' = [s1 EXCEPT !.live = FALSE] /\ s2' = s2 /\ s3' = s3 /\ s4' = s4 /\ s5' = s5
    BY <1>1 DEF Syn!DeleteHandles
  <2>2. Syn!SyncTypes /\ Syn!MutexInv /\ Syn!RwInv /\ Syn!ToldInv /\ s4.count + s4.takes = s4.initial + s4.posts
    BY DEF Syn!SyncInv
  <2>3. Syn!SyncTypes' /\ s1'.mutex = s1.mutex /\ s1'.rwlock = s1.rwlock BY <2>1, <2>2 DEF Syn!SyncTypes
  <2>4. QED BY <2>1, <2>2, <2>3 DEF Syn!SyncInv, Syn!MutexInv, Syn!RwInv, Syn!ToldInv
<1>2. CASE UNCHANGED Syn!syncVars
  <2>1. s1' = s1 /\ s2' = s2 /\ s3' = s3 /\ s4' = s4 /\ s5' = s5 BY <1>2 DEF Syn!syncVars
  <2>2. QED BY <2>1 DEF Syn!SyncInv, Syn!SyncTypes, Syn!MutexInv, Syn!RwInv, Syn!ToldInv
<1>3. ASSUME NEW c \in Clients, s1' = s1,
             \/ Syn!PosixMutex(c) \/ Syn!WinMutex(c)
             \/ Syn!PosixCondition(c) \/ Syn!WinCondition(c) \/ Syn!ConditionReturn(c),
             s3' = s3, s4' = s4
      PROVE  Syn!SyncInv'
  BY <1>3, MutexStep
<1>4. ASSUME NEW c \in Clients, NEW mode \in Syn!Modes, s1' = s1, s2' = s2, s4' = s4,
             Syn!PosixSRWLock(c, mode) \/ Syn!WinSRWLock(c, mode)
      PROVE  Syn!SyncInv'
  BY <1>4, RwStep
<1>5. ASSUME NEW c \in Clients, s1' = s1, s2' = s2, s3' = s3,
             \/ Syn!SemReturn(c)
             \/ \E limit \in 0..1 : Syn!PosixSemaphore(c, limit) \/ Syn!WinSemaphore(c, limit)
      PROVE  Syn!SyncInv'
  BY <1>5, SemStep
<1>6. QED BY <1>1, <1>2, <1>3, <1>4, <1>5 DEF Syn!SyncNext


----------------------------------------------------------------------------
(* The table of functions *)

\* Whatever the build holds and the processor reports, the backend chosen is one whose
\* instructions the processor has.
LEMMA ChoiceFits ==
  ASSUME s2 \in Cpus
  PROVE  /\ Simd!Choice \in DOMAIN Simd!Needs
         /\ Simd!Needs[Simd!Choice] \subseteq s2
<1> USE DEF Simd!Needs, Simd!Choice, Simd!SupportsAVX2, Simd!SupportsSSE2
<1>1. CASE "avx2" \in s1 /\ "avx2" \in s2
  BY <1>1, SharedAssumption
<1>2. CASE ~("avx2" \in s1 /\ "avx2" \in s2) /\ "sse2" \in s1 /\ "xsave" \in s2
  BY <1>2, SharedAssumption
<1>3. CASE ~("avx2" \in s1 /\ "avx2" \in s2) /\ ~("sse2" \in s1 /\ "xsave" \in s2)
  BY <1>3
<1>4. QED BY <1>1, <1>2, <1>3

\* The invariant gives what is claimed of the table.
LEMMA SimdInvSettles ==
  ASSUME Simd!SimdInv
  PROVE  Simd!TableSettles
<1>1. Simd!SimdTypes BY DEF Simd!SimdInv
<1>2. /\ Simd!Choice \in DOMAIN Simd!Needs
      /\ Simd!Needs[Simd!Choice] \subseteq s2
  BY <1>1, ChoiceFits DEF Simd!SimdTypes
<1>3. Simd!Entries = {"preset", "unset", "name"} BY DEF Simd!Entries
<1>4. \A e \in Simd!Entries : s5[e] \in {Simd!Static[e], Simd!Choice} BY DEF Simd!SimdInv
<1>5. s5["preset"] \in DOMAIN Simd!Needs
  <2>1. s5["preset"] \in {"portable", Simd!Choice} BY <1>3, <1>4 DEF Simd!Static
  <2>2. QED BY <1>2, <2>1 DEF Simd!Needs
<1>6. ASSUME NEW e \in Simd!Entries, s5[e] \in DOMAIN Simd!Needs
      PROVE  Simd!Needs[s5[e]] \subseteq s2
  <2>1. CASE s5[e] = Simd!Choice BY <1>2, <2>1
  <2>2. CASE s5[e] = Simd!Static[e]
    <3>1. s5[e] \in {"portable", "null", "uninitialized"} BY <1>3, <2>2 DEF Simd!Static
    <3>2. s5[e] = "portable" BY <1>6, <3>1 DEF Simd!Needs
    <3>3. Simd!Needs["portable"] = {} BY DEF Simd!Needs
    <3>4. QED BY <3>2, <3>3
  <2>3. QED BY <1>4, <1>6, <2>1, <2>2
<1>7. ASSUME s3 \/ (Simd!Inside = {} /\ Simd!Returned # {})
      PROVE  \E backend \in DOMAIN Simd!Needs : s5 = Simd!Full(backend)
  <2>1. \A e \in Simd!Entries : s5[e] = Simd!Choice
    <3>1. CASE s3 BY <3>1 DEF Simd!SimdInv
    <3>2. CASE Simd!Inside = {} /\ Simd!Returned # {}
      <4>1. PICK t \in Clients : s6[t].at = "back" BY <3>2 DEF Simd!Returned
      <4>2. s4 BY <4>1 DEF Simd!SimdInv
      <4>3. \A c \in Clients : s6[c].at # "fill" BY <3>2 DEF Simd!Inside
      <4>4. \A c \in Clients : s6[c].left = {} BY <4>3 DEF Simd!SimdInv
      <4>5. QED BY <4>2, <4>4 DEF Simd!SimdInv
    <3>3. QED BY <1>7, <3>1, <3>2
  <2>2. s5 = [e \in Simd!Entries |-> s5[e]] BY <1>1 DEF Simd!SimdTypes
  <2>3. s5 = Simd!Full(Simd!Choice) BY <2>1, <2>2 DEF Simd!Full
  <2>4. QED BY <1>2, <2>3
<1>8. QED BY <1>5, <1>6, <1>7 DEF Simd!TableSettles

\* The table holds its initial entries, or was filled before the threads started.
LEMMA SimdStart ==
  ASSUME Simd!SimdInitInit
  PROVE  Simd!SimdInv
<1>1. /\ s2 \in Cpus /\ s3 \in BOOLEAN /\ s4 = s3
      /\ s5 = IF s3 THEN Simd!Full(Simd!Choice) ELSE Simd!Static
      /\ s6 = [t \in Clients |-> [at |-> "out", left |-> {}]]
  BY SharedAssumption DEF Simd!SimdInitInit, Simd!At
<1>2. Simd!Static \in [Simd!Entries -> {"portable", "null", "uninitialized"}]
  <2>1. Simd!Static \in [{"preset", "unset", "name"} -> {"portable", "null", "uninitialized"}]
    BY DEF Simd!Static
  <2>2. QED BY <2>1 DEF Simd!Entries
<1>3. Simd!Full(Simd!Choice) \in [Simd!Entries -> {Simd!Choice}]
      /\ \A e \in Simd!Entries : Simd!Full(Simd!Choice)[e] = Simd!Choice
  BY DEF Simd!Full
<1>4. /\ s5 \in [Simd!Entries -> {"portable", "null", "uninitialized", Simd!Choice}]
      /\ \A e \in Simd!Entries : s5[e] \in {Simd!Static[e], Simd!Choice}
      /\ (s3 => \A e \in Simd!Entries : s5[e] = Simd!Choice)
  <2>1. CASE s3 BY <1>1, <1>3, <2>1
  <2>2. CASE ~s3 BY <1>1, <1>2, <2>2
  <2>3. QED BY <2>1, <2>2
<1>5. s6 \in [Clients -> [at : {"out", "first", "fill", "back"}, left : SUBSET Simd!Entries]]
      /\ \A t \in Clients : s6[t].at = "out" /\ s6[t].left = {}
  BY <1>1
<1>6. QED BY <1>1, <1>4, <1>5 DEF Simd!SimdInv, Simd!SimdTypes

\* Threads that call vlSIMDInit, in whatever order, keep the table in order.
LEMMA SimdStep ==
  ASSUME Simd!SimdInv, Simd!SimdInitNext
  PROVE  Simd!SimdInv'
<1> DEFINE Places == [at : {"out", "first", "fill", "back"}, left : SUBSET Simd!Entries]
<1>1. /\ s2 \in Cpus /\ s3 \in BOOLEAN /\ s4 \in BOOLEAN
      /\ s5 \in [Simd!Entries -> {"portable", "null", "uninitialized", Simd!Choice}]
      /\ s6 \in [Clients -> Places]
      /\ \A e \in Simd!Entries : s5[e] \in {Simd!Static[e], Simd!Choice}
      /\ s3 => s4 /\ \A e \in Simd!Entries : s5[e] = Simd!Choice
      /\ s4 => \A e \in Simd!Entries : s5[e] = Simd!Choice \/ \E t \in Clients : e \in s6[t].left
      /\ \A t \in Clients : /\ s6[t].at \in {"fill", "back"} => s4
                            /\ s6[t].at # "fill" => s6[t].left = {}
  BY DEF Simd!SimdInv, Simd!SimdTypes
<1>2. PICK t \in Clients : \/ Simd!Enter(t) \/ Simd!Claim(t) \/ Simd!Leave(t)
                           \/ \E e \in Simd!Entries : Simd!Fill(t, e)
  BY DEF Simd!SimdInitNext
<1>3. s1' = s1 /\ s2' = s2 /\ s3' = s3
  BY <1>2 DEF Simd!Enter, Simd!Claim, Simd!Leave, Simd!Fill
<1>4. Simd!Choice' = Simd!Choice
  BY <1>3 DEF Simd!Choice, Simd!SupportsAVX2, Simd!SupportsSSE2
<1> HIDE DEF Places
<1>5. ASSUME NEW p \in Places, s6' = [s6 EXCEPT ![t] = p]
      PROVE  /\ s6' \in [Clients -> Places] /\ s6'[t] = p
             /\ \A d \in Clients \ {t} : s6'[d] = s6[d]
  BY <1>1, <1>2, <1>5
<1>6. s6[t] \in Places BY <1>1, <1>2
<1>7. ASSUME /\ s5' \in [Simd!Entries -> {"portable", "null", "uninitialized", Simd!Choice}]
             /\ s6' \in [Clients -> Places] /\ s4' \in BOOLEAN
             /\ \A e \in Simd!Entries : s5'[e] \in {s5[e], Simd!Choice}
             /\ s4 => s4'
             /\ s4' => \A e \in Simd!Entries : s5'[e] = Simd!Choice \/ \E d \in Clients : e \in s6'[d].left
             /\ s6'[t].at \in {"fill", "back"} => s4'
             /\ s6'[t].at # "fill" => s6'[t].left = {}
             /\ \A d \in Clients \ {t} : s6'[d] = s6[d]
      PROVE  Simd!SimdInv'
  <2>1. Simd!SimdTypes' BY <1>1, <1>3, <1>4, <1>7 DEF Simd!SimdTypes, Places
  <2>2. \A e \in Simd!Entries : s5'[e] \in {Simd!Static[e], Simd!Choice} BY <1>1, <1>7
  <2>3. s3 => s4' /\ \A e \in Simd!Entries : s5'[e] = Simd!Choice BY <1>1, <1>7
  <2>4. \A d \in Clients : /\ s6'[d].at \in {"fill", "back"} => s4'
                           /\ s6'[d].at # "fill" => s6'[d].left = {}
    BY <1>1, <1>7
  <2>5. QED BY <1>3, <1>4, <1>7, <2>1, <2>2, <2>3, <2>4 DEF Simd!SimdInv, Simd!Static, Simd!Entries
<1>8. ASSUME Simd!Enter(t) PROVE Simd!SimdInv'
  <2> DEFINE p == [at |-> IF s4 THEN "back" ELSE "first", left |-> {}]
  <2>1. s6' = [s6 EXCEPT ![t] = p] /\ s6[t].at = "out" /\ s4' = s4 /\ s5' = s5
    BY <1>8 DEF Simd!Enter, Simd!At
  <2>2. p \in Places /\ p.at # "fill" /\ p.left = {} /\ (p.at \in {"fill", "back"} => s4) BY <1>1 DEF Places
  <2> HIDE DEF p
  <2>3. /\ s6' \in [Clients -> Places] /\ s6'[t] = p
        /\ \A d \in Clients \ {t} : s6'[d] = s6[d]
    BY <1>5, <2>1, <2>2
  <2>4. s6[t].left = {} BY <1>1, <1>2, <2>1
  <2>5. \A d \in Clients : s6'[d].left = s6[d].left BY <2>2, <2>3, <2>4
  <2>6. QED BY <1>1, <1>7, <2>1, <2>2, <2>3, <2>5
<1>9. ASSUME Simd!Claim(t) PROVE Simd!SimdInv'
  <2> DEFINE p == [at |-> "fill", left |-> Simd!Entries]
  <2>1. s6' = [s6 EXCEPT ![t] = p] /\ s4' = TRUE /\ s5' = s5 BY <1>9 DEF Simd!Claim
  <2>2. p \in Places /\ p.at = "fill" /\ p.left = Simd!Entries BY DEF Places
  <2> HIDE DEF p
  <2>3. /\ s6' \in [Clients -> Places] /\ s6'[t] = p
        /\ \A d \in Clients \ {t} : s6'[d] = s6[d]
    BY <1>5, <2>1, <2>2
  <2>4. \A e \in Simd!Entries : e \in s6'[t].left BY <2>2, <2>3
  <2>5. s6'[t].at = "fill" BY <2>2, <2>3
  <2>6. QED BY <1>1, <1>2, <1>7, <2>1, <2>3, <2>4, <2>5
<1>10. ASSUME Simd!Leave(t) PROVE Simd!SimdInv'
  <2> DEFINE p == [at |-> "back", left |-> {}]
  <2>1. s6' = [s6 EXCEPT ![t] = p] /\ s6[t] = [at |-> "fill", left |-> {}] /\ s4' = s4 /\ s5' = s5
    BY <1>10 DEF Simd!Leave, Simd!At
  <2>2. p \in Places /\ p.at = "back" /\ p.left = {} BY DEF Places
  <2> HIDE DEF p
  <2>3. /\ s6' \in [Clients -> Places] /\ s6'[t] = p
        /\ \A d \in Clients \ {t} : s6'[d] = s6[d]
    BY <1>5, <2>1, <2>2
  <2>4. s6[t].at = "fill" /\ s6[t].left = {} BY <2>1
  <2>5. \A d \in Clients : s6'[d].left = s6[d].left BY <2>2, <2>3, <2>4
  <2>6. s4 BY <1>1, <1>2, <2>4
  <2>7. QED BY <1>1, <1>7, <2>1, <2>2, <2>3, <2>5, <2>6
<1>11. ASSUME NEW e \in Simd!Entries, Simd!Fill(t, e) PROVE Simd!SimdInv'
  <2> DEFINE p == [s6[t] EXCEPT !.left = s6[t].left \ {e}]
  <2>1. s6' = [s6 EXCEPT ![t] = p] /\ s5' = [s5 EXCEPT ![e] = Simd!Choice] /\ s4' = s4 /\ e \in s6[t].left
    BY <1>11 DEF Simd!Fill
  <2>2. p \in Places /\ p.at = s6[t].at /\ p.left = s6[t].left \ {e} BY <1>6 DEF Places
  <2> HIDE DEF p
  <2>3. /\ s6' \in [Clients -> Places] /\ s6'[t] = p
        /\ \A d \in Clients \ {t} : s6'[d] = s6[d]
    BY <1>5, <2>1, <2>2
  <2>4. s5' \in [Simd!Entries -> {"portable", "null", "uninitialized", Simd!Choice}]
        /\ s5'[e] = Simd!Choice /\ \A x \in Simd!Entries \ {e} : s5'[x] = s5[x]
    BY <1>1, <2>1
  <2>5. s6[t].at = "fill" BY <1>1, <1>2, <2>1
  <2>6. \A d \in Clients, x \in Simd!Entries \ {e} : x \in s6[d].left => x \in s6'[d].left
    BY <2>2, <2>3
  <2>7. s4' => \A x \in Simd!Entries : s5'[x] = Simd!Choice \/ \E d \in Clients : x \in s6'[d].left
    BY <1>1, <2>1, <2>4, <2>6
  <2>8. QED BY <1>1, <1>7, <2>1, <2>2, <2>3, <2>4, <2>5, <2>7
<1>12. QED BY <1>2, <1>8, <1>9, <1>10, <1>11

----------------------------------------------------------------------------
(* The global logger: s2 is g_logger, s3 the loggers made, s4 the callers,  *)
(* s5 the references to the stream.                                         *)

Kinds == {"stdout", "stream"}
Logger == [live : BOOLEAN, sinks : Seq(Kinds)]
\* The stream sinks of the loggers m, by logger and position.
SinkPairs(m) == UNION {{i} \X Glob!StreamsOf(m[i].sinks) : i \in DOMAIN m}

\* The instance counts as FiniteSets does, and takes the range of a function as Functions does.
LEMMA GlobOperators ==
  /\ \A S : Glob!Cardinality(S) = Cardinality(S)
  /\ \A S : Glob!IsFiniteSet(S) <=> IsFiniteSet(S)
  /\ Glob!StreamSinks = SinkPairs(s3)
<1>1. \A S : Glob!Cardinality(S) = Cardinality(S) BY DEF Glob!Cardinality, Cardinality
<1>2. \A S : Glob!IsFiniteSet(S) <=> IsFiniteSet(S) BY DEF Glob!IsFiniteSet, IsFiniteSet
<1>3. Glob!StreamSinks = SinkPairs(s3) BY DEF Glob!StreamSinks, SinkPairs
<1>4. QED BY <1>1, <1>2, <1>3

\* A logger's stream sinks are finitely many.
LEMMA StreamsFinite ==
  ASSUME NEW s \in Seq(Kinds)
  PROVE  /\ IsFiniteSet(Glob!StreamsOf(s)) /\ Glob!StreamsOf(s) \subseteq 1..Len(s)
         /\ Cardinality(Glob!StreamsOf(s)) \in Nat
<1>1. Len(s) \in Nat /\ DOMAIN s = 1..Len(s) OBVIOUS
<1>2. Glob!StreamsOf(s) \in SUBSET (1..Len(s)) BY <1>1 DEF Glob!StreamsOf
<1>3. IsFiniteSet(1..Len(s)) BY <1>1, FS_Interval
<1>4. IsFiniteSet(Glob!StreamsOf(s)) BY <1>2, <1>3, FS_Subset
<1>5. QED BY <1>2, <1>4, FS_CardinalityType

\* A sink put at the head of a logger's list is heard with the others, and is one more
\* stream sink if it is one.
LEMMA Prepended ==
  ASSUME NEW s \in Seq(Kinds), NEW k \in Kinds
  PROVE  /\ <<k>> \o s \in Seq(Kinds)
         /\ Glob!Range(<<k>> \o s) = {k} \cup Glob!Range(s)
         /\ Cardinality(Glob!StreamsOf(<<k>> \o s))
              = Cardinality(Glob!StreamsOf(s)) + (IF k = "stream" THEN 1 ELSE 0)
<1> DEFINE t == <<k>> \o s
           S == Glob!StreamsOf(s)
           f == [j \in S |-> j + 1]
           T == {j + 1 : j \in S}
<1>1. /\ t \in Seq(Kinds) /\ Len(t) = Len(s) + 1 /\ DOMAIN t = 1..(Len(s) + 1)
      /\ t[1] = k /\ \A j \in 1..Len(s) : t[j + 1] = s[j]
      /\ DOMAIN s = 1..Len(s) /\ Len(s) \in Nat
  OBVIOUS
<1> HIDE DEF t
<1>2. Glob!Range(t) = {k} \cup Glob!Range(s)
  <2>1. \A x : x \in Glob!Range(t) <=> \E j \in 1..(Len(s) + 1) : x = t[j] BY <1>1 DEF Glob!Range
  <2>2. \A x : x \in Glob!Range(s) <=> \E j \in 1..Len(s) : x = s[j] BY <1>1 DEF Glob!Range
  <2>3. ASSUME NEW x, x \in Glob!Range(s) PROVE x \in Glob!Range(t)
    <3>1. PICK j \in 1..Len(s) : x = s[j] BY <2>2, <2>3
    <3>2. j + 1 \in 1..(Len(s) + 1) /\ t[j + 1] = x BY <1>1, <3>1
    <3>3. QED BY <2>1, <3>2
  <2>4. ASSUME NEW x, x \in Glob!Range(t) PROVE x = k \/ x \in Glob!Range(s)
    <3>1. PICK j \in 1..(Len(s) + 1) : x = t[j] BY <2>1, <2>4
    <3>2. CASE j = 1 BY <1>1, <3>1, <3>2
    <3>3. CASE j # 1
      <4>1. j - 1 \in 1..Len(s) /\ (j - 1) + 1 = j BY <1>1, <3>3
      <4>2. x = s[j - 1] BY <1>1, <3>1, <4>1
      <4>3. QED BY <2>2, <4>1, <4>2
    <3>4. QED BY <3>2, <3>3
  <2>5. k \in Glob!Range(t)
    <3>1. 1 \in 1..(Len(s) + 1) BY <1>1
    <3>2. QED BY <1>1, <2>1, <3>1
  <2>6. QED BY <2>3, <2>4, <2>5
<1>3. IsFiniteSet(S) /\ S \subseteq 1..Len(s) BY StreamsFinite
<1>4. IsFiniteSet(T) /\ Cardinality(T) = Cardinality(S)
  <2>1. f \in [S -> T] OBVIOUS
  <2>2. \A i, j \in S : f[i] = f[j] => i = j BY <1>1, <1>3
  <2>3. \A y \in T : \E j \in S : f[j] = y OBVIOUS
  <2> HIDE DEF f, T
  <2>4. f \in Bijection(S, T)
    BY <2>1, <2>2, <2>3 DEF Bijection, Injection, Surjection, IsInjective
  <2>5. ExistsBijection(S, T) BY <2>4 DEF ExistsBijection
  <2>6. QED BY <1>3, <2>5, FS_Bijection
<1>5. Glob!StreamsOf(t) = IF k = "stream" THEN T \cup {1} ELSE T
  <2>1. \A j \in 1..(Len(s) + 1) : t[j] = "stream" <=> (j = 1 /\ k = "stream") \/ (j - 1 \in S)
    <3>1. ASSUME NEW j \in 1..(Len(s) + 1), j # 1
          PROVE  t[j] = s[j - 1] /\ j - 1 \in 1..Len(s)
      <4>1. j - 1 \in 1..Len(s) /\ (j - 1) + 1 = j BY <1>1, <3>1
      <4>2. QED BY <1>1, <4>1
    <3>2. \A j \in 1..Len(s) : j \in S <=> s[j] = "stream" BY <1>1 DEF Glob!StreamsOf
    <3>3. 0 \notin S BY <1>1, <1>3
    <3>4. QED BY <1>1, <3>1, <3>2, <3>3
  <2>2. \A j : j \in T <=> j \in 1..(Len(s) + 1) /\ j - 1 \in S
    <3>1. ASSUME NEW j \in T PROVE j \in 1..(Len(s) + 1) /\ j - 1 \in S
      <4>1. PICK i \in S : j = i + 1 OBVIOUS
      <4>2. i \in 1..Len(s) BY <1>3, <4>1
      <4>3. j - 1 = i /\ j \in 1..(Len(s) + 1) BY <1>1, <4>1, <4>2
      <4>4. QED BY <4>1, <4>3
    <3>2. ASSUME NEW j \in 1..(Len(s) + 1), j - 1 \in S PROVE j \in T
      <4>1. j = (j - 1) + 1 BY <1>1
      <4>2. QED BY <3>2, <4>1
    <3>3. QED BY <3>1, <3>2
  <2>3. \A j : j \in Glob!StreamsOf(t) <=> j \in 1..(Len(s) + 1) /\ t[j] = "stream"
    BY <1>1 DEF Glob!StreamsOf
  <2>4. 1 \in 1..(Len(s) + 1) BY <1>1
  <2> HIDE DEF T, S
  <2>5. QED BY <2>1, <2>2, <2>3, <2>4
<1>6. 1 \notin T BY <1>1, <1>3
<1>7. Cardinality(Glob!StreamsOf(t)) = Cardinality(S) + (IF k = "stream" THEN 1 ELSE 0)
  <2>1. Cardinality(T \cup {1}) = Cardinality(T) + 1 BY <1>4, <1>6, FS_AddElement
  <2>2. Cardinality(S) \in Nat BY <1>3, FS_CardinalityType
  <2> HIDE DEF T, S
  <2>3. QED BY <1>4, <1>5, <2>1, <2>2
<1>8. QED BY <1>1, <1>2, <1>7 DEF t

\* When one logger's sinks change, the stream sinks of all loggers change by as many.
LEMMA OneLoggerChanges ==
  ASSUME NEW m \in Seq(Logger), NEW n \in Seq(Logger), NEW i \in DOMAIN m,
         DOMAIN n = DOMAIN m, \A j \in DOMAIN m \ {i} : n[j] = m[j], IsFiniteSet(SinkPairs(m))
  PROVE  /\ IsFiniteSet(SinkPairs(n))
         /\ Cardinality(SinkPairs(n)) + Cardinality(Glob!StreamsOf(m[i].sinks))
              = Cardinality(SinkPairs(m)) + Cardinality(Glob!StreamsOf(n[i].sinks))
<1> DEFINE Rest == UNION {{j} \X Glob!StreamsOf(m[j].sinks) : j \in DOMAIN m \ {i}}
           Pairs(s) == {i} \X Glob!StreamsOf(s)
<1>1. m[i].sinks \in Seq(Kinds) /\ n[i].sinks \in Seq(Kinds)
  <2>1. m[i] \in Logger OBVIOUS
  <2>2. i \in DOMAIN n OBVIOUS
  <2>3. n[i] \in Logger BY <2>2
  <2>4. QED BY <2>1, <2>3 DEF Logger
<1>2. SinkPairs(m) = Rest \cup Pairs(m[i].sinks) BY DEF SinkPairs
<1>3. SinkPairs(n) = Rest \cup Pairs(n[i].sinks)
  <2>1. SinkPairs(n) = (UNION {{j} \X Glob!StreamsOf(n[j].sinks) : j \in DOMAIN m \ {i}}) \cup Pairs(n[i].sinks)
    BY DEF SinkPairs
  <2>2. Rest = UNION {{j} \X Glob!StreamsOf(n[j].sinks) : j \in DOMAIN m \ {i}} OBVIOUS
  <2>3. QED BY <2>1, <2>2
<1>4. IsFiniteSet(Rest)
  <2>1. Rest \in SUBSET SinkPairs(m) BY <1>2
  <2>2. QED BY <2>1, FS_Subset
<1>5. ASSUME NEW s \in Seq(Kinds)
      PROVE  /\ IsFiniteSet(Rest \cup Pairs(s))
             /\ Cardinality(Rest \cup Pairs(s)) = Cardinality(Rest) + Cardinality(Glob!StreamsOf(s))
  <2> DEFINE S == Glob!StreamsOf(s)
             f == [j \in S |-> <<i, j>>]
  <2>1. IsFiniteSet(S) /\ Cardinality(S) \in Nat BY StreamsFinite
  <2>2. f \in [S -> Pairs(s)] OBVIOUS
  <2>3. \A a, b \in S : f[a] = f[b] => a = b OBVIOUS
  <2>4. \A y \in Pairs(s) : \E j \in S : f[j] = y OBVIOUS
  <2>5. f \in Bijection(S, Pairs(s))
    <3> HIDE DEF f, S, Pairs
    <3>1. QED BY <2>2, <2>3, <2>4 DEF Bijection, Injection, Surjection, IsInjective
  <2>6. ExistsBijection(S, Pairs(s)) BY <2>5 DEF ExistsBijection
  <2> HIDE DEF S, f
  <2>7. IsFiniteSet(Pairs(s)) /\ Cardinality(Pairs(s)) = Cardinality(S)
    <3> HIDE DEF Pairs
    <3>1. QED BY <2>1, <2>6, FS_Bijection
  <2>8. Rest \cap Pairs(s) = {} OBVIOUS
  <2> HIDE DEF Rest, Pairs
  <2>9. /\ IsFiniteSet(Rest \cup Pairs(s))
        /\ Cardinality(Rest \cup Pairs(s))
             = Cardinality(Rest) + Cardinality(Pairs(s)) - Cardinality(Rest \cap Pairs(s))
    BY <1>4, <2>7, FS_Union
  <2>10. Cardinality({}) = 0 /\ Cardinality(Rest) \in Nat BY <1>4, FS_EmptySet, FS_CardinalityType
  <2>11. Cardinality(Rest \cup Pairs(s)) = Cardinality(Rest) + Cardinality(S) - 0
    BY <2>7, <2>8, <2>9, <2>10
  <2>12. Cardinality(Rest \cup Pairs(s)) = Cardinality(Rest) + Cardinality(S) BY <2>1, <2>10, <2>11
  <2>13. QED BY <2>9, <2>12 DEF S
<1> HIDE DEF Rest, Pairs
<1>6. /\ Cardinality(Rest) \in Nat
      /\ Cardinality(Glob!StreamsOf(m[i].sinks)) \in Nat
      /\ Cardinality(Glob!StreamsOf(n[i].sinks)) \in Nat
  BY <1>1, <1>4, FS_CardinalityType, StreamsFinite
<1>7. /\ Cardinality(SinkPairs(m)) = Cardinality(Rest) + Cardinality(Glob!StreamsOf(m[i].sinks))
      /\ Cardinality(SinkPairs(n)) = Cardinality(Rest) + Cardinality(Glob!StreamsOf(n[i].sinks))
      /\ IsFiniteSet(SinkPairs(n))
  BY <1>1, <1>2, <1>3, <1>5
<1>8. QED BY <1>6, <1>7

\* The invariant gives what is claimed of the global logger.
LEMMA GlobalInvSound ==
  ASSUME Glob!GlobalInv
  PROVE  Glob!GlobalSound
<1>1. Glob!Cardinality(Glob!OnTheirWay) = Cardinality(Glob!OnTheirWay)
      /\ Glob!Cardinality(Glob!StreamSinks) = Cardinality(Glob!StreamSinks)
  BY GlobOperators
<1>2. ASSUME ~s10 PROVE {i \in DOMAIN s3 : s3[i].live} = {s2} \ {0}
  <2>1. /\ \A i \in DOMAIN s3 : s3[i].live <=> i = s2
        /\ s3 \in Seq([live : BOOLEAN, sinks : Seq({"stdout", "stream"})]) /\ s2 \in 0..Len(s3)
    BY <1>2 DEF Glob!GlobalInv, Glob!GlobalTypes
  <2>2. DOMAIN s3 = 1..Len(s3) /\ Len(s3) \in Nat BY <2>1
  <2>3. s2 # 0 => s2 \in DOMAIN s3 BY <2>1, <2>2
  <2>4. 0 \notin DOMAIN s3 BY <2>2
  <2>5. QED BY <2>1, <2>3, <2>4
<1>3. QED BY <1>1, <1>2 DEF Glob!GlobalSound, Glob!GlobalInv

\* No logger is made, or one with the standard output, and nobody holds the stream but its owner.
LEMMA GlobalStart ==
  ASSUME Glob!GlobalInit
  PROVE  Glob!GlobalInv
<1> DEFINE First == [live |-> TRUE, sinks |-> <<"stdout">>]
<1>1. /\ s1 \in BOOLEAN /\ s3 = (IF s1 THEN <<First>> ELSE << >>)
      /\ s2 = Len(s3) /\ s4 = [t \in Threads |-> [at |-> "idle", call |-> "none"]]
      /\ s5 = 1 /\ s7 = 0 /\ s8 = FALSE /\ s9 = FALSE /\ s10 = FALSE
  BY SharedAssumption DEF Glob!GlobalInit, Glob!Idle
<1>2. <<"stdout">> \in Seq(Kinds) /\ Glob!StreamsOf(<<"stdout">>) = {} /\ "stdout" \in Glob!Range(<<"stdout">>)
  BY DEF Kinds, Glob!StreamsOf, Glob!Range
<1>3. First \in Logger /\ First.live = TRUE /\ First.sinks = <<"stdout">> BY <1>2 DEF Logger
<1> HIDE DEF First
<1>4. \/ s1 /\ Len(s3) = 1 /\ DOMAIN s3 = {1} /\ s3[1] = First /\ s3 \in Seq(Logger)
      \/ ~s1 /\ Len(s3) = 0 /\ DOMAIN s3 = {} /\ s3 \in Seq(Logger)
  BY <1>1, <1>3
<1>5. SinkPairs(s3) = {}
  <2>1. \A i \in DOMAIN s3 : Glob!StreamsOf(s3[i].sinks) = {} BY <1>2, <1>3, <1>4
  <2>2. QED BY <2>1 DEF SinkPairs
<1>6. IsFiniteSet(SinkPairs(s3)) /\ Cardinality(SinkPairs(s3)) = 0 BY <1>5, FS_EmptySet
<1>7. Glob!OnTheirWay = {} BY <1>1 DEF Glob!OnTheirWay
<1>8. Cardinality(Glob!OnTheirWay) = 0 BY <1>7, FS_EmptySet
<1>9. s5 = 1 + s7 + Glob!Cardinality(Glob!OnTheirWay) + Glob!Cardinality(Glob!StreamSinks)
  BY <1>1, <1>6, <1>8, GlobOperators
<1>10. Glob!GlobalTypes
  <2>1. s2 \in 0..Len(s3) BY <1>1, <1>4
  <2>2. s3 \in Seq([live : BOOLEAN, sinks : Seq({"stdout", "stream"})]) BY <1>4 DEF Logger, Kinds
  <2>3. Glob!IsFiniteSet(Glob!StreamSinks) BY <1>6, GlobOperators
  <2>4. s4 \in [Threads -> [at : {"idle", "init", "make", "stdout", "use"},
                            call : {"none", "message", "sink"}]]
    BY <1>1
  <2>5. QED BY <1>1, <2>1, <2>2, <2>3, <2>4 DEF Glob!GlobalTypes
<1>11. Glob!CallersInv BY <1>1 DEF Glob!CallersInv
<1>12. s2 # 0 => "stdout" \in Glob!Range(s3[s2].sinks) BY <1>1, <1>2, <1>3, <1>4
<1>13. Glob!SinksInv BY <1>1, <1>12 DEF Glob!SinksInv
<1>14. \A i \in DOMAIN s3 : s3[i].live <=> i = s2 BY <1>1, <1>3, <1>4
<1>15. QED BY <1>1, <1>9, <1>10, <1>11, <1>13, <1>14 DEF Glob!GlobalInv

\* What the invariant says, in this module's terms.
Place == [at : {"idle", "init", "make", "stdout", "use"}, call : {"none", "message", "sink"}]
GlobTypes(m, l, c) ==
    /\ m \in Seq(Logger) /\ l \in 0..Len(m) /\ IsFiniteSet(SinkPairs(m))
    /\ c \in [Threads -> Place]
Way(c) == {t \in Threads : c[t].call = "sink"}
CallersFine(c, l, e) ==
    \A t \in Threads : /\ c[t].at \in {"stdout", "use"} => l # 0
                       /\ e => c[t].at \in {"idle", "use"}
                       /\ c[t].at = "idle" => c[t].call = "none"
SinksFine(m, l, c, a) ==
    /\ l # 0 => (\E t \in Threads : c[t].at = "stdout") \/ "stdout" \in Glob!Range(m[l].sinks)
    /\ a => l # 0 /\ "stream" \in Glob!Range(m[l].sinks)
GlobFlat(e, l, m, c, r, d, a, u, x) ==
    /\ e \in BOOLEAN /\ a \in BOOLEAN /\ u \in BOOLEAN /\ x \in BOOLEAN /\ d \in Nat
    /\ GlobTypes(m, l, c) /\ CallersFine(c, l, e) /\ SinksFine(m, l, c, a)
    /\ e => ~x
    /\ ~x => ~u /\ \A i \in DOMAIN m : m[i].live <=> i = l
    /\ r = 1 + d + Cardinality(Way(c)) + Cardinality(SinkPairs(m))

\* The flat invariant is that of the global logger, on its variables.
LEMMA GlobFlatNow == Glob!GlobalInv <=> GlobFlat(s1, s2, s3, s4, s5, s7, s8, s9, s10)
<1>1. Glob!Cardinality(Glob!OnTheirWay) = Cardinality(Way(s4))
      /\ Glob!Cardinality(Glob!StreamSinks) = Cardinality(SinkPairs(s3))
      /\ (Glob!IsFiniteSet(Glob!StreamSinks) <=> IsFiniteSet(SinkPairs(s3)))
  BY GlobOperators DEF Glob!OnTheirWay, Way
<1>2. Glob!GlobalTypes <=> /\ GlobTypes(s3, s2, s4) /\ s7 \in Nat
                           /\ s1 \in BOOLEAN /\ s8 \in BOOLEAN /\ s9 \in BOOLEAN /\ s10 \in BOOLEAN
  BY <1>1 DEF Glob!GlobalTypes, GlobTypes, Logger, Kinds, Place
<1>3. Glob!CallersInv <=> CallersFine(s4, s2, s1) BY DEF Glob!CallersInv, CallersFine
<1>4. Glob!SinksInv <=> SinksFine(s3, s2, s4, s8) BY DEF Glob!SinksInv, SinksFine, Glob!HalfMade
<1>5. QED BY <1>1, <1>2, <1>3, <1>4 DEF Glob!GlobalInv, GlobFlat

\* When one caller moves, the stream sinks on their way change by that caller's.
LEMMA WayChanges ==
  ASSUME NEW c, NEW d, NEW t \in Threads, \A x \in Threads \ {t} : d[x] = c[x]
  PROVE  /\ Cardinality(Way(c)) \in Nat /\ Cardinality(Way(d)) \in Nat
         /\ (c[t].call = "sink" <=> d[t].call = "sink") => Cardinality(Way(d)) = Cardinality(Way(c))
         /\ c[t].call # "sink" /\ d[t].call = "sink" => Cardinality(Way(d)) = Cardinality(Way(c)) + 1
         /\ c[t].call = "sink" /\ d[t].call # "sink" => Cardinality(Way(d)) = Cardinality(Way(c)) - 1
<1>1. IsFiniteSet(Threads) BY SharedAssumption
<1>2. ASSUME NEW e PROVE IsFiniteSet(Way(e)) /\ Cardinality(Way(e)) \in Nat
  <2>1. Way(e) \in SUBSET Threads BY DEF Way
  <2>2. IsFiniteSet(Way(e)) BY <1>1, <2>1, FS_Subset
  <2>3. QED BY <2>2, FS_CardinalityType
<1>3. ASSUME (c[t].call = "sink" <=> d[t].call = "sink") PROVE Way(d) = Way(c) BY <1>3 DEF Way
<1>4. ASSUME c[t].call # "sink", d[t].call = "sink"
      PROVE  Cardinality(Way(d)) = Cardinality(Way(c)) + 1
  <2>1. Way(d) = Way(c) \cup {t} /\ t \notin Way(c) BY <1>4 DEF Way
  <2>2. QED BY <1>2, <2>1, FS_AddElement
<1>5. ASSUME c[t].call = "sink", d[t].call # "sink"
      PROVE  Cardinality(Way(d)) = Cardinality(Way(c)) - 1
  <2>1. Way(d) = Way(c) \ {t} /\ t \in Way(c) BY <1>5 DEF Way
  <2>2. QED BY <1>2, <2>1, FS_RemoveElement
<1>6. QED BY <1>2, <1>3, <1>4, <1>5

\* One caller's place is replaced.
LEMMA CallerMoves ==
  ASSUME NEW c \in [Threads -> Place], NEW t \in Threads, NEW d,
         NEW p \in Place, d = [c EXCEPT ![t] = p]
  PROVE  d \in [Threads -> Place] /\ d[t] = p /\ \A x \in Threads \ {t} : d[x] = c[x]
OBVIOUS

\* One field of one caller's place is replaced.
LEMMA CallerGoes ==
  ASSUME NEW c \in [Threads -> Place], NEW t \in Threads, NEW d,
         NEW at \in {"idle", "init", "make", "stdout", "use"}, d = [c EXCEPT ![t] = [c[t] EXCEPT !.at = at]]
  PROVE  /\ d \in [Threads -> Place] /\ d[t].at = at /\ d[t].call = c[t].call
         /\ \A x \in Threads \ {t} : d[x] = c[x]
<1> DEFINE p == [c[t] EXCEPT !.at = at]
<1>1. p \in Place /\ p.at = at /\ p.call = c[t].call BY DEF Place
<1>2. d = [c EXCEPT ![t] = p] OBVIOUS
<1> HIDE DEF p
<1>3. d \in [Threads -> Place] /\ d[t] = p /\ \A x \in Threads \ {t} : d[x] = c[x]
  BY <1>1, <1>2, CallerMoves
<1>4. QED BY <1>1, <1>3

\* A call begins: a stream sink brings its reference along.
LEMMA CallStep ==
  ASSUME GlobFlat(s1, s2, s3, s4, s5, s7, s8, s9, s10),
         NEW t \in Threads, NEW call \in {"message", "sink"}, Glob!Call(t, call)
  PROVE  GlobFlat(s1', s2', s3', s4', s5', s7', s8', s9', s10')
<1> DEFINE p == [at |-> IF s2 = 0 THEN "init" ELSE "use", call |-> call]
<1>1. /\ s4[t] = [at |-> "idle", call |-> "none"] /\ (s1 => s2 # 0)
      /\ s5' = s5 + (IF call = "sink" THEN 1 ELSE 0) /\ s4' = [s4 EXCEPT ![t] = p]
      /\ s1' = s1 /\ s2' = s2 /\ s3' = s3 /\ s7' = s7 /\ s8' = s8 /\ s9' = s9 /\ s10' = s10
  BY DEF Glob!Call, Glob!Idle
<1>2. GlobTypes(s3, s2, s4) /\ CallersFine(s4, s2, s1) /\ SinksFine(s3, s2, s4, s8)
      /\ s5 = 1 + s7 + Cardinality(Way(s4)) + Cardinality(SinkPairs(s3)) /\ s7 \in Nat
  BY DEF GlobFlat
<1>3. /\ p \in Place /\ p.call = call
      /\ (p.at = "init" /\ s2 = 0) \/ (p.at = "use" /\ s2 # 0)
  BY DEF Place
<1> HIDE DEF p
<1>4. /\ s4' \in [Threads -> Place] /\ s4'[t] = p /\ \A x \in Threads \ {t} : s4'[x] = s4[x]
  BY <1>1, <1>2, <1>3, CallerMoves DEF GlobTypes
<1>5. s4[t].at = "idle" /\ s4[t].call = "none" BY <1>1
<1>6. CallersFine(s4', s2, s1) BY <1>1, <1>2, <1>3, <1>4 DEF CallersFine
<1>7. SinksFine(s3, s2, s4', s8) BY <1>2, <1>4, <1>5 DEF SinksFine
<1>8. Cardinality(Way(s4')) = Cardinality(Way(s4)) + (IF call = "sink" THEN 1 ELSE 0)
      /\ Cardinality(Way(s4)) \in Nat
  BY <1>3, <1>4, <1>5, WayChanges
<1>9. Cardinality(SinkPairs(s3)) \in Nat BY <1>2, FS_CardinalityType DEF GlobTypes
<1>10. s5' = 1 + s7 + Cardinality(Way(s4')) + Cardinality(SinkPairs(s3)) BY <1>1, <1>2, <1>8, <1>9
<1>11. GlobTypes(s3, s2, s4') BY <1>2, <1>4 DEF GlobTypes
<1>12. QED BY <1>1, <1>6, <1>7, <1>10, <1>11 DEF GlobFlat

\* A thread that looks for the logger once more.
LEMMA InitStep ==
  ASSUME GlobFlat(s1, s2, s3, s4, s5, s7, s8, s9, s10), NEW t \in Threads, Glob!LogInit(t)
  PROVE  GlobFlat(s1', s2', s3', s4', s5', s7', s8', s9', s10')
<1> DEFINE at == IF s2 = 0 THEN "make" ELSE "use"
<1>1. /\ s4[t].at = "init" /\ s5' = s5 /\ s4' = [s4 EXCEPT ![t].at = at]
      /\ s1' = s1 /\ s2' = s2 /\ s3' = s3 /\ s7' = s7 /\ s8' = s8 /\ s9' = s9 /\ s10' = s10
  BY DEF Glob!LogInit, Glob!Go
<1>2. GlobTypes(s3, s2, s4) /\ CallersFine(s4, s2, s1) /\ SinksFine(s3, s2, s4, s8) BY DEF GlobFlat
<1>3. at \in {"idle", "init", "make", "stdout", "use"} /\ (at = "make" \/ (at = "use" /\ s2 # 0)) OBVIOUS
<1> HIDE DEF at
<1>4. /\ s4' \in [Threads -> Place] /\ s4'[t].at = at /\ s4'[t].call = s4[t].call
      /\ \A x \in Threads \ {t} : s4'[x] = s4[x]
  <2>1. s4 \in [Threads -> Place] BY <1>2 DEF GlobTypes
  <2>2. s4' = [s4 EXCEPT ![t] = [s4[t] EXCEPT !.at = at]] BY <1>1, <2>1
  <2>3. QED BY <1>3, <2>1, <2>2, CallerGoes
<1>5. ~s1 BY <1>1, <1>2 DEF CallersFine
<1>6. CallersFine(s4', s2, s1) BY <1>2, <1>3, <1>4, <1>5 DEF CallersFine
<1>7. SinksFine(s3, s2, s4', s8) BY <1>1, <1>2, <1>4 DEF SinksFine
<1>8. Cardinality(Way(s4')) = Cardinality(Way(s4)) BY <1>4, WayChanges
<1>9. GlobTypes(s3, s2, s4') BY <1>2, <1>4 DEF GlobTypes
<1>10. QED BY <1>1, <1>6, <1>7, <1>8, <1>9 DEF GlobFlat

\* A logger is made: the first, or one more because two threads raced.
LEMMA MakeStep ==
  ASSUME GlobFlat(s1, s2, s3, s4, s5, s7, s8, s9, s10), NEW t \in Threads, Glob!LogMake(t)
  PROVE  GlobFlat(s1', s2', s3', s4', s5', s7', s8', s9', s10')
<1>1. /\ s4[t].at = "make" /\ s5' = s5 /\ s4' = [s4 EXCEPT ![t].at = "stdout"]
      /\ s3' = Append(s3, Glob!Fresh) /\ s2' = Len(s3) + 1 /\ s8' = FALSE
      /\ s10' = (s10 \/ s2 # 0) /\ s1' = s1 /\ s7' = s7 /\ s9' = s9
  BY DEF Glob!LogMake, Glob!Go
<1>2. GlobTypes(s3, s2, s4) /\ CallersFine(s4, s2, s1) /\ s10 \in BOOLEAN BY DEF GlobFlat
<1>3. Glob!Fresh \in Logger /\ Glob!Fresh.live = TRUE /\ Glob!Fresh.sinks = << >>
  BY DEF Glob!Fresh, Logger
<1>4. /\ s3' \in Seq(Logger) /\ Len(s3') = Len(s3) + 1 /\ Len(s3) \in Nat
      /\ DOMAIN s3 = 1..Len(s3) /\ DOMAIN s3' = 1..(Len(s3) + 1)
      /\ s3'[Len(s3) + 1] = Glob!Fresh /\ \A i \in DOMAIN s3 : s3'[i] = s3[i]
  BY <1>1, <1>2, <1>3 DEF GlobTypes
<1>5. SinkPairs(s3') = SinkPairs(s3)
  <2>1. Glob!StreamsOf(s3'[Len(s3) + 1].sinks) = {} BY <1>3, <1>4 DEF Glob!StreamsOf
  <2>2. \A i \in DOMAIN s3' : i \in DOMAIN s3 \/ i = Len(s3) + 1 BY <1>4
  <2>3. \A i \in DOMAIN s3 : i \in DOMAIN s3' BY <1>4
  <2>4. QED BY <1>4, <2>1, <2>2, <2>3 DEF SinkPairs
<1>6. /\ s4' \in [Threads -> Place] /\ s4'[t].at = "stdout" /\ s4'[t].call = s4[t].call
      /\ \A x \in Threads \ {t} : s4'[x] = s4[x]
  <2>1. s4 \in [Threads -> Place] BY <1>2 DEF GlobTypes
  <2>2. s4' = [s4 EXCEPT ![t] = [s4[t] EXCEPT !.at = "stdout"]] BY <1>1, <2>1
  <2>3. QED BY <2>1, <2>2, CallerGoes
<1>7. GlobTypes(s3', s2', s4') BY <1>1, <1>2, <1>4, <1>5, <1>6 DEF GlobTypes
<1>8. ~s1 BY <1>1, <1>2 DEF CallersFine
<1>9. s2' # 0 BY <1>1, <1>4
<1>10. CallersFine(s4', s2', s1) BY <1>2, <1>6, <1>8, <1>9 DEF CallersFine
<1>11. SinksFine(s3', s2', s4', s8') BY <1>1, <1>6 DEF SinksFine
<1>12. Cardinality(Way(s4')) = Cardinality(Way(s4)) BY <1>6, WayChanges
<1>13. ASSUME ~s10' PROVE ~s9' /\ \A i \in DOMAIN s3' : s3'[i].live <=> i = s2'
  <2>1. ~s10 /\ s2 = 0 BY <1>1, <1>13
  <2>2. ~s9 /\ \A i \in DOMAIN s3 : s3[i].live <=> i = 0 BY <2>1 DEF GlobFlat
  <2>3. \A i \in DOMAIN s3 : ~s3'[i].live /\ i # Len(s3) + 1 BY <1>4, <2>2
  <2>4. \A i \in DOMAIN s3' : i \in DOMAIN s3 \/ i = Len(s3) + 1 BY <1>4
  <2>5. QED BY <1>1, <1>3, <1>4, <2>2, <2>3, <2>4
<1>14. s10' \in BOOLEAN BY <1>1, <1>2
<1>15. QED BY <1>1, <1>5, <1>7, <1>8, <1>10, <1>11, <1>12, <1>13, <1>14 DEF GlobFlat

\* One logger's sinks become others.
LEMMA SinksChange ==
  ASSUME NEW m \in Seq(Logger), NEW l \in 1..Len(m), NEW s \in Seq(Kinds), NEW n \in Seq(Logger),
         DOMAIN n = DOMAIN m, n[l].sinks = s, \A j \in DOMAIN m \ {l} : n[j] = m[j],
         IsFiniteSet(SinkPairs(m))
  PROVE  /\ IsFiniteSet(SinkPairs(n))
         /\ Cardinality(SinkPairs(n))
              = Cardinality(SinkPairs(m)) + Cardinality(Glob!StreamsOf(s))
                                          - Cardinality(Glob!StreamsOf(m[l].sinks))
         /\ Cardinality(SinkPairs(m)) \in Nat /\ Cardinality(Glob!StreamsOf(m[l].sinks)) \in Nat
         /\ Cardinality(Glob!StreamsOf(s)) \in Nat
<1>1. l \in DOMAIN m /\ m[l] \in Logger OBVIOUS
<1>2. /\ IsFiniteSet(SinkPairs(n))
      /\ Cardinality(SinkPairs(n)) + Cardinality(Glob!StreamsOf(m[l].sinks))
           = Cardinality(SinkPairs(m)) + Cardinality(Glob!StreamsOf(n[l].sinks))
  BY <1>1, OneLoggerChanges
<1>3. m[l].sinks \in Seq(Kinds) BY <1>1 DEF Logger
<1>4. /\ Cardinality(Glob!StreamsOf(m[l].sinks)) \in Nat
      /\ Cardinality(Glob!StreamsOf(s)) \in Nat
  BY <1>3, StreamsFinite
<1>5. Cardinality(SinkPairs(m)) \in Nat /\ Cardinality(SinkPairs(n)) \in Nat
  BY <1>2, FS_CardinalityType
<1>6. Cardinality(SinkPairs(n))
        = Cardinality(SinkPairs(m)) + Cardinality(Glob!StreamsOf(s))
                                    - Cardinality(Glob!StreamsOf(m[l].sinks))
  BY <1>2, <1>4, <1>5
<1>7. QED BY <1>2, <1>4, <1>5, <1>6

\* A sink is put at the head of one logger's list.
LEMMA SinkAdded ==
  ASSUME NEW m \in Seq(Logger), NEW l \in 1..Len(m), NEW k \in Kinds, NEW n \in Seq(Logger),
         DOMAIN n = DOMAIN m, \A j \in DOMAIN m \ {l} : n[j] = m[j],
         n[l].sinks = <<k>> \o m[l].sinks, IsFiniteSet(SinkPairs(m))
  PROVE  /\ Glob!Range(n[l].sinks) = {k} \cup Glob!Range(m[l].sinks)
         /\ IsFiniteSet(SinkPairs(n)) /\ Cardinality(SinkPairs(m)) \in Nat
         /\ Cardinality(SinkPairs(n)) = Cardinality(SinkPairs(m)) + (IF k = "stream" THEN 1 ELSE 0)
<1> DEFINE s == n[l].sinks
<1>1. m[l] \in Logger /\ n[l] \in Logger OBVIOUS
<1>2. m[l].sinks \in Seq(Kinds) /\ s \in Seq(Kinds) BY <1>1 DEF Logger
<1>3. /\ Glob!Range(s) = {k} \cup Glob!Range(m[l].sinks)
      /\ Cardinality(Glob!StreamsOf(s))
           = Cardinality(Glob!StreamsOf(m[l].sinks)) + (IF k = "stream" THEN 1 ELSE 0)
  BY <1>2, Prepended
<1>4. /\ IsFiniteSet(SinkPairs(n))
      /\ Cardinality(SinkPairs(n))
           = Cardinality(SinkPairs(m)) + Cardinality(Glob!StreamsOf(s))
                                       - Cardinality(Glob!StreamsOf(m[l].sinks))
      /\ Cardinality(SinkPairs(m)) \in Nat /\ Cardinality(Glob!StreamsOf(m[l].sinks)) \in Nat
  <2>1. n[l].sinks = s OBVIOUS
  <2> HIDE DEF s
  <2>2. QED BY <1>2, <2>1, SinksChange
<1>5. Cardinality(SinkPairs(n)) = Cardinality(SinkPairs(m)) + (IF k = "stream" THEN 1 ELSE 0)
  BY <1>3, <1>4
<1>6. QED BY <1>3, <1>4, <1>5

\* The first thread's logger gets the standard output.
LEMMA StdoutStep ==
  ASSUME GlobFlat(s1, s2, s3, s4, s5, s7, s8, s9, s10), NEW t \in Threads, Glob!LogStdout(t)
  PROVE  GlobFlat(s1', s2', s3', s4', s5', s7', s8', s9', s10')
<1>1. /\ s4[t].at = "stdout" /\ s5' = s5 /\ s4' = [s4 EXCEPT ![t].at = "use"]
      /\ s3' = [s3 EXCEPT ![s2].sinks = <<"stdout">> \o s3[s2].sinks]
      /\ s1' = s1 /\ s2' = s2 /\ s7' = s7 /\ s8' = s8 /\ s9' = s9 /\ s10' = s10
  BY DEF Glob!LogStdout, Glob!Go
<1>2. GlobTypes(s3, s2, s4) /\ CallersFine(s4, s2, s1) /\ SinksFine(s3, s2, s4, s8)
      /\ (~s10 => ~s9 /\ \A i \in DOMAIN s3 : s3[i].live <=> i = s2)
  BY DEF GlobFlat
<1>3. s2 # 0 /\ ~s1 BY <1>1, <1>2 DEF CallersFine
<1>4. s3 \in Seq(Logger) /\ s2 \in 1..Len(s3) /\ IsFiniteSet(SinkPairs(s3)) /\ s4 \in [Threads -> Place]
  BY <1>2, <1>3 DEF GlobTypes
<1>5. /\ s3' \in Seq(Logger) /\ DOMAIN s3' = DOMAIN s3 /\ DOMAIN s3 = 1..Len(s3) /\ Len(s3') = Len(s3)
      /\ Glob!Range(s3'[s2].sinks) = {"stdout"} \cup Glob!Range(s3[s2].sinks)
      /\ \A j \in DOMAIN s3 : s3'[j].live = s3[j].live
      /\ IsFiniteSet(SinkPairs(s3')) /\ Cardinality(SinkPairs(s3)) \in Nat
      /\ Cardinality(SinkPairs(s3')) = Cardinality(SinkPairs(s3)) + (IF "stdout" = "stream" THEN 1 ELSE 0)
  <2> DEFINE s == <<"stdout">> \o s3[s2].sinks
  <2>1. "stdout" \in Kinds BY DEF Kinds
  <2>2. s3[s2] \in Logger BY <1>4
  <2>3. s \in Seq(Kinds) BY <2>1, <2>2 DEF Logger
  <2> DEFINE q == [s3[s2] EXCEPT !.sinks = s]
  <2>4. s3' = [s3 EXCEPT ![s2] = q] BY <1>1
  <2> HIDE DEF s
  <2>5. q \in Logger /\ q.sinks = s /\ q.live = s3[s2].live BY <2>2, <2>3 DEF Logger
  <2> HIDE DEF q
  <2>6. /\ s3' \in Seq(Logger) /\ DOMAIN s3' = DOMAIN s3 /\ DOMAIN s3 = 1..Len(s3) /\ Len(s3') = Len(s3)
        /\ s3'[s2] = q /\ \A j \in DOMAIN s3 \ {s2} : s3'[j] = s3[j]
    BY <1>4, <2>4, <2>5
  <2>7. /\ s3'[s2].sinks = s /\ \A j \in DOMAIN s3 : s3'[j].live = s3[j].live
        /\ \A j \in DOMAIN s3 \ {s2} : s3'[j] = s3[j]
    BY <2>6, <2>5
  <2>8. s3'[s2].sinks = <<"stdout">> \o s3[s2].sinks BY <2>7 DEF s
  <2>9. /\ Glob!Range(s3'[s2].sinks) = {"stdout"} \cup Glob!Range(s3[s2].sinks)
        /\ IsFiniteSet(SinkPairs(s3')) /\ Cardinality(SinkPairs(s3)) \in Nat
        /\ Cardinality(SinkPairs(s3')) = Cardinality(SinkPairs(s3)) + (IF "stdout" = "stream" THEN 1 ELSE 0)
    BY <1>4, <2>1, <2>6, <2>8, SinkAdded
  <2>10. QED BY <2>6, <2>7, <2>9
<1>6. Cardinality(SinkPairs(s3')) = Cardinality(SinkPairs(s3)) BY <1>5
<1>7. /\ s4' \in [Threads -> Place] /\ s4'[t].at = "use" /\ s4'[t].call = s4[t].call
      /\ \A x \in Threads \ {t} : s4'[x] = s4[x]
  <2>1. s4' = [s4 EXCEPT ![t] = [s4[t] EXCEPT !.at = "use"]] BY <1>1, <1>4
  <2>2. QED BY <1>4, <2>1, CallerGoes
<1>8. GlobTypes(s3', s2', s4') BY <1>1, <1>4, <1>5, <1>7 DEF GlobTypes
<1>9. CallersFine(s4', s2, s1) BY <1>2, <1>3, <1>7 DEF CallersFine
<1>10. SinksFine(s3', s2, s4', s8) BY <1>2, <1>3, <1>5 DEF SinksFine
<1>11. Cardinality(Way(s4')) = Cardinality(Way(s4)) BY <1>7, WayChanges
<1>12. ~s10 => ~s9 /\ \A i \in DOMAIN s3' : s3'[i].live <=> i = s2 BY <1>2, <1>5
<1>13. QED BY <1>1, <1>6, <1>8, <1>9, <1>10, <1>11, <1>12 DEF GlobFlat

\* A message is given to the sinks of the logger.
LEMMA MessageStep ==
  ASSUME GlobFlat(s1, s2, s3, s4, s5, s7, s8, s9, s10), NEW t \in Threads, Glob!Message(t)
  PROVE  GlobFlat(s1', s2', s3', s4', s5', s7', s8', s9', s10')
<1> DEFINE p == [at |-> "idle", call |-> "none"]
           half == \E x \in Threads : s4[x].at = "stdout"
           heard == Glob!Range(s3[s2].sinks)
           miss == "stdout" \notin heard \/ (s8 /\ "stream" \notin heard)
<1>1. /\ s4[t].at = "use" /\ s4[t].call = "message" /\ s5' = s5 /\ s4' = [s4 EXCEPT ![t] = p]
      /\ s1' = s1 /\ s2' = s2 /\ s3' = s3 /\ s7' = s7 /\ s8' = s8
      /\ s10' = (s10 \/ half) /\ s9' = (s9 \/ miss)
  BY DEF Glob!Message, Glob!Idle, Glob!HalfMade
<1>2. /\ GlobTypes(s3, s2, s4) /\ CallersFine(s4, s2, s1) /\ SinksFine(s3, s2, s4, s8)
      /\ s9 \in BOOLEAN /\ s10 \in BOOLEAN /\ (s1 => ~s10)
      /\ (~s10 => ~s9 /\ \A i \in DOMAIN s3 : s3[i].live <=> i = s2)
  BY DEF GlobFlat
<1>3. p \in Place /\ p.at = "idle" /\ p.call = "none" BY DEF Place
<1> HIDE DEF p
<1>4. s4' \in [Threads -> Place] /\ s4'[t] = p /\ \A x \in Threads \ {t} : s4'[x] = s4[x]
  BY <1>1, <1>2, <1>3, CallerMoves DEF GlobTypes
<1>5. s2 # 0 BY <1>1, <1>2 DEF CallersFine
<1>6. ~half => ~miss BY <1>2, <1>5 DEF SinksFine
<1>7. s1 => ~half BY <1>2 DEF CallersFine
<1>8. (half => \E x \in Threads : s4'[x].at = "stdout") BY <1>1, <1>4
<1>9. CallersFine(s4', s2, s1) BY <1>2, <1>3, <1>4 DEF CallersFine
<1>10. SinksFine(s3, s2, s4', s8) BY <1>2, <1>8 DEF SinksFine
<1>11. GlobTypes(s3, s2, s4') BY <1>2, <1>4 DEF GlobTypes
<1>12. Cardinality(Way(s4')) = Cardinality(Way(s4)) BY <1>1, <1>3, <1>4, WayChanges
<1> HIDE DEF half, miss
<1>13. s10' \in BOOLEAN /\ s9' \in BOOLEAN /\ (s1 => ~s10') /\ (~s10' => ~s9' /\ ~s10)
  <2>1. s10' \in BOOLEAN /\ s9' \in BOOLEAN BY <1>1
  <2>2. s1 => ~s10' BY <1>1, <1>2, <1>7
  <2>3. ~s10' => ~s9' /\ ~s10 BY <1>1, <1>2, <1>6
  <2>4. QED BY <2>1, <2>2, <2>3
<1>14. QED BY <1>1, <1>2, <1>9, <1>10, <1>11, <1>12, <1>13 DEF GlobFlat

\* A stream sink is given to the logger, or refused.
LEMMA AddSinkStep ==
  ASSUME GlobFlat(s1, s2, s3, s4, s5, s7, s8, s9, s10), NEW t \in Threads,
         NEW allocated \in BOOLEAN, Glob!AddSink(t, allocated)
  PROVE  GlobFlat(s1', s2', s3', s4', s5', s7', s8', s9', s10')
<1> DEFINE p == [at |-> "idle", call |-> "none"]
           half == \E x \in Threads : s4[x].at = "stdout"
<1>1. /\ s4[t].at = "use" /\ s4[t].call = "sink" /\ s5' = s5 /\ s4' = [s4 EXCEPT ![t] = p]
      /\ s1' = s1 /\ s2' = s2 /\ s9' = s9 /\ s10' = (s10 \/ half)
      /\ IF allocated
         THEN /\ s3' = [s3 EXCEPT ![s2].sinks = <<"stream">> \o s3[s2].sinks]
              /\ s8' = TRUE /\ s7' = s7
         ELSE s7' = s7 + 1 /\ s3' = s3 /\ s8' = s8
  BY DEF Glob!AddSink, Glob!Idle, Glob!HalfMade
<1>2. /\ GlobTypes(s3, s2, s4) /\ CallersFine(s4, s2, s1) /\ SinksFine(s3, s2, s4, s8)
      /\ s7 \in Nat /\ s8 \in BOOLEAN /\ s9 \in BOOLEAN /\ s10 \in BOOLEAN /\ (s1 => ~s10)
      /\ (~s10 => ~s9 /\ \A i \in DOMAIN s3 : s3[i].live <=> i = s2)
      /\ s5 = 1 + s7 + Cardinality(Way(s4)) + Cardinality(SinkPairs(s3))
  BY DEF GlobFlat
<1>3. p \in Place /\ p.at = "idle" /\ p.call = "none" BY DEF Place
<1> HIDE DEF p
<1>4. s4' \in [Threads -> Place] /\ s4'[t] = p /\ \A x \in Threads \ {t} : s4'[x] = s4[x]
  BY <1>1, <1>2, <1>3, CallerMoves DEF GlobTypes
<1>5. s2 # 0 BY <1>1, <1>2 DEF CallersFine
<1>6. s3 \in Seq(Logger) /\ s2 \in 1..Len(s3) /\ IsFiniteSet(SinkPairs(s3)) BY <1>2, <1>5 DEF GlobTypes
<1>7. s1 => ~half BY <1>2 DEF CallersFine
<1>8. (half => \E x \in Threads : s4'[x].at = "stdout") BY <1>1, <1>4
<1>9. CallersFine(s4', s2, s1) BY <1>2, <1>3, <1>4 DEF CallersFine
<1>10. Cardinality(Way(s4')) = Cardinality(Way(s4)) - 1 /\ Cardinality(Way(s4)) \in Nat
  <2>1. s4[t].call = "sink" /\ s4'[t].call # "sink" BY <1>1, <1>3, <1>4
  <2>2. QED BY <1>4, <2>1, WayChanges
<1> HIDE DEF half
<1>11. s10' \in BOOLEAN /\ (s1 => ~s10') /\ (~s10' => ~s10) BY <1>1, <1>2, <1>7
<1>12. CASE allocated
  <2> DEFINE s == <<"stream">> \o s3[s2].sinks
             q == [s3[s2] EXCEPT !.sinks = s]
  <2>1. "stream" \in Kinds BY DEF Kinds
  <2>2. s3[s2] \in Logger BY <1>6
  <2>3. s \in Seq(Kinds) BY <2>1, <2>2 DEF Logger
  <2>4. s3' = [s3 EXCEPT ![s2] = q] BY <1>1, <1>12
  <2> HIDE DEF s
  <2>5. q \in Logger /\ q.sinks = s /\ q.live = s3[s2].live BY <2>2, <2>3 DEF Logger
  <2> HIDE DEF q
  <2>6. /\ s3' \in Seq(Logger) /\ DOMAIN s3' = DOMAIN s3 /\ DOMAIN s3 = 1..Len(s3) /\ Len(s3') = Len(s3)
        /\ s3'[s2] = q /\ \A j \in DOMAIN s3 \ {s2} : s3'[j] = s3[j]
    BY <1>6, <2>4, <2>5
  <2>7. s3'[s2].sinks = <<"stream">> \o s3[s2].sinks /\ \A j \in DOMAIN s3 : s3'[j].live = s3[j].live
    BY <2>5, <2>6 DEF s
  <2>8. /\ Glob!Range(s3'[s2].sinks) = {"stream"} \cup Glob!Range(s3[s2].sinks)
        /\ IsFiniteSet(SinkPairs(s3')) /\ Cardinality(SinkPairs(s3)) \in Nat
        /\ Cardinality(SinkPairs(s3')) = Cardinality(SinkPairs(s3)) + (IF "stream" = "stream" THEN 1 ELSE 0)
    BY <1>6, <2>1, <2>6, <2>7, SinkAdded
  <2>9. GlobTypes(s3', s2, s4') BY <1>4, <1>6, <2>6, <2>8 DEF GlobTypes
  <2>10. SinksFine(s3', s2, s4', s8') BY <1>2, <1>5, <1>8, <2>8 DEF SinksFine, half
  <2>11. Cardinality(SinkPairs(s3')) = Cardinality(SinkPairs(s3)) + 1 BY <2>8
  <2>12. s5' = 1 + s7' + Cardinality(Way(s4')) + Cardinality(SinkPairs(s3'))
    BY <1>1, <1>2, <1>10, <1>12, <2>8, <2>11
  <2>13. ~s10' => ~s9 /\ \A i \in DOMAIN s3' : s3'[i].live <=> i = s2 BY <1>2, <1>11, <2>6, <2>7
  <2>14. s8' \in BOOLEAN /\ s7' = s7 BY <1>1, <1>12
  <2>15. QED BY <1>1, <1>2, <1>9, <1>11, <2>9, <2>10, <2>12, <2>13, <2>14 DEF GlobFlat
<1>13. CASE ~allocated
  <2>1. GlobTypes(s3, s2, s4') BY <1>2, <1>4 DEF GlobTypes
  <2>2. SinksFine(s3, s2, s4', s8) BY <1>2, <1>8 DEF SinksFine, half
  <2>3. Cardinality(SinkPairs(s3)) \in Nat BY <1>6, FS_CardinalityType
  <2>4. s7' = s7 + 1 /\ s3' = s3 /\ s8' = s8 BY <1>1, <1>13
  <2>5. s7' \in Nat /\ s5' = 1 + s7' + Cardinality(Way(s4')) + Cardinality(SinkPairs(s3))
    BY <1>1, <1>2, <1>10, <2>3, <2>4
  <2>6. ~s10' => ~s9 /\ \A i \in DOMAIN s3 : s3[i].live <=> i = s2 BY <1>2, <1>11
  <2>7. QED BY <1>1, <1>2, <1>9, <1>11, <2>1, <2>2, <2>4, <2>5, <2>6 DEF GlobFlat
<1>14. QED BY <1>12, <1>13

\* The logger is deleted: its stream sinks give their references back.
LEMMA ShutdownStep ==
  ASSUME GlobFlat(s1, s2, s3, s4, s5, s7, s8, s9, s10), Glob!LogShutdown
  PROVE  GlobFlat(s1', s2', s3', s4', s5', s7', s8', s9', s10')
<1> DEFINE q == [live |-> FALSE, sinks |-> << >>]
<1>1. /\ s2 # 0 /\ \A t \in Threads : s4[t] = [at |-> "idle", call |-> "none"]
      /\ s5' = s5 - Cardinality(Glob!StreamsOf(s3[s2].sinks)) /\ s3' = [s3 EXCEPT ![s2] = q]
      /\ s2' = 0 /\ s8' = FALSE
      /\ s1' = s1 /\ s4' = s4 /\ s7' = s7 /\ s9' = s9 /\ s10' = s10
  BY GlobOperators DEF Glob!LogShutdown, Glob!Idle
<1>2. /\ GlobTypes(s3, s2, s4) /\ CallersFine(s4, s2, s1) /\ s7 \in Nat
      /\ s5 = 1 + s7 + Cardinality(Way(s4)) + Cardinality(SinkPairs(s3))
      /\ (~s10 => ~s9 /\ \A i \in DOMAIN s3 : s3[i].live <=> i = s2)
  BY DEF GlobFlat
<1>3. s3 \in Seq(Logger) /\ s2 \in 1..Len(s3) /\ IsFiniteSet(SinkPairs(s3)) BY <1>1, <1>2 DEF GlobTypes
<1>4. q \in Logger /\ q.live = FALSE /\ q.sinks = << >> BY DEF Logger
<1> HIDE DEF q
<1>5. /\ s3' \in Seq(Logger) /\ DOMAIN s3' = DOMAIN s3 /\ DOMAIN s3 = 1..Len(s3) /\ Len(s3') = Len(s3)
      /\ s3'[s2] = q /\ \A j \in DOMAIN s3 \ {s2} : s3'[j] = s3[j]
  BY <1>1, <1>3, <1>4
<1>6. << >> \in Seq(Kinds) /\ Cardinality(Glob!StreamsOf(<< >>)) = 0
  <2>1. Glob!StreamsOf(<< >>) = {} BY DEF Glob!StreamsOf
  <2>2. QED BY <2>1, FS_EmptySet
<1>7. /\ IsFiniteSet(SinkPairs(s3'))
      /\ Cardinality(SinkPairs(s3'))
           = Cardinality(SinkPairs(s3)) + Cardinality(Glob!StreamsOf(<< >>))
                                        - Cardinality(Glob!StreamsOf(s3[s2].sinks))
      /\ Cardinality(SinkPairs(s3)) \in Nat /\ Cardinality(Glob!StreamsOf(s3[s2].sinks)) \in Nat
  <2>1. PICK e \in Seq(Kinds) : e = << >> BY <1>6
  <2>2. s3'[s2].sinks = e BY <1>4, <1>5, <2>1
  <2>3. /\ IsFiniteSet(SinkPairs(s3'))
        /\ Cardinality(SinkPairs(s3'))
             = Cardinality(SinkPairs(s3)) + Cardinality(Glob!StreamsOf(e))
                                          - Cardinality(Glob!StreamsOf(s3[s2].sinks))
        /\ Cardinality(SinkPairs(s3)) \in Nat /\ Cardinality(Glob!StreamsOf(s3[s2].sinks)) \in Nat
    BY <1>3, <1>5, <2>2, SinksChange
  <2>4. QED BY <2>1, <2>3
<1>8. Way(s4) = {}
  <2>1. \A t \in Threads : s4[t].call = "none" BY <1>1
  <2>2. QED BY <2>1 DEF Way
<1>9. Cardinality(Way(s4)) = 0 BY <1>8, FS_EmptySet
<1>10. s5' = 1 + s7 + Cardinality(Way(s4)) + Cardinality(SinkPairs(s3')) BY <1>1, <1>2, <1>6, <1>7, <1>9
<1>11. GlobTypes(s3', s2', s4')
  <2>1. s2' \in 0..Len(s3') BY <1>1, <1>3, <1>5
  <2>2. QED BY <1>1, <1>2, <1>5, <1>7, <2>1 DEF GlobTypes
<1>12. \A t \in Threads : s4[t].at = "idle" /\ s4[t].call = "none" BY <1>1
<1>13. CallersFine(s4', s2', s1) BY <1>1, <1>12 DEF CallersFine
<1>14. SinksFine(s3', s2', s4', s8') BY <1>1 DEF SinksFine
<1>15. ~s10 => ~s9 /\ \A i \in DOMAIN s3' : s3'[i].live <=> i = 0
  <2>1. 0 \notin DOMAIN s3 BY <1>3, <1>5
  <2>2. QED BY <1>2, <1>4, <1>5, <2>1
<1>16. QED BY <1>1, <1>10, <1>11, <1>13, <1>14, <1>15 DEF GlobFlat

\* Threads that use the global logger, in whatever order, keep its invariant.
LEMMA GlobalStep ==
  ASSUME Glob!GlobalInv, Glob!GlobalNext
  PROVE  Glob!GlobalInv'
<1>1. GlobFlat(s1, s2, s3, s4, s5, s7, s8, s9, s10) BY GlobFlatNow
<1>2. GlobFlat(s1', s2', s3', s4', s5', s7', s8', s9', s10')
  BY <1>1, CallStep, InitStep, MakeStep, StdoutStep, MessageStep, AddSinkStep, ShutdownStep
     DEF Glob!GlobalNext
<1>3. (Glob!GlobalInv <=> GlobFlat(s1, s2, s3, s4, s5, s7, s8, s9, s10))' BY GlobFlatNow, PTL
<1>4. QED BY <1>2, <1>3

----------------------------------------------------------------------------
(* Streams: s1 is the stream, s2 the threads, s3 how often it was closed,   *)
(* s4 whether a Delete was crossed.                                         *)

\* The references of threads r, each thread's numbered.
RefPairs(r) == UNION {{t} \X (1..r[t].refs) : t \in Threads}

\* The instance counts as FiniteSets does.
LEMMA StrOperators ==
  /\ Str!Held = Cardinality(RefPairs(s2))
  /\ Str!IsFiniteSet(Str!References) <=> IsFiniteSet(RefPairs(s2))
<1>1. \A S : Str!Cardinality(S) = Cardinality(S) BY DEF Str!Cardinality, Cardinality
<1>2. \A S : Str!IsFiniteSet(S) <=> IsFiniteSet(S) BY DEF Str!IsFiniteSet, IsFiniteSet
<1>3. Str!References = RefPairs(s2) BY DEF Str!References, RefPairs
<1>4. QED BY <1>1, <1>2, <1>3 DEF Str!Held

\* One thread gains a reference.
LEMMA RefGained ==
  ASSUME NEW a, NEW b, NEW u \in Threads, \A x \in Threads \ {u} : b[x].refs = a[x].refs,
         a[u].refs \in Nat, b[u].refs = a[u].refs + 1, IsFiniteSet(RefPairs(a))
  PROVE  /\ IsFiniteSet(RefPairs(b)) /\ Cardinality(RefPairs(b)) = Cardinality(RefPairs(a)) + 1
         /\ Cardinality(RefPairs(a)) \in Nat
<1> DEFINE new == <<u, a[u].refs + 1>>
<1>1. \A x, i : <<x, i>> \in RefPairs(a) <=> x \in Threads /\ i \in 1..a[x].refs BY DEF RefPairs
<1>2. \A x, i : <<x, i>> \in RefPairs(b) <=> x \in Threads /\ i \in 1..b[x].refs BY DEF RefPairs
<1>3. \A p : p \in RefPairs(a) \/ p \in RefPairs(b) => \E x, i : p = <<x, i>> BY DEF RefPairs
<1>4. \A i : i \in 1..(a[u].refs + 1) <=> i \in 1..a[u].refs \/ i = a[u].refs + 1 OBVIOUS
<1>5. a[u].refs + 1 \notin 1..a[u].refs OBVIOUS
<1>6. \A x, i : <<x, i>> \in RefPairs(b) <=> <<x, i>> \in RefPairs(a) \/ <<x, i>> = new
  BY <1>1, <1>2, <1>4
<1>7. new \notin RefPairs(a) BY <1>1, <1>5
<1> HIDE DEF new
<1>8. RefPairs(b) = RefPairs(a) \cup {new}
  <2>1. \A p : p \in RefPairs(b) => p \in RefPairs(a) \cup {new} BY <1>3, <1>6
  <2>2. \A p : p \in RefPairs(a) => p \in RefPairs(b) BY <1>3, <1>6
  <2>3. new \in RefPairs(b) BY <1>6 DEF new
  <2>4. QED BY <2>1, <2>2, <2>3
<1>9. QED BY <1>7, <1>8, FS_AddElement, FS_CardinalityType

\* One thread gives a reference up.
LEMMA RefLost ==
  ASSUME NEW a, NEW b, NEW u \in Threads, \A x \in Threads \ {u} : b[x].refs = a[x].refs,
         a[u].refs \in Nat, a[u].refs > 0, b[u].refs = a[u].refs - 1, IsFiniteSet(RefPairs(a))
  PROVE  /\ IsFiniteSet(RefPairs(b)) /\ Cardinality(RefPairs(b)) = Cardinality(RefPairs(a)) - 1
         /\ Cardinality(RefPairs(a)) \in Nat /\ Cardinality(RefPairs(b)) \in Nat
<1> DEFINE old == <<u, a[u].refs>>
<1>1. \A x, i : <<x, i>> \in RefPairs(a) <=> x \in Threads /\ i \in 1..a[x].refs BY DEF RefPairs
<1>2. \A x, i : <<x, i>> \in RefPairs(b) <=> x \in Threads /\ i \in 1..b[x].refs BY DEF RefPairs
<1>3. \A p : p \in RefPairs(a) \/ p \in RefPairs(b) => \E x, i : p = <<x, i>> BY DEF RefPairs
<1>4. \A i : i \in 1..(a[u].refs - 1) <=> i \in 1..a[u].refs /\ i # a[u].refs OBVIOUS
<1>5. a[u].refs \in 1..a[u].refs OBVIOUS
<1>6. \A x, i : <<x, i>> \in RefPairs(b) <=> <<x, i>> \in RefPairs(a) /\ <<x, i>> # old
  BY <1>1, <1>2, <1>4
<1>7. old \in RefPairs(a) BY <1>1, <1>5
<1> HIDE DEF old
<1>8. RefPairs(b) = RefPairs(a) \ {old}
  <2>1. \A p : p \in RefPairs(b) => p \in RefPairs(a) \ {old} BY <1>3, <1>6
  <2>2. \A p : p \in RefPairs(a) \ {old} => p \in RefPairs(b) BY <1>3, <1>6
  <2>3. QED BY <2>1, <2>2
<1>9. /\ IsFiniteSet(RefPairs(b)) /\ Cardinality(RefPairs(b)) = Cardinality(RefPairs(a)) - 1
  BY <1>7, <1>8, FS_RemoveElement
<1>10. QED BY <1>9, FS_CardinalityType

\* References do not change when no thread's do.
LEMMA RefSame ==
  ASSUME NEW a, NEW b, \A x \in Threads : b[x].refs = a[x].refs
  PROVE  RefPairs(b) = RefPairs(a)
BY DEF RefPairs

\* The invariant gives what is claimed of streams.
LEMMA StreamInvSound ==
  ASSUME Str!StreamInv
  PROVE  Str!StreamSound
<1>1. ASSUME ~s4
      PROVE  /\ s3 = (IF Str!Held = 0 /\ Str!Deleting = {} THEN 1 ELSE 0)
             /\ Str!Deleting = {} => s1.refCount = Str!Held
  BY <1>1 DEF Str!StreamInv, Str!CountInv
<1>2. QED BY <1>1 DEF Str!StreamSound, Str!StreamInv, Str!CellsInv

\* The types, in this module's terms.
StreamShape == [kind : Str!Kinds, cells : Seq({0, 1}), cursor : Int, refCount : Nat,
                totalRead : Int, totalWritten : Nat]
ThreadShape == [at : {"idle", "cas", "check"}, old : Nat, refs : Nat]

\* A stream is opened with one reference, one thread's.
LEMMA StreamStart ==
  ASSUME Str!StreamInit
  PROVE  Str!StreamInv
<1>1. PICK kind \in Str!Kinds : s1 = Str!OpenStream(kind) BY DEF Str!StreamInit
<1>2. PICK t \in Threads : s2 = [u \in Threads |-> [at |-> "idle", old |-> 0, refs |-> IF u = t THEN 1 ELSE 0]]
  BY DEF Str!StreamInit
<1>3. s3 = 0 /\ s4 = FALSE BY DEF Str!StreamInit
<1> DEFINE cells == IF kind \in {"buffer", "file"} THEN << >> ELSE [i \in 1..BlockSize |-> 0]
<1>4. s1 = [kind |-> kind, cells |-> cells, cursor |-> 0, refCount |-> 1, totalRead |-> 0, totalWritten |-> 0]
  BY <1>1 DEF Str!OpenStream, Str!OpenBuffer, Str!OpenMem, Str!CreateFileStream, Str!NewStream, Str!Kinds
<1>5. /\ cells \in Seq({0, 1}) /\ \A i \in 1..Len(cells) : cells[i] = 0
      /\ kind \in {"memory", "readonly"} => Len(cells) = BlockSize
  BY SharedAssumption
<1> HIDE DEF cells
<1>6. /\ s1.kind = kind /\ s1.cells = cells /\ s1.cursor = 0 /\ s1.refCount = 1 /\ s1.totalWritten = 0
      /\ s1 \in StreamShape /\ s1.totalRead = 0
  BY <1>4, <1>5 DEF StreamShape
<1>7. /\ s2 \in [Threads -> [at : {"idle", "cas", "check"}, old : Nat, refs : Nat]]
      /\ s2[t].refs = 1 /\ \A u \in Threads : s2[u].at = "idle" /\ (u # t => s2[u].refs = 0)
  BY <1>2
<1>8. RefPairs(s2) = {<<t, 1>>}
  <2>1. \A x, i : <<x, i>> \in RefPairs(s2) <=> x \in Threads /\ i \in 1..s2[x].refs BY DEF RefPairs
  <2>2. \A p : p \in RefPairs(s2) => \E x, i : p = <<x, i>> BY DEF RefPairs
  <2>3. \A i : i \in 1..1 <=> i = 1 OBVIOUS
  <2>4. \A i : i \notin 1..0 OBVIOUS
  <2>5. \A x, i : <<x, i>> \in RefPairs(s2) <=> x = t /\ i = 1 BY <1>7, <2>1, <2>3, <2>4
  <2>6. QED BY <2>2, <2>5
<1>9. IsFiniteSet(RefPairs(s2)) /\ Cardinality(RefPairs(s2)) = 1 BY <1>8, FS_Singleton
<1>10. Str!Held = 1 /\ Str!IsFiniteSet(Str!References) BY <1>9, StrOperators
<1>11. Str!Deleting = {} BY <1>7 DEF Str!Deleting, Str!At
<1>12. Str!StreamTypes BY <1>3, <1>6, <1>7, <1>10 DEF Str!StreamTypes, StreamShape
<1>13. Str!CountInv BY <1>3, <1>6, <1>7, <1>10, <1>11 DEF Str!CountInv, Str!At
<1>14. Str!CellsInv BY <1>5, <1>6, SharedAssumption DEF Str!CellsInv, Str!Fixed, Str!End
<1>15. QED BY <1>12, <1>13, <1>14 DEF Str!StreamInv

\* What the steps of the reference count start from.
LEMMA CountFacts ==
  ASSUME Str!StreamInv
  PROVE  /\ s1 \in StreamShape
         /\ s2 \in [Threads -> [at : {"idle", "cas", "check"}, old : Nat, refs : Nat]]
         /\ s3 \in Nat /\ s4 \in BOOLEAN /\ IsFiniteSet(RefPairs(s2))
         /\ Str!Held = Cardinality(RefPairs(s2)) /\ Cardinality(RefPairs(s2)) \in Nat
         /\ Str!Deleting = {t \in Threads : s2[t].at # "idle"}
<1>1. IsFiniteSet(RefPairs(s2)) BY StrOperators DEF Str!StreamInv, Str!StreamTypes
<1>2. QED
  BY <1>1, StrOperators, FS_CardinalityType DEF Str!StreamInv, Str!StreamTypes, StreamShape, Str!Deleting, Str!At

\* A change of the count leaves what is said of the cells.
LEMMA CountKeepsCells ==
  ASSUME Str!CellsInv, s1'.kind = s1.kind, s1'.cells = s1.cells, s1'.cursor = s1.cursor,
         s1'.totalWritten = s1.totalWritten, s1'.totalRead = s1.totalRead
  PROVE  Str!CellsInv'
BY DEF Str!CellsInv, Str!Fixed, Str!End

\* A stream and its threads of these shapes have their types.
LEMMA StreamTypesNext ==
  ASSUME s1' \in StreamShape, s2' \in [Threads -> ThreadShape], s3' \in Nat, s4' \in BOOLEAN,
         IsFiniteSet(RefPairs(s2'))
  PROVE  Str!StreamTypes' /\ Str!Held' = Cardinality(RefPairs(s2'))
<1>1. (/\ Str!Held = Cardinality(RefPairs(s2))
       /\ Str!IsFiniteSet(Str!References) <=> IsFiniteSet(RefPairs(s2)))' BY StrOperators, PTL
<1>2. QED BY <1>1 DEF Str!StreamTypes, StreamShape, ThreadShape

\* The count is replaced.
LEMMA CountReplaced ==
  ASSUME NEW r \in StreamShape, NEW n \in Nat, NEW q, q = [r EXCEPT !.refCount = n]
  PROVE  /\ q \in StreamShape /\ q.refCount = n /\ q.kind = r.kind /\ q.totalRead = r.totalRead
         /\ q.cells = r.cells /\ q.cursor = r.cursor /\ q.totalWritten = r.totalWritten
BY DEF StreamShape

\* A reference more: the count follows, unless that was during a Delete.
LEMMA RetainStep ==
  ASSUME Str!StreamInv, NEW t \in Threads, NEW u \in Threads, Str!Retain(t, u)
  PROVE  Str!StreamInv'
<1>1. /\ s2[u].at = "idle" /\ s1.refCount > 0 /\ s3 = 0
      /\ s1' = [s1 EXCEPT !.refCount = s1.refCount + 1]
      /\ s2' = [s2 EXCEPT ![u] = [s2[u] EXCEPT !.refs = s2[u].refs + 1]]
      /\ s4' = (s4 \/ Str!Deleting # {}) /\ s3' = s3
  BY DEF Str!Retain, Str!Free, Str!At
<1>2. /\ s1 \in StreamShape /\ s2 \in [Threads -> ThreadShape]
      /\ s3 \in Nat /\ s4 \in BOOLEAN /\ IsFiniteSet(RefPairs(s2))
      /\ Str!Held = Cardinality(RefPairs(s2)) /\ Cardinality(RefPairs(s2)) \in Nat
      /\ Str!Deleting = {x \in Threads : s2[x].at # "idle"}
  BY CountFacts DEF StreamShape, ThreadShape
<1>3. /\ s1' \in StreamShape /\ s1'.refCount = s1.refCount + 1 /\ s1'.kind = s1.kind
      /\ s1'.cells = s1.cells /\ s1'.cursor = s1.cursor /\ s1'.totalWritten = s1.totalWritten
      /\ s1'.totalRead = s1.totalRead
  <2>1. s1.refCount + 1 \in Nat BY <1>2 DEF StreamShape
  <2>2. QED BY <1>1, <1>2, <2>1, CountReplaced
<1>4. /\ s2' \in [Threads -> ThreadShape] /\ s2[u].refs \in Nat
      /\ s2'[u].refs = s2[u].refs + 1 /\ s2'[u].at = s2[u].at /\ s2'[u].old = s2[u].old
      /\ \A x \in Threads \ {u} : s2'[x] = s2[x]
  <2> DEFINE p == [s2[u] EXCEPT !.refs = s2[u].refs + 1]
  <2>1. s2[u] \in ThreadShape BY <1>2
  <2>2. /\ p \in ThreadShape /\ p.refs = s2[u].refs + 1 /\ p.at = s2[u].at /\ p.old = s2[u].old
        /\ s2[u].refs \in Nat
    BY <2>1 DEF ThreadShape
  <2>3. s2' = [s2 EXCEPT ![u] = p] BY <1>1
  <2> HIDE DEF p
  <2>4. s2' \in [Threads -> ThreadShape] /\ s2'[u] = p /\ \A x \in Threads \ {u} : s2'[x] = s2[x]
    BY <1>2, <2>2, <2>3
  <2>5. QED BY <2>2, <2>4
<1>5. IsFiniteSet(RefPairs(s2')) /\ Cardinality(RefPairs(s2')) = Cardinality(RefPairs(s2)) + 1
  BY <1>2, <1>4, RefGained
<1>6. s3' \in Nat /\ s4' \in BOOLEAN BY <1>1, <1>2
<1>7. Str!StreamTypes' /\ Str!Held' = Cardinality(RefPairs(s2'))
  BY <1>3, <1>4, <1>5, <1>6, StreamTypesNext
<1>8. Str!CellsInv' BY <1>3, CountKeepsCells DEF Str!StreamInv
<1>9. \A x \in Threads : s2'[x].at = s2[x].at /\ s2'[x].old = s2[x].old BY <1>4
<1>10. Str!Deleting' = Str!Deleting BY <1>9 DEF Str!Deleting, Str!At
<1>11. ASSUME ~s4' PROVE Str!Deleting' = {} /\ s1'.refCount = Str!Held' /\ s3' = (IF Str!Held' = 0 THEN 1 ELSE 0)
  <2>1. ~s4 /\ Str!Deleting = {} BY <1>1, <1>11
  <2>2. s1.refCount = Str!Held BY <2>1 DEF Str!StreamInv, Str!CountInv
  <2>3. Str!Held' # 0 BY <1>2, <1>5, <1>7
  <2>4. QED BY <1>1, <1>2, <1>3, <1>5, <1>7, <1>10, <2>1, <2>2, <2>3
<1>12. \A x \in Threads : s2[x].at = "cas" => s2[x].old > 0
  BY DEF Str!StreamInv, Str!CountInv, Str!At
<1>13. Str!CountInv' BY <1>9, <1>11, <1>12 DEF Str!CountInv, Str!At
<1>14. QED BY <1>7, <1>8, <1>13 DEF Str!StreamInv

\* A thread gives its reference up and looks at the count.
LEMMA DeleteLoadStep ==
  ASSUME Str!StreamInv, NEW t \in Threads, Str!DeleteLoad(t)
  PROVE  Str!StreamInv'
<1> DEFINE p == [at |-> "cas", old |-> s1.refCount, refs |-> s2[t].refs - 1]
<1>1. /\ s2[t].at = "idle" /\ s2[t].refs > 0 /\ s1.refCount > 0 /\ s3 = 0
      /\ s2' = [s2 EXCEPT ![t] = p]
      /\ s4' = (s4 \/ Str!Deleting # {}) /\ s3' = s3 /\ s1' = s1
  BY DEF Str!DeleteLoad, Str!Free, Str!At
<1>2. /\ s1 \in StreamShape /\ s2 \in [Threads -> ThreadShape]
      /\ s3 \in Nat /\ s4 \in BOOLEAN /\ IsFiniteSet(RefPairs(s2))
      /\ Str!Held = Cardinality(RefPairs(s2)) /\ Cardinality(RefPairs(s2)) \in Nat
      /\ Str!Deleting = {x \in Threads : s2[x].at # "idle"}
  BY CountFacts DEF StreamShape, ThreadShape
<1>3. s2[t].refs \in Nat /\ s1.refCount \in Nat BY <1>2 DEF StreamShape, ThreadShape
<1>4. /\ p \in ThreadShape /\ p.refs = s2[t].refs - 1 /\ p.at = "cas" /\ p.old = s1.refCount
  <2>1. s2[t].refs - 1 \in Nat BY <1>1, <1>3
  <2>2. QED BY <1>3, <2>1 DEF ThreadShape
<1> HIDE DEF p
<1>5. s2' \in [Threads -> ThreadShape] /\ s2'[t] = p /\ \A x \in Threads \ {t} : s2'[x] = s2[x]
  BY <1>1, <1>2, <1>4
<1>6. /\ IsFiniteSet(RefPairs(s2')) /\ Cardinality(RefPairs(s2')) = Cardinality(RefPairs(s2)) - 1
      /\ Cardinality(RefPairs(s2')) \in Nat
  <2>1. s2'[t].refs = s2[t].refs - 1 /\ \A x \in Threads \ {t} : s2'[x].refs = s2[x].refs BY <1>4, <1>5
  <2>2. QED BY <1>1, <1>2, <1>3, <2>1, RefLost
<1>7. s3' \in Nat /\ s4' \in BOOLEAN BY <1>1, <1>2
<1>8. Str!StreamTypes' /\ Str!Held' = Cardinality(RefPairs(s2'))
  BY <1>1, <1>2, <1>5, <1>6, <1>7, StreamTypesNext
<1>9. Str!CellsInv' BY <1>1, CountKeepsCells DEF Str!StreamInv
<1>10. Str!Deleting' = Str!Deleting \cup {t}
  <2>1. s2'[t].at = "cas" /\ \A x \in Threads \ {t} : s2'[x].at = s2[x].at BY <1>4, <1>5
  <2>2. QED BY <2>1 DEF Str!Deleting, Str!At
<1>11. ASSUME ~s4'
       PROVE  Str!Deleting' = {t} /\ s3' = 0 /\ s1'.refCount = Str!Held' + 1 /\ s1'.refCount = s2'[t].old
  <2>1. ~s4 /\ Str!Deleting = {} BY <1>1, <1>11
  <2>2. s1.refCount = Str!Held BY <2>1 DEF Str!StreamInv, Str!CountInv
  <2>3. s1'.refCount = Str!Held' + 1 BY <1>1, <1>2, <1>3, <1>6, <1>8, <2>2
  <2>4. QED BY <1>1, <1>4, <1>5, <1>10, <2>1, <2>3
<1>12. \A x \in Threads : s2'[x].at = "cas" => s2'[x].old > 0
  <2>1. \A x \in Threads : s2[x].at = "cas" => s2[x].old > 0 BY DEF Str!StreamInv, Str!CountInv, Str!At
  <2>2. QED BY <1>1, <1>4, <1>5, <2>1
<1>13. s2'[t].at = "cas" BY <1>4, <1>5
<1>14. Str!CountInv' BY <1>11, <1>12, <1>13 DEF Str!CountInv, Str!At
<1>15. QED BY <1>8, <1>9, <1>14 DEF Str!StreamInv

\* The exchange takes one from the count; when it fails, the loop is over.
LEMMA DeleteCasStep ==
  ASSUME Str!StreamInv, NEW t \in Threads, Str!DeleteCas(t)
  PROVE  Str!StreamInv'
<1>1. /\ s2[t].at = "cas" /\ s3' = s3 /\ s4' = s4
      /\ \/ s1.refCount = s2[t].old /\ s1' = [s1 EXCEPT !.refCount = s1.refCount - 1] /\ s2' = s2
         \/ s1.refCount # s2[t].old /\ s1' = s1 /\ s2' = [s2 EXCEPT ![t].at = "check", ![t].old = 0]
  BY DEF Str!DeleteCas, Str!At
<1>2. /\ s1 \in StreamShape /\ s2 \in [Threads -> ThreadShape]
      /\ s3 \in Nat /\ s4 \in BOOLEAN /\ IsFiniteSet(RefPairs(s2))
      /\ Str!Held = Cardinality(RefPairs(s2)) /\ Cardinality(RefPairs(s2)) \in Nat
      /\ Str!Deleting = {x \in Threads : s2[x].at # "idle"}
  BY CountFacts DEF StreamShape, ThreadShape
<1>3. /\ \A x \in Threads : s2[x].at = "cas" => s2[x].old > 0
      /\ ~s4 => /\ \A x \in Threads : s2[x].at # "idle" => x = t
                /\ s3 = 0
                /\ \/ s1.refCount = Str!Held /\ s1.refCount < s2[t].old
                   \/ s1.refCount = Str!Held + 1 /\ s1.refCount = s2[t].old
  <2>1. t \in Str!Deleting BY <1>1, <1>2
  <2>2. QED BY <1>1, <1>2, <2>1 DEF Str!StreamInv, Str!CountInv, Str!At
<1>4. s1.refCount \in Nat /\ s2[t].old \in Nat BY <1>2 DEF StreamShape, ThreadShape
<1>5. CASE s1.refCount = s2[t].old
  <2>1. s1' = [s1 EXCEPT !.refCount = s1.refCount - 1] /\ s2' = s2 BY <1>1, <1>5
  <2>2. s1.refCount > 0 /\ s1.refCount - 1 \in Nat BY <1>1, <1>3, <1>4, <1>5
  <2>3. /\ s1' \in StreamShape /\ s1'.refCount = s1.refCount - 1 /\ s1'.kind = s1.kind
        /\ s1'.cells = s1.cells /\ s1'.cursor = s1.cursor /\ s1'.totalWritten = s1.totalWritten
        /\ s1'.totalRead = s1.totalRead
    BY <1>2, <2>1, <2>2, CountReplaced
  <2>4. Str!StreamTypes' /\ Str!Held' = Cardinality(RefPairs(s2'))
    BY <1>1, <1>2, <2>1, <2>3, StreamTypesNext
  <2>5. Str!Held' = Str!Held BY <1>2, <2>1, <2>4
  <2>6. Str!CellsInv' BY <2>3, CountKeepsCells DEF Str!StreamInv
  <2>7. Str!Deleting' = Str!Deleting BY <2>1 DEF Str!Deleting, Str!At
  <2>8. ~s4 => s1'.refCount = Str!Held' /\ s1'.refCount < s2[t].old
    BY <1>2, <1>3, <1>4, <1>5, <2>2, <2>3, <2>5
  <2>9. Str!CountInv' BY <1>1, <1>2, <1>3, <2>1, <2>7, <2>8 DEF Str!CountInv, Str!At
  <2>10. QED BY <2>4, <2>6, <2>9 DEF Str!StreamInv
<1>6. CASE s1.refCount # s2[t].old
  <2> DEFINE p == [s2[t] EXCEPT !.at = "check", !.old = 0]
  <2>1. s1' = s1 /\ s2' = [s2 EXCEPT ![t] = p] BY <1>1, <1>2, <1>6 DEF ThreadShape
  <2>2. p \in ThreadShape /\ p.at = "check" /\ p.refs = s2[t].refs
    <3>1. s2[t] \in ThreadShape BY <1>2
    <3>2. QED BY <3>1 DEF ThreadShape
  <2> HIDE DEF p
  <2>3. s2' \in [Threads -> ThreadShape] /\ s2'[t] = p /\ \A x \in Threads \ {t} : s2'[x] = s2[x]
    BY <1>2, <2>1, <2>2
  <2>4. RefPairs(s2') = RefPairs(s2) BY <2>2, <2>3, RefSame
  <2>5. Str!StreamTypes' /\ Str!Held' = Cardinality(RefPairs(s2'))
    BY <1>1, <1>2, <2>1, <2>3, <2>4, StreamTypesNext
  <2>6. Str!Held' = Str!Held BY <1>2, <2>4, <2>5
  <2>7. Str!CellsInv' BY <2>1, CountKeepsCells DEF Str!StreamInv
  <2>8. s2'[t].at = "check" BY <2>2, <2>3
  <2>9. \A x \in Threads \ {t} : s2'[x] = s2[x] BY <2>3
  <2>10. ~s4 => /\ s1'.refCount = Str!Held' /\ s3' = 0
                /\ \A x \in Threads : s2'[x].at # "idle" => x = t
    BY <1>1, <1>3, <1>6, <2>1, <2>6, <2>9
  <2>11. \A x \in Threads : s2'[x].at = "cas" => s2'[x].old > 0 BY <1>3, <2>8, <2>9
  <2>12. t \in Str!Deleting' BY <2>8 DEF Str!Deleting, Str!At
  <2>13. \A x : x \in Str!Deleting' => x \in Threads /\ s2'[x].at # "idle" BY DEF Str!Deleting, Str!At
  <2>14. Str!CountInv' BY <1>1, <2>8, <2>10, <2>11, <2>12, <2>13 DEF Str!CountInv, Str!At
  <2>15. QED BY <2>5, <2>7, <2>14 DEF Str!StreamInv
<1>7. QED BY <1>5, <1>6

\* The second look at the count: the last reference closes the stream.
LEMMA DeleteCheckStep ==
  ASSUME Str!StreamInv, NEW t \in Threads, Str!DeleteCheck(t)
  PROVE  Str!StreamInv'
<1>1. /\ s2[t].at = "check" /\ s1' = s1 /\ s4' = s4 /\ s2' = [s2 EXCEPT ![t].at = "idle"]
      /\ s3' = IF s1.refCount # 0 THEN s3 ELSE s3 + 1
  BY DEF Str!DeleteCheck, Str!At
<1>2. /\ s1 \in StreamShape /\ s2 \in [Threads -> ThreadShape]
      /\ s3 \in Nat /\ s4 \in BOOLEAN /\ IsFiniteSet(RefPairs(s2))
      /\ Str!Held = Cardinality(RefPairs(s2)) /\ Cardinality(RefPairs(s2)) \in Nat
      /\ Str!Deleting = {x \in Threads : s2[x].at # "idle"}
  BY CountFacts DEF StreamShape, ThreadShape
<1>3. /\ \A x \in Threads : s2[x].at = "cas" => s2[x].old > 0
      /\ ~s4 => /\ \A x \in Threads : s2[x].at # "idle" => x = t
                /\ s3 = 0 /\ s1.refCount = Str!Held
  <2>1. t \in Str!Deleting BY <1>1, <1>2
  <2>2. QED BY <1>1, <1>2, <2>1 DEF Str!StreamInv, Str!CountInv, Str!At
<1> DEFINE p == [s2[t] EXCEPT !.at = "idle"]
<1>4. s2' = [s2 EXCEPT ![t] = p] BY <1>1
<1>5. p \in ThreadShape /\ p.at = "idle" /\ p.refs = s2[t].refs
  <2>1. s2[t] \in ThreadShape BY <1>2
  <2>2. QED BY <2>1 DEF ThreadShape
<1> HIDE DEF p
<1>6. s2' \in [Threads -> ThreadShape] /\ s2'[t] = p /\ \A x \in Threads \ {t} : s2'[x] = s2[x]
  BY <1>2, <1>4, <1>5
<1>7. RefPairs(s2') = RefPairs(s2) BY <1>5, <1>6, RefSame
<1>8. s3' \in Nat BY <1>1, <1>2
<1>9. Str!StreamTypes' /\ Str!Held' = Cardinality(RefPairs(s2'))
  BY <1>1, <1>2, <1>6, <1>7, <1>8, StreamTypesNext
<1>10. Str!Held' = Str!Held BY <1>2, <1>7, <1>9
<1>11. Str!CellsInv' BY <1>1, CountKeepsCells DEF Str!StreamInv
<1>12. \A x \in Threads : s2'[x].at = "cas" => s2'[x].old > 0 BY <1>3, <1>5, <1>6
<1>13. ~s4 => Str!Deleting' = {}
  <2>1. s2'[t].at = "idle" BY <1>5, <1>6
  <2>2. ~s4 => \A x \in Threads : s2'[x].at = "idle" BY <1>3, <1>6, <2>1
  <2>3. QED BY <2>2 DEF Str!Deleting, Str!At
<1>14. ~s4 => s1'.refCount = Str!Held' /\ s3' = (IF Str!Held' = 0 THEN 1 ELSE 0)
  BY <1>1, <1>3, <1>10
<1>15. Str!CountInv' BY <1>1, <1>12, <1>13, <1>14 DEF Str!CountInv, Str!At
<1>16. QED BY <1>9, <1>11, <1>15 DEF Str!StreamInv

\* What a change of cells and position leaves.
LEMMA CellsKeepCount ==
  ASSUME Str!StreamInv, s1' \in StreamShape, s1'.refCount = s1.refCount, s2' = s2, s3' = s3, s4' = s4,
         Str!CellsInv'
  PROVE  Str!StreamInv'
<1>1. /\ s2 \in [Threads -> ThreadShape] /\ s3 \in Nat /\ s4 \in BOOLEAN /\ IsFiniteSet(RefPairs(s2))
      /\ Str!Held = Cardinality(RefPairs(s2))
  BY CountFacts DEF ThreadShape
<1>2. Str!StreamTypes' /\ Str!Held' = Cardinality(RefPairs(s2')) BY <1>1, StreamTypesNext
<1>3. Str!Held' = Str!Held BY <1>1, <1>2
<1>4. Str!Deleting' = Str!Deleting BY DEF Str!Deleting, Str!At
<1>5. Str!CountInv' BY <1>3, <1>4 DEF Str!StreamInv, Str!CountInv, Str!At
<1>6. QED BY <1>2, <1>5 DEF Str!StreamInv

\* What the operations under the lock start from.
LEMMA CellFacts ==
  ASSUME Str!StreamInv
  PROVE  /\ s1 \in StreamShape /\ s1.kind \in Str!Kinds /\ s1.cells \in Seq({0, 1})
         /\ s1.cursor \in Int /\ s1.totalRead \in Int /\ s1.totalWritten \in Nat /\ Len(s1.cells) \in Nat
         /\ s1.kind \in {"memory", "readonly"} => s1.cursor <= BlockSize /\ Len(s1.cells) = BlockSize
         /\ s1.kind # "buffer" => s1.cursor >= 0 /\ s1.totalRead >= 0
         /\ s1.kind = "readonly" => s1.totalWritten = 0 /\ \A i \in 1..Len(s1.cells) : s1.cells[i] = 0
         /\ \A i \in 1..Len(s1.cells) : s1.cells[i] = 1 => s1.totalWritten > 0
<1>1. s1 \in StreamShape BY DEF Str!StreamInv, Str!StreamTypes, StreamShape
<1>2. /\ s1.kind \in Str!Kinds /\ s1.cells \in Seq({0, 1})
      /\ s1.cursor \in Int /\ s1.totalRead \in Int /\ s1.totalWritten \in Nat
  BY <1>1 DEF StreamShape
<1>3. Len(s1.cells) \in Nat BY <1>2
<1>4. QED BY <1>1, <1>2, <1>3 DEF Str!StreamInv, Str!CellsInv, Str!Fixed, Str!End

\* What is read was there, and the position stays inside, except that of a buffer.
LEMMA ReadStep ==
  ASSUME Str!StreamInv, NEW t \in Threads, NEW n \in 1..2, Str!Read(t, n)
  PROVE  Str!StreamInv'
<1> DEFINE left == Len(s1.cells) - s1.cursor
           got == CASE s1.kind = "buffer" -> Str!BufferRead(n)
                    [] s1.kind = "file" -> Str!FileRead(n)
                    [] OTHER -> Str!MemRead(n)
<1>1. /\ s1' = [s1 EXCEPT !.cursor = s1.cursor + got, !.totalRead = s1.totalRead + got]
      /\ s2' = s2 /\ s3' = s3 /\ s4' = s4
  BY DEF Str!Read, Str!Idle, Str!End
<1>2. /\ s1 \in StreamShape /\ s1.cursor \in Int /\ s1.totalRead \in Int /\ Len(s1.cells) \in Nat
      /\ s1.kind \in {"memory", "readonly"} => s1.cursor <= BlockSize /\ Len(s1.cells) = BlockSize
      /\ s1.kind # "buffer" => s1.cursor >= 0 /\ s1.totalRead >= 0
      /\ s1.kind = "readonly" => s1.totalWritten = 0 /\ \A i \in 1..Len(s1.cells) : s1.cells[i] = 0
      /\ \A i \in 1..Len(s1.cells) : s1.cells[i] = 1 => s1.totalWritten > 0
  BY CellFacts
<1>3. left \in Int /\ n \in Int BY <1>2
<1>4. /\ got \in Int /\ (s1.kind # "buffer" => got >= 0)
      /\ s1.kind \in {"memory", "readonly"} => s1.cursor + got <= Len(s1.cells)
  <2>1. s1.kind \in {"buffer", "file", "memory", "readonly"} BY CellFacts DEF Str!Kinds
  <2>2. CASE s1.kind = "buffer"
    <3>1. got = IF s1.cursor + n > Len(s1.cells) THEN left ELSE n
      BY <2>2 DEF Str!BufferRead, Str!Left, Str!End
    <3> HIDE DEF left, got
    <3>2. got \in Int BY <1>3, <3>1
    <3>3. QED BY <2>2, <3>2
  <2>3. CASE s1.kind = "file"
    <3>1. got = IF left < 0 THEN 0 ELSE IF n < left THEN n ELSE left
      BY <2>3 DEF Str!FileRead, Str!Left, Str!End, Str!Least
    <3> HIDE DEF left, got
    <3>2. got \in Nat BY <1>3, <3>1
    <3>3. QED BY <2>3, <3>2
  <2>4. CASE s1.kind \in {"memory", "readonly"}
    <3>1. got = IF n < left THEN n ELSE left
      BY <2>4 DEF Str!MemRead, Str!Left, Str!End, Str!Least
    <3>2. left >= 0 BY <1>2, <2>4, SharedAssumption
    <3>3. s1.cursor + left = Len(s1.cells) BY <1>2
    <3> HIDE DEF left, got
    <3>4. got \in Nat /\ got <= left BY <1>3, <3>1, <3>2
    <3>5. s1.cursor + got <= Len(s1.cells) BY <1>2, <1>3, <3>3, <3>4
    <3>6. QED BY <2>4, <3>4, <3>5
  <2>5. QED BY <2>1, <2>2, <2>3, <2>4
<1> HIDE DEF left, got
<1>5. s1.cursor + got \in Int /\ s1.totalRead + got \in Int BY <1>2, <1>4
<1>8. /\ s1' \in StreamShape /\ s1'.refCount = s1.refCount /\ s1'.kind = s1.kind /\ s1'.cells = s1.cells
      /\ s1'.cursor = s1.cursor + got /\ s1'.totalRead = s1.totalRead + got
      /\ s1'.totalWritten = s1.totalWritten
  <2> DEFINE x == s1.cursor + got
             y == s1.totalRead + got
  <2>1. x \in Int /\ y \in Int /\ s1' = [s1 EXCEPT !.cursor = x, !.totalRead = y] BY <1>1, <1>5
  <2>2. s1 \in StreamShape BY <1>2
  <2> HIDE DEF x, y
  <2>3. /\ s1' \in StreamShape /\ s1'.refCount = s1.refCount /\ s1'.kind = s1.kind
        /\ s1'.cells = s1.cells /\ s1'.cursor = x /\ s1'.totalRead = y
        /\ s1'.totalWritten = s1.totalWritten
    BY <2>1, <2>2 DEF StreamShape
  <2>4. QED BY <2>3 DEF x, y
<1>9. s1'.kind # "buffer" => s1'.cursor >= 0 /\ s1'.totalRead >= 0 BY <1>2, <1>4, <1>8
<1>10. Str!CellsInv' BY <1>2, <1>4, <1>8, <1>9 DEF Str!CellsInv, Str!Fixed, Str!End
<1>11. QED BY <1>1, <1>8, <1>10, CellsKeepCount

\* A position inside a memory block, or any behind it that buffer and file allow.
LEMMA SeekStep ==
  ASSUME Str!StreamInv, NEW t \in Threads, NEW from \in {"set", "cur", "end"}, NEW offset \in -1..1,
         Str!Seek(t, from, offset)
  PROVE  Str!StreamInv'
<1> DEFINE to == CASE s1.kind = "buffer" -> Str!BufferSeek(from, offset)
                   [] s1.kind = "file" -> Str!FileSeek(from, offset)
                   [] OTHER -> Str!MemSeek(from, offset)
<1>1. /\ to \in -1..MaxSize /\ s1' = [s1 EXCEPT !.cursor = to]
      /\ s2' = s2 /\ s3' = s3 /\ s4' = s4
  BY DEF Str!Seek, Str!Idle
<1>2. /\ s1 \in StreamShape /\ s1.cursor \in Int /\ Len(s1.cells) \in Nat
      /\ s1.kind \in {"memory", "readonly"} => s1.cursor <= BlockSize /\ Len(s1.cells) = BlockSize
      /\ s1.kind # "buffer" => s1.cursor >= 0 /\ s1.totalRead >= 0
      /\ s1.kind = "readonly" => s1.totalWritten = 0 /\ \A i \in 1..Len(s1.cells) : s1.cells[i] = 0
      /\ \A i \in 1..Len(s1.cells) : s1.cells[i] = 1 => s1.totalWritten > 0
  BY CellFacts
<1>3. ASSUME s1.kind \in {"memory", "readonly"} PROVE to <= BlockSize
  <2>1. to = Str!MemSeek(from, offset) BY <1>3
  <2>2. Str!Origin(from) \in Int BY <1>2 DEF Str!Origin, Str!End
  <2>3. Str!MemSeek(from, offset) <= BlockSize
    <3>1. CASE Str!Origin(from) + offset < 0
      BY <1>2, <1>3, <3>1 DEF Str!MemSeek
    <3>2. CASE ~(Str!Origin(from) + offset < 0)
      <4>1. Str!MemSeek(from, offset) = Str!Least(Str!Origin(from) + offset, Len(s1.cells))
        BY <3>2 DEF Str!MemSeek, Str!End
      <4>2. Str!Origin(from) + offset \in Int BY <2>2
      <4>3. QED BY <1>2, <1>3, <4>1, <4>2, SharedAssumption DEF Str!Least
    <3>3. QED BY <3>1, <3>2
  <2>4. QED BY <2>1, <2>3
<1>4. to \in Int BY <1>1, SharedAssumption
<1>8. ASSUME s1.kind # "buffer" PROVE to >= 0
  <2>1. Str!Origin(from) \in Int BY <1>2 DEF Str!Origin, Str!End
  <2>2. CASE s1.kind = "file"
    <3>1. to = Str!FileSeek(from, offset) BY <2>2
    <3> HIDE DEF to
    <3>2. to = IF Str!Origin(from) + offset < 0 THEN s1.cursor ELSE Str!Origin(from) + offset
      BY <3>1 DEF Str!FileSeek
    <3>3. QED BY <1>2, <1>8, <2>1, <3>2
  <2>3. CASE s1.kind # "file"
    <3>1. to = Str!MemSeek(from, offset) BY <1>8, <2>3
    <3> HIDE DEF to
    <3>2. \/ to = s1.cursor
          \/ /\ Str!Origin(from) + offset >= 0
             /\ to = Str!Origin(from) + offset \/ to = Len(s1.cells)
      BY <2>1, <3>1 DEF Str!MemSeek, Str!Least, Str!End
    <3>3. QED BY <1>2, <1>8, <2>1, <3>2
  <2>4. QED BY <2>2, <2>3
<1> HIDE DEF to
<1>5. /\ s1' \in StreamShape /\ s1'.refCount = s1.refCount /\ s1'.kind = s1.kind /\ s1'.cells = s1.cells
      /\ s1'.cursor = to /\ s1'.totalWritten = s1.totalWritten /\ s1'.totalRead = s1.totalRead
  BY <1>1, <1>2, <1>4 DEF StreamShape
<1>6. Str!CellsInv' BY <1>2, <1>3, <1>5, <1>8 DEF Str!CellsInv, Str!Fixed, Str!End
<1>7. QED BY <1>1, <1>5, <1>6, CellsKeepCount

\* What is written is counted; a memory block takes what fits, a read-only one nothing.
LEMMA WriteStep ==
  ASSUME Str!StreamInv, NEW t \in Threads, NEW n \in 1..2, Str!Write(t, n)
  PROVE  Str!StreamInv'
<1> DEFINE w == CASE s1.kind = "buffer" -> Str!BufferWrite(n)
                  [] s1.kind = "file" -> Str!FileWrite(n)
                  [] OTHER -> Str!MemWrite(n)
           put == w.put
           end == w.end
           new == (s1.cursor + 1)..(s1.cursor + put)
           cells == [i \in 1..end |-> IF i \in new THEN 1 ELSE IF i <= Len(s1.cells) THEN s1.cells[i] ELSE 0]
<1>1. /\ s1.kind # "readonly" /\ s1.cursor >= 0
      /\ s1' = [s1 EXCEPT !.cells = cells, !.cursor = s1.cursor + put,
                          !.totalWritten = s1.totalWritten + put]
      /\ s2' = s2 /\ s3' = s3 /\ s4' = s4
  BY DEF Str!Write, Str!InMemory, Str!Idle, Str!End
<1>2. /\ s1 \in StreamShape /\ s1.cursor \in Nat /\ s1.totalRead \in Int /\ s1.totalWritten \in Nat /\ Len(s1.cells) \in Nat
      /\ s1.cells \in Seq({0, 1}) /\ s1.kind \in Str!Kinds
      /\ s1.kind \in {"memory", "readonly"} => s1.cursor <= BlockSize /\ Len(s1.cells) = BlockSize
      /\ s1.kind # "buffer" => s1.totalRead >= 0
      /\ \A i \in 1..Len(s1.cells) : s1.cells[i] = 1 => s1.totalWritten > 0
  <2>1. s1.cursor \in Int BY CellFacts
  <2>2. s1.cursor \in Nat BY <1>1, <2>1
  <2>3. QED BY <2>2, CellFacts
<1>3. /\ put \in Nat /\ end \in Nat
      /\ s1.kind = "memory" => end = Len(s1.cells) /\ s1.cursor + put <= Len(s1.cells)
  <2>1. CASE s1.kind = "memory"
    <3>1. w = Str!MemWrite(n) BY <2>1
    <3>2. /\ put = Str!Least(n, Len(s1.cells) - s1.cursor) /\ end = Len(s1.cells)
      BY <3>1 DEF Str!MemWrite, Str!Left, Str!End
    <3> HIDE DEF put, end
    <3>3. Len(s1.cells) - s1.cursor \in Nat BY <1>2, <2>1, SharedAssumption
    <3>4. QED BY <1>2, <3>2, <3>3 DEF Str!Least
  <2>2. CASE s1.kind \in {"buffer", "file"}
    <3>1. w = Str!BufferWrite(n) BY <2>2 DEF Str!FileWrite
    <3>2. put = n /\ end = (IF s1.cursor + n > Len(s1.cells) THEN s1.cursor + n ELSE Len(s1.cells))
      BY <3>1 DEF Str!BufferWrite, Str!End
    <3> HIDE DEF put, end
    <3>3. QED BY <1>2, <2>2, <3>2
  <2>3. QED BY <1>1, <1>2, <2>1, <2>2 DEF Str!Kinds
<1> HIDE DEF w, put, end
<1>4. cells \in Seq({0, 1}) /\ Len(cells) = end
  <2>1. \A i \in 1..end : i <= Len(s1.cells) => s1.cells[i] \in {0, 1}
    <3>1. \A i \in 1..Len(s1.cells) : s1.cells[i] \in {0, 1} BY <1>2
    <3>2. \A i \in 1..end : i <= Len(s1.cells) => i \in 1..Len(s1.cells) BY <1>2, <1>3
    <3>3. QED BY <3>1, <3>2
  <2>2. cells \in [1..end -> {0, 1}] BY <2>1
  <2> HIDE DEF cells
  <2>3. QED BY <1>3, <2>2
<1>5. ASSUME NEW i \in 1..end, cells[i] = 1 PROVE s1.totalWritten + put > 0
  <2>1. CASE i \in new
    <3>1. put > 0 BY <1>2, <1>3, <2>1
    <3>2. QED BY <1>2, <1>3, <3>1
  <2>2. CASE i \notin new
    <3>1. i <= Len(s1.cells) /\ s1.cells[i] = 1 BY <1>5, <2>2
    <3>2. i \in 1..Len(s1.cells) BY <1>2, <1>3, <3>1
    <3>3. s1.totalWritten > 0 BY <1>2, <3>1, <3>2
    <3>4. QED BY <1>2, <1>3, <3>3
  <2>3. QED BY <2>1, <2>2
<1>6. s1.cursor + put \in Int /\ s1.totalWritten + put \in Nat
  <2>1. s1.cursor \in Int /\ put \in Nat BY <1>2, <1>3
  <2>2. QED BY <1>2, <2>1
<1> HIDE DEF cells, new
<1>7. /\ s1' \in StreamShape /\ s1'.refCount = s1.refCount /\ s1'.kind = s1.kind /\ s1'.cells = cells
      /\ s1'.cursor = s1.cursor + put /\ s1'.totalWritten = s1.totalWritten + put
      /\ s1'.totalRead = s1.totalRead
  <2> DEFINE x == s1.cursor + put
             y == s1.totalWritten + put
  <2>1. /\ x \in Int /\ y \in Nat
        /\ s1' = [s1 EXCEPT !.cells = cells, !.cursor = x, !.totalWritten = y]
    BY <1>1, <1>6
  <2>2. s1 \in StreamShape /\ cells \in Seq({0, 1}) BY <1>2, <1>4
  <2> HIDE DEF x, y
  <2>3. /\ s1' \in StreamShape /\ s1'.refCount = s1.refCount /\ s1'.kind = s1.kind
        /\ s1'.cells = cells /\ s1'.cursor = x /\ s1'.totalWritten = y
        /\ s1'.totalRead = s1.totalRead
    BY <2>1, <2>2 DEF StreamShape
  <2>4. QED BY <2>3 DEF x, y
<1>8. Str!CellsInv' BY <1>1, <1>2, <1>3, <1>4, <1>5, <1>6, <1>7, SharedAssumption DEF Str!CellsInv, Str!Fixed, Str!End
<1>9. QED BY <1>1, <1>7, <1>8, CellsKeepCount

\* Threads that share a stream, in whatever order, keep its invariant.
LEMMA StreamStep ==
  ASSUME Str!StreamInv, Str!StreamNext
  PROVE  Str!StreamInv'
BY RetainStep, DeleteLoadStep, DeleteCasStep, DeleteCheckStep, ReadStep, WriteStep, SeekStep
   DEF Str!StreamNext

----------------------------------------------------------------------------
(* Sockets: s3 is the handles, s4 the system's sockets, s5 what was asked. *)
(* The lemmas about the system's sockets are about any such sequence k.    *)

\* What the updates of a socket leave alone.
SameLink(x, y) ==
    /\ y.state = x.state /\ y.peer = x.peer /\ y.queue = x.queue
    /\ y.local = x.local /\ y.remote = x.remote /\ y.given = x.given
SameBytes(x, y) == y.in = x.in /\ y.got = x.got /\ y.sent = x.sent
SameMarks(x, y) ==
    y.eof = x.eof /\ y.reset = x.reset /\ y.ended = x.ended /\ y.shutR = x.shutR /\ y.shutW = x.shutW
SameModes(x, y) == y.open = x.open /\ y.nonblock = x.nonblock /\ y.opts = x.opts
Same(x, y) == SameLink(x, y) /\ SameBytes(x, y) /\ SameMarks(x, y) /\ SameModes(x, y)

\* Addresses written in the order of the network and read back are the same.
LEMMA AddressesReadBack ==
  ASSUME NEW a \in Sock!Address
  PROVE  Sock!ToNative(a) \in Sock!Address /\ Sock!FromNative(Sock!ToNative(a)) = a
<1>1. PICK d \in Domains \cup {"none"}, p \in Sock!Numbers : a = [domain |-> d, port |-> p]
  BY DEF Sock!Address
<1>2. PICK u, v \in Nat : p = <<u, v>>
  BY DEF Sock!Numbers
<1>3. Sock!ToNative(a) = [domain |-> d, port |-> <<v, u>>]
  BY <1>1, <1>2 DEF Sock!ToNative, Sock!Swapped
<1>4. Sock!FromNative(Sock!ToNative(a)) = [domain |-> d, port |-> <<u, v>>]
  BY <1>3 DEF Sock!FromNative, Sock!Swapped
<1>5. Sock!ToNative(a) \in Sock!Address
  BY <1>3 DEF Sock!Address, Sock!Numbers
<1>6. QED BY <1>1, <1>2, <1>4, <1>5

\* A socket the system has just made.
LEMMA FreshEnd ==
  ASSUME NEW d \in Domains
  PROVE  LET x == Sock!Fresh(d) IN
           /\ x \in Sock!End /\ x.domain = d
           /\ x.state = "new" /\ x.peer = 0 /\ x.queue = << >> /\ x.in = << >> /\ x.got = 0 /\ x.sent = 0
           /\ ~x.eof /\ ~x.ended /\ x.open /\ ~x.nonblock /\ x.opts = [o \in OptionNames |-> FALSE]
  BY DEF Sock!Fresh, Sock!End, Sock!NoAddress, Sock!Address, Sock!Numbers

\* A sequence of sockets stays one if each of them does.
LEMMA EndsStay ==
  ASSUME NEW k \in Seq(Sock!End), NEW f, f = [e \in DOMAIN k |-> f[e]], \A e \in DOMAIN k : f[e] \in Sock!End
  PROVE  f \in Seq(Sock!End) /\ DOMAIN f = DOMAIN k
<1> DEFINE E == Sock!End
<1>1. DOMAIN k = 1..Len(k) /\ Len(k) \in Nat
  OBVIOUS
<1>2. f \in [1..Len(k) -> E]
  BY <1>1
<1>3. QED
  <2> HIDE DEF E
  <2>1. f \in Seq(E) BY <1>1, <1>2
  <2>2. QED BY <1>1, <1>2, <2>1 DEF E

\* What appending does.
LEMMA AppendedEnd ==
  ASSUME NEW S, NEW k \in Seq(S), NEW z \in S
  PROVE  LET f == Append(k, z) IN
           /\ f \in Seq(S) /\ DOMAIN f = DOMAIN k \cup {Len(k) + 1} /\ Len(k) + 1 \notin DOMAIN k
           /\ f[Len(k) + 1] = z /\ \A e \in DOMAIN k : f[e] = k[e]
  OBVIOUS

\* Queues stay in order when nobody's state, queue or openness changes.
LEMMA QueueKept ==
  ASSUME NEW k \in Seq(Sock!End), NEW f \in Seq(Sock!End), DOMAIN f = DOMAIN k, Sock!QueueInv(k),
         \A e \in DOMAIN k : f[e].state = k[e].state /\ f[e].queue = k[e].queue /\ f[e].open = k[e].open
  PROVE  Sock!QueueInv(f)
  BY DEF Sock!QueueInv

\* Handles see no change when what is open keeps its modes and nothing else is open.
Quiet(k, f) ==
    /\ DOMAIN k \subseteq DOMAIN f /\ \A e \in DOMAIN k : k[e].open => SameModes(k[e], f[e])
    /\ \A e \in DOMAIN f : f[e].open => e \in DOMAIN k /\ k[e].open

\* A socket that is made joins the others.
LEMMA KernMade ==
  ASSUME NEW k, Sock!KernInv(k), NEW d \in Domains
  PROVE  LET f == Append(k, Sock!Fresh(d)) IN
           /\ Sock!KernInv(f) /\ DOMAIN f = DOMAIN k \cup {Len(k) + 1} /\ Len(k) + 1 \notin DOMAIN k
           /\ \A e \in DOMAIN k : f[e] = k[e]
           /\ f[Len(k) + 1] = Sock!Fresh(d)
<1> DEFINE x == Sock!Fresh(d)  n == Len(k) + 1  f == Append(k, x)
<1>1. k \in Seq(Sock!End) /\ Sock!UnusedInv(k) /\ Sock!QueueInv(k) /\ Sock!PeerInv(k)
  BY DEF Sock!KernInv
<1>2. /\ x \in Sock!End /\ x.state = "new" /\ x.peer = 0 /\ x.queue = << >> /\ x.in = << >> /\ x.got = 0
      /\ x.sent = 0 /\ ~x.eof /\ ~x.ended /\ x.open
  BY FreshEnd
<1> HIDE DEF x
<1>3. /\ f \in Seq(Sock!End) /\ DOMAIN f = DOMAIN k \cup {n} /\ n \notin DOMAIN k
      /\ \A e \in DOMAIN k : f[e] = k[e]
      /\ f[n] = x
  BY <1>1, <1>2
<1> HIDE DEF f, n
<1>4. Sock!UnusedInv(f)
  BY <1>1, <1>2, <1>3 DEF Sock!UnusedInv
<1>5. Sock!QueueInv(f)
  BY <1>1, <1>2, <1>3 DEF Sock!QueueInv
<1>6. Sock!PeerInv(f)
  BY <1>1, <1>2, <1>3 DEF Sock!PeerInv
<1>7. QED BY <1>3, <1>4, <1>5, <1>6 DEF Sock!KernInv, f, n, x

\* Closing leaves the peer with the end of the stream, and connections that wait with a reset.
LEMMA KernClosed ==
  ASSUME NEW k, Sock!KernInv(k), NEW fd \in DOMAIN k, k[fd].open
  PROVE  LET f == Sock!Closed(k, fd) IN
           /\ Sock!KernInv(f) /\ DOMAIN f = DOMAIN k /\ ~f[fd].open
           /\ \A e \in DOMAIN k \ {fd} : SameModes(k[e], f[e])
<1> DEFINE f == Sock!Closed(k, fd)
           hit == {k[fd].peer} \cup {k[q].peer : q \in Sock!ToSet(k[fd].queue)}
           left == k[fd].in # << >> \/ k[fd].queue # << >>
           x == [Sock!Fresh(k[fd].domain) EXCEPT !.open = FALSE, !.state = "closed", !.peer = k[fd].peer,
                   !.sent = k[fd].sent, !.given = k[fd].given]
<1>1. k \in Seq(Sock!End) /\ Sock!UnusedInv(k) /\ Sock!QueueInv(k) /\ Sock!PeerInv(k)
  BY DEF Sock!KernInv
<1>2. k[fd] \in Sock!End
  BY <1>1
<1>3. /\ x \in Sock!End /\ x.state = "closed" /\ x.peer = k[fd].peer /\ x.sent = k[fd].sent
      /\ x.given = k[fd].given /\ x.queue = << >> /\ ~x.open
  <2>1. k[fd].domain \in Domains /\ k[fd].peer \in Nat /\ k[fd].sent \in Nat /\ k[fd].given \in Sock!Address
    BY <1>2 DEF Sock!End
  <2>2. Sock!Fresh(k[fd].domain) \in Sock!End /\ Sock!Fresh(k[fd].domain).queue = << >>
    BY <2>1, FreshEnd
  <2> DEFINE u == Sock!Fresh(k[fd].domain)  a == k[fd].peer  b == k[fd].sent  c == k[fd].given
  <2>3. u \in Sock!End /\ u.queue = << >> /\ a \in Nat /\ b \in Nat /\ c \in Sock!Address
    BY <2>1, <2>2
  <2> HIDE DEF u, a, b, c
  <2>4. x = [u EXCEPT !.open = FALSE, !.state = "closed", !.peer = a, !.sent = b, !.given = c]
    BY DEF u, a, b, c
  <2> HIDE DEF x
  <2>5. x \in Sock!End /\ x.state = "closed" /\ x.peer = a /\ x.sent = b /\ x.given = c /\ x.queue = u.queue /\ ~x.open
    BY <2>3, <2>4 DEF Sock!End
  <2>6. QED BY <2>3, <2>5 DEF a, b, c
<1> HIDE DEF x
<1>4. /\ f = [e \in DOMAIN k |-> f[e]] /\ f[fd] = x
      /\ \A e \in DOMAIN k \ {fd} : f[e] = IF e \in hit THEN [k[e] EXCEPT !.eof = TRUE, !.reset = k[e].reset \/ left] ELSE k[e]
  BY DEF Sock!Closed, x
<1> HIDE DEF f
<1>5. ASSUME NEW e \in DOMAIN k \ {fd}
      PROVE  /\ f[e] \in Sock!End /\ SameLink(k[e], f[e]) /\ SameBytes(k[e], f[e]) /\ SameModes(k[e], f[e])
             /\ f[e].ended = k[e].ended /\ f[e].shutR = k[e].shutR /\ f[e].shutW = k[e].shutW
             /\ e \notin hit => f[e] = k[e]
             /\ e \in hit /\ left => f[e].reset
  <2> DEFINE b == k[e].reset \/ left
  <2>1. k[e] \in Sock!End
    BY <1>1
  <2>2. b \in BOOLEAN /\ (left => b)
    BY <2>1 DEF Sock!End
  <2>3. f[e] = IF e \in hit THEN [k[e] EXCEPT !.eof = TRUE, !.reset = b] ELSE k[e]
    BY <1>4
  <2> HIDE DEF b, hit, left
  <2>4. CASE e \in hit
    <3> DEFINE u == k[e]  v == f[e]
    <3>1. u \in Sock!End /\ v = [u EXCEPT !.eof = TRUE, !.reset = b]
      BY <2>1, <2>3, <2>4
    <3> HIDE DEF u, v
    <3>2. /\ v \in Sock!End /\ SameLink(u, v) /\ SameBytes(u, v) /\ SameModes(u, v)
          /\ v.ended = u.ended /\ v.shutR = u.shutR /\ v.shutW = u.shutW /\ v.reset = b
      BY <2>2, <3>1 DEF Sock!End, SameLink, SameBytes, SameModes
    <3>3. QED BY <3>2, <2>2, <2>4 DEF u, v
  <2>5. CASE e \notin hit
    BY <2>1, <2>3, <2>5 DEF SameLink, SameBytes, SameModes
  <2>6. QED BY <2>4, <2>5
<1>6. f \in Seq(Sock!End) /\ DOMAIN f = DOMAIN k
  <2>1. \A e \in DOMAIN k : f[e] \in Sock!End BY <1>3, <1>4, <1>5
  <2>2. QED BY <1>1, <1>4, <2>1, EndsStay
<1>7. ASSUME NEW e \in hit, e \in DOMAIN k
      PROVE  /\ k[e].state \in {"connected", "closed"}
             /\ left \/ (e = k[fd].peer /\ k[fd].state = "connected" /\ k[e].peer = fd)
  <2>1. k[fd].state \in {"new", "bound", "listening", "connected", "closed"}
    BY <1>2 DEF Sock!End
  <2>2. CASE e = k[fd].peer
    <3>1. e \in 1..Len(k) BY <1>1, <1>7
    <3>2. k[fd].state = "connected" BY <1>1, <2>1, <2>2, <3>1 DEF Sock!UnusedInv
    <3>3. QED BY <1>1, <2>2, <3>2 DEF Sock!PeerInv
  <2>3. CASE e # k[fd].peer
    <3>1. PICK i \in DOMAIN k[fd].queue : e = k[k[fd].queue[i]].peer
      BY <2>3 DEF Sock!ToSet
    <3>2. k[fd].queue[i] \in DOMAIN k /\ k[k[fd].queue[i]].state = "connected"
      BY <1>1 DEF Sock!QueueInv
    <3>3. left BY <1>2, <3>1 DEF Sock!End
    <3>4. QED BY <1>1, <3>1, <3>2, <3>3 DEF Sock!PeerInv
  <2>4. QED BY <2>2, <2>3
<1> HIDE DEF hit
<1>8. Sock!UnusedInv(f)
  <2>1. ASSUME NEW e \in DOMAIN f, e # fd
        PROVE  /\ f[e].state \in {"new", "bound", "listening"} =>
                    f[e].peer = 0 /\ f[e].in = << >> /\ f[e].got = 0 /\ f[e].sent = 0 /\ ~f[e].eof /\ ~f[e].ended
               /\ f[e].state \in {"bound", "listening"} => f[e].local = Sock!ToNative(f[e].given)
               /\ f[e].state # "listening" => f[e].queue = << >>
               /\ f[e].state = "closed" => ~f[e].open
    <3>1. /\ SameLink(k[e], f[e]) /\ SameBytes(k[e], f[e]) /\ SameModes(k[e], f[e]) /\ f[e].ended = k[e].ended
          /\ e \notin hit => f[e] = k[e]
      BY <1>5, <1>6, <2>1
    <3>2. e \in hit => k[e].state \in {"connected", "closed"}
      BY <1>6, <1>7
    <3>3. QED BY <1>1, <1>6, <3>1, <3>2 DEF Sock!UnusedInv, SameLink, SameBytes, SameModes
  <2>2. QED BY <1>3, <1>4, <2>1 DEF Sock!UnusedInv
<1>9. Sock!QueueInv(f)
  <2>1. \A e \in DOMAIN k \ {fd} : f[e].state = k[e].state /\ f[e].queue = k[e].queue /\ f[e].open = k[e].open
    BY <1>5 DEF SameLink, SameModes
  <2>2. f[fd].queue = << >>
    BY <1>3, <1>4
  <2>3. ASSUME NEW l \in DOMAIN f, NEW i \in DOMAIN f[l].queue
        PROVE  l \in DOMAIN k \ {fd} /\ f[l].queue = k[l].queue /\ i \in DOMAIN k[l].queue
    <3>1. DOMAIN f[fd].queue = {} BY <2>2
    <3>2. QED BY <1>6, <2>1, <2>3, <3>1
  <2>4. ASSUME NEW l \in DOMAIN f, NEW i \in DOMAIN f[l].queue
        PROVE  LET q == f[l].queue[i] IN q \in DOMAIN f /\ f[q].state = "connected" /\ ~f[q].open
    <3> DEFINE q == k[l].queue[i]
    <3>1. f[l].queue[i] = q BY <2>3
    <3>2. q \in DOMAIN k /\ k[q].state = "connected" /\ ~k[q].open BY <1>1, <2>3 DEF Sock!QueueInv
    <3> HIDE DEF q
    <3>3. q # fd BY <1>1, <3>2
    <3>4. QED BY <1>6, <2>1, <3>1, <3>2, <3>3
  <2>5. ASSUME NEW l \in DOMAIN f, NEW m \in DOMAIN f, NEW i \in DOMAIN f[l].queue, NEW j \in DOMAIN f[m].queue,
               f[l].queue[i] = f[m].queue[j]
        PROVE  l = m /\ i = j
    BY <1>1, <2>3, <2>5 DEF Sock!QueueInv
  <2>6. QED BY <2>4, <2>5 DEF Sock!QueueInv
<1>10. Sock!PeerInv(f)
  <2> SUFFICES ASSUME NEW e \in DOMAIN f, f[e].state = "connected"
               PROVE  LET p == f[e].peer IN
                        /\ p \in DOMAIN f \ {e} /\ f[p].peer = e /\ f[p].state \in {"connected", "closed"}
                        /\ f[e].local = Sock!ToNative(f[e].given) /\ f[e].remote = Sock!ToNative(f[p].given)
                        /\ f[e].got + Len(f[e].in) = f[p].sent
                        /\ f[e].eof => f[e].reset \/ f[p].shutW \/ f[p].state = "closed"
                        /\ f[e].ended => f[e].shutR \/ (f[e].in = << >> /\ (f[p].shutW \/ f[p].state = "closed"))
    BY DEF Sock!PeerInv
  <2>1. e # fd /\ e \in DOMAIN k
    BY <1>3, <1>4, <1>6
  <2>2. /\ SameLink(k[e], f[e]) /\ SameBytes(k[e], f[e])
        /\ f[e].ended = k[e].ended /\ f[e].shutR = k[e].shutR
        /\ e \notin hit => f[e] = k[e]
        /\ e \in hit /\ left => f[e].reset
    BY <1>5, <2>1
  <2> DEFINE p == k[e].peer
  <2>3. /\ p \in DOMAIN k \ {e} /\ k[p].peer = e /\ k[p].state \in {"connected", "closed"}
        /\ k[e].local = Sock!ToNative(k[e].given) /\ k[e].remote = Sock!ToNative(k[p].given)
        /\ k[e].got + Len(k[e].in) = k[p].sent
        /\ k[e].eof => k[e].reset \/ k[p].shutW \/ k[p].state = "closed"
        /\ k[e].ended => k[e].shutR \/ (k[e].in = << >> /\ (k[p].shutW \/ k[p].state = "closed"))
    BY <1>1, <2>1, <2>2 DEF Sock!PeerInv, SameLink
  <2>4. f[e].peer = p
    BY <2>2 DEF SameLink
  <2> HIDE DEF p
  <2>5. CASE p = fd
    <3>1. f[p].peer = e /\ f[p].state = "closed" /\ f[p].given = k[p].given /\ f[p].sent = k[p].sent
      BY <1>3, <1>4, <2>3, <2>5
    <3>2. QED BY <1>6, <2>2, <2>3, <2>4, <3>1 DEF SameLink, SameBytes
  <2>6. CASE p # fd
    <3>1. SameLink(k[p], f[p]) /\ SameBytes(k[p], f[p]) /\ f[p].shutW = k[p].shutW
      BY <1>5, <2>3, <2>6
    <3>2. e \in hit => left
      BY <1>7, <2>1, <2>6 DEF p
    <3>3. QED BY <1>6, <2>2, <2>3, <2>4, <3>1, <3>2 DEF SameLink, SameBytes
  <2>7. QED BY <2>5, <2>6
<1>11. QED
  <2>1. ~f[fd].open BY <1>3, <1>4
  <2>2. QED BY <1>5, <1>6, <1>8, <1>9, <1>10, <2>1 DEF Sock!KernInv, f

\* Binding a socket or making it listen concerns nobody else.
LEMMA KernNamed ==
  ASSUME NEW k, Sock!KernInv(k), NEW fd \in DOMAIN k, k[fd].state \in {"new", "bound"},
         NEW x \in Sock!End, x.state \in {"bound", "listening"}, x.peer = k[fd].peer, x.queue = k[fd].queue,
         SameBytes(k[fd], x), SameMarks(k[fd], x), SameModes(k[fd], x), x.local = Sock!ToNative(x.given)
  PROVE  Sock!KernInv(Sock!Put(k, fd, x)) /\ Quiet(k, Sock!Put(k, fd, x))
<1> DEFINE f == Sock!Put(k, fd, x)
<1>1. k \in Seq(Sock!End) /\ Sock!UnusedInv(k) /\ Sock!QueueInv(k) /\ Sock!PeerInv(k)
  BY DEF Sock!KernInv
<1>2. f = [e \in DOMAIN k |-> f[e]] /\ f[fd] = x /\ \A e \in DOMAIN k \ {fd} : f[e] = k[e]
  BY DEF Sock!Put
<1> HIDE DEF f
<1>3. f \in Seq(Sock!End) /\ DOMAIN f = DOMAIN k
  <2>1. \A e \in DOMAIN k : f[e] \in Sock!End BY <1>1, <1>2
  <2>2. QED BY <1>1, <1>2, <2>1, EndsStay
<1>4. Sock!UnusedInv(f)
  BY <1>1, <1>2, <1>3 DEF Sock!UnusedInv, SameBytes, SameMarks
<1>5. Sock!QueueInv(f)
  <2>1. x.queue = << >> BY <1>1 DEF Sock!UnusedInv
  <2>2. QED BY <1>1, <1>2, <1>3, <2>1 DEF Sock!QueueInv
<1>6. Sock!PeerInv(f)
  BY <1>1, <1>2, <1>3 DEF Sock!PeerInv
<1>7. QED BY <1>2, <1>3, <1>4, <1>5, <1>6 DEF Sock!KernInv, Quiet, SameModes, f

\* A connection joins the two ends and puts the listener's into its queue.
LEMMA KernConnected ==
  ASSUME NEW k, Sock!KernInv(k), NEW fd \in DOMAIN k, k[fd].state \in {"new", "bound"},
         NEW l \in DOMAIN k, k[l].state = "listening",
         NEW x \in Sock!End, NEW y \in Sock!End, NEW z \in Sock!End,
         x.queue = Append(k[l].queue, Len(k) + 1), x.state = "listening", x.peer = k[l].peer,
         x.local = k[l].local, x.given = k[l].given, SameBytes(k[l], x), SameMarks(k[l], x), SameModes(k[l], x),
         y.state = "connected", y.peer = Len(k) + 1, y.queue = k[fd].queue, SameBytes(k[fd], y),
         SameMarks(k[fd], y), SameModes(k[fd], y), y.local = Sock!ToNative(y.given), y.remote = k[l].local,
         z.state = "connected", ~z.open, z.peer = fd, z.queue = << >>, z.in = << >>, z.got = 0, z.sent = 0,
         ~z.eof, ~z.ended, z.local = k[l].local, z.given = k[l].given, z.remote = y.local
  PROVE  LET f == Append([k EXCEPT ![l] = x, ![fd] = y], z)
         IN  Sock!KernInv(f) /\ Quiet(k, f)
<1> DEFINE g == [k EXCEPT ![l] = x, ![fd] = y]  f == Append(g, z)  n == Len(k) + 1
<1>1. k \in Seq(Sock!End) /\ Sock!UnusedInv(k) /\ Sock!QueueInv(k) /\ Sock!PeerInv(k) /\ l # fd
  BY DEF Sock!KernInv
<1>2. g = [e \in DOMAIN k |-> g[e]] /\ g[l] = x /\ g[fd] = y /\ \A e \in DOMAIN k \ {l, fd} : g[e] = k[e]
  BY <1>1
<1> HIDE DEF g
<1>3. g \in Seq(Sock!End) /\ DOMAIN g = DOMAIN k
  <2>1. \A e \in DOMAIN k : g[e] \in Sock!End BY <1>1, <1>2
  <2>2. QED BY <1>1, <1>2, <2>1, EndsStay
<1>4. /\ f \in Seq(Sock!End) /\ DOMAIN f = DOMAIN k \cup {n} /\ n \notin DOMAIN k /\ f[n] = z
      /\ f[l] = x /\ f[fd] = y /\ \A e \in DOMAIN k \ {l, fd} : f[e] = k[e]
  <2>1. Len(g) = Len(k)
    BY <1>1, <1>3
  <2>2. /\ f \in Seq(Sock!End) /\ DOMAIN f = DOMAIN k \cup {n} /\ n \notin DOMAIN k /\ f[n] = z
        /\ \A e \in DOMAIN k : f[e] = g[e]
    BY <1>3, <2>1, AppendedEnd
  <2>3. QED BY <1>2, <2>2
<1> HIDE DEF f
<1>5. k[l].queue \in Seq(Nat) /\ k[fd].queue = << >> /\ k[l].peer = 0
  <2>1. k[l] \in Sock!End BY <1>1
  <2>2. k[l].queue \in Seq(Nat) BY <2>1 DEF Sock!End
  <2>3. QED BY <1>1, <2>2 DEF Sock!UnusedInv
<1>6. /\ DOMAIN x.queue = DOMAIN k[l].queue \cup {Len(k[l].queue) + 1}
      /\ x.queue[Len(k[l].queue) + 1] = n
      /\ \A i \in DOMAIN k[l].queue : x.queue[i] = k[l].queue[i]
  BY <1>5
<1> HIDE DEF n
<1>7. Sock!UnusedInv(f)
  <2>1. ASSUME NEW e \in DOMAIN f, e \notin {l, fd, n}
        PROVE  e \in DOMAIN k /\ f[e] = k[e]
    BY <1>4, <2>1
  <2>2. /\ x.in = << >> /\ x.got = 0 /\ x.sent = 0 /\ ~x.eof /\ ~x.ended /\ x.local = Sock!ToNative(x.given)
    BY <1>1 DEF Sock!UnusedInv, SameBytes, SameMarks
  <2> SUFFICES ASSUME NEW e \in DOMAIN f
               PROVE  /\ f[e].state \in {"new", "bound", "listening"} =>
                           f[e].peer = 0 /\ f[e].in = << >> /\ f[e].got = 0 /\ f[e].sent = 0 /\ ~f[e].eof /\ ~f[e].ended
                      /\ f[e].state \in {"bound", "listening"} => f[e].local = Sock!ToNative(f[e].given)
                      /\ f[e].state # "listening" => f[e].queue = << >>
                      /\ f[e].state = "closed" => ~f[e].open
    BY DEF Sock!UnusedInv
  <2>3. CASE e = l BY <1>4, <1>5, <2>2, <2>3
  <2>4. CASE e \in {fd, n} BY <1>4, <1>5, <2>4
  <2>5. CASE e \notin {l, fd, n} BY <1>1, <2>1, <2>5 DEF Sock!UnusedInv
  <2>6. QED BY <2>3, <2>4, <2>5
<1>8. Sock!QueueInv(f)
  <2>1. ASSUME NEW m \in DOMAIN f, NEW i \in DOMAIN f[m].queue
        PROVE  \/ m = l /\ i = Len(k[l].queue) + 1 /\ f[m].queue[i] = n
               \/ /\ m \in DOMAIN k /\ i \in DOMAIN k[m].queue /\ f[m].queue[i] = k[m].queue[i]
                  /\ m = l => i # Len(k[l].queue) + 1
    <3>1. CASE m = l
      <4>1. Len(k[l].queue) + 1 \notin DOMAIN k[l].queue BY <1>5
      <4>2. QED BY <1>4, <1>6, <3>1, <4>1
    <3>2. CASE m # l
      BY <1>4, <1>5, <3>2
    <3>3. QED BY <3>1, <3>2
  <2>2. ASSUME NEW m \in DOMAIN k, NEW i \in DOMAIN k[m].queue
        PROVE  LET q == k[m].queue[i] IN q \in DOMAIN k /\ q # n /\ f[q].state = "connected" /\ ~f[q].open
    <3>1. k[m].queue[i] \in DOMAIN k /\ k[k[m].queue[i]].state = "connected" /\ ~k[k[m].queue[i]].open
      BY <1>1 DEF Sock!QueueInv
    <3>2. QED BY <1>4, <3>1
  <2>3. \A m, o \in DOMAIN k : \A i \in DOMAIN k[m].queue, j \in DOMAIN k[o].queue :
          k[m].queue[i] = k[o].queue[j] => m = o /\ i = j
    BY <1>1 DEF Sock!QueueInv
  <2>4. ASSUME NEW m \in DOMAIN f, NEW i \in DOMAIN f[m].queue
        PROVE  LET q == f[m].queue[i] IN q \in DOMAIN f /\ f[q].state = "connected" /\ ~f[q].open
    BY <1>4, <2>1, <2>2
  <2>5. ASSUME NEW m \in DOMAIN f, NEW o \in DOMAIN f, NEW i \in DOMAIN f[m].queue, NEW j \in DOMAIN f[o].queue,
               f[m].queue[i] = f[o].queue[j]
        PROVE  m = o /\ i = j
    BY <2>1, <2>2, <2>3, <2>5
  <2>6. QED BY <2>4, <2>5 DEF Sock!QueueInv
<1>9. Sock!PeerInv(f)
  <2>1. ASSUME NEW e \in DOMAIN k, k[e].state = "connected"
        PROVE  LET p == k[e].peer IN
                 /\ e \notin {l, fd} /\ f[e] = k[e] /\ p \in DOMAIN k \ {e} /\ p \notin {l, fd} /\ f[p] = k[p]
    BY <1>1, <1>4, <2>1 DEF Sock!PeerInv
  <2>2. ASSUME NEW e \in DOMAIN f, f[e].state = "connected", e \notin {fd, n}
        PROVE  e \in DOMAIN k /\ k[e].state = "connected"
    BY <1>4, <2>2
  <2>3. k[l].local = Sock!ToNative(k[l].given) /\ y.in = << >> /\ y.got = 0 /\ y.sent = 0 /\ ~y.eof /\ ~y.ended
    BY <1>1 DEF Sock!UnusedInv, SameBytes, SameMarks
  <2>4. ASSUME NEW e \in {fd, n}
        PROVE  LET p == f[e].peer IN
                 /\ p \in DOMAIN f \ {e} /\ f[p].peer = e /\ f[p].state \in {"connected", "closed"}
                 /\ f[e].local = Sock!ToNative(f[e].given) /\ f[e].remote = Sock!ToNative(f[p].given)
                 /\ f[e].got + Len(f[e].in) = f[p].sent
                 /\ ~f[e].eof /\ ~f[e].ended
    <3>1. y.peer = n BY DEF n
    <3>2. Len(y.in) = 0 /\ Len(z.in) = 0 /\ y.got + Len(y.in) = z.sent /\ z.got + Len(z.in) = y.sent
      BY <2>3
    <3>3. CASE e = fd BY <1>4, <2>3, <3>1, <3>2, <3>3
    <3>4. CASE e = n BY <1>4, <2>3, <3>1, <3>2, <3>4
    <3>5. QED BY <3>3, <3>4
  <2> SUFFICES ASSUME NEW e \in DOMAIN f, f[e].state = "connected"
               PROVE  LET p == f[e].peer IN
                        /\ p \in DOMAIN f \ {e} /\ f[p].peer = e /\ f[p].state \in {"connected", "closed"}
                        /\ f[e].local = Sock!ToNative(f[e].given) /\ f[e].remote = Sock!ToNative(f[p].given)
                        /\ f[e].got + Len(f[e].in) = f[p].sent
                        /\ f[e].eof => f[e].reset \/ f[p].shutW \/ f[p].state = "closed"
                        /\ f[e].ended => f[e].shutR \/ (f[e].in = << >> /\ (f[p].shutW \/ f[p].state = "closed"))
    BY DEF Sock!PeerInv
  <2>5. CASE e \in {fd, n}
    BY <2>4, <2>5
  <2>6. CASE e \notin {fd, n}
    <3>1. e \in DOMAIN k /\ k[e].state = "connected"
      BY <2>2, <2>6
    <3>2. f[e] = k[e] /\ f[k[e].peer] = k[k[e].peer] /\ k[e].peer \in DOMAIN f
      BY <1>4, <2>1, <3>1
    <3>3. QED BY <1>1, <3>1, <3>2 DEF Sock!PeerInv
  <2>7. QED BY <2>5, <2>6
<1>10. Quiet(k, f)
  <2>1. ASSUME NEW e \in DOMAIN k PROVE SameModes(k[e], f[e])
    BY <1>4 DEF SameModes
  <2>2. ASSUME NEW e \in DOMAIN f, f[e].open PROVE e \in DOMAIN k /\ k[e].open
    <3>1. e \in DOMAIN k BY <1>4, <2>2
    <3>2. QED BY <2>1, <2>2, <3>1 DEF SameModes
  <2>3. QED BY <1>4, <2>1, <2>2 DEF Quiet
<1>11. QED BY <1>4, <1>7, <1>8, <1>9, <1>10 DEF Sock!KernInv, f, g

\* What waits first is a socket.
LEMMA FirstWaits ==
  ASSUME NEW k, Sock!KernInv(k), NEW l \in DOMAIN k, k[l].queue # << >>
  PROVE  Head(k[l].queue) \in DOMAIN k \ {l}
<1>1. k[l] \in Sock!End
  BY DEF Sock!KernInv
<1>2. k[l].queue \in Seq(Nat)
  BY <1>1 DEF Sock!End
<1>3. 1 \in DOMAIN k[l].queue /\ Head(k[l].queue) = k[l].queue[1]
  BY <1>2
<1>4. k[l].state = "listening"
  BY DEF Sock!KernInv, Sock!UnusedInv
<1>5. Head(k[l].queue) \in DOMAIN k /\ k[Head(k[l].queue)].state = "connected"
  BY <1>3 DEF Sock!KernInv, Sock!QueueInv
<1>6. QED BY <1>4, <1>5

Opens(k, f, l, fd, mode) ==
    /\ fd = Head(k[l].queue) /\ f = [e \in DOMAIN k |-> f[e]]
    /\ f[l] = [k[l] EXCEPT !.queue = Tail(k[l].queue)]
    /\ f[fd] = [k[fd] EXCEPT !.open = TRUE, !.nonblock = mode]
    /\ \A e \in DOMAIN k \ {l, fd} : f[e] = k[e]

\* Accepting takes the first connection out of the queue and opens it.
LEMMA KernAccepted ==
  ASSUME NEW k, Sock!KernInv(k), NEW l \in DOMAIN k, k[l].queue # << >>, NEW mode \in BOOLEAN,
         NEW fd, NEW f, Opens(k, f, l, fd, mode)
  PROVE  /\ fd \in DOMAIN k \ {l} /\ ~k[fd].open
         /\ Sock!KernInv(f) /\ DOMAIN f = DOMAIN k /\ f[fd].open /\ f[fd].nonblock = mode
         /\ f[fd].opts = k[fd].opts /\ \A e \in DOMAIN k \ {fd} : SameModes(k[e], f[e])
<1> DEFINE x == [k[l] EXCEPT !.queue = Tail(k[l].queue)]
           y == [k[fd] EXCEPT !.open = TRUE, !.nonblock = mode]
<1>0. /\ fd = Head(k[l].queue) /\ f = [e \in DOMAIN k |-> f[e]]
      /\ f[l] = x /\ f[fd] = y /\ \A e \in DOMAIN k \ {l, fd} : f[e] = k[e]
  BY DEF Opens
<1>1. k \in Seq(Sock!End) /\ Sock!UnusedInv(k) /\ Sock!QueueInv(k) /\ Sock!PeerInv(k)
  BY DEF Sock!KernInv
<1>2. k[l].queue \in Seq(Nat) /\ k[l].state = "listening"
  <2>1. k[l] \in Sock!End BY <1>1
  <2>2. k[l].queue \in Seq(Nat) BY <2>1 DEF Sock!End
  <2>3. QED BY <1>1, <2>2 DEF Sock!UnusedInv
<1>3. /\ 1 \in DOMAIN k[l].queue /\ fd = k[l].queue[1]
      /\ \A i \in DOMAIN Tail(k[l].queue) : i + 1 \in DOMAIN k[l].queue /\ Tail(k[l].queue)[i] = k[l].queue[i + 1]
      /\ \A i \in DOMAIN Tail(k[l].queue) : i \in Nat \ {0}
      /\ Tail(k[l].queue) \in Seq(Nat)
  BY <1>0, <1>2
<1>4. fd \in DOMAIN k \ {l} /\ k[fd].state = "connected" /\ ~k[fd].open /\ k[fd].queue = << >>
  BY <1>1, <1>2, <1>3 DEF Sock!QueueInv, Sock!UnusedInv
<1>5. /\ x \in Sock!End /\ x.queue = Tail(k[l].queue) /\ x.state = k[l].state /\ x.peer = k[l].peer
      /\ x.local = k[l].local /\ x.remote = k[l].remote /\ x.given = k[l].given
      /\ SameBytes(k[l], x) /\ SameMarks(k[l], x) /\ SameModes(k[l], x)
  <2> DEFINE u == k[l]  s == Tail(k[l].queue)
  <2>1. u \in Sock!End /\ s \in Seq(Nat) /\ x = [u EXCEPT !.queue = s]
    BY <1>1, <1>3
  <2> HIDE DEF u, s, x
  <2>2. /\ x \in Sock!End /\ x.queue = s /\ x.state = u.state /\ x.peer = u.peer
        /\ x.local = u.local /\ x.remote = u.remote /\ x.given = u.given
        /\ SameBytes(u, x) /\ SameMarks(u, x) /\ SameModes(u, x)
    BY <2>1 DEF Sock!End, SameBytes, SameMarks, SameModes
  <2>3. QED BY <2>2 DEF u, s
<1>6. /\ y \in Sock!End /\ SameLink(k[fd], y) /\ SameBytes(k[fd], y) /\ SameMarks(k[fd], y)
      /\ y.open /\ y.nonblock = mode /\ y.opts = k[fd].opts
  <2> DEFINE u == k[fd]
  <2>1. u \in Sock!End /\ y = [u EXCEPT !.open = TRUE, !.nonblock = mode]
    BY <1>1, <1>4
  <2> HIDE DEF u, y
  <2>2. /\ y \in Sock!End /\ SameLink(u, y) /\ SameBytes(u, y) /\ SameMarks(u, y)
        /\ y.open /\ y.nonblock = mode /\ y.opts = u.opts
    BY <2>1 DEF Sock!End, SameLink, SameBytes, SameMarks
  <2>3. QED BY <2>2 DEF u
<1>7. f = [e \in DOMAIN k |-> f[e]] /\ f[l] = x /\ f[fd] = y /\ \A e \in DOMAIN k \ {l, fd} : f[e] = k[e]
  BY <1>0
<1> HIDE DEF x, y
<1>8. f \in Seq(Sock!End) /\ DOMAIN f = DOMAIN k
  <2>1. \A e \in DOMAIN k : f[e] \in Sock!End BY <1>1, <1>5, <1>6, <1>7
  <2>2. QED BY <1>1, <1>7, <2>1, EndsStay
<1>9. /\ SameBytes(k[l], f[l]) /\ SameMarks(k[l], f[l]) /\ SameModes(k[l], f[l])
      /\ \A e \in DOMAIN k \ {l} : SameLink(k[e], f[e]) /\ SameBytes(k[e], f[e]) /\ SameMarks(k[e], f[e])
      /\ \A e \in DOMAIN k \ {fd} : SameModes(k[e], f[e])
  BY <1>5, <1>6, <1>7 DEF SameLink, SameBytes, SameMarks, SameModes
<1>10. /\ f[l].state = k[l].state /\ f[l].peer = k[l].peer /\ f[l].local = k[l].local
       /\ f[l].remote = k[l].remote /\ f[l].given = k[l].given
  BY <1>5, <1>7
<1>11. Sock!UnusedInv(f)
  BY <1>1, <1>2, <1>4, <1>8, <1>9, <1>10 DEF Sock!UnusedInv, SameLink, SameBytes, SameMarks, SameModes
<1>12. Sock!QueueInv(f)
  <2>1. ASSUME NEW m \in DOMAIN f, NEW i \in DOMAIN f[m].queue
        PROVE  \E j \in DOMAIN k[m].queue : f[m].queue[i] = k[m].queue[j] /\ j = (IF m = l THEN i + 1 ELSE i) /\ i \in Int
    <3>1. CASE m = l
      <4>1. f[m].queue = Tail(k[m].queue) BY <1>5, <1>7, <3>1
      <4>2. i \in DOMAIN Tail(k[l].queue) /\ f[m].queue[i] = Tail(k[l].queue)[i]
        BY <3>1, <4>1
      <4>3. i + 1 \in DOMAIN k[m].queue /\ f[m].queue[i] = k[m].queue[i + 1] /\ i \in Int
        BY <1>3, <3>1, <4>2
      <4>4. QED BY <3>1, <4>3
    <3>2. CASE m # l
      <4>1. f[m].queue = k[m].queue BY <1>8, <1>9, <3>2 DEF SameLink
      <4>2. k[m] \in Sock!End BY <1>1, <1>8
      <4>3. k[m].queue \in Seq(Nat) BY <4>2 DEF Sock!End
      <4>4. QED BY <3>2, <4>1, <4>3
    <3>3. QED BY <3>1, <3>2
  <2>2. ASSUME NEW m \in DOMAIN f, NEW i \in DOMAIN f[m].queue
        PROVE  LET q == f[m].queue[i] IN q \in DOMAIN f /\ f[q].state = "connected" /\ ~f[q].open
    <3>1. PICK j \in DOMAIN k[m].queue :
            f[m].queue[i] = k[m].queue[j] /\ j = (IF m = l THEN i + 1 ELSE i) /\ i \in Int
      BY <2>1
    <3>2. k[m].queue[j] \in DOMAIN k /\ k[k[m].queue[j]].state = "connected" /\ ~k[k[m].queue[j]].open
      BY <1>1, <1>8 DEF Sock!QueueInv
    <3>3. k[m].queue[j] # fd
      <4>1. SUFFICES ASSUME k[m].queue[j] = fd PROVE FALSE
        OBVIOUS
      <4>2. m = l /\ j = 1
        BY <1>1, <1>3, <1>8, <4>1 DEF Sock!QueueInv
      <4>3. i \in Nat \ {0}
        BY <1>3, <1>5, <1>7, <4>2
      <4>4. QED BY <3>1, <4>2, <4>3
    <3>4. QED BY <1>4, <1>8, <1>9, <1>10, <3>1, <3>2, <3>3 DEF SameLink, SameModes
  <2>3. ASSUME NEW m \in DOMAIN f, NEW o \in DOMAIN f, NEW i \in DOMAIN f[m].queue, NEW j \in DOMAIN f[o].queue,
               f[m].queue[i] = f[o].queue[j]
        PROVE  m = o /\ i = j
    <3>1. PICK a \in DOMAIN k[m].queue : f[m].queue[i] = k[m].queue[a] /\ a = (IF m = l THEN i + 1 ELSE i) /\ i \in Int
      BY <2>1
    <3>2. PICK b \in DOMAIN k[o].queue : f[o].queue[j] = k[o].queue[b] /\ b = (IF o = l THEN j + 1 ELSE j) /\ j \in Int
      BY <2>1
    <3>3. k[m].queue[a] = k[o].queue[b]
      BY <2>3, <3>1, <3>2
    <3>4. m = o /\ a = b
      BY <1>1, <1>8, <3>3 DEF Sock!QueueInv
    <3>5. QED BY <3>1, <3>2, <3>4
  <2>4. QED BY <2>2, <2>3 DEF Sock!QueueInv
<1>13. Sock!PeerInv(f)
  <2>1. \A e \in DOMAIN k : /\ f[e].state = k[e].state /\ f[e].peer = k[e].peer /\ f[e].local = k[e].local
                            /\ f[e].remote = k[e].remote /\ f[e].given = k[e].given
                            /\ SameBytes(k[e], f[e]) /\ SameMarks(k[e], f[e])
    BY <1>9, <1>10 DEF SameLink
  <2>2. QED BY <1>1, <1>8, <2>1 DEF Sock!PeerInv, SameBytes, SameMarks
<1>14. QED BY <1>4, <1>6, <1>7, <1>8, <1>9, <1>11, <1>12, <1>13 DEF Sock!KernInv

\* A socket that is connected has a peer of its own.
LEMMA Paired ==
  ASSUME NEW k, Sock!KernInv(k), NEW fd \in DOMAIN k, k[fd].state = "connected"
  PROVE  LET p == k[fd].peer IN
           /\ p \in DOMAIN k \ {fd} /\ k[p].peer = fd /\ k[p].state \in {"connected", "closed"}
           /\ \A e \in DOMAIN k \ {fd, p} : k[e].state = "connected" => k[e].peer \in DOMAIN k \ {fd, p}
  BY DEF Sock!KernInv, Sock!PeerInv

\* What one end has from the other: the bytes, and the end of the stream.
Agree(x, y) ==
    x.state = "connected" =>
        /\ x.got + Len(x.in) = y.sent
        /\ x.eof => x.reset \/ y.shutW \/ y.state = "closed"
        /\ x.ended => x.shutR \/ (x.in = << >> /\ (y.shutW \/ y.state = "closed"))

\* What passes between a socket and its peer concerns nobody else.
LEMMA KernTraffic ==
  ASSUME NEW k, Sock!KernInv(k), NEW fd \in DOMAIN k, k[fd].state = "connected",
         NEW p, p = k[fd].peer, NEW f, f = [e \in DOMAIN k |-> f[e]], f[fd] \in Sock!End, f[p] \in Sock!End,
         SameLink(k[fd], f[fd]), SameLink(k[p], f[p]), SameModes(k[fd], f[fd]), SameModes(k[p], f[p]),
         \A e \in DOMAIN k \ {fd, p} : f[e] = k[e],
         Agree(f[fd], f[p]), Agree(f[p], f[fd])
  PROVE  Sock!KernInv(f) /\ Quiet(k, f)
<1>1. k \in Seq(Sock!End) /\ Sock!UnusedInv(k) /\ Sock!QueueInv(k) /\ Sock!PeerInv(k)
  BY DEF Sock!KernInv
<1>2. /\ p \in DOMAIN k \ {fd} /\ k[p].peer = fd /\ k[p].state \in {"connected", "closed"}
      /\ \A e \in DOMAIN k \ {fd, p} : k[e].state = "connected" => k[e].peer \in DOMAIN k \ {fd, p}
  BY Paired
<1>3. f \in Seq(Sock!End) /\ DOMAIN f = DOMAIN k
  <2>1. \A e \in DOMAIN k : f[e] \in Sock!End BY <1>1
  <2>2. QED BY <1>1, <2>1, EndsStay
<1>4. \A e \in DOMAIN k : SameLink(k[e], f[e]) /\ SameModes(k[e], f[e])
  BY DEF SameLink, SameModes
<1>5. Sock!UnusedInv(f)
  <2> SUFFICES ASSUME NEW e \in DOMAIN f
               PROVE  /\ f[e].state \in {"new", "bound", "listening"} =>
                           f[e].peer = 0 /\ f[e].in = << >> /\ f[e].got = 0 /\ f[e].sent = 0 /\ ~f[e].eof /\ ~f[e].ended
                      /\ f[e].state \in {"bound", "listening"} => f[e].local = Sock!ToNative(f[e].given)
                      /\ f[e].state # "listening" => f[e].queue = << >>
                      /\ f[e].state = "closed" => ~f[e].open
    BY DEF Sock!UnusedInv
  <2>1. CASE e \in {fd, p}
    <3>1. f[e].state = k[e].state /\ f[e].queue = k[e].queue /\ f[e].open = k[e].open
      BY <1>3, <1>4 DEF SameLink, SameModes
    <3>2. QED BY <1>1, <1>2, <2>1, <3>1 DEF Sock!UnusedInv
  <2>2. CASE e \notin {fd, p} BY <1>1, <1>3, <2>2 DEF Sock!UnusedInv
  <2>3. QED BY <2>1, <2>2
<1>6. Sock!QueueInv(f)
  <2>1. \A e \in DOMAIN k : f[e].state = k[e].state /\ f[e].queue = k[e].queue /\ f[e].open = k[e].open
    BY <1>4 DEF SameLink, SameModes
  <2>2. QED BY <1>1, <1>3, <2>1, QueueKept
<1>7. Sock!PeerInv(f)
  <2> SUFFICES ASSUME NEW e \in DOMAIN f, f[e].state = "connected"
               PROVE  /\ f[e].peer \in DOMAIN f \ {e} /\ f[f[e].peer].peer = e
                      /\ f[f[e].peer].state \in {"connected", "closed"}
                      /\ f[e].local = Sock!ToNative(f[e].given) /\ f[e].remote = Sock!ToNative(f[f[e].peer].given)
                      /\ Agree(f[e], f[f[e].peer])
    BY DEF Sock!PeerInv, Agree
  <2>1. e \in DOMAIN k /\ k[e].state = "connected" /\ f[e].peer = k[e].peer
    BY <1>3, <1>4 DEF SameLink
  <2>2. /\ k[e].peer \in DOMAIN k \ {e} /\ k[k[e].peer].peer = e
        /\ k[k[e].peer].state \in {"connected", "closed"}
        /\ k[e].local = Sock!ToNative(k[e].given) /\ k[e].remote = Sock!ToNative(k[k[e].peer].given)
        /\ Agree(k[e], k[k[e].peer])
    BY <1>1, <2>1 DEF Sock!PeerInv, Agree
  <2>3. /\ f[e].peer \in DOMAIN f \ {e} /\ f[f[e].peer].peer = e
        /\ f[f[e].peer].state \in {"connected", "closed"}
        /\ f[e].local = Sock!ToNative(f[e].given) /\ f[e].remote = Sock!ToNative(f[f[e].peer].given)
    BY <1>3, <1>4, <2>1, <2>2 DEF SameLink
  <2>4. CASE e \in {fd, p} BY <1>2, <2>1, <2>3, <2>4
  <2>5. CASE e \notin {fd, p}
    <3>1. k[e].peer \in DOMAIN k \ {fd, p} BY <1>2, <2>1, <2>5
    <3>2. f[e] = k[e] /\ f[k[e].peer] = k[k[e].peer] BY <2>1, <2>5, <3>1
    <3>3. QED BY <2>2, <2>3, <3>2
  <2>6. QED BY <2>4, <2>5
<1>8. Quiet(k, f)
  BY <1>3, <1>4 DEF Quiet, SameModes
<1>9. QED BY <1>3, <1>5, <1>6, <1>7, <1>8 DEF Sock!KernInv

\* Sending: the peer has the bytes, or, if it is gone, a reset comes back.
LEMMA KernSent ==
  ASSUME NEW k, Sock!KernInv(k), NEW fd \in DOMAIN k, k[fd].state = "connected",
         ~k[fd].shutW, NEW n \in Nat
  PROVE  LET p == k[fd].peer
             bytes == [i \in 1..n |-> k[fd].sent + i]
             f == [k EXCEPT ![fd].sent = @ + n, ![fd].reset = TRUE]
             g == [k EXCEPT ![fd].sent = @ + n, ![p].in = @ \o bytes]
         IN  /\ k[p].state = "closed" => Sock!KernInv(f) /\ Quiet(k, f)
             /\ k[p].state # "closed" => Sock!KernInv(g) /\ Quiet(k, g)
<1> DEFINE p == k[fd].peer
           x == k[fd]
           y == k[p]
           bytes == [i \in 1..n |-> x.sent + i]
           gone == [x EXCEPT !.sent = x.sent + n, !.reset = TRUE]
           sent == [x EXCEPT !.sent = x.sent + n]
           more == [y EXCEPT !.in = y.in \o bytes]
           f == [k EXCEPT ![fd].sent = @ + n, ![fd].reset = TRUE]
           g == [k EXCEPT ![fd].sent = @ + n, ![p].in = @ \o bytes]
<1>1. /\ p \in DOMAIN k \ {fd} /\ k[p].peer = fd /\ k[p].state \in {"connected", "closed"}
  BY Paired
<1>2. x \in Sock!End /\ y \in Sock!End /\ x.state = "connected" /\ y.state \in {"connected", "closed"} /\ ~x.shutW
  BY <1>1 DEF Sock!KernInv
<1>3. Agree(x, y) /\ Agree(y, x)
  BY <1>1 DEF Sock!KernInv, Sock!PeerInv, Agree
<1>4. /\ f = [e \in DOMAIN k |-> f[e]] /\ f[fd] = gone /\ f[p] = y
      /\ \A e \in DOMAIN k \ {fd, p} : f[e] = k[e]
  BY <1>1
<1>5. /\ g = [e \in DOMAIN k |-> g[e]] /\ g[fd] = sent /\ g[p] = more
      /\ \A e \in DOMAIN k \ {fd, p} : g[e] = k[e]
  BY <1>1
<1>6. /\ x.sent \in Nat /\ x.sent + n \in Nat /\ y.in \in Seq(Nat) /\ y.got \in Nat
      /\ y.in \o bytes \in Seq(Nat) /\ Len(y.in \o bytes) = Len(y.in) + n
  <2>1. x.sent \in Nat /\ x.sent + n \in Nat /\ y.in \in Seq(Nat) /\ y.got \in Nat BY <1>2 DEF Sock!End
  <2> HIDE DEF x, y
  <2>2. bytes \in Seq(Nat) /\ Len(bytes) = n BY <2>1
  <2>3. \A s, t \in Seq(Nat) : s \o t \in Seq(Nat) /\ Len(s \o t) = Len(s) + Len(t)
    OBVIOUS
  <2> HIDE DEF bytes
  <2>4. y.in \o bytes \in Seq(Nat) /\ Len(y.in \o bytes) = Len(y.in) + Len(bytes)
    BY <2>1, <2>2, <2>3
  <2>5. QED BY <2>1, <2>2, <2>4
<1> HIDE DEF f, g, bytes
<1>7. /\ gone \in Sock!End /\ SameLink(x, gone) /\ SameModes(x, gone) /\ gone.in = x.in /\ gone.got = x.got
      /\ gone.sent = x.sent + n /\ gone.eof = x.eof /\ gone.ended = x.ended /\ gone.shutR = x.shutR /\ gone.reset
  <2> HIDE DEF x
  <2>1. QED BY <1>2, <1>6 DEF Sock!End, SameLink, SameModes
<1>8. /\ sent \in Sock!End /\ SameLink(x, sent) /\ SameModes(x, sent) /\ SameMarks(x, sent)
      /\ sent.in = x.in /\ sent.got = x.got /\ sent.sent = x.sent + n
  <2> HIDE DEF x
  <2>1. QED BY <1>2, <1>6 DEF Sock!End, SameLink, SameModes, SameMarks
<1>9. /\ more \in Sock!End /\ SameLink(y, more) /\ SameModes(y, more) /\ SameMarks(y, more)
      /\ more.in = y.in \o bytes /\ more.got = y.got /\ more.sent = y.sent
  <2> HIDE DEF y
  <2>1. QED BY <1>2, <1>6 DEF Sock!End, SameLink, SameModes, SameMarks
<1>10. SameLink(y, y) /\ SameModes(y, y)
  BY DEF SameLink, SameModes
<1> HIDE DEF x, y, gone, sent, more
<1>11. ASSUME y.state = "closed" PROVE Agree(gone, y) /\ Agree(y, gone)
  BY <1>2, <1>3, <1>7, <1>11 DEF Agree, SameLink
<1>12. ASSUME y.state # "closed" PROVE Agree(sent, more) /\ Agree(more, sent)
  <2>1. Agree(sent, more)
    BY <1>2, <1>3, <1>8, <1>9 DEF Agree, SameLink, SameMarks
  <2>2. more.got + Len(more.in) = sent.sent
    <3>1. y.got + Len(y.in) = x.sent BY <1>2, <1>3, <1>12 DEF Agree
    <3>2. Len(y.in) \in Nat BY <1>6
    <3> HIDE DEF p
    <3>3. QED BY <1>6, <1>8, <1>9, <3>1, <3>2
  <2>3. ~sent.shutW /\ sent.state # "closed"
    BY <1>2, <1>8 DEF SameLink, SameMarks
  <2>4. more.ended => more.shutR
    BY <1>2, <1>3, <1>9, <1>12 DEF Agree, SameLink, SameMarks
  <2>5. more.eof => more.reset
    BY <1>2, <1>3, <1>9, <1>12 DEF Agree, SameLink, SameMarks
  <2>6. QED BY <2>1, <2>2, <2>4, <2>5 DEF Agree
<1>13. ASSUME y.state = "closed" PROVE Sock!KernInv(f) /\ Quiet(k, f)
  BY <1>2, <1>4, <1>7, <1>10, <1>11, <1>13, KernTraffic DEF x, y
<1>14. ASSUME y.state # "closed" PROVE Sock!KernInv(g) /\ Quiet(k, g)
  BY <1>2, <1>5, <1>8, <1>9, <1>12, <1>14, KernTraffic DEF x, y
<1>15. QED BY <1>13, <1>14 DEF f, g, x, y, bytes

\* Receiving takes what is there; nothing is the end of the stream.
LEMMA KernReceived ==
  ASSUME NEW k, Sock!KernInv(k), NEW fd \in DOMAIN k, k[fd].state = "connected", ~k[fd].reset,
         NEW m \in 0..Len(k[fd].in), m = 0 => k[fd].in = << >> \/ k[fd].shutR,
         m > 0 \/ k[fd].eof \/ k[fd].shutR
  PROVE  LET x == [k[fd] EXCEPT !.in = SubSeq(k[fd].in, m + 1, Len(k[fd].in)), !.got = k[fd].got + m, !.ended = (m = 0)]
         IN  Sock!KernInv(Sock!Put(k, fd, x)) /\ Quiet(k, Sock!Put(k, fd, x))
<1> DEFINE p == k[fd].peer
           x == k[fd]
           y == k[p]
           s == SubSeq(x.in, m + 1, Len(x.in))
           z == [x EXCEPT !.in = s, !.got = x.got + m, !.ended = (m = 0)]
           f == Sock!Put(k, fd, z)
<1>1. /\ p \in DOMAIN k \ {fd} /\ k[p].peer = fd /\ k[p].state \in {"connected", "closed"}
  BY Paired
<1>2. x \in Sock!End /\ y \in Sock!End /\ x.state = "connected"
  BY <1>1 DEF Sock!KernInv
<1>3. Agree(x, y) /\ Agree(y, x)
  BY <1>1 DEF Sock!KernInv, Sock!PeerInv, Agree
<1>4. /\ f = [e \in DOMAIN k |-> f[e]] /\ f[fd] = z /\ f[p] = y
      /\ \A e \in DOMAIN k \ {fd, p} : f[e] = k[e]
  BY <1>1 DEF Sock!Put
<1>5. x.in \in Seq(Nat) /\ x.got \in Nat /\ x.got + m \in Nat /\ s \in Seq(Nat) /\ Len(s) = Len(x.in) - m
      /\ (s = << >> \/ m # Len(x.in))
  <2>1. x.in \in Seq(Nat) /\ x.got \in Nat BY <1>2 DEF Sock!End
  <2>2. m \in 0..Len(x.in) OBVIOUS
  <2>3. \A t \in Seq(Nat), c \in Nat : c \in 0..Len(t) =>
          /\ SubSeq(t, c + 1, Len(t)) \in Seq(Nat) /\ Len(SubSeq(t, c + 1, Len(t))) = Len(t) - c
          /\ SubSeq(t, c + 1, Len(t)) = << >> \/ c # Len(t)
    OBVIOUS
  <2> HIDE DEF x
  <2>4. QED BY <2>1, <2>2, <2>3
<1> HIDE DEF f, s
<1>6. /\ z \in Sock!End /\ SameLink(x, z) /\ SameModes(x, z) /\ z.in = s /\ z.got = x.got + m
      /\ z.sent = x.sent /\ z.eof = x.eof /\ (z.ended => m = 0) /\ z.shutR = x.shutR /\ z.shutW = x.shutW
      /\ z.reset = x.reset
  <2> DEFINE b == m = 0
  <2>1. b \in BOOLEAN OBVIOUS
  <2>2. z = [x EXCEPT !.in = s, !.got = x.got + m, !.ended = b] OBVIOUS
  <2> HIDE DEF x, b, z
  <2>3. /\ z \in Sock!End /\ SameLink(x, z) /\ SameModes(x, z) /\ z.in = s /\ z.got = x.got + m
        /\ z.sent = x.sent /\ z.eof = x.eof /\ z.ended = b /\ z.shutR = x.shutR /\ z.shutW = x.shutW
        /\ z.reset = x.reset
    BY <1>2, <1>5, <2>1, <2>2 DEF Sock!End, SameLink, SameModes
  <2>4. QED BY <2>3 DEF b
<1>7. SameLink(y, y) /\ SameModes(y, y)
  BY DEF SameLink, SameModes
<1>8. Agree(z, y)
  <2>1. /\ x.got + Len(x.in) = y.sent /\ (x.eof => y.shutW \/ y.state = "closed")
    BY <1>2, <1>3 DEF Agree
  <2>2. z.got + Len(z.in) = y.sent
    <3>1. z.got + Len(z.in) = (x.got + m) + (Len(x.in) - m) /\ Len(x.in) \in Nat BY <1>5, <1>6
    <3> HIDE DEF x, y
    <3>2. QED BY <1>5, <2>1, <3>1
  <2>3. z.eof => y.shutW \/ y.state = "closed"
    BY <1>6, <2>1
  <2>4. z.ended => z.shutR \/ (z.in = << >> /\ (y.shutW \/ y.state = "closed"))
    <3> SUFFICES ASSUME z.ended, ~z.shutR PROVE z.in = << >> /\ (y.shutW \/ y.state = "closed")
      OBVIOUS
    <3>1. m = 0 /\ ~x.shutR BY <1>6
    <3>2. x.in = << >> /\ x.eof BY <3>1
    <3>3. s = << >>
      <4>1. Len(x.in) = 0 BY <3>2
      <4>2. QED BY <1>5, <3>1, <4>1
    <3>4. QED BY <1>6, <2>1, <3>2, <3>3
  <2>5. QED BY <2>2, <2>3, <2>4 DEF Agree
<1>9. Agree(y, z)
  BY <1>3, <1>6 DEF Agree, SameLink
<1> HIDE DEF z
<1>10. QED BY <1>2, <1>4, <1>6, <1>7, <1>8, <1>9, KernTraffic DEF z, s, f

\* Shutting down writing is the end of the stream for the peer.
LEMMA KernShut ==
  ASSUME NEW k, Sock!KernInv(k), NEW fd \in DOMAIN k, k[fd].state = "connected",
         NEW r \in BOOLEAN, NEW w \in BOOLEAN
  PROVE  LET f == [k EXCEPT ![fd].shutR = @ \/ r, ![fd].shutW = @ \/ w, ![k[fd].peer].eof = @ \/ w]
         IN  Sock!KernInv(f) /\ Quiet(k, f)
<1> DEFINE p == k[fd].peer
           x == k[fd]
           y == k[p]
           b == x.shutR \/ r
           c == x.shutW \/ w
           d == y.eof \/ w
           u == [x EXCEPT !.shutR = b, !.shutW = c]
           v == [y EXCEPT !.eof = d]
           f == [k EXCEPT ![fd].shutR = @ \/ r, ![fd].shutW = @ \/ w, ![k[fd].peer].eof = @ \/ w]
<1>1. /\ p \in DOMAIN k \ {fd} /\ k[p].peer = fd /\ k[p].state \in {"connected", "closed"}
  BY Paired
<1>2. x \in Sock!End /\ y \in Sock!End /\ x.state = "connected"
  BY <1>1 DEF Sock!KernInv
<1>3. Agree(x, y) /\ Agree(y, x)
  BY <1>1 DEF Sock!KernInv, Sock!PeerInv, Agree
<1>4. /\ f = [e \in DOMAIN k |-> f[e]] /\ f[fd] = u /\ f[p] = v
      /\ \A e \in DOMAIN k \ {fd, p} : f[e] = k[e]
  BY <1>1, <1>2 DEF Sock!End
<1>5. b \in BOOLEAN /\ c \in BOOLEAN /\ d \in BOOLEAN /\ (x.shutR => b) /\ (x.shutW => c)
      /\ (d => y.eof \/ c)
  BY <1>2 DEF Sock!End
<1> HIDE DEF f, b, c, d
<1>6. /\ u \in Sock!End /\ SameLink(x, u) /\ SameModes(x, u) /\ SameBytes(x, u)
      /\ u.eof = x.eof /\ u.ended = x.ended /\ u.reset = x.reset /\ u.shutR = b /\ u.shutW = c
  <2> HIDE DEF x
  <2>1. QED BY <1>2, <1>5 DEF Sock!End, SameLink, SameModes, SameBytes
<1>7. /\ v \in Sock!End /\ SameLink(y, v) /\ SameModes(y, v) /\ SameBytes(y, v)
      /\ v.eof = d /\ v.ended = y.ended /\ v.reset = y.reset /\ v.shutR = y.shutR /\ v.shutW = y.shutW
  <2> HIDE DEF y
  <2>1. QED BY <1>2, <1>5 DEF Sock!End, SameLink, SameModes, SameBytes
<1> HIDE DEF u, v
<1>8. Agree(u, v)
  BY <1>3, <1>5, <1>6, <1>7 DEF Agree, SameLink, SameBytes
<1>9. Agree(v, u)
  BY <1>3, <1>5, <1>6, <1>7 DEF Agree, SameLink, SameBytes
<1>10. Sock!KernInv(f) /\ Quiet(k, f)
  BY <1>2, <1>4, <1>6, <1>7, <1>8, <1>9, KernTraffic
<1>11. QED BY <1>10 DEF f, b, c, d

\* Modes and options concern the descriptor alone.
LEMMA KernModes ==
  ASSUME NEW k, Sock!KernInv(k), NEW fd \in DOMAIN k, NEW f, f = [e \in DOMAIN k |-> f[e]], f[fd] \in Sock!End,
         SameLink(k[fd], f[fd]), SameBytes(k[fd], f[fd]), SameMarks(k[fd], f[fd]), f[fd].open = k[fd].open,
         \A e \in DOMAIN k \ {fd} : f[e] = k[e]
  PROVE  Sock!KernInv(f) /\ DOMAIN f = DOMAIN k
<1>1. k \in Seq(Sock!End) /\ Sock!UnusedInv(k) /\ Sock!QueueInv(k) /\ Sock!PeerInv(k)
  BY DEF Sock!KernInv
<1>2. f \in Seq(Sock!End) /\ DOMAIN f = DOMAIN k
  <2>1. \A e \in DOMAIN k : f[e] \in Sock!End BY <1>1
  <2>2. QED BY <1>1, <2>1, EndsStay
<1>3. \A e \in DOMAIN k : SameLink(k[e], f[e]) /\ SameBytes(k[e], f[e]) /\ SameMarks(k[e], f[e]) /\ f[e].open = k[e].open
  BY DEF SameLink, SameBytes, SameMarks
<1>4. Sock!UnusedInv(f)
  BY <1>1, <1>2, <1>3 DEF Sock!UnusedInv, SameLink, SameBytes, SameMarks
<1>5. Sock!QueueInv(f)
  <2>1. \A e \in DOMAIN k : f[e].state = k[e].state /\ f[e].queue = k[e].queue
    BY <1>3 DEF SameLink
  <2>2. QED BY <1>1, <1>2, <1>3, <2>1, QueueKept
<1>6. Sock!PeerInv(f)
  BY <1>1, <1>2, <1>3 DEF Sock!PeerInv, SameLink, SameBytes, SameMarks
<1>7. QED BY <1>2, <1>4, <1>5, <1>6 DEF Sock!KernInv

\* Handles and options are as they were when the handles see no change.
LEMMA HandlesKept ==
  ASSUME NEW s, NEW k, NEW a, NEW f, Sock!HandleInv(s, k), Sock!AskedInv(a, s, k), Quiet(k, f)
  PROVE  Sock!HandleInv(s, f) /\ Sock!AskedInv(a, s, f)
<1>1. \A h \in Sock!Handles : s[h].fd # 0 =>
        s[h].fd \in DOMAIN k /\ s[h].fd \in DOMAIN f /\ k[s[h].fd].open /\ SameModes(k[s[h].fd], f[s[h].fd])
  BY DEF Sock!HandleInv, Quiet
<1>2. "client" \in Sock!Handles
  BY DEF Sock!Handles
<1>3. Sock!HandleInv(s, f)
  BY <1>1 DEF Sock!HandleInv, Quiet, SameModes
<1>4. Sock!AskedInv(a, s, f)
  BY <1>1, <1>2 DEF Sock!AskedInv, SameModes
<1>5. QED BY <1>3, <1>4

\* A handle that is made is the one of its descriptor.
LEMMA HandleMade ==
  ASSUME NEW s, NEW k, NEW a, NEW f, NEW h \in Sock!Handles, NEW rec \in Sock!Record,
         Sock!HandleInv(s, k), Sock!AskedInv(a, s, k), s[h].fd = 0, 0 \notin DOMAIN k,
         rec.fd # 0, rec.fd \in DOMAIN f, f[rec.fd].open, rec.fd \in DOMAIN k => ~k[rec.fd].open,
         rec.inherited => h = "accepted", rec.inherited \/ rec.blocking = ~f[rec.fd].nonblock,
         DOMAIN f = DOMAIN k \cup {rec.fd}, \A e \in DOMAIN k \ {rec.fd} : SameModes(k[e], f[e]),
         h = "client" => f[rec.fd].opts = [o \in OptionNames |-> FALSE]
  PROVE  Sock!HandleInv([s EXCEPT ![h] = rec], f) /\ Sock!AskedInv(a, [s EXCEPT ![h] = rec], f)
<1> DEFINE t == [s EXCEPT ![h] = rec]
<1>1. s \in [Sock!Handles -> Sock!Record] /\ "client" \in Sock!Handles
  BY DEF Sock!HandleInv, Sock!Handles
<1>2. t \in [Sock!Handles -> Sock!Record] /\ t[h] = rec /\ \A g \in Sock!Handles \ {h} : t[g] = s[g]
  BY <1>1
<1> HIDE DEF t
<1>3. ASSUME NEW g \in Sock!Handles, s[g].fd # 0
      PROVE  /\ s[g].fd \in DOMAIN k /\ k[s[g].fd].open /\ s[g].fd # rec.fd /\ g # h
             /\ s[g].fd \in DOMAIN f /\ SameModes(k[s[g].fd], f[s[g].fd])
             /\ s[g].inherited => g = "accepted"
             /\ s[g].inherited \/ s[g].blocking = ~k[s[g].fd].nonblock
  BY <1>3 DEF Sock!HandleInv
<1>4. Sock!HandleInv(t, f)
  <2>1. ASSUME NEW g \in Sock!Handles
        PROVE  IF t[g].fd = 0 THEN t[g] = Sock!NoSocket
               ELSE /\ t[g].fd \in DOMAIN f /\ f[t[g].fd].open
                    /\ t[g].inherited => g = "accepted"
                    /\ t[g].inherited \/ t[g].blocking = ~f[t[g].fd].nonblock
    <3>1. CASE g = h BY <1>2, <3>1
    <3>2. CASE g # h /\ s[g].fd = 0 BY <1>2, <3>2 DEF Sock!HandleInv
    <3>3. CASE g # h /\ s[g].fd # 0 BY <1>2, <1>3, <3>3 DEF SameModes
    <3>4. QED BY <3>1, <3>2, <3>3
  <2>2. \A g, i \in Sock!Handles : s[g].fd = s[i].fd /\ s[g].fd # 0 => g = i
    BY DEF Sock!HandleInv
  <2>3. \A g, i \in Sock!Handles : t[g].fd = t[i].fd /\ t[g].fd # 0 => g = i
    BY <1>2, <1>3, <2>2
  <2>4. ASSUME NEW e \in DOMAIN f, f[e].open PROVE \E g \in Sock!Handles : t[g].fd = e
    <3>1. CASE e = rec.fd BY <1>2, <3>1
    <3>2. CASE e # rec.fd
      <4>1. e \in DOMAIN k /\ k[e].open BY <2>4, <3>2 DEF SameModes
      <4>2. PICK g \in Sock!Handles : s[g].fd = e BY <4>1 DEF Sock!HandleInv
      <4>3. s[g].fd # 0 BY <4>1, <4>2
      <4>4. QED BY <1>2, <1>3, <4>2, <4>3
    <3>3. QED BY <3>1, <3>2
  <2>5. QED BY <1>2, <2>1, <2>3, <2>4 DEF Sock!HandleInv
<1>5. Sock!AskedInv(a, t, f)
  <2>1. CASE h = "client" BY <1>2, <2>1 DEF Sock!AskedInv
  <2>2. CASE h # "client" BY <1>1, <1>2, <1>3, <2>2 DEF Sock!AskedInv, SameModes
  <2>3. QED BY <2>1, <2>2
<1>6. QED BY <1>4, <1>5 DEF t

\* What a call finds of a handle that is in use.
LEMMA LiveHandle ==
  ASSUME Sock!SocketsInv, NEW h \in Sock!Handles, Sock!Live(h)
  PROVE  /\ s3[h].fd \in DOMAIN s4 /\ Sock!K(h) = s4[s3[h].fd] /\ s4[s3[h].fd].open /\ s4[s3[h].fd] \in Sock!End
         /\ s4 \in Seq(Sock!End) /\ 0 \notin DOMAIN s4 /\ s3 \in [Sock!Handles -> Sock!Record]
<1>1. /\ s3[h].fd \in DOMAIN s4 /\ Sock!K(h) = s4[s3[h].fd] /\ s4[s3[h].fd].open
      /\ s4 \in Seq(Sock!End) /\ s3 \in [Sock!Handles -> Sock!Record]
  BY DEF Sock!SocketsInv, Sock!KernInv, Sock!HandleInv, Sock!Live, Sock!K
<1>2. s4[s3[h].fd] \in Sock!End /\ 0 \notin DOMAIN s4
  BY <1>1
<1>3. QED BY <1>1, <1>2

\* A call the handles do not notice keeps the invariant.
LEMMA QuietStep ==
  ASSUME Sock!SocketsInv, s3' = s3, s5' = s5, Sock!KernInv(s4'), Quiet(s4, s4')
  PROVE  Sock!SocketsInv'
<1>1. Sock!HandleInv(s3, s4') /\ Sock!AskedInv(s5, s3, s4')
  BY HandlesKept DEF Sock!SocketsInv
<1>2. Sock!HandleInv(s3', s4') /\ Sock!AskedInv(s5', s3', s4') /\ Sock!KernInv(s4')
  BY <1>1
<1>3. QED BY <1>2 DEF Sock!SocketsInv

\* bind and listen.
LEMMA NamingStep ==
  ASSUME SharedAssumption, Sock!SocketsInv, NEW h \in Sock!Handles,
         (\E addr \in Sock!Addresses : Sock!Bind(h, addr)) \/ Sock!Listen(h)
  PROVE  Sock!SocketsInv'
<1> DEFINE fd == s3[h].fd  u == s4[fd]
<1>1. Sock!Live(h) /\ s3' = s3 /\ s5' = s5
  BY DEF Sock!Bind, Sock!Listen, Sock!KernelOnly
<1>2. /\ fd \in DOMAIN s4 /\ Sock!K(h) = u /\ u \in Sock!End /\ Sock!KernInv(s4)
  BY <1>1, LiveHandle DEF Sock!SocketsInv
<1>3. ASSUME NEW addr \in Sock!Addresses, Sock!Bind(h, addr)
      PROVE  Sock!KernInv(s4') /\ Quiet(s4, s4')
  <2> DEFINE b == Sock!ToNative(addr)  x == [u EXCEPT !.state = "bound", !.local = b, !.given = addr]
  <2>1. u.state = "new" /\ s4' = Sock!Put(s4, fd, x)
    BY <1>2, <1>3 DEF Sock!Bind, Sock!KernelOnly
  <2>2. addr \in Sock!Address
    BY DEF SharedAssumption, Sock!Addresses, Sock!Address, Sock!Numbers
  <2>3. b \in Sock!Address
    BY <2>2, AddressesReadBack
  <2> HIDE DEF u, b
  <2>4. /\ x \in Sock!End /\ x.state = "bound" /\ x.peer = u.peer /\ x.queue = u.queue
        /\ SameBytes(u, x) /\ SameMarks(u, x) /\ SameModes(u, x) /\ x.local = b /\ x.given = addr
    BY <1>2, <2>2, <2>3 DEF Sock!End, SameBytes, SameMarks, SameModes
  <2> HIDE DEF x
  <2>5. QED BY <1>2, <2>1, <2>4, KernNamed DEF u, b
<1>4. ASSUME Sock!Listen(h)
      PROVE  Sock!KernInv(s4') /\ Quiet(s4, s4')
  <2> DEFINE x == [u EXCEPT !.state = "listening"]
  <2>1. u.state = "bound" /\ s4' = Sock!Put(s4, fd, x)
    BY <1>2, <1>4 DEF Sock!Listen, Sock!KernelOnly
  <2>2. u.local = Sock!ToNative(u.given)
    BY <1>2, <2>1 DEF Sock!KernInv, Sock!UnusedInv
  <2> HIDE DEF u
  <2>3. /\ x \in Sock!End /\ x.state = "listening" /\ x.peer = u.peer /\ x.queue = u.queue
        /\ SameBytes(u, x) /\ SameMarks(u, x) /\ SameModes(u, x) /\ x.local = u.local /\ x.given = u.given
    BY <1>2 DEF Sock!End, SameBytes, SameMarks, SameModes
  <2> HIDE DEF x
  <2>4. QED BY <1>2, <2>1, <2>2, <2>3, KernNamed DEF u
<1>5. QED BY <1>1, <1>3, <1>4, QuietStep

\* connect.
LEMMA ConnectStep ==
  ASSUME SharedAssumption, Sock!SocketsInv, NEW h \in Sock!Handles, NEW addr \in Sock!Addresses, Sock!Connect(h, addr)
  PROVE  Sock!SocketsInv'
<1> DEFINE fd == s3[h].fd  u == s4[fd]  n == Len(s4) + 1
           chosen == IF u.state = "bound" THEN u.given ELSE [domain |-> u.domain, port |-> <<9, 8>>]
           b == Sock!ToNative(chosen)
<1>1. Sock!Live(h) /\ s3' = s3 /\ s5' = s5
  BY DEF Sock!Connect
<1>2. /\ fd \in DOMAIN s4 /\ Sock!K(h) = u /\ u \in Sock!End /\ Sock!KernInv(s4) /\ s4 \in Seq(Sock!End)
  BY <1>1, LiveHandle DEF Sock!SocketsInv
<1>3. /\ u.state \in {"new", "bound"}
      /\ \E l \in DOMAIN s4 :
           /\ s4[l].state = "listening"
           /\ s4' = Append([s4 EXCEPT ![l].queue = Append(@, n),
                                      ![fd] = [u EXCEPT !.state = "connected", !.peer = n, !.local = b,
                                                  !.given = chosen, !.remote = s4[l].local]],
                           [Sock!Fresh(u.domain) EXCEPT !.state = "connected", !.open = FALSE, !.peer = fd,
                               !.local = s4[l].local, !.given = s4[l].given, !.remote = b])
  BY <1>2 DEF Sock!Connect
<1>4. PICK l \in DOMAIN s4 :
        /\ s4[l].state = "listening"
        /\ s4' = Append([s4 EXCEPT ![l].queue = Append(@, n),
                                   ![fd] = [u EXCEPT !.state = "connected", !.peer = n, !.local = b,
                                               !.given = chosen, !.remote = s4[l].local]],
                        [Sock!Fresh(u.domain) EXCEPT !.state = "connected", !.open = FALSE, !.peer = fd,
                            !.local = s4[l].local, !.given = s4[l].given, !.remote = b])
  BY <1>3
<1> DEFINE v == s4[l]
           x == [v EXCEPT !.queue = Append(v.queue, n)]
           y == [u EXCEPT !.state = "connected", !.peer = n, !.local = b, !.given = chosen, !.remote = v.local]
           z == [Sock!Fresh(u.domain) EXCEPT !.state = "connected", !.open = FALSE, !.peer = fd,
                   !.local = v.local, !.given = v.given, !.remote = b]
<1>5. s4' = Append([s4 EXCEPT ![l] = x, ![fd] = y], z)
  BY <1>4
<1>6. v \in Sock!End /\ n \in Nat /\ n # 0 /\ fd \in Nat
  BY <1>2, <1>4
<1>7. /\ chosen \in Sock!Address /\ b \in Sock!Address /\ v.local \in Sock!Address /\ v.given \in Sock!Address
      /\ u.domain \in Domains
  <2>1. u.given \in Sock!Address /\ u.domain \in Domains /\ v.local \in Sock!Address /\ v.given \in Sock!Address
    BY <1>2, <1>6 DEF Sock!End
  <2>2. [domain |-> u.domain, port |-> <<9, 8>>] \in Sock!Address
    BY <2>1 DEF Sock!Address, Sock!Numbers
  <2>3. chosen \in Sock!Address
    BY <2>1, <2>2
  <2>4. QED BY <2>1, <2>3, AddressesReadBack
<1>8. v.queue \in Seq(Nat) /\ Append(v.queue, n) \in Seq(Nat)
  <2>1. v.queue \in Seq(Nat) BY <1>6 DEF Sock!End
  <2> HIDE DEF v, n
  <2>2. QED BY <1>6, <2>1
<1> HIDE DEF n, chosen, b
<1>9. /\ x \in Sock!End /\ x.queue = Append(v.queue, n) /\ x.state = v.state /\ x.peer = v.peer
      /\ x.local = v.local /\ x.given = v.given /\ SameBytes(v, x) /\ SameMarks(v, x) /\ SameModes(v, x)
  <2> DEFINE q == Append(v.queue, n)
  <2> HIDE DEF v, q
  <2>1. q \in Seq(Nat) BY <1>8 DEF q
  <2>2. x = [v EXCEPT !.queue = q] BY DEF q
  <2> HIDE DEF x
  <2>3. /\ x \in Sock!End /\ x.queue = q /\ x.state = v.state /\ x.peer = v.peer
        /\ x.local = v.local /\ x.given = v.given /\ SameBytes(v, x) /\ SameMarks(v, x) /\ SameModes(v, x)
    BY <1>6, <2>1, <2>2 DEF Sock!End, SameBytes, SameMarks, SameModes
  <2>4. QED BY <2>3 DEF q
<1>10. /\ y \in Sock!End /\ y.state = "connected" /\ y.peer = n /\ y.queue = u.queue /\ SameBytes(u, y)
       /\ SameMarks(u, y) /\ SameModes(u, y) /\ y.local = b /\ y.given = chosen /\ y.remote = v.local
  <2> DEFINE c == v.local
  <2>1. c \in Sock!Address BY <1>7
  <2>2. y = [u EXCEPT !.state = "connected", !.peer = n, !.local = b, !.given = chosen, !.remote = c] OBVIOUS
  <2> HIDE DEF u, c, y
  <2>3. /\ y \in Sock!End /\ y.state = "connected" /\ y.peer = n /\ y.queue = u.queue /\ SameBytes(u, y)
        /\ SameMarks(u, y) /\ SameModes(u, y) /\ y.local = b /\ y.given = chosen /\ y.remote = c
    BY <1>2, <1>6, <1>7, <2>1, <2>2 DEF Sock!End, SameBytes, SameMarks, SameModes
  <2>4. QED BY <2>3 DEF c
<1>11. /\ z \in Sock!End /\ z.state = "connected" /\ ~z.open /\ z.peer = fd /\ z.queue = << >> /\ z.in = << >>
       /\ z.got = 0 /\ z.sent = 0 /\ ~z.eof /\ ~z.ended /\ z.local = v.local /\ z.given = v.given /\ z.remote = b
  <2> DEFINE c == v.local  g == v.given  w == Sock!Fresh(u.domain)
  <2>1. /\ w \in Sock!End /\ w.queue = << >> /\ w.in = << >> /\ w.got = 0 /\ w.sent = 0 /\ ~w.eof /\ ~w.ended
        /\ c \in Sock!Address /\ g \in Sock!Address
    BY <1>7, FreshEnd
  <2>2. z = [w EXCEPT !.state = "connected", !.open = FALSE, !.peer = fd, !.local = c, !.given = g, !.remote = b]
    OBVIOUS
  <2> HIDE DEF w, c, g, z, fd
  <2>3. /\ z \in Sock!End /\ z.state = "connected" /\ ~z.open /\ z.peer = fd /\ z.queue = w.queue /\ z.in = w.in
        /\ z.got = w.got /\ z.sent = w.sent /\ z.eof = w.eof /\ z.ended = w.ended
        /\ z.local = c /\ z.given = g /\ z.remote = b
    BY <1>6, <1>7, <2>1, <2>2 DEF Sock!End
  <2>4. QED BY <2>1, <2>3 DEF c, g
<1> HIDE DEF x, y, z
<1>12. Sock!KernInv(s4') /\ Quiet(s4, s4')
  <2> DEFINE f == Append([s4 EXCEPT ![l] = x, ![fd] = y], z)
  <2>1. y.local = Sock!ToNative(y.given) /\ z.remote = y.local
    BY <1>10, <1>11 DEF b
  <2>2. x.state = "listening" /\ s4[l].state = "listening" /\ u.state \in {"new", "bound"}
    BY <1>3, <1>4, <1>9
  <2>3. x.queue = Append(s4[l].queue, Len(s4) + 1) /\ y.peer = Len(s4) + 1
    BY <1>9, <1>10 DEF n
  <2>4. Sock!KernInv(f) /\ Quiet(s4, f)
    BY <1>2, <1>9, <1>10, <1>11, <2>1, <2>2, <2>3, KernConnected
  <2>5. QED BY <1>5, <2>4
<1>13. QED BY <1>1, <1>12, QuietStep

\* A new handle, or, if it cannot be allocated, a descriptor that is closed again.
LEMMA NewStep ==
  ASSUME Sock!SocketsInv, NEW h \in Sock!Handles, NEW d \in Domains, NEW allocated \in BOOLEAN,
         Sock!New(h, d, allocated)
  PROVE  Sock!SocketsInv'
<1> DEFINE n == Len(s4) + 1  x == Sock!Fresh(d)  f == Append(s4, x)
           rec == [Sock!NoSocket EXCEPT !.fd = n, !.domain = d]
<1>1. /\ h # "accepted" /\ s3[h] = Sock!NoSocket /\ s5' = s5
      /\ s4' = (IF allocated THEN f ELSE Sock!Closed(f, n))
      /\ s3' = (IF allocated THEN [s3 EXCEPT ![h] = rec] ELSE s3)
  BY DEF Sock!New, Sock!Adopted
<1>2. /\ s4 \in Seq(Sock!End) /\ Sock!KernInv(s4) /\ Sock!HandleInv(s3, s4) /\ Sock!AskedInv(s5, s3, s4)
  BY DEF Sock!SocketsInv, Sock!KernInv
<1>3. /\ Sock!KernInv(f) /\ DOMAIN f = DOMAIN s4 \cup {n} /\ n \notin DOMAIN s4
      /\ \A e \in DOMAIN s4 : f[e] = s4[e]
      /\ f[n] = x
  BY <1>2, KernMade
<1>4. x.open /\ ~x.nonblock /\ x.opts = [o \in OptionNames |-> FALSE]
  BY FreshEnd
<1>5. n \in Nat /\ n # 0 /\ 0 \notin DOMAIN s4
  BY <1>2
<1>6. rec \in Sock!Record /\ rec.fd = n /\ rec.blocking /\ ~rec.inherited
  <2> HIDE DEF n
  <2>1. QED BY <1>5 DEF Sock!NoSocket, Sock!Record
<1>7. s3[h].fd = 0
  BY <1>1 DEF Sock!NoSocket
<1> HIDE DEF f, n, x, rec
<1>8. CASE allocated
  <2>1. rec.inherited \/ rec.blocking = ~f[n].nonblock
    BY <1>3, <1>4, <1>6
  <2>2. \A e \in DOMAIN s4 \ {n} : SameModes(s4[e], f[e])
    BY <1>3 DEF SameModes
  <2>3. Sock!HandleInv([s3 EXCEPT ![h] = rec], f) /\ Sock!AskedInv(s5, [s3 EXCEPT ![h] = rec], f)
    BY <1>2, <1>3, <1>4, <1>5, <1>6, <1>7, <2>1, <2>2, HandleMade
  <2>4. Sock!HandleInv(s3', s4') /\ Sock!AskedInv(s5', s3', s4') /\ Sock!KernInv(s4')
    BY <1>1, <1>3, <1>8, <2>3
  <2>5. QED BY <2>4 DEF Sock!SocketsInv
<1>9. CASE ~allocated
  <2> DEFINE g == Sock!Closed(f, n)
  <2>1. Sock!KernInv(g) /\ DOMAIN g = DOMAIN f /\ ~g[n].open /\ \A e \in DOMAIN f \ {n} : SameModes(f[e], g[e])
    BY <1>3, <1>4, KernClosed
  <2> HIDE DEF g
  <2>2. \A e \in DOMAIN s4 : SameModes(s4[e], g[e])
    BY <1>3, <2>1
  <2>3. Quiet(s4, g)
    BY <1>3, <2>1, <2>2 DEF Quiet, SameModes
  <2>4. s4' = g /\ s3' = s3 /\ s5' = s5
    BY <1>1, <1>9 DEF g
  <2>5. QED BY <2>1, <2>3, <2>4, QuietStep
<1>10. QED BY <1>8, <1>9

\* accept: a handle for the first connection that waits, or, without memory, its end.
LEMMA AcceptStep ==
  ASSUME Sock!SocketsInv, NEW h \in Sock!Handles, NEW allocated \in BOOLEAN, NEW inherits \in BOOLEAN,
         Sock!Accept(h, allocated, inherits)
  PROVE  Sock!SocketsInv'
<1> DEFINE l == s3[h].fd  u == s4[l]  fd == Head(u.queue)  mode == inherits /\ u.nonblock
           f == [s4 EXCEPT ![l].queue = Tail(u.queue), ![fd].open = TRUE, ![fd].nonblock = mode]
           rec == [fd |-> fd, domain |-> s3[h].domain, blocking |-> s3[h].blocking,
                   inherited |-> ~inherits /\ u.nonblock]
<1>1. Sock!Live(h) /\ s3["accepted"] = Sock!NoSocket /\ s5' = s5
  BY DEF Sock!Accept
<1>2. /\ l \in DOMAIN s4 /\ Sock!K(h) = u /\ u \in Sock!End /\ s4 \in Seq(Sock!End) /\ s4[l].open
      /\ Sock!KernInv(s4) /\ Sock!HandleInv(s3, s4) /\ Sock!AskedInv(s5, s3, s4) /\ 0 \notin DOMAIN s4
      /\ s3[h] \in Sock!Record
  BY <1>1, LiveHandle DEF Sock!SocketsInv
<1>3. /\ u.queue # << >>
      /\ s4' = (IF allocated THEN f ELSE Sock!Closed(f, fd))
      /\ s3' = (IF allocated THEN [s3 EXCEPT !["accepted"] = rec] ELSE s3)
  BY DEF Sock!Accept, Sock!Adopted, Sock!K
<1>4. u.nonblock \in BOOLEAN /\ mode \in BOOLEAN
  BY <1>2 DEF Sock!End
<1>5. /\ fd \in DOMAIN s4 \ {l} /\ ~s4[fd].open
      /\ Sock!KernInv(f) /\ DOMAIN f = DOMAIN s4 /\ f[fd].open /\ f[fd].nonblock = mode
      /\ f[fd].opts = s4[fd].opts /\ \A e \in DOMAIN s4 \ {fd} : SameModes(s4[e], f[e])
  <2>1. l \in DOMAIN s4 /\ s4[l].queue # << >> /\ Sock!KernInv(s4)
    BY <1>2, <1>3
  <2>2. /\ f[l] = [s4[l] EXCEPT !.queue = Tail(s4[l].queue)]
        /\ f[fd] = [s4[fd] EXCEPT !.open = TRUE, !.nonblock = mode]
    <3>1. fd \in DOMAIN s4 \ {l}
      BY <2>1, FirstWaits
    <3> HIDE DEF mode, fd
    <3>2. QED BY <1>2, <3>1
  <2>3. f = [e \in DOMAIN s4 |-> f[e]] /\ \A e \in DOMAIN s4 \ {l, fd} : f[e] = s4[e]
    <3> HIDE DEF mode, fd
    <3>1. QED BY <1>2
  <2>4. fd = Head(s4[l].queue)
    OBVIOUS
  <2>5. Opens(s4, f, l, fd, mode)
    <3> HIDE DEF mode, l, f, u, fd
    <3>1. QED BY <2>2, <2>3, <2>4 DEF Opens
  <2> HIDE DEF mode, l, f, u, fd
  <2>6. QED BY <1>4, <2>1, <2>5, KernAccepted
<1>6. h # "accepted" /\ s3["accepted"].fd = 0 /\ "accepted" \in Sock!Handles
  BY <1>1 DEF Sock!Live, Sock!NoSocket, Sock!Handles
<1>7. s3[h].blocking = ~u.nonblock /\ s3[h].blocking \in BOOLEAN /\ s3[h].domain \in Domains \cup {"none"}
  <2>1. s3[h].fd # 0 BY <1>1 DEF Sock!Live
  <2>2. s3[h].blocking = ~u.nonblock
    BY <1>2, <1>6, <2>1 DEF Sock!HandleInv
  <2>3. QED BY <1>2, <2>2 DEF Sock!Record
<1>8. fd \in Nat /\ fd # 0
  <2> HIDE DEF fd
  <2>1. DOMAIN s4 = 1..Len(s4) BY <1>2
  <2>2. QED BY <1>5, <2>1
<1>9. /\ rec \in Sock!Record /\ rec.fd = fd
      /\ rec.inherited \/ rec.blocking = ~mode
  <2>1. (~inherits /\ u.nonblock) \in BOOLEAN OBVIOUS
  <2>2. (~inherits /\ u.nonblock) \/ s3[h].blocking = ~mode
    BY <1>4, <1>7
  <2> DEFINE a == s3[h].domain  b == s3[h].blocking  c == ~inherits /\ u.nonblock
  <2> HIDE DEF a, b, c, fd, mode
  <2>3. rec = [fd |-> fd, domain |-> a, blocking |-> b, inherited |-> c] BY DEF a, b, c
  <2>4. a \in Domains \cup {"none"} /\ b \in BOOLEAN /\ c \in BOOLEAN BY <1>7, <2>1 DEF a, b, c
  <2> HIDE DEF rec
  <2>5. rec \in Sock!Record /\ rec.fd = fd /\ rec.inherited = c /\ rec.blocking = b
    BY <1>8, <2>3, <2>4 DEF Sock!Record
  <2>6. c \/ b = ~mode BY <2>2 DEF b, c
  <2>7. QED BY <2>5, <2>6
<1> HIDE DEF f, fd, rec, mode
<1>10. CASE allocated
  <2> DEFINE t == [s3 EXCEPT !["accepted"] = rec]
  <2>1. rec.inherited \/ rec.blocking = ~f[fd].nonblock
    BY <1>5, <1>9
  <2>2. Sock!HandleInv(t, f) /\ Sock!AskedInv(s5, t, f)
    BY <1>2, <1>5, <1>6, <1>8, <1>9, <2>1, HandleMade
  <2>3. Sock!HandleInv(s3', s4') /\ Sock!AskedInv(s5', s3', s4') /\ Sock!KernInv(s4')
    BY <1>1, <1>3, <1>5, <1>10, <2>2
  <2>4. QED BY <2>3 DEF Sock!SocketsInv
<1>11. CASE ~allocated
  <2> DEFINE g == Sock!Closed(f, fd)
  <2>1. Sock!KernInv(g) /\ DOMAIN g = DOMAIN f /\ ~g[fd].open /\ \A e \in DOMAIN f \ {fd} : SameModes(f[e], g[e])
    BY <1>5, KernClosed
  <2> HIDE DEF g
  <2>2. \A e \in DOMAIN s4 \ {fd} : SameModes(s4[e], g[e])
    BY <1>5, <2>1 DEF SameModes
  <2>3. Quiet(s4, g)
    BY <1>5, <2>1, <2>2 DEF Quiet, SameModes
  <2>4. s4' = g /\ s3' = s3 /\ s5' = s5
    BY <1>1, <1>3, <1>11 DEF g
  <2>5. QED BY <2>1, <2>3, <2>4, QuietStep
<1>12. QED BY <1>10, <1>11

\* Deleting a handle closes its descriptor.
LEMMA SocketDeleteStep ==
  ASSUME Sock!SocketsInv, NEW h \in Sock!Handles, Sock!Delete(h)
  PROVE  Sock!SocketsInv'
<1> DEFINE fd == s3[h].fd  f == Sock!Closed(s4, fd)  t == [s3 EXCEPT ![h] = Sock!NoSocket]
           unset == [o \in OptionNames |-> FALSE]
<1>1. /\ Sock!Live(h) /\ s4' = f /\ s3' = t
      /\ s5' = IF h = "client" THEN [s5 EXCEPT !.value = unset] ELSE s5
  BY DEF Sock!Delete
<1>2. /\ fd \in DOMAIN s4 /\ s4[fd].open /\ fd # 0 /\ s3 \in [Sock!Handles -> Sock!Record]
      /\ Sock!KernInv(s4) /\ Sock!HandleInv(s3, s4) /\ Sock!AskedInv(s5, s3, s4)
  BY <1>1, LiveHandle DEF Sock!SocketsInv
<1>3. Sock!KernInv(f) /\ DOMAIN f = DOMAIN s4 /\ ~f[fd].open /\ \A e \in DOMAIN s4 \ {fd} : SameModes(s4[e], f[e])
  BY <1>2, KernClosed
<1>4. /\ t \in [Sock!Handles -> Sock!Record] /\ t[h] = Sock!NoSocket /\ t[h].fd = 0
      /\ \A g \in Sock!Handles \ {h} : t[g] = s3[g] /\ s3[g].fd # fd
  BY <1>2 DEF Sock!HandleInv, Sock!NoSocket, Sock!Record
<1> HIDE DEF f, t
<1>5. Sock!HandleInv(t, f)
  <2>1. ASSUME NEW g \in Sock!Handles
        PROVE  IF t[g].fd = 0 THEN t[g] = Sock!NoSocket
               ELSE /\ t[g].fd \in DOMAIN f /\ f[t[g].fd].open
                    /\ t[g].inherited => g = "accepted"
                    /\ t[g].inherited \/ t[g].blocking = ~f[t[g].fd].nonblock
    <3>1. CASE g = h BY <1>4, <3>1
    <3>2. CASE g # h BY <1>2, <1>3, <1>4, <3>2 DEF Sock!HandleInv, SameModes
    <3>3. QED BY <3>1, <3>2
  <2>2. \A g, i \in Sock!Handles : t[g].fd = t[i].fd /\ t[g].fd # 0 => g = i
    BY <1>2, <1>4 DEF Sock!HandleInv
  <2>3. \A e \in DOMAIN f : f[e].open => \E g \in Sock!Handles : t[g].fd = e
    BY <1>2, <1>3, <1>4 DEF Sock!HandleInv, SameModes
  <2>4. QED BY <1>4, <2>1, <2>2, <2>3 DEF Sock!HandleInv
<1>6. Sock!AskedInv(s5', t, f)
  <2>1. "client" \in Sock!Handles BY DEF Sock!Handles
  <2>2. s5 \in [value : [OptionNames -> BOOLEAN], calls : Nat]
        /\ s5.value = IF s3["client"].fd = 0 THEN unset ELSE s4[s3["client"].fd].opts
    BY <1>2 DEF Sock!AskedInv
  <2>3. unset \in [OptionNames -> BOOLEAN] OBVIOUS
  <2>4. CASE h = "client"
    <3> HIDE DEF unset
    <3>1. s5' \in [value : [OptionNames -> BOOLEAN], calls : Nat] /\ s5'.value = unset
      BY <1>1, <2>2, <2>3, <2>4
    <3>2. QED BY <1>4, <2>4, <3>1 DEF Sock!AskedInv, unset
  <2>5. CASE h # "client"
    <3>1. s5' = s5 /\ t["client"] = s3["client"] /\ s3["client"].fd # fd
      BY <1>1, <1>4, <2>1, <2>5
    <3>2. s3["client"].fd # 0 => s3["client"].fd \in DOMAIN s4
      BY <1>2, <2>1 DEF Sock!HandleInv
    <3>3. QED BY <1>3, <2>2, <3>1, <3>2 DEF Sock!AskedInv, SameModes
  <2>6. QED BY <2>4, <2>5
<1>7. Sock!KernInv(s4') /\ Sock!HandleInv(s3', s4') /\ Sock!AskedInv(s5', s3', s4')
  BY <1>1, <1>3, <1>5, <1>6
<1>8. QED BY <1>7 DEF Sock!SocketsInv

\* send.
LEMMA SendStep ==
  ASSUME SharedAssumption, Sock!SocketsInv, NEW h \in Sock!Handles, NEW n \in 1..MaxBytes, Sock!Send(h, n)
  PROVE  Sock!SocketsInv'
<1> DEFINE fd == s3[h].fd  p == s4[fd].peer  bytes == [i \in 1..n |-> s4[fd].sent + i]
           f == [s4 EXCEPT ![fd].sent = @ + n, ![fd].reset = TRUE]
           g == [s4 EXCEPT ![fd].sent = @ + n, ![p].in = @ \o bytes]
<1>1. Sock!Live(h) /\ s3' = s3 /\ s5' = s5
  BY DEF Sock!Send
<1>2. fd \in DOMAIN s4 /\ Sock!KernInv(s4)
  BY <1>1, LiveHandle DEF Sock!SocketsInv
<1>3. /\ s4[fd].state = "connected"
      /\ s4' = s4 \/ (~s4[fd].shutW /\ s4' = IF s4[p].state = "closed" THEN f ELSE g)
  BY DEF Sock!Send, Sock!K
<1>4. CASE s4' = s4
  BY <1>1, <1>4 DEF Sock!SocketsInv
<1>5. CASE ~s4[fd].shutW /\ s4' = IF s4[p].state = "closed" THEN f ELSE g
  <2>1. n \in Nat
    BY DEF SharedAssumption
  <2>2. /\ s4[p].state = "closed" => Sock!KernInv(f) /\ Quiet(s4, f)
        /\ s4[p].state # "closed" => Sock!KernInv(g) /\ Quiet(s4, g)
    BY <1>2, <1>3, <1>5, <2>1, KernSent
  <2> HIDE DEF f, g, p
  <2>3. Sock!KernInv(s4') /\ Quiet(s4, s4')
    BY <1>5, <2>2
  <2>4. QED BY <1>1, <2>3, QuietStep
<1>6. QED BY <1>3, <1>4, <1>5

\* recv.
LEMMA ReceiveStep ==
  ASSUME SharedAssumption, Sock!SocketsInv, NEW h \in Sock!Handles, NEW n \in 1..MaxBytes, Sock!Receive(h, n)
  PROVE  Sock!SocketsInv'
<1> DEFINE fd == s3[h].fd  u == s4[fd]  m == IF n < Len(u.in) THEN n ELSE Len(u.in)
           x == [u EXCEPT !.in = SubSeq(u.in, m + 1, Len(u.in)), !.got = u.got + m, !.ended = (m = 0)]
<1>1. Sock!Live(h) /\ s3' = s3 /\ s5' = s5
  BY DEF Sock!Receive, Sock!KernelOnly
<1>2. fd \in DOMAIN s4 /\ Sock!KernInv(s4) /\ u \in Sock!End
  BY <1>1, LiveHandle DEF Sock!SocketsInv
<1>3. /\ u.state = "connected" /\ ~u.reset /\ (m > 0 \/ u.eof \/ u.shutR)
      /\ s4' = Sock!Put(s4, fd, x)
  BY DEF Sock!Receive, Sock!KernelOnly, Sock!K
<1>4. m \in 0..Len(u.in) /\ (m = 0 => u.in = << >>)
  <2>1. u.in \in Seq(Nat) BY <1>2 DEF Sock!End
  <2>2. n \in Nat \ {0} BY DEF SharedAssumption
  <2>3. Len(u.in) \in Nat /\ (Len(u.in) = 0 => u.in = << >>) BY <2>1
  <2> HIDE DEF u
  <2>4. QED BY <2>2, <2>3
<1> HIDE DEF m
<1>5. Sock!KernInv(Sock!Put(s4, fd, x)) /\ Quiet(s4, Sock!Put(s4, fd, x))
  BY <1>2, <1>3, <1>4, KernReceived
<1>6. Sock!KernInv(s4') /\ Quiet(s4, s4')
  <2> HIDE DEF x
  <2>1. QED BY <1>3, <1>5
<1>7. QED BY <1>1, <1>6, QuietStep

\* shutdown.
LEMMA SocketShutdownStep ==
  ASSUME Sock!SocketsInv, NEW h \in Sock!Handles, NEW how, Sock!Shutdown(h, how)
  PROVE  Sock!SocketsInv'
<1> DEFINE fd == s3[h].fd  r == how # "SEND"  w == how # "RECEIVE"
           f == [s4 EXCEPT ![fd].shutR = @ \/ r, ![fd].shutW = @ \/ w, ![s4[fd].peer].eof = @ \/ w]
<1>1. Sock!Live(h) /\ s3' = s3 /\ s5' = s5
  BY DEF Sock!Shutdown
<1>2. fd \in DOMAIN s4 /\ Sock!KernInv(s4)
  BY <1>1, LiveHandle DEF Sock!SocketsInv
<1>3. s4[fd].state = "connected" /\ s4' = f
  BY DEF Sock!Shutdown, Sock!K
<1>4. r \in BOOLEAN /\ w \in BOOLEAN
  OBVIOUS
<1> HIDE DEF r, w
<1>5. Sock!KernInv(f) /\ Quiet(s4, f)
  BY <1>2, <1>3, <1>4, KernShut
<1> HIDE DEF f
<1>6. Sock!KernInv(s4') /\ Quiet(s4, s4')
  BY <1>3, <1>5
<1>7. QED BY <1>1, <1>6, QuietStep

\* A handle and its descriptor take a mode together.
LEMMA BlockingStep ==
  ASSUME Sock!SocketsInv, NEW h \in Sock!Handles, NEW blocking \in BOOLEAN, Sock!SetBlocking(h, blocking)
  PROVE  Sock!SocketsInv'
<1> DEFINE fd == s3[h].fd  b == ~blocking  x == [s4[fd] EXCEPT !.nonblock = b]
           rec == [s3[h] EXCEPT !.blocking = blocking, !.inherited = FALSE]
           t == [s3 EXCEPT ![h].blocking = blocking, ![h].inherited = FALSE]
           f == [s4 EXCEPT ![fd].nonblock = b]
<1>1. Sock!Live(h) /\ s3' = t /\ s4' = f /\ s5' = [s5 EXCEPT !.calls = s5.calls + 1]
  BY DEF Sock!SetBlocking
<1>2. /\ fd \in DOMAIN s4 /\ s4[fd] \in Sock!End /\ s4[fd].open /\ s3 \in [Sock!Handles -> Sock!Record]
      /\ Sock!KernInv(s4) /\ Sock!HandleInv(s3, s4) /\ Sock!AskedInv(s5, s3, s4)
  BY <1>1, LiveHandle DEF Sock!SocketsInv
<1>3. f = [e \in DOMAIN s4 |-> f[e]] /\ f[fd] = x /\ \A e \in DOMAIN s4 \ {fd} : f[e] = s4[e]
  BY <1>2
<1>4. /\ x \in Sock!End /\ SameLink(s4[fd], x) /\ SameBytes(s4[fd], x) /\ SameMarks(s4[fd], x)
      /\ x.open = s4[fd].open /\ x.nonblock = b /\ x.opts = s4[fd].opts
  <2> DEFINE u == s4[fd]
  <2>1. u \in Sock!End /\ b \in BOOLEAN BY <1>2
  <2>2. x = [u EXCEPT !.nonblock = b] OBVIOUS
  <2> HIDE DEF u, b, x
  <2>3. /\ x \in Sock!End /\ SameLink(u, x) /\ SameBytes(u, x) /\ SameMarks(u, x)
        /\ x.open = u.open /\ x.nonblock = b /\ x.opts = u.opts
    BY <2>1, <2>2 DEF Sock!End, SameLink, SameBytes, SameMarks
  <2>4. QED BY <2>3 DEF u
<1>5. t \in [Sock!Handles -> Sock!Record] /\ t[h] = rec /\ \A g \in Sock!Handles \ {h} : t[g] = s3[g]
  <2>1. rec \in Sock!Record BY <1>2 DEF Sock!Record
  <2>2. QED BY <1>2, <2>1
<1>6. rec.fd = fd /\ rec.blocking = blocking /\ ~rec.inherited
  <2>1. s3[h] \in Sock!Record BY <1>2
  <2>2. QED BY <2>1 DEF Sock!Record
<1> HIDE DEF f, x, t, rec
<1>7. Sock!KernInv(f) /\ DOMAIN f = DOMAIN s4
  <2>1. f[fd] \in Sock!End /\ SameLink(s4[fd], f[fd]) /\ SameBytes(s4[fd], f[fd]) /\ SameMarks(s4[fd], f[fd])
        /\ f[fd].open = s4[fd].open
    BY <1>3, <1>4
  <2>2. f = [e \in DOMAIN s4 |-> f[e]] /\ \A e \in DOMAIN s4 \ {fd} : f[e] = s4[e]
    BY <1>3
  <2> HIDE DEF fd
  <2>3. QED BY <1>2, <2>1, <2>2, KernModes
<1>8. \A g \in Sock!Handles : t[g].fd = s3[g].fd
  BY <1>5, <1>6
<1>9. \A e \in DOMAIN s4 : f[e].open = s4[e].open /\ f[e].opts = s4[e].opts
  BY <1>3, <1>4
<1>10. Sock!HandleInv(t, f)
  <2>1. ASSUME NEW g \in Sock!Handles
        PROVE  IF t[g].fd = 0 THEN t[g] = Sock!NoSocket
               ELSE /\ t[g].fd \in DOMAIN f /\ f[t[g].fd].open
                    /\ t[g].inherited => g = "accepted"
                    /\ t[g].inherited \/ t[g].blocking = ~f[t[g].fd].nonblock
    <3>1. CASE g = h
      <4>1. fd # 0 BY <1>1 DEF Sock!Live
      <4>2. t[g].fd = fd /\ t[g].blocking = blocking /\ ~t[g].inherited BY <1>5, <1>6, <3>1
      <4>3. f[fd].open /\ f[fd].nonblock = ~blocking BY <1>2, <1>3, <1>4
      <4>4. QED BY <1>2, <1>7, <4>1, <4>2, <4>3
    <3>2. CASE g # h
      <4>1. s3[g].fd # 0 => s3[g].fd # fd BY <1>2, <3>2 DEF Sock!HandleInv
      <4>2. QED BY <1>2, <1>3, <1>5, <1>7, <3>2, <4>1 DEF Sock!HandleInv
    <3>3. QED BY <3>1, <3>2
  <2>2. \A g, i \in Sock!Handles : t[g].fd = t[i].fd /\ t[g].fd # 0 => g = i
    BY <1>2, <1>8 DEF Sock!HandleInv
  <2>3. \A e \in DOMAIN f : f[e].open => \E g \in Sock!Handles : t[g].fd = e
    BY <1>2, <1>7, <1>8, <1>9 DEF Sock!HandleInv
  <2>4. QED BY <1>5, <2>1, <2>2, <2>3 DEF Sock!HandleInv
<1>11. Sock!AskedInv(s5', t, f)
  <2>1. "client" \in Sock!Handles BY DEF Sock!Handles
  <2>2. s5' \in [value : [OptionNames -> BOOLEAN], calls : Nat] /\ s5'.value = s5.value
    BY <1>1, <1>2 DEF Sock!AskedInv
  <2>3. s3["client"].fd # 0 => f[s3["client"].fd].opts = s4[s3["client"].fd].opts
    BY <1>2, <1>9, <2>1 DEF Sock!HandleInv
  <2>4. QED BY <1>2, <1>8, <2>1, <2>2, <2>3 DEF Sock!AskedInv
<1>12. Sock!KernInv(s4') /\ Sock!HandleInv(s3', s4') /\ Sock!AskedInv(s5', s3', s4')
  BY <1>1, <1>7, <1>10, <1>11
<1>13. QED BY <1>12 DEF Sock!SocketsInv

\* An option is the client's alone, and is as it was asked.
LEMMA OptionStep ==
  ASSUME Sock!SocketsInv, NEW o \in OptionNames, NEW enabled \in BOOLEAN, Sock!SetOption(o, enabled)
  PROVE  Sock!SocketsInv'
<1> DEFINE fd == s3["client"].fd  w == [s4[fd].opts EXCEPT ![o] = enabled]
           x == [s4[fd] EXCEPT !.opts = w]
           f == [s4 EXCEPT ![fd].opts[o] = enabled]
<1>1. /\ Sock!Live("client") /\ s3' = s3 /\ s4' = f
      /\ s5' = [s5 EXCEPT !.value[o] = enabled, !.calls = s5.calls + 1]
  BY DEF Sock!SetOption
<1>2. "client" \in Sock!Handles BY DEF Sock!Handles
<1>3. /\ fd \in DOMAIN s4 /\ s4[fd] \in Sock!End /\ s4[fd].open /\ fd # 0
      /\ Sock!KernInv(s4) /\ Sock!HandleInv(s3, s4) /\ Sock!AskedInv(s5, s3, s4)
  BY <1>1, <1>2, LiveHandle DEF Sock!SocketsInv, Sock!Live
<1>4. f = [e \in DOMAIN s4 |-> f[e]] /\ f[fd] = x /\ \A e \in DOMAIN s4 \ {fd} : f[e] = s4[e]
  BY <1>3
<1>5. s4[fd].opts \in [OptionNames -> BOOLEAN] /\ w \in [OptionNames -> BOOLEAN]
  <2>1. s4[fd].opts \in [OptionNames -> BOOLEAN] BY <1>3 DEF Sock!End
  <2>2. QED BY <2>1
<1>6. /\ x \in Sock!End /\ SameLink(s4[fd], x) /\ SameBytes(s4[fd], x) /\ SameMarks(s4[fd], x)
      /\ x.open = s4[fd].open /\ x.nonblock = s4[fd].nonblock /\ x.opts = w
  <2> DEFINE u == s4[fd]
  <2>1. u \in Sock!End BY <1>3
  <2>2. x = [u EXCEPT !.opts = w] OBVIOUS
  <2> HIDE DEF u, w, x
  <2>3. /\ x \in Sock!End /\ SameLink(u, x) /\ SameBytes(u, x) /\ SameMarks(u, x)
        /\ x.open = u.open /\ x.nonblock = u.nonblock /\ x.opts = w
    BY <1>5, <2>1, <2>2 DEF Sock!End, SameLink, SameBytes, SameMarks
  <2>4. QED BY <2>3 DEF u
<1> HIDE DEF f, x
<1>7. Sock!KernInv(f) /\ DOMAIN f = DOMAIN s4
  <2>1. f[fd] \in Sock!End /\ SameLink(s4[fd], f[fd]) /\ SameBytes(s4[fd], f[fd]) /\ SameMarks(s4[fd], f[fd])
        /\ f[fd].open = s4[fd].open
    BY <1>4, <1>6
  <2>2. f = [e \in DOMAIN s4 |-> f[e]] /\ \A e \in DOMAIN s4 \ {fd} : f[e] = s4[e]
    BY <1>4
  <2> HIDE DEF fd
  <2>3. QED BY <1>3, <2>1, <2>2, KernModes
<1>8. \A e \in DOMAIN s4 : f[e].open = s4[e].open /\ f[e].nonblock = s4[e].nonblock
  BY <1>4, <1>6
<1>9. Sock!HandleInv(s3, f)
  BY <1>3, <1>7, <1>8 DEF Sock!HandleInv
<1>10. Sock!AskedInv(s5', s3, f)
  <2>1. s5 \in [value : [OptionNames -> BOOLEAN], calls : Nat] /\ s5.value = s4[fd].opts
    BY <1>3 DEF Sock!AskedInv
  <2>2. s5' \in [value : [OptionNames -> BOOLEAN], calls : Nat] /\ s5'.value = w
    <3> DEFINE v == s5.value
    <3>1. v \in [OptionNames -> BOOLEAN] /\ s5.calls + 1 \in Nat /\ w = [v EXCEPT ![o] = enabled] BY <2>1
    <3>2. s5' = [s5 EXCEPT !.value = w, !.calls = s5.calls + 1] BY <1>1, <2>1
    <3> HIDE DEF w, v
    <3>3. QED BY <1>5, <2>1, <3>1, <3>2
  <2>3. f[fd].opts = w
    BY <1>4, <1>6
  <2> HIDE DEF w
  <2>4. QED BY <1>3, <2>2, <2>3 DEF Sock!AskedInv
<1>11. Sock!KernInv(s4') /\ Sock!HandleInv(s3', s4') /\ Sock!AskedInv(s5', s3', s4')
  BY <1>1, <1>7, <1>9, <1>10
<1>12. QED BY <1>11 DEF Sock!SocketsInv

\* No socket at the start.
LEMMA SocketsStart ==
  ASSUME Sock!SocketsInit
  PROVE  Sock!SocketsInv
<1>1. /\ s3 = [h \in Sock!Handles |-> Sock!NoSocket] /\ s4 = << >>
      /\ s5 = [value |-> [o \in OptionNames |-> FALSE], calls |-> 0]
  BY DEF Sock!SocketsInit
<1>2. DOMAIN s4 = {} /\ s4 \in Seq(Sock!End)
  BY <1>1
<1>3. Sock!KernInv(s4)
  BY <1>2 DEF Sock!KernInv, Sock!UnusedInv, Sock!QueueInv, Sock!PeerInv
<1>4. Sock!NoSocket \in Sock!Record /\ Sock!NoSocket.fd = 0
  BY DEF Sock!NoSocket, Sock!Record
<1>5. Sock!HandleInv(s3, s4)
  BY <1>1, <1>2, <1>4 DEF Sock!HandleInv
<1>6. Sock!AskedInv(s5, s3, s4)
  BY <1>1, <1>4 DEF Sock!AskedInv, Sock!Handles
<1>7. QED BY <1>3, <1>5, <1>6 DEF Sock!SocketsInv

\* Every call of the wrappers keeps handles and descriptors in order.
LEMMA SocketStep ==
  ASSUME SharedAssumption, Sock!SocketsInv, Sock!SocketsNext
  PROVE  Sock!SocketsInv'
<1>1. CASE Sock!WinStartup \/ Sock!WinCleanup
  BY <1>1 DEF Sock!WinStartup, Sock!WinCleanup, Sock!SocketsInv
<1>2. ASSUME NEW h \in Sock!Handles, NEW domain \in Domains, NEW allocated \in BOOLEAN,
             Sock!PosixNew(h, domain, allocated) \/ Sock!WinNew(h, domain, allocated)
      PROVE  Sock!SocketsInv'
  BY <1>2, NewStep DEF Sock!PosixNew, Sock!WinNew
<1>3. ASSUME NEW h \in Sock!Handles, Sock!PosixDelete(h) \/ Sock!WinDelete(h)
      PROVE  Sock!SocketsInv'
  BY <1>3, SocketDeleteStep DEF Sock!PosixDelete, Sock!WinDelete
<1>4. ASSUME NEW h \in Sock!Handles, Sock!PosixListen(h) \/ Sock!WinListen(h)
      PROVE  Sock!SocketsInv'
  BY <1>4, NamingStep DEF Sock!PosixListen, Sock!WinListen
<1>5. ASSUME NEW h \in Sock!Handles, NEW addr \in Sock!Addresses, Sock!PosixBind(h, addr) \/ Sock!WinBind(h, addr)
      PROVE  Sock!SocketsInv'
  BY <1>5, NamingStep DEF Sock!PosixBind, Sock!WinBind
<1>6. ASSUME NEW h \in Sock!Handles, NEW addr \in Sock!Addresses,
             Sock!PosixConnect(h, addr) \/ Sock!WinConnect(h, addr)
      PROVE  Sock!SocketsInv'
  BY <1>6, ConnectStep DEF Sock!PosixConnect, Sock!WinConnect
<1>7. ASSUME NEW h \in Sock!Handles, NEW allocated \in BOOLEAN,
             Sock!PosixAccept(h, allocated) \/ Sock!WinAccept(h, allocated)
      PROVE  Sock!SocketsInv'
  BY <1>7, AcceptStep DEF Sock!PosixAccept, Sock!WinAccept
<1>8. ASSUME NEW h \in Sock!Handles, NEW n \in 1..MaxBytes, Sock!PosixSend(h, n) \/ Sock!WinSend(h, n)
      PROVE  Sock!SocketsInv'
  BY <1>8, SendStep DEF Sock!PosixSend, Sock!WinSend
<1>9. ASSUME NEW h \in Sock!Handles, NEW n \in 1..MaxBytes, Sock!PosixReceive(h, n) \/ Sock!WinReceive(h, n)
      PROVE  Sock!SocketsInv'
  BY <1>9, ReceiveStep DEF Sock!PosixReceive, Sock!WinReceive
<1>10. ASSUME NEW h \in Sock!Handles, NEW how, Sock!PosixShutdown(h, how) \/ Sock!WinShutdown(h, how)
       PROVE  Sock!SocketsInv'
  BY <1>10, SocketShutdownStep DEF Sock!PosixShutdown, Sock!WinShutdown
<1>11. ASSUME NEW h \in Sock!Handles, NEW blocking \in BOOLEAN,
              Sock!PosixSetBlocking(h, blocking) \/ Sock!WinSetBlocking(h, blocking)
       PROVE  Sock!SocketsInv'
  BY <1>11, BlockingStep DEF Sock!PosixSetBlocking, Sock!WinSetBlocking
<1>12. ASSUME NEW o \in OptionNames, NEW enabled \in BOOLEAN,
              Sock!PosixSetOption(o, enabled) \/ Sock!WinSetOption(o, enabled)
       PROVE  Sock!SocketsInv'
  BY <1>12, OptionStep DEF Sock!PosixSetOption, Sock!WinSetOption
<1>13. QED BY <1>1, <1>2, <1>3, <1>4, <1>5, <1>6, <1>7, <1>8, <1>9, <1>10, <1>11, <1>12 DEF Sock!SocketsNext

\* The invariant says what a caller of the wrappers may rely on.
LEMMA SocketsFollow ==
  ASSUME Sock!SocketsInv
  PROVE  Sock!SocketsSound
<1>1. /\ s4 \in Seq(Sock!End) /\ Sock!UnusedInv(s4) /\ Sock!PeerInv(s4) /\ Sock!HandleInv(s3, s4)
      /\ Sock!AskedInv(s5, s3, s4) /\ "client" \in Sock!Handles
  BY DEF Sock!SocketsInv, Sock!KernInv, Sock!Handles
<1>2. ASSUME NEW h \in Sock!Handles, s3[h] # Sock!NoSocket
      PROVE  /\ s3[h].fd # 0 /\ s3[h].fd \in DOMAIN s4 /\ Sock!K(h) = s4[s3[h].fd] /\ s4[s3[h].fd].open
             /\ s3[h].inherited \/ s3[h].blocking = ~s4[s3[h].fd].nonblock
  BY <1>1, <1>2 DEF Sock!HandleInv, Sock!K
<1>3. ASSUME NEW e \in DOMAIN s4, s4[e].open
      PROVE  Sock!Cardinality({h \in Sock!Handles : s3[h].fd = e}) = 1
  <2>1. PICK h \in Sock!Handles : s3[h].fd = e
    BY <1>1, <1>3 DEF Sock!HandleInv
  <2>2. e # 0
    <3>1. 0 \notin DOMAIN s4 BY <1>1
    <3>2. QED BY <3>1
  <2>3. {g \in Sock!Handles : s3[g].fd = e} = {h}
    BY <1>1, <2>1, <2>2 DEF Sock!HandleInv
  <2>4. Cardinality({h}) = 1
    BY FS_Singleton
  <2>5. Sock!Cardinality({h}) = Cardinality({h})
    BY DEF Sock!Cardinality, Cardinality
  <2>6. QED BY <2>3, <2>4, <2>5
<1>4. Sock!HandlesMatch
  BY <1>2, <1>3 DEF Sock!HandlesMatch
<1>5. Sock!StreamEnds
  <2> SUFFICES ASSUME NEW h \in Sock!Handles, s3[h] # Sock!NoSocket, Sock!K(h).state = "connected", Sock!K(h).ended
               PROVE  LET p == s4[Sock!K(h).peer]
                      IN  Sock!K(h).shutR \/ (Sock!K(h).got = p.sent /\ (p.shutW \/ p.state = "closed"))
    BY DEF Sock!StreamEnds
  <2> DEFINE e == s3[h].fd
  <2>1. e \in DOMAIN s4 /\ Sock!K(h) = s4[e]
    BY <1>2
  <2>2. /\ s4[e].got + Len(s4[e].in) = s4[s4[e].peer].sent
        /\ s4[e].shutR \/ (s4[e].in = << >> /\ (s4[s4[e].peer].shutW \/ s4[s4[e].peer].state = "closed"))
    <3> HIDE DEF e
    <3>1. QED BY <1>1, <2>1 DEF Sock!PeerInv
  <2>3. s4[e].got \in Nat
    <3> DEFINE u == s4[e]
    <3>1. u \in Sock!End BY <1>1, <2>1
    <3> HIDE DEF u
    <3>2. u.got \in Nat BY <3>1 DEF Sock!End
    <3>3. QED BY <3>2 DEF u
  <2>4. s4[e].in = << >> => s4[e].got = s4[s4[e].peer].sent
    <3> HIDE DEF e
    <3>1. s4[e].in = << >> => Len(s4[e].in) = 0 OBVIOUS
    <3>2. QED BY <2>2, <2>3, <3>1
  <2>5. QED BY <2>1, <2>2, <2>4
<1>6. Sock!AddressesKept
  <2>1. ASSUME NEW h \in Sock!Handles, s3[h] # Sock!NoSocket, Sock!K(h).state = "connected"
        PROVE  Sock!Told(h) = <<Sock!K(h).given, s4[Sock!K(h).peer].given>>
    <3> DEFINE u == Sock!K(h)  v == s4[u.peer]
    <3>1. /\ u \in Sock!End /\ v \in Sock!End
          /\ u.local = Sock!ToNative(u.given) /\ u.remote = Sock!ToNative(v.given)
      BY <1>1, <1>2, <2>1 DEF Sock!PeerInv
    <3>2. u.given \in Sock!Address /\ v.given \in Sock!Address
      <4> HIDE DEF u, v
      <4>1. QED BY <3>1 DEF Sock!End
    <3>3. Sock!FromNative(u.local) = u.given /\ Sock!FromNative(u.remote) = v.given
      BY <3>1, <3>2, AddressesReadBack
    <3>4. QED BY <3>3 DEF Sock!Told, Sock!PosixLocal, Sock!PosixRemote, Sock!WinLocal, Sock!WinRemote
  <2>2. ASSUME s3["client"] # Sock!NoSocket, NEW o \in OptionNames
        PROVE  s5.value[o] = IF s1 = "posix" THEN Sock!PosixGetOption(o) ELSE Sock!WinGetOption(o)
    <3>1. s5.value = s4[s3["client"].fd].opts
      BY <1>1, <1>2, <2>2 DEF Sock!AskedInv
    <3>2. QED BY <1>1, <1>2, <2>2, <3>1 DEF Sock!PosixGetOption, Sock!WinGetOption
  <2>3. QED BY <2>1, <2>2 DEF Sock!AddressesKept
<1>7. QED BY <1>4, <1>5, <1>6 DEF Sock!SocketsSound

----------------------------------------------------------------------------
(* vlFSPathMkDir: the disk stays a tree, and each level of the path that is *)
(* still to be made has been seen missing or is a directory by now.         *)

\* The parent of a path, and what lies above it.
LEMMA FrontOf ==
  ASSUME NEW S, NEW p \in Seq(S), p # << >>
  PROVE  /\ Make!Front(p) = SubSeq(p, 1, Len(p) - 1) /\ Make!Front(p) \in Seq(S)
         /\ Len(Make!Front(p)) = Len(p) - 1 /\ Len(p) \in Nat \ {0}
         /\ \A i \in 0..(Len(p) - 1) : SubSeq(Make!Front(p), 1, i) = SubSeq(p, 1, i)
<1>1. Make!Front(p) = SubSeq(p, 1, Len(p) - 1) BY DEF Make!Front
<1>2. Len(p) \in Nat \ {0} OBVIOUS
<1>3. SubSeq(p, 1, Len(p) - 1) \in Seq(S) /\ Len(SubSeq(p, 1, Len(p) - 1)) = Len(p) - 1
  BY <1>2
<1>4. ASSUME NEW i \in 0..(Len(p) - 1)
      PROVE  SubSeq(SubSeq(p, 1, Len(p) - 1), 1, i) = SubSeq(p, 1, i)
  BY <1>2, <1>3
<1>5. QED BY <1>1, <1>2, <1>3, <1>4

\* A tree with a new leaf in an open directory is a tree.
LEMMA TreeGrows ==
  ASSUME NEW t, Make!Tree(t), NEW p \in Seq(STRING), p # << >>, p \notin DOMAIN t,
         Make!Front(p) \in DOMAIN t, t[Make!Front(p)] = "dir", NEW kind \in {"dir", "file"},
         NEW u, DOMAIN u = DOMAIN t \cup {p}, u[p] = kind, \A q \in DOMAIN t : u[q] = t[q]
  PROVE  Make!Tree(u)
<1>1. \A q \in DOMAIN t : q # p OBVIOUS
<1>2. ASSUME NEW i \in 0..(Len(p) - 1)
      PROVE  SubSeq(p, 1, i) \in DOMAIN t /\ t[SubSeq(p, 1, i)] = "dir"
  <2>1. CASE i = Len(p) - 1 BY <2>1, FrontOf
  <2>2. CASE i # Len(p) - 1
    <3>1. i \in 0..(Len(Make!Front(p)) - 1) BY <2>2, FrontOf
    <3>2. SubSeq(Make!Front(p), 1, i) = SubSeq(p, 1, i) BY FrontOf
    <3>3. QED BY <3>1, <3>2 DEF Make!Tree
  <2>3. QED BY <2>1, <2>2
<1>3. \A q \in DOMAIN u : \A i \in 0..(Len(q) - 1) : SubSeq(q, 1, i) \in DOMAIN u /\ u[SubSeq(q, 1, i)] = "dir"
  BY <1>1, <1>2 DEF Make!Tree
<1>4. QED BY <1>1, <1>3 DEF Make!Tree

\* A tree without a leaf that is not its root is a tree.
LEMMA TreeShrinks ==
  ASSUME NEW t, Make!Tree(t), NEW p \in Seq(STRING), p # << >>,
         \A q \in DOMAIN t : q # << >> => Make!Front(q) # p
  PROVE  Make!Tree([q \in DOMAIN t \ {p} |-> t[q]])
<1> DEFINE u == [q \in DOMAIN t \ {p} |-> t[q]]
<1>1. DOMAIN u = DOMAIN t \ {p} /\ \A q \in DOMAIN u : u[q] = t[q] OBVIOUS
<1> HIDE DEF u
<1>2. ASSUME NEW q \in DOMAIN u, NEW i \in 0..(Len(q) - 1), SubSeq(q, 1, i) = p PROVE FALSE
  <2>1. q \in Seq(STRING) /\ q \in DOMAIN t /\ i \in Nat /\ Len(q) \in Nat BY <1>1 DEF Make!Tree
  <2> DEFINE r == SubSeq(q, 1, i + 1)
  <2>2. r \in Seq(STRING) /\ Len(r) = i + 1 /\ r # << >> BY <2>1
  <2>3. SubSeq(r, 1, i) = SubSeq(q, 1, i) BY <2>1
  <2>4. r \in DOMAIN t
    <3>1. CASE i + 1 = Len(q)
      <4>1. r = q BY <2>1, <3>1
      <4>2. QED BY <2>1, <4>1
    <3>2. CASE i + 1 # Len(q)
      <4>1. i + 1 \in 0..(Len(q) - 1) BY <2>1, <3>2
      <4>2. QED BY <2>1, <4>1 DEF Make!Tree
    <3>3. QED BY <3>1, <3>2
  <2> HIDE DEF r
  <2>5. Make!Front(r) = SubSeq(r, 1, i) BY <2>1, <2>2, FrontOf
  <2>6. QED BY <1>2, <2>2, <2>3, <2>4, <2>5
<1>3. QED BY <1>1, <1>2 DEF Make!Tree, u

\* What mkdir says: EEXIST if and only if the path is there, success only in an open directory.
LEMMA ErrnoTells ==
  ASSUME Make!Tree(s2), NEW p \in Seq(STRING), p # << >>
  PROVE  /\ Make!Errno(p) = "EEXIST" <=> p \in DOMAIN s2
         /\ Make!Errno(p) = "ok" => Make!Front(p) \in DOMAIN s2 /\ s2[Make!Front(p)] = "dir"
         /\ Make!Failure(Make!Errno(p)) \in {"io", "denied", "invalid"}
<1>1. Make!Errno(p) = "EEXIST" <=> p \in DOMAIN s2 BY DEF Make!Errno, Make!Exists
<1>2. ASSUME Make!Errno(p) = "ok" PROVE Make!Front(p) \in DOMAIN s2 /\ s2[Make!Front(p)] = "dir"
  <2>1. Make!Front(p) \in DOMAIN s2 /\ s2[Make!Front(p)] # "locked" BY <1>2 DEF Make!Errno, Make!Exists
  <2>2. SubSeq(p, 1, Len(p) - 1) = Make!Front(p) /\ Len(p) - 1 \in 0..(Len(p) - 1) BY FrontOf
  <2>3. s2[Make!Front(p)] # "file"
    <3>1. ~ \E i \in 0..(Len(p) - 1) : Make!Exists(SubSeq(p, 1, i)) /\ s2[SubSeq(p, 1, i)] = "file"
      BY <1>2 DEF Make!Errno
    <3>2. QED BY <2>1, <2>2, <3>1 DEF Make!Exists
  <2>4. QED BY <2>1, <2>3 DEF Make!Tree
<1>3. Make!Failure(Make!Errno(p)) \in {"io", "denied", "invalid"} BY DEF Make!Failure
<1>4. QED BY <1>1, <1>2, <1>3

\* A level of the path, and what the tree says of it.
LEMMA LevelOf ==
  ASSUME NEW p \in Seq(STRING), NEW q \in Seq(Seq(STRING)), Make!Upwards(q, p), NEW i \in DOMAIN q
  PROVE  /\ q[i] \in Seq(STRING) /\ q[i] # << >> /\ Len(q[i]) = Len(p) - i + 1 /\ i \in 1..Len(p)
         /\ i = 1 => q[i] = p
         /\ Make!Front(q[i]) = SubSeq(p, 1, Len(p) - i)
         /\ \A t : Make!Tree(t) /\ p \in DOMAIN t => q[i] \in DOMAIN t /\ (t[q[i]] = "dir" \/ q[i] = p)
<1> DEFINE l == q[i]
<1>1. i \in 1..Len(p) /\ Len(p) \in Nat /\ l = SubSeq(p, 1, Len(p) - i + 1) BY DEF Make!Upwards
<1> HIDE DEF l
<1>2. l \in Seq(STRING) /\ Len(l) = Len(p) - i + 1 BY <1>1
<1>3. l # << >> BY <1>1, <1>2
<1>4. i = 1 => l = p BY <1>1
<1>5. Make!Front(l) = SubSeq(p, 1, Len(p) - i)
  <2>1. Make!Front(l) = SubSeq(l, 1, Len(l) - 1) BY <1>2, <1>3, FrontOf
  <2>2. QED BY <1>1, <1>2, <2>1
<1>6. ASSUME NEW t, Make!Tree(t), p \in DOMAIN t PROVE l \in DOMAIN t /\ (t[l] = "dir" \/ l = p)
  <2>1. CASE i = 1 BY <1>4, <1>6, <2>1
  <2>2. CASE i # 1
    <3>1. Len(p) - i + 1 \in 0..(Len(p) - 1) BY <1>1, <2>2
    <3>2. QED BY <1>1, <1>6, <3>1 DEF Make!Tree
  <2>3. QED BY <2>1, <2>2
<1>7. QED BY <1>1, <1>2, <1>3, <1>4, <1>5, <1>6 DEF l

\* The last level, and the levels without it.
LEMMA LastLevel ==
  ASSUME NEW p \in Seq(STRING), NEW q \in Seq(Seq(STRING)), Make!Upwards(q, p), q # << >>
  PROVE  LET n == Len(q) l == q[n]
         IN  /\ Make!Last(q) = l /\ n \in DOMAIN q /\ n \in Nat \ {0}
             /\ Make!Front(q) \in Seq(Seq(STRING)) /\ Len(Make!Front(q)) = n - 1 /\ Make!Upwards(Make!Front(q), p)
             /\ \A i \in 1..(n - 1) : Make!Front(q)[i] = q[i]
             /\ Make!Front(q) = << >> => l = p
             /\ \A t : Make!NoFile(q, n - 1, t) => Make!NoFile(Make!Front(q), n - 1, t)
             /\ \A t : Make!NoFile(q, n - 1, t) /\ (l \in DOMAIN t => t[l] # "file") => Make!NoFile(q, n, t)
<1> DEFINE n == Len(q)  r == Make!Front(q)
<1>1. n \in Nat \ {0} /\ DOMAIN q = 1..n OBVIOUS
<1>2. r \in Seq(Seq(STRING)) /\ Len(r) = n - 1 /\ r = SubSeq(q, 1, n - 1) BY FrontOf
<1> HIDE DEF r
<1>3. DOMAIN r = 1..(n - 1) BY <1>1, <1>2
<1>4. \A i \in 1..(n - 1) : r[i] = q[i] /\ i \in DOMAIN q BY <1>1, <1>2
<1>5. Make!Last(q) = q[n] BY DEF Make!Last
<1>6. Make!Upwards(r, p)
  <2>1. \A i \in DOMAIN r : r[i] = SubSeq(p, 1, Len(p) - i + 1) BY <1>3, <1>4 DEF Make!Upwards
  <2>2. Len(r) <= Len(p) BY <1>1, <1>2 DEF Make!Upwards
  <2>3. QED BY <2>1, <2>2 DEF Make!Upwards
<1>7. r = << >> => q[n] = p
  <2>1. ASSUME r = << >> PROVE n = 1
    <3>1. Len(r) = 0 BY <2>1
    <3>2. QED BY <1>1, <1>2, <3>1
  <2>2. 1 \in DOMAIN q BY <1>1
  <2>3. q[1] = p BY <2>2, LevelOf
  <2>4. QED BY <2>1, <2>3
<1> HIDE DEF n
<1>8. \A t : Make!NoFile(q, n - 1, t) => Make!NoFile(r, n - 1, t) BY <1>4 DEF Make!NoFile
<1>9. ASSUME NEW t, Make!NoFile(q, n - 1, t), q[n] \in DOMAIN t => t[q[n]] # "file" PROVE Make!NoFile(q, n, t)
  <2>1. \A i \in 1..n : i = n \/ i \in 1..(n - 1) BY <1>1
  <2>2. QED BY <1>9, <2>1 DEF Make!NoFile
<1>10. QED BY <1>1, <1>2, <1>4, <1>5, <1>6, <1>7, <1>8, <1>9 DEF n, r

\* The next point of a call, or its return.
LEMMA MkGoes ==
  ASSUME Make!MkDirInv, NEW label \in {"idle", "exists", "stat", "make", "create"}, NEW levels \in Seq(Seq(STRING)),
         NEW result \in {"none", "success", "io", "denied", "invalid"}, Make!MkTo(label, levels, result),
         s4.target # << >>, Make!Tree(s2')
  PROVE  /\ s1' = s1 /\ s4'.at = label /\ s4'.levels = levels /\ s4'.result = result
         /\ s4'.target = s4.target /\ s4'.hurt = s4.hurt
         /\ s4'.there <=> Make!DirIn(s2', s4.target)
         /\ Make!LevelsInv(s4', s2') /\ Make!MkDirSound' => Make!MkDirInv'
<1> DEFINE there == s4.target \in DOMAIN s2' /\ s2'[s4.target] # "file"
<1>1. /\ s4' = [s4 EXCEPT !.at = label, !.levels = levels, !.result = result, !.there = there]
      /\ s1' = s1
  BY DEF Make!MkTo
<1>2. there \in BOOLEAN OBVIOUS
<1> HIDE DEF there
<1>3. /\ s4' \in Make!MkCall
      /\ s4'.at = label /\ s4'.levels = levels /\ s4'.result = result
      /\ s4'.target = s4.target /\ s4'.hurt = s4.hurt /\ s4'.there = there
  BY <1>1, <1>2 DEF Make!MkDirInv, Make!MkCall
<1>4. Make!LevelsInv(s4', s2') /\ Make!MkDirSound' => Make!MkDirInv'
  BY <1>1, <1>3 DEF Make!MkDirInv
<1>5. QED BY <1>1, <1>3, <1>4 DEF there, Make!DirIn

\* A call that returns: its result tells whether the target is there.
LEMMA MkReturns ==
  ASSUME Make!MkDirInv, NEW result \in {"success", "io", "denied", "invalid"}, Make!MkTo("idle", << >>, result),
         s4.target # << >>, Make!Tree(s2'),
         s4.hurt \/ (result = "success" <=> Make!DirIn(s2', s4.target))
  PROVE  Make!MkDirInv'
<1>1. << >> \in Seq(Seq(STRING)) OBVIOUS
<1>2. /\ s4'.at = "idle" /\ s4'.result = result /\ s4'.hurt = s4.hurt
      /\ s4'.there <=> Make!DirIn(s2', s4.target)
      /\ Make!LevelsInv(s4', s2') /\ Make!MkDirSound' => Make!MkDirInv'
  BY <1>1, MkGoes
<1>3. QED BY <1>2 DEF Make!LevelsInv, Make!MkDirSound, Make!Truthful

\* A call that goes on.
LEMMA MkContinues ==
  ASSUME Make!MkDirInv, NEW label \in {"exists", "stat", "make"}, NEW levels \in Seq(Seq(STRING)),
         Make!MkTo(label, levels, "none"), s4.target # << >>, Make!Tree(s2'),
         label \in {"stat", "make"} => Make!Upwards(levels, s4.target),
         label = "stat" => levels # << >> /\ (s4.hurt \/ Make!NoFile(levels, Len(levels) - 1, s2')),
         label = "make" => s4.hurt \/ (/\ Make!NoFile(levels, Len(levels), s2')
                                       /\ levels = << >> => Make!DirIn(s2', s4.target))
  PROVE  Make!MkDirInv'
<1>1. /\ s4'.at = label /\ s4'.levels = levels /\ s4'.hurt = s4.hurt /\ s4'.target = s4.target
      /\ Make!LevelsInv(s4', s2') /\ Make!MkDirSound' => Make!MkDirInv'
  BY MkGoes
<1>2. QED BY <1>1 DEF Make!LevelsInv, Make!MkDirSound, Make!Truthful

\* Making what mkdir may make.
LEMMA MadeHere ==
  ASSUME Make!Tree(s2), NEW p \in Seq(STRING), p # << >>, Make!Errno(p) = "ok", s2' = Make!Put(p, "dir")
  PROVE  /\ Make!Tree(s2') /\ p \in DOMAIN s2' /\ s2'[p] = "dir"
         /\ \A q \in DOMAIN s2 : q \in DOMAIN s2' /\ s2'[q] = s2[q]
         /\ \A q \in DOMAIN s2' : q # p => q \in DOMAIN s2
<1>1. p \notin DOMAIN s2 BY ErrnoTells
<1>2. Make!Front(p) \in DOMAIN s2 /\ s2[Make!Front(p)] = "dir" BY ErrnoTells
<1> DEFINE u == [q \in DOMAIN s2 \cup {p} |-> IF q = p THEN "dir" ELSE s2[q]]
<1>3. s2' = u BY DEF Make!Put
<1>4. DOMAIN u = DOMAIN s2 \cup {p} /\ u[p] = "dir" /\ \A q \in DOMAIN s2 : u[q] = s2[q] BY <1>1
<1> HIDE DEF u
<1>5. Make!Tree(u) BY <1>1, <1>2, <1>4, TreeGrows
<1>6. QED BY <1>3, <1>4, <1>5

\* A plain mkdir: it ends the call, or the target is there, or its parent is missing.
LEMMA MkTryStep == ASSUME Make!MkDirInv, Make!PosixMkTry PROVE Make!MkDirInv'
<1> DEFINE p == s4.target  e == Make!Errno(p)
<1>1. /\ p \in Seq(STRING) /\ p # << >> /\ Make!Tree(s2)
      /\ s2' = IF e = "ok" THEN Make!Put(p, "dir") ELSE s2
  BY DEF Make!MkCall, Make!MkDirInv, Make!PosixMkTry
<1>2. e = "EEXIST" <=> p \in DOMAIN s2 BY <1>1, ErrnoTells
<1>3. Make!Tree(s2') BY <1>1, MadeHere
<1>4. << >> \in Seq(Seq(STRING)) /\ <<p>> \in Seq(Seq(STRING)) BY <1>1
<1>5. CASE e = "ok"
  <2>1. Make!MkTo("idle", << >>, "success") BY <1>5 DEF Make!PosixMkTry
  <2>2. Make!DirIn(s2', p) BY <1>1, <1>5, MadeHere DEF Make!DirIn
  <2>3. QED BY <1>1, <1>3, <2>1, <2>2, MkReturns
<1>6. CASE e = "EEXIST"
  <2>1. Make!MkTo("exists", << >>, "none") BY <1>6 DEF Make!PosixMkTry
  <2>2. QED BY <1>1, <1>3, <1>4, <2>1, MkContinues
<1>7. CASE e = "ENOENT"
  <2>1. Make!MkTo("stat", <<p>>, "none") BY <1>7 DEF Make!PosixMkTry
  <2>2. Len(p) \in Nat \ {0} /\ SubSeq(p, 1, Len(p)) = p /\ <<p>> # << >> /\ Len(<<p>>) = 1 BY <1>1
  <2>3. Make!Upwards(<<p>>, p) BY <2>2 DEF Make!Upwards
  <2>4. Make!NoFile(<<p>>, Len(<<p>>) - 1, s2') BY <2>2 DEF Make!NoFile
  <2>5. QED BY <1>1, <1>3, <1>4, <2>1, <2>2, <2>3, <2>4, MkContinues
<1>8. CASE e \notin {"ok", "EEXIST", "ENOENT"}
  <2>1. Make!MkTo("idle", << >>, Make!Failure(e)) BY <1>8 DEF Make!PosixMkTry
  <2>2. Make!Failure(e) \in {"io", "denied", "invalid"} BY <1>1, ErrnoTells
  <2>3. ~Make!DirIn(s2', p) BY <1>1, <1>2, <1>8 DEF Make!DirIn
  <2>4. QED BY <1>1, <1>3, <2>1, <2>2, <2>3, MkReturns
<1>9. QED BY <1>5, <1>6, <1>7, <1>8

\* What stat finds at the target ends the call.
LEMMA MkExistsStep == ASSUME Make!MkDirInv, Make!PosixMkExists PROVE Make!MkDirInv'
<1> DEFINE p == s4.target
<1>1. /\ p # << >> /\ Make!Tree(s2) /\ s2' = s2
      /\ Make!MkTo("idle", << >>, IF Make!IsDir(p) THEN "success" ELSE "invalid")
  BY DEF Make!MkDirInv, Make!PosixMkExists
<1>2. Make!IsDir(p) <=> Make!DirIn(s2', p)
  BY <1>1 DEF Make!IsDir, Make!Exists, Make!Tree, Make!DirIn
<1>3. QED BY <1>1, <1>2, MkReturns

\* The levels with one more.
LEMMA LevelAdded ==
  ASSUME NEW S, NEW q \in Seq(S), NEW up \in S
  PROVE  LET r == Append(q, up)
         IN  /\ r \in Seq(S) /\ r # << >> /\ Len(r) = Len(q) + 1 /\ DOMAIN r = 1..(Len(q) + 1)
             /\ r[Len(q) + 1] = up /\ \A i \in 1..Len(q) : r[i] = q[i]
<1> DEFINE r == Append(q, up)
<1>1. r \in Seq(S) /\ Len(r) = Len(q) + 1 /\ Len(q) \in Nat OBVIOUS
<1>2. r[Len(q) + 1] = up OBVIOUS
<1>3. \A i \in 1..Len(q) : r[i] = q[i] OBVIOUS
<1> HIDE DEF r
<1>4. DOMAIN r = 1..(Len(q) + 1) /\ r # << >> BY <1>1
<1>5. QED BY <1>1, <1>2, <1>3, <1>4 DEF r

\* stat of a level: the way up begins below the first that is a directory.
LEMMA MkStatStep == ASSUME Make!MkDirInv, Make!PosixMkStat PROVE Make!MkDirInv'
<1> DEFINE p == s4.target  q == s4.levels  n == Len(q)  level == q[n]
<1>1. /\ p # << >> /\ p \in Seq(STRING) /\ Make!Tree(s2) /\ s2' = s2
      /\ q \in Seq(Seq(STRING)) /\ q # << >> /\ Make!Upwards(q, p)
      /\ s4.hurt \/ Make!NoFile(q, n - 1, s2)
  BY DEF Make!MkCall, Make!MkDirInv, Make!PosixMkStat, Make!LevelsInv
<1>2. /\ Make!Last(q) = level /\ n \in DOMAIN q /\ n \in Nat \ {0}
      /\ Make!Front(q) \in Seq(Seq(STRING)) /\ Len(Make!Front(q)) = n - 1 /\ Make!Upwards(Make!Front(q), p)
      /\ Make!Front(q) = << >> => level = p
      /\ Make!NoFile(q, n - 1, s2) => Make!NoFile(Make!Front(q), n - 1, s2)
      /\ Make!NoFile(q, n - 1, s2) /\ (level \in DOMAIN s2 => s2[level] # "file") => Make!NoFile(q, n, s2)
  BY <1>1, LastLevel
<1>3. /\ level \in Seq(STRING) /\ level # << >> /\ Len(level) = Len(p) - n + 1 /\ n \in 1..Len(p)
      /\ Make!Front(level) = SubSeq(p, 1, Len(p) - n)
      /\ p \in DOMAIN s2 => level \in DOMAIN s2 /\ (s2[level] = "dir" \/ level = p)
  <2> HIDE DEF p, q, n
  <2>1. /\ q[n] \in Seq(STRING) /\ q[n] # << >> /\ Len(q[n]) = Len(p) - n + 1 /\ n \in 1..Len(p)
        /\ Make!Front(q[n]) = SubSeq(p, 1, Len(p) - n)
        /\ \A t : Make!Tree(t) /\ p \in DOMAIN t => q[n] \in DOMAIN t /\ (t[q[n]] = "dir" \/ q[n] = p)
    BY <1>1, <1>2, LevelOf
  <2>2. QED BY <1>1, <2>1
<1>4. /\ Make!IsDir(level) <=> level \in DOMAIN s2 /\ s2[level] # "file"
      /\ Make!Exists(level) <=> level \in DOMAIN s2
  BY <1>1 DEF Make!IsDir, Make!Exists, Make!Tree
<1>5. CASE Make!Exists(level) /\ Make!IsDir(level)
  <2>1. Make!MkTo("make", Make!Front(q), "none") BY <1>2, <1>5 DEF Make!PosixMkStat
  <2>2. Make!Front(q) = << >> => Make!DirIn(s2', p) BY <1>1, <1>2, <1>4, <1>5 DEF Make!DirIn
  <2>3. s4.hurt \/ Make!NoFile(Make!Front(q), Len(Make!Front(q)), s2') BY <1>1, <1>2
  <2> HIDE DEF q, n, level
  <2>4. QED BY <1>1, <1>2, <2>1, <2>2, <2>3, MkContinues
<1>6. CASE Make!Exists(level) /\ ~Make!IsDir(level)
  <2>1. Make!MkTo("idle", << >>, "invalid") BY <1>2, <1>6 DEF Make!PosixMkStat
  <2>2. ~Make!DirIn(s2', p) BY <1>1, <1>3, <1>4, <1>6 DEF Make!DirIn
  <2>3. QED BY <1>1, <2>1, <2>2, MkReturns
<1>7. CASE ~Make!Exists(level) /\ Len(level) = 1
  <2>1. Make!MkTo("make", q, "none") BY <1>2, <1>7 DEF Make!PosixMkStat
  <2>2. s4.hurt \/ Make!NoFile(q, n, s2') BY <1>1, <1>2, <1>4, <1>7
  <2>3. QED BY <1>1, <2>1, <2>2, MkContinues
<1>8. CASE ~Make!Exists(level) /\ Len(level) # 1
  <2> DEFINE up == Make!Front(level)  r == Append(q, up)
  <2>1. Make!MkTo("stat", r, "none") BY <1>2, <1>8 DEF Make!PosixMkStat
  <2>2. up \in Seq(STRING) BY <1>3, FrontOf
  <2> HIDE DEF up, level
  <2>3. r \in Seq(Seq(STRING)) /\ r # << >> /\ Len(r) = n + 1 /\ DOMAIN r = 1..(n + 1)
        /\ r[n + 1] = up /\ \A i \in 1..n : r[i] = q[i]
    <3> HIDE DEF p, q
    <3>1. up \in Seq(STRING) /\ q \in Seq(Seq(STRING)) BY <1>1, <2>2
    <3>2. QED BY <3>1, LevelAdded
  <2>4. n + 1 <= Len(p) BY <1>1, <1>2, <1>3, <1>8
  <2> HIDE DEF r
  <2>5. \A i \in DOMAIN r : r[i] = SubSeq(p, 1, Len(p) - i + 1)
    <3>1. \A i \in DOMAIN q : q[i] = SubSeq(p, 1, Len(p) - i + 1) BY <1>1 DEF Make!Upwards
    <3>2. DOMAIN q = 1..n BY <1>1
    <3>3. Len(p) - (n + 1) + 1 = Len(p) - n BY <1>1, <1>2
    <3>4. r[n + 1] = SubSeq(p, 1, Len(p) - (n + 1) + 1) BY <1>3, <2>3, <3>3 DEF up
    <3> HIDE DEF p, q, n
    <3>5. ASSUME NEW i \in DOMAIN r PROVE i = n + 1 \/ i \in 1..n BY <1>2, <2>3
    <3>6. QED BY <2>3, <3>1, <3>2, <3>4, <3>5
  <2>6. Make!Upwards(r, p) BY <2>3, <2>4, <2>5 DEF Make!Upwards
  <2>7. s4.hurt \/ Make!NoFile(q, n, s2) BY <1>1, <1>2, <1>4, <1>8
  <2>8. s4.hurt \/ Make!NoFile(r, Len(r) - 1, s2')
    <3>1. Len(r) - 1 = n BY <1>2, <2>3
    <3>2. QED BY <1>1, <2>3, <2>7, <3>1 DEF Make!NoFile
  <2>9. QED BY <1>1, <2>1, <2>3, <2>6, <2>8, MkContinues
<1>9. QED BY <1>5, <1>6, <1>7, <1>8

\* mkdir of a level: made by this call or, unless something got in the way, another's directory.
LEMMA MkLevelStep == ASSUME Make!MkDirInv, Make!PosixMkLevel PROVE Make!MkDirInv'
<1> DEFINE p == s4.target  q == s4.levels  n == Len(q)  level == q[n]  e == Make!Errno(level)
<1>1. /\ p # << >> /\ p \in Seq(STRING) /\ Make!Tree(s2)
      /\ q \in Seq(Seq(STRING)) /\ q # << >> /\ Make!Upwards(q, p)
      /\ s4.hurt \/ Make!NoFile(q, n, s2)
  BY DEF Make!MkCall, Make!MkDirInv, Make!PosixMkLevel, Make!LevelsInv
<1>2. /\ Make!Last(q) = level /\ n \in DOMAIN q /\ n \in Nat \ {0}
      /\ Make!Front(q) \in Seq(Seq(STRING)) /\ Len(Make!Front(q)) = n - 1 /\ Make!Upwards(Make!Front(q), p)
      /\ \A i \in 1..(n - 1) : Make!Front(q)[i] = q[i]
      /\ Make!Front(q) = << >> => level = p
  BY <1>1, LastLevel
<1>3. level \in Seq(STRING) /\ level # << >> /\ (p \in DOMAIN s2 => level \in DOMAIN s2)
  <2> HIDE DEF p, q, n
  <2>1. /\ q[n] \in Seq(STRING) /\ q[n] # << >>
        /\ \A t : Make!Tree(t) /\ p \in DOMAIN t => q[n] \in DOMAIN t
    BY <1>1, <1>2, LevelOf
  <2>2. QED BY <1>1, <2>1
<1>4. (e = "EEXIST" <=> level \in DOMAIN s2) /\ Make!Failure(e) \in {"io", "denied", "invalid"}
  BY <1>1, <1>3, ErrnoTells
<1>5. s2' = IF e = "ok" THEN Make!Put(level, "dir") ELSE s2 BY <1>2 DEF Make!PosixMkLevel
<1>6. e = "ok" => /\ Make!Tree(s2') /\ level \in DOMAIN s2' /\ s2'[level] = "dir"
                  /\ \A r \in DOMAIN s2 : r \in DOMAIN s2' /\ s2'[r] = s2[r]
                  /\ \A r \in DOMAIN s2' : r # level => r \in DOMAIN s2
  BY <1>1, <1>3, <1>5, MadeHere
<1>7. Make!Tree(s2') BY <1>1, <1>5, <1>6
<1>8. CASE e \notin {"ok", "EEXIST"}
  <2>1. Make!MkTo("idle", << >>, Make!Failure(e)) BY <1>2, <1>8 DEF Make!PosixMkLevel
  <2>2. ~Make!DirIn(s2', p) BY <1>3, <1>4, <1>5, <1>8 DEF Make!DirIn
  <2>3. QED BY <1>1, <1>4, <1>7, <2>1, <2>2, MkReturns
<1>9. CASE e \in {"ok", "EEXIST"}
  <2>1. Make!MkTo("make", Make!Front(q), "none") BY <1>2, <1>9 DEF Make!PosixMkLevel
  <2>2. Make!NoFile(q, n, s2) => Make!NoFile(q, n, s2')
    <3> HIDE DEF q, n, level, e
    <3>1. CASE e = "ok" BY <1>6, <3>1 DEF Make!NoFile
    <3>2. CASE e # "ok" BY <1>5, <3>2
    <3>3. QED BY <3>1, <3>2
  <2>3. level \in DOMAIN s2' BY <1>4, <1>5, <1>6, <1>9
  <2>4. s4.hurt \/ s2'[level] # "file"
    <3>1. n \in 1..n BY <1>2
    <3> HIDE DEF n
    <3>2. QED BY <1>1, <2>2, <2>3, <3>1 DEF Make!NoFile
  <2>5. Make!Front(q) = << >> => s4.hurt \/ Make!DirIn(s2', p) BY <1>2, <2>3, <2>4 DEF Make!DirIn
  <2>6. s4.hurt \/ Make!NoFile(Make!Front(q), Len(Make!Front(q)), s2')
    <3> HIDE DEF q, n
    <3>1. \A i \in 1..(n - 1) : i \in 1..n BY <1>2
    <3>2. QED BY <1>1, <1>2, <2>2, <3>1 DEF Make!NoFile
  <2> HIDE DEF q, n, level, e
  <2>7. QED BY <1>1, <1>2, <1>7, <2>1, <2>5, <2>6, MkContinues
<1>10. QED BY <1>8, <1>9

\* With no level left the call reports success.
LEMMA MkDoneStep == ASSUME Make!MkDirInv, Make!PosixMkDone PROVE Make!MkDirInv'
<1>1. /\ s4.target # << >> /\ Make!Tree(s2) /\ s2' = s2 /\ Make!MkTo("idle", << >>, "success")
      /\ s4.hurt \/ Make!DirIn(s2, s4.target)
  BY DEF Make!MkDirInv, Make!PosixMkDone, Make!LevelsInv
<1>2. s4.hurt \/ Make!DirIn(s2', s4.target) BY <1>1 DEF Make!DirIn
<1>3. QED BY <1>1, <1>2, MkReturns

\* A call begins.
LEMMA MkDirStep ==
  ASSUME DiskAssumption, Make!MkDirInv, NEW p \in Targets, Make!PosixMkDir(p) \/ Make!WinMkDir(p)
  PROVE  Make!MkDirInv'
<1>1. p \in Seq(STRING) /\ p # << >> BY DEF DiskAssumption
<1>2. PICK label \in {"try", "look"} : Make!MkStart(p, label) BY DEF Make!PosixMkDir, Make!WinMkDir
<1>3. /\ s4' = [s4 EXCEPT !.target = p, !.levels = << >>, !.hurt = FALSE, !.at = label, !.result = "none"]
      /\ s1' = s1 /\ s2' = s2 /\ << >> \in Seq(Seq(STRING))
  BY <1>2 DEF Make!MkStart
<1>4. /\ s4' \in Make!MkCall
      /\ s4'.at = label /\ s4'.target = p
  BY <1>1, <1>3 DEF Make!MkDirInv, Make!MkCall
<1>5. QED BY <1>1, <1>3, <1>4 DEF Make!MkDirInv, Make!LevelsInv, Make!MkDirSound, Make!Truthful

\* On win32 nothing is claimed of the answer; the disk stays a tree.
LEMMA WinMkStep == ASSUME Make!MkDirInv, Make!WinMkLook \/ Make!WinMkCreate PROVE Make!MkDirInv'
<1>1. /\ s4.target \in Seq(STRING) /\ s4.target # << >> /\ Make!Tree(s2) /\ s1 = "win32"
      /\ << >> \in Seq(Seq(STRING))
  BY DEF Make!MkCall, Make!MkDirInv, Make!WinMkLook, Make!WinMkCreate
<1>2. Make!Tree(s2') BY <1>1, MadeHere DEF Make!WinMkLook, Make!WinMkCreate
<1>3. PICK label \in {"idle", "create"}, result \in {"none", "success", "io", "invalid"} :
        Make!MkTo(label, << >>, result)
  BY DEF Make!WinMkLook, Make!WinMkCreate
<1>4. /\ s1' = "win32" /\ s4'.at = label
      /\ Make!LevelsInv(s4', s2') /\ Make!MkDirSound' => Make!MkDirInv'
  BY <1>1, <1>2, <1>3, MkGoes
<1>5. QED BY <1>4 DEF Make!LevelsInv, Make!MkDirSound

\* The disk without a leaf.
LEMMA LeafLess ==
  ASSUME Make!Tree(s2), NEW p \in Seq(STRING), p # << >>, Make!Kids(p) = {}, s2' = Make!Less(p)
  PROVE  Make!Tree(s2')
<1>1. \A q \in DOMAIN s2 : q # << >> => Make!Front(q) # p BY DEF Make!Kids
<1>2. s2' = [q \in DOMAIN s2 \ {p} |-> s2[q]] BY DEF Make!Less
<1>3. QED BY <1>1, <1>2, TreeShrinks

\* vlFSPathRemove, between calls.
LEMMA RemoveStep ==
  ASSUME DiskAssumption, Make!MkDirInv, NEW p \in Targets, Make!PosixRemove(p) \/ Make!WinRemove(p)
  PROVE  Make!MkDirInv'
<1>1. /\ p \in Seq(STRING) /\ p # << >> /\ s4.at = "idle" /\ s4' = s4 /\ s1' = s1
      /\ s2' = IF Make!Exists(p) /\ Make!Kids(p) = {} THEN Make!Less(p) ELSE s2
  BY DEF DiskAssumption, Make!PosixRemove, Make!WinRemove, Make!Removed
<1>2. Make!Tree(s2') BY <1>1, LeafLess DEF Make!MkDirInv
<1>3. QED BY <1>1, <1>2 DEF Make!MkDirInv, Make!LevelsInv, Make!MkDirSound, Make!Truthful

\* The other process: what a call was told stays true of levels that are directories, unless
\* that process removes something or makes a file.
LEMMA NoiseStep ==
  ASSUME DiskAssumption, Make!MkDirInv, NEW p \in Targets, NEW kind \in {"dir", "file", "none"}, Make!Noise(p, kind)
  PROVE  Make!MkDirInv'
<1> DEFINE hurt == s4.hurt \/ (s4.at # "idle" /\ kind # "dir")
<1>1. /\ p \in Seq(STRING) /\ p # << >> /\ s1' = s1 /\ s4' = [s4 EXCEPT !.hurt = hurt]
      /\ kind = "none" => Make!Kids(p) = {} /\ s2' = Make!Less(p)
      /\ kind # "none" => /\ p \notin DOMAIN s2 /\ Make!Front(p) \in DOMAIN s2 /\ s2[Make!Front(p)] = "dir"
                          /\ s2' = Make!Put(p, kind)
  BY DEF DiskAssumption, Make!Noise, Make!Exists
<1>2. hurt \in BOOLEAN BY DEF Make!MkDirInv, Make!MkCall
<1> HIDE DEF hurt
<1>3. /\ s4' \in Make!MkCall
      /\ s4'.at = s4.at /\ s4'.levels = s4.levels /\ s4'.target = s4.target /\ s4'.result = s4.result
      /\ s4'.there = s4.there /\ s4'.hurt = hurt
  BY <1>1, <1>2 DEF Make!MkDirInv, Make!MkCall
<1> DEFINE u == [q \in DOMAIN s2 \cup {p} |-> IF q = p THEN kind ELSE s2[q]]
<1>4. kind # "none" => s2' = u BY <1>1 DEF Make!Put
<1>5. kind # "none" => DOMAIN u = DOMAIN s2 \cup {p} /\ u[p] = kind /\ \A q \in DOMAIN s2 : u[q] = s2[q]
  BY <1>1
<1> HIDE DEF u
<1>6. kind # "none" => Make!Tree(u)
  <2>1. SUFFICES ASSUME kind # "none" PROVE Make!Tree(u) OBVIOUS
  <2>2. /\ kind \in {"dir", "file"} /\ Make!Tree(s2) /\ p \in Seq(STRING) /\ p # << >> /\ p \notin DOMAIN s2
        /\ Make!Front(p) \in DOMAIN s2 /\ s2[Make!Front(p)] = "dir"
    BY <1>1, <2>1 DEF Make!MkDirInv
  <2>3. QED BY <1>5, <2>1, <2>2, TreeGrows
<1>7. Make!Tree(s2') BY <1>1, <1>4, <1>6, LeafLess DEF Make!MkDirInv
<1>8. s1 = "posix" => Make!LevelsInv(s4', s2')
  <2>1. CASE s4.at \notin {"stat", "make"} BY <1>3, <2>1 DEF Make!LevelsInv
  <2>2. CASE s4.at \in {"stat", "make"} /\ kind # "dir"
    <3>1. s4'.hurt BY <1>3, <2>2 DEF hurt
    <3>2. QED BY <1>3, <3>1 DEF Make!MkDirInv, Make!LevelsInv
  <2>3. CASE s4.at \in {"stat", "make"} /\ kind = "dir"
    <3>1. s4'.hurt = s4.hurt BY <1>3, <2>3 DEF hurt, Make!MkDirInv, Make!MkCall
    <3>2. \A n : Make!NoFile(s4.levels, n, s2) => Make!NoFile(s4.levels, n, s2')
      BY <1>4, <1>5, <2>3 DEF Make!NoFile
    <3>3. Make!DirIn(s2, s4.target) => Make!DirIn(s2', s4.target)
      BY <1>4, <1>5, <2>3 DEF Make!DirIn
    <3>4. QED BY <1>3, <3>1, <3>2, <3>3 DEF Make!MkDirInv, Make!LevelsInv
  <2>4. QED BY <2>1, <2>2, <2>3
<1>9. s1 = "posix" => Make!MkDirSound'
  BY <1>1, <1>3 DEF hurt, Make!MkDirInv, Make!MkDirSound, Make!Truthful
<1>10. QED BY <1>1, <1>3, <1>7, <1>8, <1>9 DEF Make!MkDirInv

\* At first no call is under way.
LEMMA DiskStart == ASSUME DiskAssumption, Make!DiskInit PROVE Make!MkDirInv
<1>1. Make!Tree(s2) BY DEF DiskAssumption, Make!DiskInit
<1>2. << >> \in Seq(Seq(STRING)) /\ << >> \in Seq(STRING) OBVIOUS
<1>3. QED
  BY <1>1, <1>2
  DEF Make!DiskInit, Make!MkDirInv, Make!MkCall, Make!LevelsInv, Make!MkDirSound, Make!Truthful

\* Every step of the disk, or none.
LEMMA DiskStep == ASSUME DiskAssumption, Make!MkDirInv, Make!DiskNext PROVE Make!MkDirInv'
<1>1. ASSUME UNCHANGED <<s1, s2, s4>> PROVE Make!MkDirInv'
  BY <1>1 DEF Make!MkDirInv, Make!MkDirSound, Make!Truthful
<1>2. ASSUME NEW p \in Targets, NEW kind \in {"dir", "file", "none"}, Make!Noise(p, kind) PROVE Make!MkDirInv'
  BY <1>2, NoiseStep
<1>3. ASSUME NEW p \in Targets,
             \/ Make!PosixMkDir(p) \/ Make!WinMkDir(p) \/ Make!PosixRemove(p) \/ Make!WinRemove(p)
             \/ Make!PosixStatPath(p) \/ Make!WinStatPath(p)
      PROVE  Make!MkDirInv'
  BY <1>1, <1>3, MkDirStep, RemoveStep DEF Make!PosixStatPath, Make!WinStatPath, Make!StatTo
<1>4. CASE Make!PosixMkTry \/ Make!PosixMkExists \/ Make!PosixMkStat \/ Make!PosixMkLevel \/ Make!PosixMkDone
  BY <1>4, MkTryStep, MkExistsStep, MkStatStep, MkLevelStep, MkDoneStep
<1>8. CASE Make!WinMkLook \/ Make!WinMkCreate BY <1>8, WinMkStep
<1>5. CASE \/ Make!IterNew \/ Make!PosixIterDelete \/ Make!WinIterDelete \/ Make!PosixStatIter \/ Make!WinStatIter
           \/ Make!PathNew \/ Make!PathDelete
  BY <1>1, <1>5 DEF Make!IterNew, Make!PosixIterDelete, Make!WinIterDelete, Make!IterDelete, Make!PosixStatIter,
     Make!WinStatIter, Make!StatTo, Make!PathNew, Make!PathDelete
<1>6. ASSUME NEW s, Make!PosixNext(s) \/ Make!WinNext(s) PROVE Make!MkDirInv'
  BY <1>1, <1>6 DEF Make!PosixNext, Make!WinNext, Make!Step
<1>7. QED BY <1>2, <1>3, <1>4, <1>5, <1>6, <1>8 DEF Make!DiskNext

\* The invariant is made of the answer on POSIX; on win32 nothing is claimed.
LEMMA MkDirFollows == Make!MkDirInv => Make!MkDirSound
BY DEF Make!MkDirInv, Make!MkDirSound

----------------------------------------------------------------------------
(* All the shared parts.  subject does not change, so each part's invariant *)
(* is kept by that part's steps.                                            *)

SharedInv ==
    /\ subject = "stream" => Str!StreamInv
    /\ subject = "thread" => Thr!ThreadInv
    /\ subject = "sync" => Syn!SyncInv
    /\ subject = "global" => Glob!GlobalInv
    /\ subject = "simd" => Simd!SimdInv
    /\ subject = "socket" => Sock!SocketsInv
    /\ subject = "make" => Make!MkDirInv

\* Every part starts in order.
LEMMA SharedStart == SharedInit => SharedInv
BY StreamStart, ThreadStart, SyncStart, GlobalStart, SimdStart, SocketsStart, DiskStart, DiskAssumption DEF SharedInit, SharedInv

\* A step of one part, or none, keeps it in order.
LEMMA SharedStep == SharedInv /\ [SharedNext]_state => SharedInv'
<1> SUFFICES ASSUME SharedInv, [SharedNext]_state PROVE SharedInv' OBVIOUS
<1>1. CASE subject = "stream" /\ Str!StreamNext /\ subject' = subject
  BY <1>1, StreamStep DEF SharedInv
<1>2. CASE subject = "thread" /\ Thr!ThreadNext /\ subject' = subject
  BY <1>2, ThreadStep DEF SharedInv
<1>3. CASE subject = "sync" /\ Syn!SyncNext /\ subject' = subject
  BY <1>3, SyncStep DEF SharedInv
<1>4. CASE subject = "global" /\ Glob!GlobalNext /\ subject' = subject
  BY <1>4, GlobalStep DEF SharedInv
<1>5. CASE subject = "simd" /\ Simd!SimdInitNext /\ subject' = subject
  BY <1>5, SimdStep DEF SharedInv
<1>6. CASE subject = "socket" /\ Sock!SocketsNext /\ subject' = subject
  BY <1>6, SocketStep, SharedAssumption DEF SharedInv
<1>7. CASE subject = "make" /\ Make!DiskNext /\ subject' = subject
  BY <1>7, DiskStep, DiskAssumption DEF SharedInv
<1>8. CASE UNCHANGED state
  <2>1. /\ subject' = subject /\ s1' = s1 /\ s2' = s2 /\ s3' = s3 /\ s4' = s4 /\ s5' = s5
        /\ s6' = s6 /\ s7' = s7 /\ s8' = s8 /\ s9' = s9 /\ s10' = s10
    BY <1>8 DEF state
  <2>2. subject = "stream" => Str!StreamInv'
    <3>1. ASSUME Str!StreamInv PROVE Str!StreamInv'
      <4>1. Str!Deleting' = Str!Deleting /\ Str!References' = Str!References
        BY <2>1 DEF Str!Deleting, Str!At, Str!References
      <4>2. Str!Held' = Str!Held BY <4>1 DEF Str!Held
      <4>3. QED BY <2>1, <3>1, <4>1, <4>2 DEF Str!StreamInv, Str!StreamTypes, Str!CountInv, Str!CellsInv,
                Str!Fixed, Str!End, Str!At
    <3>2. QED BY <3>1 DEF SharedInv
  <2>3. subject = "thread" => Thr!ThreadInv'
    <3>1. UNCHANGED Thr!threadVars BY <2>1 DEF Thr!threadVars
    <3>2. QED BY <3>1, ThreadStep DEF SharedInv
  <2>4. subject = "sync" => Syn!SyncInv'
    <3>1. UNCHANGED Syn!syncVars BY <2>1 DEF Syn!syncVars
    <3>2. QED BY <3>1, SyncStep DEF SharedInv
  <2>5. subject = "global" => Glob!GlobalInv'
    <3>1. (Glob!GlobalInv <=> GlobFlat(s1, s2, s3, s4, s5, s7, s8, s9, s10))' BY GlobFlatNow, PTL
    <3>2. QED BY <2>1, <3>1, GlobFlatNow DEF SharedInv
  <2>6. subject = "simd" => Simd!SimdInv'
    <3>1. ASSUME Simd!SimdInv PROVE Simd!SimdInv'
      <4>1. Simd!Choice' = Simd!Choice BY <2>1 DEF Simd!Choice, Simd!SupportsAVX2, Simd!SupportsSSE2
      <4>2. QED BY <2>1, <3>1, <4>1 DEF Simd!SimdInv, Simd!SimdTypes, Simd!Static, Simd!Entries
    <3>2. QED BY <3>1 DEF SharedInv
  <2>7. subject = "socket" => Sock!SocketsInv'
    BY <2>1 DEF SharedInv, Sock!SocketsInv
  <2>8. subject = "make" => Make!MkDirInv'
    BY <2>1 DEF SharedInv, Make!MkDirInv, Make!MkDirSound, Make!Truthful
  <2>9. QED BY <2>1, <2>2, <2>3, <2>4, <2>5, <2>6, <2>7, <2>8 DEF SharedInv
<1>9. QED BY <1>1, <1>2, <1>3, <1>4, <1>5, <1>6, <1>7, <1>8 DEF SharedNext

\* Whatever part is used, however its threads interleave, its invariant holds.
THEOREM SharedInductive == SharedSpec => []SharedInv
BY SharedStart, SharedStep, PTL DEF SharedSpec

\* The stream's count and its one close, its positions and its cells (vl_stream.c).
THEOREM StreamsAreSound == SharedSpec => []StreamSound
<1>1. SharedInv => StreamSound BY StreamInvSound DEF SharedInv, StreamSound
<1>2. QED BY <1>1, SharedInductive, PTL

\* Threads, mutexes, reader-writer locks, conditions and semaphores (vl_thread, vl_srwlock,
\* vl_condition, vl_semaphore, vl_mutex), on both platforms.  That vlThreadCurrent gives
\* each thread a record of its own is not part of it.
THEOREM PrimitivesAreSound == SharedSpec => []PrimitivesSound
<1>1. SharedInv => PrimitivesSound BY SyncInvSound DEF SharedInv, PrimitivesSound, Thr!ThreadInv
<1>2. QED BY <1>1, SharedInductive, PTL

\* The logger made by whoever needs it first (vl_log.c), and the table of functions
\* chosen by whoever asks first (vl_simd.c).
THEOREM GlobalsAreSound == SharedSpec => []GlobalSound
<1>1. SharedInv => GlobalSound BY GlobalInvSound, SimdInvSettles DEF SharedInv, GlobalSound
<1>2. QED BY <1>1, SharedInductive, PTL

\* Handles and descriptors, the bytes and the ends of streams, addresses and options of
\* the sockets (vl_socket_posix.c, vl_socket_win32.c), for any number of connections; on
\* POSIX, what vlFSPathMkDir (vl_filesys_posix.c) says, for any disk, paths and changes
\* from outside.  Nothing is said of what it returns on Windows.
THEOREM SystemIsSound == SharedSpec => []SystemSound
<1>1. SharedInv => SystemSound BY SocketsFollow, MkDirFollows DEF SharedInv, SystemSound
<1>2. QED BY <1>1, SharedInductive, PTL

===============================================================================
