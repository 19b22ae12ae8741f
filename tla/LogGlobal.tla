----------------------------- MODULE LogGlobal -----------------------------
(***************************************************************************)
(* The global logger of vl_log.c, created by the first call that needs it, *)
(* and the stream sink, which holds a reference to its stream.  Every read *)
(* of g_logger is a step of its own.  The lazily created logger writes     *)
(* synchronously, so a message reaches its sinks in one locked step.       *)
(***************************************************************************)
EXTENDS Integers, Sequences, FiniteSets, Functions

CONSTANTS
    Callers,        \* threads
    EarlyInit,      \* subset of BOOLEAN: vlLogInit is called before the threads start
    MaxCalls        \* bound of the model on calls, and on loggers

VARIABLES
    early,
    logger,         \* g_logger: 0 or an index of made
    made,           \* the loggers made: [live, sinks]
    caller,         \* thread -> [at, call]
    refs,           \* references to the stream, the owner's included
    calls,
    dropped,        \* sinks that were refused: their reference is never given back
    accepted,       \* a stream sink was accepted since the logger was made (history)
    unheard,        \* a message missed a sink that should have had it (history)
    raced           \* two threads made the logger, or one used it half made (history)

globalVars == <<early, logger, made, caller, refs, calls, dropped, accepted, unheard, raced>>

Idle == [at |-> "idle", call |-> "none"]
Go(t, at) == caller' = [caller EXCEPT ![t].at = at]
Fresh == [live |-> TRUE, sinks |-> << >>]
\* The stream sinks among sinks, by position, and those of all loggers.
StreamsOf(sinks) == {j \in DOMAIN sinks : sinks[j] = "stream"}
StreamSinks == UNION {{i} \X StreamsOf(made[i].sinks) : i \in DOMAIN made}
HalfMade == \E t \in Callers : caller[t].at = "stdout"

\* vlLogInit by the program, before the threads start, where it does so
GlobalInit ==
    /\ early \in EarlyInit
    /\ made = IF early THEN <<[live |-> TRUE, sinks |-> <<"stdout">>]>> ELSE << >>
    /\ logger = Len(made) /\ caller = [t \in Callers |-> Idle]
    /\ refs = 1 /\ calls = 0 /\ dropped = 0
    /\ accepted = FALSE /\ unheard = FALSE /\ raced = FALSE

\* A call of vlLogMessage, or of vlLogAddStreamSink, which has made its sink, and
\* retained the stream, before it asks for the logger.
Call(t, call) ==
    /\ caller[t] = Idle /\ calls < MaxCalls /\ (early => logger # 0)
    /\ calls' = calls + 1 /\ refs' = refs + IF call = "sink" THEN 1 ELSE 0
    /\ caller' = [caller EXCEPT ![t] = [at |-> IF logger = 0 THEN "init" ELSE "use", call |-> call]]
    /\ UNCHANGED <<early, logger, made, dropped, accepted, unheard, raced>>

\* vlLogInit looks again, ...
LogInit(t) ==
    /\ caller[t].at = "init" /\ Go(t, IF logger = 0 THEN "make" ELSE "use")
    /\ UNCHANGED <<early, logger, made, refs, calls, dropped, accepted, unheard, raced>>

LogMake(t) ==
    /\ caller[t].at = "make" /\ Len(made) < MaxCalls
    /\ made' = Append(made, Fresh) /\ logger' = Len(made) + 1 /\ Go(t, "stdout")
    /\ raced' = (raced \/ logger # 0) /\ accepted' = FALSE
    /\ UNCHANGED <<early, refs, calls, dropped, unheard>>

\* ... and adds the sink of the standard output to whatever g_logger is by then.
LogStdout(t) ==
    /\ caller[t].at = "stdout" /\ Go(t, "use")
    /\ made' = [made EXCEPT ![logger].sinks = <<"stdout">> \o made[logger].sinks]
    /\ UNCHANGED <<early, logger, refs, calls, dropped, accepted, unheard, raced>>

\* vlLoggerMessage: all sinks, under the logger's lock
Message(t) ==
    /\ caller[t].at = "use" /\ caller[t].call = "message"
    /\ caller' = [caller EXCEPT ![t] = Idle] /\ raced' = (raced \/ HalfMade)
    /\ LET heard == Range(made[logger].sinks)
       IN  unheard' = (unheard \/ "stdout" \notin heard \/ (accepted /\ "stream" \notin heard))
    /\ UNCHANGED <<early, logger, made, refs, calls, dropped, accepted>>

\* vlLoggerAddSink: a node that cannot be allocated refuses the sink, which nobody destroys.
AddSink(t, allocated) ==
    /\ caller[t].at = "use" /\ caller[t].call = "sink"
    /\ caller' = [caller EXCEPT ![t] = Idle] /\ raced' = (raced \/ HalfMade)
    /\ IF allocated
       THEN made' = [made EXCEPT ![logger].sinks = <<"stream">> \o made[logger].sinks] /\ accepted' = TRUE /\ UNCHANGED dropped
       ELSE dropped' = dropped + 1 /\ UNCHANGED <<made, accepted>>
    /\ UNCHANGED <<early, logger, refs, calls, unheard>>

\* Faulty variant: the sinks are freed without being destroyed.
LogShutdownKeeps ==
    /\ logger # 0 /\ \A t \in Callers : caller[t] = Idle
    /\ made' = [made EXCEPT ![logger] = [live |-> FALSE, sinks |-> << >>]]
    /\ logger' = 0 /\ accepted' = FALSE
    /\ UNCHANGED <<early, caller, refs, calls, dropped, unheard, raced>>

\* vlLogShutdown, which must not run beside other calls: vlLoggerDelete destroys every
\* sink, and a stream sink releases its stream.
LogShutdown ==
    /\ logger # 0 /\ \A t \in Callers : caller[t] = Idle
    /\ refs' = refs - Cardinality(StreamsOf(made[logger].sinks))
    /\ made' = [made EXCEPT ![logger] = [live |-> FALSE, sinks |-> << >>]]
    /\ logger' = 0 /\ accepted' = FALSE
    /\ UNCHANGED <<early, caller, calls, dropped, unheard, raced>>

GlobalNext ==
    \/ \E t \in Callers :
         \/ \E call \in {"message", "sink"} : Call(t, call)
         \/ LogInit(t) \/ LogMake(t) \/ LogStdout(t) \/ Message(t)
         \/ \E allocated \in BOOLEAN : AddSink(t, allocated)
    \/ LogShutdown

GlobalSpec == GlobalInit /\ [][GlobalNext]_globalVars

----------------------------------------------------------------------------

OnTheirWay == {t \in Callers : caller[t].call = "sink"}

\* Unless threads met while the logger was being made, there is one logger, which
\* g_logger points to, and every message reached the standard output and the streams added
\* before; they cannot meet if the program called vlLogInit first.  The stream is held by
\* its owner, by the sinks of live loggers, and by sinks on their way or refused.
GlobalSound ==
    /\ ~raced => ~unheard /\ {i \in DOMAIN made : made[i].live} = {logger} \ {0}
    /\ early => ~raced
    /\ refs = 1 + dropped + Cardinality(OnTheirWay) + Cardinality(StreamSinks)

\* vl_log.h:53 says that all logger operations are intended to be safe for concurrent use
\* and :394 that the global logger is made lazily: there is one.
OneLogger == Cardinality({i \in DOMAIN made : made[i].live}) <= 1

\* What makes GlobalSound inductive: types; a thread that is to use the logger has one; the
\* current logger has the standard output, unless somebody is about to add it, and a stream
\* if one was accepted; only threads that did not find a logger can race.
GlobalTypes ==
    /\ early \in BOOLEAN /\ accepted \in BOOLEAN /\ unheard \in BOOLEAN /\ raced \in BOOLEAN
    /\ made \in Seq([live : BOOLEAN, sinks : Seq({"stdout", "stream"})])
    /\ logger \in 0..Len(made) /\ dropped \in Nat /\ IsFiniteSet(StreamSinks)
    /\ caller \in [Callers -> [at : {"idle", "init", "make", "stdout", "use"},
                              call : {"none", "message", "sink"}]]
CallersInv ==
    \A t \in Callers :
        /\ caller[t].at \in {"stdout", "use"} => logger # 0
        /\ early => caller[t].at \in {"idle", "use"}
        /\ caller[t].at = "idle" => caller[t].call = "none"
SinksInv ==
    /\ logger # 0 => HalfMade \/ "stdout" \in Range(made[logger].sinks)
    /\ accepted => logger # 0 /\ "stream" \in Range(made[logger].sinks)
GlobalInv ==
    /\ GlobalTypes /\ CallersInv /\ SinksInv
    /\ early => ~raced
    /\ ~raced => ~unheard /\ \A i \in DOMAIN made : made[i].live <=> i = logger
    /\ refs = 1 + dropped + Cardinality(OnTheirWay) + Cardinality(StreamSinks)

============================================================================
