------------------------------ MODULE SimdInit ------------------------------
(***************************************************************************)
(* vlSIMDInit of vl_simd.c: the choice of a backend, and the table of      *)
(* functions, which threads call through while another may be filling it.  *)
(* The table's 45 entries are three kinds: those that have a portable      *)
(* function from the start, those that are null until a backend is chosen, *)
(* and the name.                                                           *)
(***************************************************************************)
EXTENDS FiniteSets

CONSTANTS
    Callers,        \* threads
    EarlyInit,      \* subset of BOOLEAN: main called vlSIMDInit before the threads start
    Builds,         \* sets of the backends a build can hold besides the portable one
    Cpus            \* sets of what CPUID can report

VARIABLES
    build, cpu, early,
    initialized,    \* the static flag: plain, as the table is
    table,          \* kind of entry -> backend, or "null"
    caller          \* thread -> [at, left]: left is what it still has to fill

simdVars == <<build, cpu, early, initialized, table, caller>>

Entries == {"preset", "unset", "name"}
Full(backend) == [e \in Entries |-> backend]
Static == [preset |-> "portable", unset |-> "null", name |-> "uninitialized"]

\* CPUID leaf 7, bit 5 of EBX; and leaf 1, bit 26 of ECX, which is XSAVE and not SSE2.
SupportsAVX2 == "avx2" \in cpu
SupportsSSE2 == "xsave" \in cpu

\* ARM builds hold the backend of their processor, and need not ask.
Choice ==
    IF "avx2" \in build /\ SupportsAVX2 THEN "avx2"
    ELSE IF "sse2" \in build /\ SupportsSSE2 THEN "sse2"
    ELSE IF "neon64" \in build THEN "neon64"
    ELSE IF "neon" \in build THEN "neon" ELSE "portable"

At(where) == [at |-> where, left |-> {}]

SimdInitInit ==
    /\ build \in Builds /\ cpu \in Cpus /\ early \in EarlyInit
    /\ initialized = early
    /\ table = IF early THEN Full(Choice) ELSE Static
    /\ caller = [t \in Callers |-> At("out")]

\* The first read of the flag: later callers leave with what the table holds.
Enter(t) ==
    /\ caller[t].at = "out"
    /\ caller' = [caller EXCEPT ![t] = At(IF initialized THEN "back" ELSE "first")]
    /\ UNCHANGED <<build, cpu, early, initialized, table>>

\* The flag is set before the table is.
Claim(t) ==
    /\ caller[t].at = "first" /\ initialized' = TRUE
    /\ caller' = [caller EXCEPT ![t] = [at |-> "fill", left |-> Entries]]
    /\ UNCHANGED <<build, cpu, early, table>>

\* vlSIMDInitPortable, ..._SSE2, ..._AVX2, NEON and NEON64: plain stores, which other
\* threads may see in any order.
Fill(t, e) ==
    /\ e \in caller[t].left
    /\ table' = [table EXCEPT ![e] = Choice]
    /\ caller' = [caller EXCEPT ![t].left = @ \ {e}]
    /\ UNCHANGED <<build, cpu, early, initialized>>

Leave(t) ==
    /\ caller[t] = At("fill") /\ caller' = [caller EXCEPT ![t] = At("back")]
    /\ UNCHANGED <<build, cpu, early, initialized, table>>

SimdInitNext == \E t \in Callers : Enter(t) \/ Claim(t) \/ Leave(t) \/ \E e \in Entries : Fill(t, e)

SimdInitSpec == SimdInitInit /\ [][SimdInitNext]_simdVars

----------------------------------------------------------------------------

\* What a backend's instructions ask of the processor.
Needs == [avx2 |-> {"avx2", "fma"}, sse2 |-> {"sse2"}, neon |-> {}, neon64 |-> {}, portable |-> {}]
Inside == {t \in Callers : caller[t].at \in {"first", "fill"}}
Returned == {t \in Callers : caller[t].at = "back"}

\* Entries that were callable stay so while the table is filled, and never use
\* instructions that the processor lacks; once everybody that found the flag clear has
\* left vlSIMDInit, the table is one backend's, however many filled it; and it always is
\* if vlSIMDInit was called before the threads started.
TableSettles ==
    /\ table["preset"] \in DOMAIN Needs
    /\ \A e \in Entries : table[e] \in DOMAIN Needs => Needs[table[e]] \subseteq cpu
    /\ early \/ (Inside = {} /\ Returned # {}) => \E backend \in DOMAIN Needs : table = Full(backend)

\* vl_simd.h:171 says that vlSIMDInit is thread-safe, and that calls after the first return
\* at once and are safe: a thread that is back from it can use the table.
InitSafe == Returned # {} => table["unset"] # "null" /\ table["name"] # "uninitialized"

\* What makes TableSettles inductive: every entry is as it was at the start or the choice;
\* once somebody claimed the table, an entry that is not the choice is still on somebody's
\* list; a thread that is back found the flag set, or set it.
SimdTypes ==
    /\ cpu \in Cpus /\ early \in BOOLEAN /\ initialized \in BOOLEAN
    /\ table \in [Entries -> {"portable", "null", "uninitialized", Choice}]
    /\ caller \in [Callers -> [at : {"out", "first", "fill", "back"}, left : SUBSET Entries]]
SimdInv ==
    /\ SimdTypes
    /\ \A e \in Entries : table[e] \in {Static[e], Choice}
    /\ early => initialized /\ \A e \in Entries : table[e] = Choice
    /\ initialized => \A e \in Entries : table[e] = Choice \/ \E t \in Callers : e \in caller[t].left
    /\ \A t \in Callers : /\ caller[t].at \in {"fill", "back"} => initialized
                          /\ caller[t].at # "fill" => caller[t].left = {}

============================================================================
