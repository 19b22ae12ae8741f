------------------------------ MODULE ElementPool ------------------------------
(***************************************************************************)
(* What a fixed-size element pool promises its clients (vl_async_pool.h,   *)
(* "Lifetime Rules"): Take hands out an element nobody holds, Return gives *)
(* a held element back, and the maintenance calls (clear, reset, free)     *)
(* invalidate every element at once.  No blocks, no free stack, no tags:   *)
(* AsyncPool is shown to implement this module.                            *)
(***************************************************************************)

CONSTANTS
    Threads,    \* the threads that use the pool
    Elements    \* every element the pool can ever hand out

VARIABLE held   \* held[t]: the elements thread t owns

Init == held = [t \in Threads |-> {}]

\* An element nobody holds.
Free(e) == \A t \in Threads : e \notin held[t]

Take(t) ==
    \E e \in Elements :
        /\ Free(e)
        /\ held' = [held EXCEPT ![t] = @ \cup {e}]

Return(t) ==
    \E e \in held[t] : held' = [held EXCEPT ![t] = @ \ {e}]

Invalidate == held' = [t \in Threads |-> {}]

Next == \/ \E t \in Threads : Take(t) \/ Return(t)
        \/ Invalidate

Spec == Init /\ [][Next]_held

===============================================================================
