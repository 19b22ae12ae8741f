------------------------------- MODULE FifoQueue -------------------------------
(***************************************************************************)
(* What a concurrent queue promises (vl_async_queue.h): every value a      *)
(* producer pushes is delivered to exactly one consumer, in the order of   *)
(* the pushes.  The n-th value of producer p is <<p, n>>.                  *)
(***************************************************************************)
EXTENDS Naturals, Sequences

CONSTANTS Producers, Consumers

VARIABLES
    sent,   \* sent[p]: values producer p has pushed
    queue,  \* the values pushed and not yet popped
    got     \* got[c]: the values consumer c has popped, in order

vars == <<sent, queue, got>>

Init ==
    /\ sent = [p \in Producers |-> 0]
    /\ queue = <<>>
    /\ got = [c \in Consumers |-> <<>>]

Push(p) ==
    /\ sent' = [sent EXCEPT ![p] = @ + 1]
    /\ queue' = Append(queue, <<p, sent[p] + 1>>)
    /\ UNCHANGED got

Pop(c) ==
    /\ queue # <<>>
    /\ got' = [got EXCEPT ![c] = Append(@, Head(queue))]
    /\ queue' = Tail(queue)
    /\ UNCHANGED sent

Clear == queue' = <<>> /\ UNCHANGED <<sent, got>>

Next == \/ \E p \in Producers : Push(p)
        \/ \E c \in Consumers : Pop(c)
        \/ Clear

Spec == Init /\ [][Next]_vars

===============================================================================
