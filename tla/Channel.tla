------------------------------ MODULE Channel ------------------------------
(* What a notification queue promises: a channel of items, first in, first *)
(* out, that can be closed.  Only a closed and empty channel turns a       *)
(* waiting taker away.                                                     *)
EXTENDS Sequences, Naturals

CONSTANTS Threads, Items, Nothing

VARIABLES items, closed, got     \* got: what each thread's last take returned

Init == items = <<>> /\ closed = FALSE /\ got = [t \in Threads |-> Nothing]

Put == \E i \in Items : items' = Append(items, i) /\ UNCHANGED <<closed, got>>

Take(t) ==
    /\ items # <<>>
    /\ items' = Tail(items)
    /\ got' = [got EXCEPT ![t] = Head(items)]
    /\ UNCHANGED closed

TurnAway(t) ==
    /\ items = <<>> /\ closed
    /\ got' = [got EXCEPT ![t] = Nothing]
    /\ UNCHANGED <<items, closed>>

Close == closed' = TRUE /\ UNCHANGED <<items, got>>

Next == Put \/ Close \/ \E t \in Threads : Take(t) \/ TurnAway(t)
Spec == Init /\ [][Next]_<<items, closed, got>>
============================================================================
