------------------------- MODULE NotificationQueue -------------------------
(* notification_queue (concurrency/task_manager.hpp): a deque under a      *)
(* mutex with a condition variable.  Threads call its five operations in   *)
(* any order; a call is split where it gives the mutex up.                 *)
EXTENDS Naturals, Sequences, FiniteSets

CONSTANTS
    Threads,
    NoThread,
    MaxItems      \* bound: the items pushed

ASSUME QueueAssumption ==
    NoThread \notin Threads /\ IsFiniteSet(Threads) /\ MaxItems \in Nat

VARIABLES
    q,        \* _q
    done,     \* _done
    mutex,    \* _mutex: the thread that holds it
    pc,       \* idle, lock (wants _mutex), held, wait (in _ready.wait), notify
    call,     \* the operation a thread is in
    item,     \* the item it pushes
    got,      \* what its last pop or try_pop took: an item, or Nothing
    made      \* the items made so far

vars == <<q, done, mutex, pc, call, item, got, made>>

Nothing == 0
Items == 1 .. MaxItems
Pushes == {"push", "try_push"}
Pops == {"pop", "try_pop"}

Init ==
    /\ q = <<>> /\ done = FALSE /\ mutex = NoThread /\ made = 0
    /\ pc = [t \in Threads |-> "idle"] /\ call = [t \in Threads |-> "none"]
    /\ item = [t \in Threads |-> Nothing] /\ got = [t \in Threads |-> Nothing]

Goto(t, label) == pc' = [pc EXCEPT ![t] = label]

\* The call returns; what it was given is gone.
Return(t) ==
    /\ Goto(t, "idle")
    /\ call' = [call EXCEPT ![t] = "none"] /\ item' = [item EXCEPT ![t] = Nothing]

Call(t, c) ==
    /\ pc[t] = "idle"
    /\ IF c \in Pushes
       THEN /\ made < MaxItems /\ made' = made + 1
            /\ item' = [item EXCEPT ![t] = made + 1]
       ELSE UNCHANGED <<made, item>>
    /\ call' = [call EXCEPT ![t] = c]
    /\ Goto(t, "lock")
    /\ UNCHANGED <<q, done, mutex, got>>

Lock(t) ==
    /\ pc[t] = "lock" /\ mutex = NoThread
    /\ mutex' = t
    /\ Goto(t, "held")
    /\ UNCHANGED <<q, done, call, item, got, made>>

\* try_to_lock: somebody has the mutex, or it fails for no reason.
TryLockFails(t) ==
    /\ pc[t] = "lock" /\ call[t] \in {"try_push", "try_pop"}
    /\ Return(t)
    /\ UNCHANGED <<q, done, mutex, got, made>>

\* Mistake: notify only when the queue was empty.
EmplaceQuietly(t) ==
    /\ pc[t] = "held" /\ call[t] \in Pushes
    /\ q' = Append(q, item[t]) /\ mutex' = NoThread
    /\ IF q = <<>> THEN Goto(t, "notify") /\ UNCHANGED <<call, item>> ELSE Return(t)
    /\ UNCHANGED <<done, got, made>>

Emplace(t) ==
    /\ pc[t] = "held" /\ call[t] \in Pushes
    /\ q' = Append(q, item[t]) /\ mutex' = NoThread
    /\ Goto(t, "notify")
    /\ UNCHANGED <<done, call, item, got, made>>

SetDone(t) ==
    /\ pc[t] = "held" /\ call[t] = "done"
    /\ done' = TRUE /\ mutex' = NoThread
    /\ Goto(t, "notify")
    /\ UNCHANGED <<q, call, item, got, made>>

Sleeping == {t \in Threads : pc[t] = "wait"}

\* The threads of S wake and t returns.
Notified(t, S) ==
    /\ pc' = [s \in Threads |-> IF s \in S THEN "lock" ELSE IF s = t THEN "idle" ELSE pc[s]]
    /\ call' = [call EXCEPT ![t] = "none"] /\ item' = [item EXCEPT ![t] = Nothing]
    /\ UNCHANGED <<q, done, mutex, got, made>>

notify_one(t) ==
    /\ pc[t] = "notify" /\ call[t] \in Pushes
    /\ \/ Sleeping = {} /\ Notified(t, {})
       \/ \E s \in Sleeping : Notified(t, {s})

\* Mistake: notify_one for notify_all.
notify_all_one(t) ==
    /\ pc[t] = "notify" /\ call[t] = "done"
    /\ \/ Sleeping = {} /\ Notified(t, {})
       \/ \E s \in Sleeping : Notified(t, {s})

notify_all(t) ==
    /\ pc[t] = "notify" /\ call[t] = "done"
    /\ Notified(t, Sleeping)

\* while (_q.empty() && !_done) _ready.wait(lock)
Wait(t) ==
    /\ pc[t] = "held" /\ call[t] = "pop"
    /\ q = <<>> /\ ~done
    /\ mutex' = NoThread
    /\ Goto(t, "wait")
    /\ UNCHANGED <<q, done, call, item, got, made>>

SpuriousWakeup(t) ==
    /\ pc[t] = "wait"
    /\ Goto(t, "lock")
    /\ UNCHANGED <<q, done, mutex, call, item, got, made>>

Take(t) ==
    /\ pc[t] = "held" /\ call[t] \in Pops
    /\ q # <<>>
    /\ got' = [got EXCEPT ![t] = Head(q)] /\ q' = Tail(q)
    /\ mutex' = NoThread
    /\ Return(t)
    /\ UNCHANGED <<done, made>>

\* Mistake: a thread that was woken does not test _done again.
ReturnFalseOnceWoken(t) ==
    /\ pc[t] = "held" /\ call[t] \in Pops
    /\ q = <<>>
    /\ got' = [got EXCEPT ![t] = IF call[t] = "pop" THEN Nothing ELSE @]
    /\ mutex' = NoThread
    /\ Return(t)
    /\ UNCHANGED <<q, done, made>>

\* The function try_pop was given is left as it was.
ReturnFalse(t) ==
    /\ pc[t] = "held" /\ call[t] \in Pops
    /\ q = <<>> /\ (call[t] = "pop" => done)
    /\ got' = [got EXCEPT ![t] = IF call[t] = "pop" THEN Nothing ELSE @]
    /\ mutex' = NoThread
    /\ Return(t)
    /\ UNCHANGED <<q, done, made>>

Step(t) ==
    \/ TryLockFails(t) \/ Emplace(t) \/ SetDone(t) \/ notify_one(t) \/ notify_all(t)
    \/ Wait(t) \/ Take(t) \/ ReturnFalse(t)

Next ==
    \E t \in Threads :
        \/ \E c \in Pushes \cup Pops \cup {"done"} : Call(t, c)
        \/ Lock(t) \/ Step(t) \/ SpuriousWakeup(t)

Spec == Init /\ [][Next]_vars

\* A thread that holds the mutex or notifies goes on; one that keeps finding
\* the mutex free gets it.  Nobody need call anything, or wake for no reason.
FairSpec == Spec /\ \A t \in Threads : SF_vars(Lock(t)) /\ WF_vars(Step(t))
-----------------------------------------------------------------------------
TypeOK ==
    /\ q \in Seq(Items) /\ done \in BOOLEAN
    /\ mutex \in Threads \cup {NoThread}
    /\ pc \in [Threads -> {"idle", "lock", "held", "wait", "notify"}]
    /\ call \in [Threads -> Pushes \cup Pops \cup {"done", "none"}]
    /\ item \in [Threads -> Items \cup {Nothing}]
    /\ got \in [Threads -> Items \cup {Nothing}]
    /\ made \in 0 .. MaxItems

\* No wakeup is lost: while a thread sleeps in pop, every queued item has a
\* notification on its way or an awake popper that will look at the queue,
\* and once done() was called its notify_all is still to come.  notify_one
\* is called after the mutex was released and may find nobody, or a thread
\* that another popper overtakes.
NoLostWakeup ==
    Sleeping # {} =>
        /\ Len(q) <= Cardinality({t \in Threads : \/ pc[t] = "notify" /\ call[t] \in Pushes
                                                  \/ pc[t] \in {"lock", "held"} /\ call[t] = "pop"})
        /\ done => \E t \in Threads : pc[t] = "notify" /\ call[t] = "done"

Channel == INSTANCE Channel WITH items <- q, closed <- done

\* Seen from outside the queue is an atomic channel: nothing is lost,
\* reordered or taken twice, and pop returns false only when the queue is
\* done and empty, however calls, wakeups and failing try_locks interleave.
ImplementsChannel == Channel!Spec

\* done() releases every thread that waits in pop or calls it later.
DoneReleases == \A t \in Threads : done /\ call[t] = "pop" ~> call[t] # "pop"
============================================================================
