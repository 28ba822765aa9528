---------------------- MODULE NotificationQueueProofs ----------------------
(* Theorems about NotificationQueue, for every finite set of threads: the  *)
(* mutex excludes, no wakeup is lost, and the queue is an atomic channel.  *)
EXTENDS NotificationQueue, FiniteSetTheorems, SequenceTheorems, TLAPS

\* The mutex is held by the one thread between its lock and its release.
MutualExclusion == \A t \in Threads : pc[t] = "held" <=> mutex = t

\* Where a thread is tells the operation it is in, and a push that has not
\* released the mutex still carries its item.
CallAtHand ==
    \A t \in Threads :
        /\ pc[t] = "wait" => call[t] = "pop"
        /\ pc[t] = "idle" <=> call[t] = "none"
        /\ pc[t] = "notify" => call[t] \in Pushes \cup {"done"}
        /\ pc[t] # "idle" /\ call[t] \in Pushes => item[t] \in Items

IInv == TypeOK /\ MutualExclusion /\ CallAtHand /\ NoLostWakeup

\* What NoLostWakeup counts: the pushes that have yet to notify and the pops
\* that are awake.
Alert ==
    {t \in Threads : \/ pc[t] = "notify" /\ call[t] \in Pushes
                     \/ pc[t] \in {"lock", "held"} /\ call[t] = "pop"}

\* A set that loses at most one of its members for every one it gains, or
\* gains one, has as many as it had, or one more.
LEMMA Exchange ==
    ASSUME NEW S, NEW T, IsFiniteSet(S), IsFiniteSet(T)
    PROVE  /\ Cardinality(S) \in Nat /\ Cardinality(T) \in Nat
           /\ S \subseteq T => Cardinality(S) <= Cardinality(T)
           /\ \A x \in T : x \notin S /\ S \subseteq T => Cardinality(S) + 1 <= Cardinality(T)
           /\ \A x \in S, y \in T :
                 y \notin S /\ S \ {x} \subseteq T => Cardinality(S) <= Cardinality(T)
           /\ \A x \in S : S \ {x} \subseteq T => Cardinality(S) <= Cardinality(T) + 1
<1>1. Cardinality(S) \in Nat /\ Cardinality(T) \in Nat
  BY FS_CardinalityType
<1>2. S \subseteq T => Cardinality(S) <= Cardinality(T)
  BY FS_Subset
<1>3. ASSUME NEW x \in T, NEW R, x \notin R, R \subseteq T
      PROVE  Cardinality(R) \in Nat /\ Cardinality(R) + 1 <= Cardinality(T)
  <2>1. IsFiniteSet(R) /\ IsFiniteSet(R \cup {x}) /\ R \cup {x} \subseteq T
    BY <1>3, FS_Subset, FS_AddElement
  <2>2. Cardinality(R \cup {x}) = Cardinality(R) + 1
    BY <1>3, <2>1, FS_AddElement
  <2>3. QED
    BY <2>1, <2>2, FS_Subset, FS_CardinalityType
<1>4. ASSUME NEW x \in S
      PROVE  Cardinality(S \ {x}) = Cardinality(S) - 1
  BY FS_RemoveElement
<1>5. ASSUME NEW x \in S, NEW y \in T, y \notin S, S \ {x} \subseteq T
      PROVE  Cardinality(S) <= Cardinality(T)
  <2>1. Cardinality(S \ {x}) + 1 <= Cardinality(T)
    BY <1>3, <1>5
  <2>2. QED
    BY <1>1, <1>4, <2>1
<1>6. ASSUME NEW x \in S, S \ {x} \subseteq T
      PROVE  Cardinality(S) <= Cardinality(T) + 1
  <2>1. Cardinality(S \ {x}) <= Cardinality(T)
    BY <1>6, FS_Subset
  <2>2. QED
    BY <1>1, <1>4, <2>1
<1>7. QED
  BY <1>1, <1>2, <1>3, <1>5, <1>6

\* What the steps do to the queue: its types and its length.
LEMMA QueueType ==
    ASSUME TypeOK
    PROVE  /\ q # <<>> => /\ Head(q) \in Items /\ Tail(q) \in Seq(Items)
                          /\ Len(Tail(q)) = Len(q) - 1
           /\ \A i \in Items : Append(q, i) \in Seq(Items) /\ Len(Append(q, i)) = Len(q) + 1
           /\ Len(q) \in Nat /\ Len(<<>>) = 0
<1>1. q \in Seq(Items)
  BY DEF TypeOK
<1>2. q # <<>> => Head(q) \in Items /\ Tail(q) \in Seq(Items) /\ Len(Tail(q)) = Len(q) - 1
  BY <1>1, HeadTailProperties
<1>3. \A i \in Items : Append(q, i) \in Seq(Items) /\ Len(Append(q, i)) = Len(q) + 1
  BY <1>1, AppendProperties
<1>4. Len(q) \in Nat /\ Len(<<>>) = 0
  BY <1>1, LenProperties, EmptySeq
<1>5. QED
  BY <1>2, <1>3, <1>4

\* Every step keeps the types.
LEMMA TypeStep == IInv /\ [Next]_vars => TypeOK'
<1> SUFFICES ASSUME IInv, [Next]_vars PROVE TypeOK'
  OBVIOUS
<1>t. TypeOK /\ CallAtHand
  BY DEF IInv
<1>1. ASSUME NEW t \in Threads, NEW c \in Pushes \cup Pops \cup {"done"}, Call(t, c)
      PROVE  TypeOK'
  BY <1>1, <1>t, QueueType, QueueAssumption DEF Call, Goto, TypeOK, CallAtHand, Pushes, Pops, Items, Nothing
<1>2. ASSUME NEW t \in Threads, Lock(t)
      PROVE  TypeOK'
  BY <1>2, <1>t, QueueType, QueueAssumption DEF Lock, Goto, TypeOK, CallAtHand, Pushes, Pops, Items, Nothing
<1>3. ASSUME NEW t \in Threads, TryLockFails(t)
      PROVE  TypeOK'
  BY <1>3, <1>t, QueueType, QueueAssumption DEF TryLockFails, Return, Goto, TypeOK, CallAtHand, Pushes, Pops, Items, Nothing
<1>4. ASSUME NEW t \in Threads, Emplace(t)
      PROVE  TypeOK'
  BY <1>4, <1>t, QueueType, QueueAssumption DEF Emplace, Goto, TypeOK, CallAtHand, Pushes, Pops, Items, Nothing
<1>5. ASSUME NEW t \in Threads, SetDone(t)
      PROVE  TypeOK'
  BY <1>5, <1>t, QueueType, QueueAssumption DEF SetDone, Goto, TypeOK, CallAtHand, Pushes, Pops, Items, Nothing
<1>6. ASSUME NEW t \in Threads, notify_one(t)
      PROVE  TypeOK'
  <2>1. PICK S : Notified(t, S)
    BY <1>6 DEF notify_one
  <2>2. pc' \in [Threads -> {"idle", "lock", "held", "wait", "notify"}]
    BY <1>t, <2>1 DEF Notified, TypeOK
  <2>3. /\ UNCHANGED <<q, done, mutex, got, made>>
        /\ call' = [call EXCEPT ![t] = "none"]
        /\ item' = [item EXCEPT ![t] = Nothing]
    BY <2>1 DEF Notified
  <2>4. QED
    BY <1>t, <2>2, <2>3 DEF TypeOK, Nothing
<1>7. ASSUME NEW t \in Threads, notify_all(t)
      PROVE  TypeOK'
  BY <1>7, <1>t, QueueType, QueueAssumption DEF notify_all, Notified, Sleeping, TypeOK, CallAtHand, Pushes, Pops, Items, Nothing
<1>8. ASSUME NEW t \in Threads, Wait(t)
      PROVE  TypeOK'
  BY <1>8, <1>t, QueueType, QueueAssumption DEF Wait, Goto, TypeOK, CallAtHand, Pushes, Pops, Items, Nothing
<1>9. ASSUME NEW t \in Threads, SpuriousWakeup(t)
      PROVE  TypeOK'
  BY <1>9, <1>t, QueueType, QueueAssumption DEF SpuriousWakeup, Goto, TypeOK, CallAtHand, Pushes, Pops, Items, Nothing
<1>10. ASSUME NEW t \in Threads, Take(t)
      PROVE  TypeOK'
  BY <1>10, <1>t, QueueType, QueueAssumption DEF Take, Return, Goto, TypeOK, CallAtHand, Pushes, Pops, Items, Nothing
<1>11. ASSUME NEW t \in Threads, ReturnFalse(t)
      PROVE  TypeOK'
  BY <1>11, <1>t, QueueType, QueueAssumption DEF ReturnFalse, Return, Goto, TypeOK, CallAtHand, Pushes, Pops, Items, Nothing
<1>12. CASE UNCHANGED vars
  BY <1>12, <1>t, QueueType, QueueAssumption DEF vars, TypeOK, CallAtHand, Pushes, Pops, Items, Nothing
<1>13. QED
  BY <1>1, <1>2, <1>3, <1>4, <1>5, <1>6, <1>7, <1>8, <1>9, <1>10, <1>11, <1>12 DEF Next, Step

\* Every step keeps the mutex exclusive.
LEMMA MutexStep == IInv /\ [Next]_vars => MutualExclusion'
<1> SUFFICES ASSUME IInv, [Next]_vars PROVE MutualExclusion'
  OBVIOUS
<1>t. TypeOK /\ MutualExclusion /\ CallAtHand
  BY DEF IInv
<1>1. ASSUME NEW t \in Threads, NEW c \in Pushes \cup Pops \cup {"done"}, Call(t, c)
      PROVE  MutualExclusion'
  BY <1>1, <1>t, QueueAssumption DEF Call, Goto, TypeOK, MutualExclusion, CallAtHand
<1>2. ASSUME NEW t \in Threads, Lock(t)
      PROVE  MutualExclusion'
  BY <1>2, <1>t, QueueAssumption DEF Lock, Goto, TypeOK, MutualExclusion, CallAtHand
<1>3. ASSUME NEW t \in Threads, TryLockFails(t)
      PROVE  MutualExclusion'
  BY <1>3, <1>t, QueueAssumption DEF TryLockFails, Return, Goto, TypeOK, MutualExclusion, CallAtHand
<1>4. ASSUME NEW t \in Threads, Emplace(t)
      PROVE  MutualExclusion'
  BY <1>4, <1>t, QueueAssumption DEF Emplace, Goto, TypeOK, MutualExclusion, CallAtHand
<1>5. ASSUME NEW t \in Threads, SetDone(t)
      PROVE  MutualExclusion'
  BY <1>5, <1>t, QueueAssumption DEF SetDone, Goto, TypeOK, MutualExclusion, CallAtHand
<1>6. ASSUME NEW t \in Threads, notify_one(t)
      PROVE  MutualExclusion'
  BY <1>6, <1>t, QueueAssumption DEF notify_one, Notified, Sleeping, TypeOK, MutualExclusion, CallAtHand
<1>7. ASSUME NEW t \in Threads, notify_all(t)
      PROVE  MutualExclusion'
  BY <1>7, <1>t, QueueAssumption DEF notify_all, Notified, Sleeping, TypeOK, MutualExclusion, CallAtHand
<1>8. ASSUME NEW t \in Threads, Wait(t)
      PROVE  MutualExclusion'
  BY <1>8, <1>t, QueueAssumption DEF Wait, Goto, TypeOK, MutualExclusion, CallAtHand
<1>9. ASSUME NEW t \in Threads, SpuriousWakeup(t)
      PROVE  MutualExclusion'
  BY <1>9, <1>t, QueueAssumption DEF SpuriousWakeup, Goto, TypeOK, MutualExclusion, CallAtHand
<1>10. ASSUME NEW t \in Threads, Take(t)
      PROVE  MutualExclusion'
  BY <1>10, <1>t, QueueAssumption DEF Take, Return, Goto, TypeOK, MutualExclusion, CallAtHand
<1>11. ASSUME NEW t \in Threads, ReturnFalse(t)
      PROVE  MutualExclusion'
  BY <1>11, <1>t, QueueAssumption DEF ReturnFalse, Return, Goto, TypeOK, MutualExclusion, CallAtHand
<1>12. CASE UNCHANGED vars
  BY <1>12, <1>t, QueueAssumption DEF vars, TypeOK, MutualExclusion, CallAtHand
<1>13. QED
  BY <1>1, <1>2, <1>3, <1>4, <1>5, <1>6, <1>7, <1>8, <1>9, <1>10, <1>11, <1>12 DEF Next, Step

\* Every step keeps a thread in the operation its place belongs to.
LEMMA CallStep == IInv /\ [Next]_vars => CallAtHand'
<1> SUFFICES ASSUME IInv, [Next]_vars PROVE CallAtHand'
  OBVIOUS
<1>t. TypeOK /\ CallAtHand
  BY DEF IInv
<1>1. ASSUME NEW t \in Threads, NEW c \in Pushes \cup Pops \cup {"done"}, Call(t, c)
      PROVE  CallAtHand'
  BY <1>1, <1>t, QueueAssumption DEF Call, Goto, TypeOK, CallAtHand, Pushes, Pops, Items, Nothing
<1>2. ASSUME NEW t \in Threads, Lock(t)
      PROVE  CallAtHand'
  BY <1>2, <1>t, QueueAssumption DEF Lock, Goto, TypeOK, CallAtHand, Pushes, Pops, Items, Nothing
<1>3. ASSUME NEW t \in Threads, TryLockFails(t)
      PROVE  CallAtHand'
  BY <1>3, <1>t, QueueAssumption DEF TryLockFails, Return, Goto, TypeOK, CallAtHand, Pushes, Pops, Items, Nothing
<1>4. ASSUME NEW t \in Threads, Emplace(t)
      PROVE  CallAtHand'
  BY <1>4, <1>t, QueueAssumption DEF Emplace, Goto, TypeOK, CallAtHand, Pushes, Pops, Items, Nothing
<1>5. ASSUME NEW t \in Threads, SetDone(t)
      PROVE  CallAtHand'
  BY <1>5, <1>t, QueueAssumption DEF SetDone, Goto, TypeOK, CallAtHand, Pushes, Pops, Items, Nothing
<1>6. ASSUME NEW t \in Threads, notify_one(t)
      PROVE  CallAtHand'
  BY <1>6, <1>t, QueueAssumption DEF notify_one, Notified, Sleeping, TypeOK, CallAtHand, Pushes, Pops, Items, Nothing
<1>7. ASSUME NEW t \in Threads, notify_all(t)
      PROVE  CallAtHand'
  BY <1>7, <1>t, QueueAssumption DEF notify_all, Notified, Sleeping, TypeOK, CallAtHand, Pushes, Pops, Items, Nothing
<1>8. ASSUME NEW t \in Threads, Wait(t)
      PROVE  CallAtHand'
  BY <1>8, <1>t, QueueAssumption DEF Wait, Goto, TypeOK, CallAtHand, Pushes, Pops, Items, Nothing
<1>9. ASSUME NEW t \in Threads, SpuriousWakeup(t)
      PROVE  CallAtHand'
  BY <1>9, <1>t, QueueAssumption DEF SpuriousWakeup, Goto, TypeOK, CallAtHand, Pushes, Pops, Items, Nothing
<1>10. ASSUME NEW t \in Threads, Take(t)
      PROVE  CallAtHand'
  BY <1>10, <1>t, QueueAssumption DEF Take, Return, Goto, TypeOK, CallAtHand, Pushes, Pops, Items, Nothing
<1>11. ASSUME NEW t \in Threads, ReturnFalse(t)
      PROVE  CallAtHand'
  BY <1>11, <1>t, QueueAssumption DEF ReturnFalse, Return, Goto, TypeOK, CallAtHand, Pushes, Pops, Items, Nothing
<1>12. CASE UNCHANGED vars
  BY <1>12, <1>t, QueueAssumption DEF vars, TypeOK, CallAtHand, Pushes, Pops, Items, Nothing
<1>13. QED
  BY <1>1, <1>2, <1>3, <1>4, <1>5, <1>6, <1>7, <1>8, <1>9, <1>10, <1>11, <1>12 DEF Next, Step

\* Every step leaves an awake pop, or a notification still to come, for every
\* item that is queued while a thread sleeps; done leaves its notify_all.
LEMMA WakeupStep == IInv /\ [Next]_vars => NoLostWakeup'
<1> DEFINE Watched == /\ Len(q) <= Cardinality(Alert)
                      /\ done => \E t \in Threads : pc[t] = "notify" /\ call[t] = "done"
<1> SUFFICES ASSUME IInv, [Next]_vars, Sleeping' # {}
             PROVE  Watched'
  BY DEF NoLostWakeup, Alert
<1>i. TypeOK /\ MutualExclusion /\ CallAtHand
  BY DEF IInv
<1>w. Sleeping # {} => Watched
  BY DEF IInv, NoLostWakeup, Alert
<1>f. IsFiniteSet(Alert) /\ IsFiniteSet(Alert')
  BY QueueAssumption, FS_Subset DEF Alert
<1>n. /\ Cardinality(Alert) \in Nat /\ Cardinality(Alert') \in Nat
      /\ Len(q) \in Nat
  BY <1>f, <1>i, FS_CardinalityType, QueueType
<1>s. ASSUME Alert \subseteq Alert', Sleeping' \subseteq Sleeping, UNCHANGED <<q, done>>,
             \A t \in Threads : pc[t] = "notify" /\ call[t] = "done"
                               => pc'[t] = "notify" /\ call'[t] = "done"
      PROVE  Watched'
  <2>1. Sleeping # {}
    BY <1>s
  <2>2. Cardinality(Alert) <= Cardinality(Alert')
    BY <1>s, <1>f, FS_Subset
  <2>3. QED
    BY <2>1, <2>2, <1>s, <1>w, <1>n
<1>1. ASSUME NEW t \in Threads, NEW c \in Pushes \cup Pops \cup {"done"}, Call(t, c)
      PROVE  Watched'
  <2>1. Alert \subseteq Alert' /\ Sleeping' \subseteq Sleeping /\ UNCHANGED <<q, done>>
    BY <1>1, <1>i DEF Call, Goto, TypeOK, Alert, Sleeping
  <2>2. \A s \in Threads : pc[s] = "notify" /\ call[s] = "done"
                           => pc'[s] = "notify" /\ call'[s] = "done"
    BY <1>1, <1>i DEF Call, Goto, TypeOK, Alert, Sleeping
  <2>3. QED
    BY <2>1, <2>2, <1>s
<1>2. ASSUME NEW t \in Threads, Lock(t)
      PROVE  Watched'
  <2>1. Alert \subseteq Alert' /\ Sleeping' \subseteq Sleeping /\ UNCHANGED <<q, done>>
    BY <1>2, <1>i DEF Lock, Goto, TypeOK, CallAtHand, Alert, Sleeping, Pushes
  <2>2. \A s \in Threads : pc[s] = "notify" /\ call[s] = "done"
                           => pc'[s] = "notify" /\ call'[s] = "done"
    BY <1>2, <1>i DEF Lock, Goto, TypeOK, CallAtHand, Alert, Sleeping, Pushes
  <2>3. QED
    BY <2>1, <2>2, <1>s
<1>3. ASSUME NEW t \in Threads, TryLockFails(t)
      PROVE  Watched'
  <2>1. Alert \subseteq Alert' /\ Sleeping' \subseteq Sleeping /\ UNCHANGED <<q, done>>
    BY <1>3, <1>i DEF TryLockFails, Return, Goto, TypeOK, CallAtHand, Alert, Sleeping, Pushes
  <2>2. \A s \in Threads : pc[s] = "notify" /\ call[s] = "done"
                           => pc'[s] = "notify" /\ call'[s] = "done"
    BY <1>3, <1>i DEF TryLockFails, Return, Goto, TypeOK, CallAtHand, Alert, Sleeping, Pushes
  <2>3. QED
    BY <2>1, <2>2, <1>s
<1>4. ASSUME NEW t \in Threads, SpuriousWakeup(t)
      PROVE  Watched'
  <2>1. Alert \subseteq Alert' /\ Sleeping' \subseteq Sleeping /\ UNCHANGED <<q, done>>
    BY <1>4, <1>i DEF SpuriousWakeup, Goto, TypeOK, CallAtHand, Alert, Sleeping, Pushes
  <2>2. \A s \in Threads : pc[s] = "notify" /\ call[s] = "done"
                           => pc'[s] = "notify" /\ call'[s] = "done"
    BY <1>4, <1>i DEF SpuriousWakeup, Goto, TypeOK, CallAtHand, Alert, Sleeping, Pushes
  <2>3. QED
    BY <2>1, <2>2, <1>s
<1>5. ASSUME NEW t \in Threads, Emplace(t)
      PROVE  Watched'
  <2>1. t \in Alert' /\ t \notin Alert /\ Alert \subseteq Alert'
    BY <1>5, <1>i DEF Emplace, Goto, TypeOK, Alert, Pushes
  <2>2. Len(q') = Len(q) + 1
    BY <1>5, <1>i, QueueType DEF Emplace, CallAtHand, TypeOK
  <2>3. Sleeping # {} /\ done' = done
    BY <1>5, <1>i DEF Emplace, Goto, TypeOK, Sleeping
  <2>4. Cardinality(Alert) + 1 <= Cardinality(Alert')
    BY <2>1, <1>f, Exchange
  <2>5. \A s \in Threads : pc[s] = "notify" => pc'[s] = "notify" /\ call'[s] = call[s]
    BY <1>5, <1>i DEF Emplace, Goto, TypeOK
  <2>6. QED
    BY <2>2, <2>3, <2>4, <2>5, <1>w, <1>n
<1>6. ASSUME NEW t \in Threads, SetDone(t)
      PROVE  Watched'
  <2>1. Alert \subseteq Alert' /\ Sleeping # {} /\ q' = q
    BY <1>6, <1>i DEF SetDone, Goto, TypeOK, Alert, Sleeping
  <2>2. pc'[t] = "notify" /\ call'[t] = "done"
    BY <1>6, <1>i DEF SetDone, Goto, TypeOK
  <2>3. Cardinality(Alert) <= Cardinality(Alert')
    BY <2>1, <1>f, FS_Subset
  <2>4. QED
    BY <2>1, <2>2, <2>3, <1>w, <1>n
<1>7. ASSUME NEW t \in Threads, notify_one(t)
      PROVE  Watched'
  <2>1. PICK s \in Sleeping : Notified(t, {s})
    BY <1>7, <1>i DEF notify_one, Notified, Sleeping, TypeOK
  <2>2. s \in Alert' /\ s \notin Alert /\ t \in Alert /\ Alert \ {t} \subseteq Alert'
    BY <2>1, <1>7, <1>i DEF notify_one, Notified, TypeOK, CallAtHand, Alert, Sleeping, Pushes
  <2>3. Sleeping # {} /\ UNCHANGED <<q, done>>
    BY <2>1 DEF Notified
  <2>4. \A r \in Threads : pc[r] = "notify" /\ call[r] = "done"
                           => pc'[r] = "notify" /\ call'[r] = "done"
    BY <2>1, <1>7, <1>i DEF notify_one, Notified, TypeOK, Sleeping, Pushes
  <2>5. Cardinality(Alert) <= Cardinality(Alert')
    BY <2>2, <1>f, Exchange
  <2>6. QED
    BY <2>3, <2>4, <2>5, <1>w, <1>n
<1>8. ASSUME NEW t \in Threads, notify_all(t)
      PROVE  FALSE
  BY <1>8, <1>i DEF notify_all, Notified, TypeOK, Sleeping
<1>9. ASSUME NEW t \in Threads, Wait(t)
      PROVE  Watched'
  BY <1>9, <1>n, <1>i, QueueType DEF Wait
<1>10. ASSUME NEW t \in Threads, Take(t)
       PROVE  Watched'
  <2>1. Alert \ {t} \subseteq Alert' /\ Sleeping # {} /\ done' = done
    BY <1>10, <1>i DEF Take, Return, Goto, TypeOK, Alert, Sleeping
  <2>2. Len(q') = Len(q) - 1
    BY <1>10, <1>i, QueueType DEF Take
  <2>3. Cardinality(Alert) <= Cardinality(Alert') + 1
    <3>1. CASE t \in Alert
      BY <3>1, <2>1, <1>f, Exchange
    <3>2. CASE t \notin Alert
      <4>1. Alert \subseteq Alert'
        BY <3>2, <2>1
      <4>2. QED
        BY <4>1, <1>f, <1>n, FS_Subset
    <3>3. QED
      BY <3>1, <3>2
  <2>4. \A s \in Threads : pc[s] = "notify" => pc'[s] = "notify" /\ call'[s] = call[s]
    BY <1>10, <1>i DEF Take, Return, Goto, TypeOK
  <2>5. QED
    BY <2>1, <2>2, <2>3, <2>4, <1>w, <1>n
<1>11. ASSUME NEW t \in Threads, ReturnFalse(t)
       PROVE  Watched'
  <2>1. Len(q') = 0 /\ Sleeping # {} /\ done' = done
    BY <1>11, <1>i, QueueType DEF ReturnFalse, Return, Goto, TypeOK, Sleeping
  <2>2. \A s \in Threads : pc[s] = "notify" => pc'[s] = "notify" /\ call'[s] = call[s]
    BY <1>11, <1>i DEF ReturnFalse, Return, Goto, TypeOK
  <2>3. QED
    BY <2>1, <2>2, <1>w, <1>n
<1>12. CASE UNCHANGED vars
  BY <1>12, <1>s DEF vars, Alert, Sleeping
<1> HIDE DEF Watched
<1>13. QED
  BY <1>1, <1>2, <1>3, <1>4, <1>5, <1>6, <1>7, <1>8, <1>9, <1>10, <1>11, <1>12
     DEF Next, Step

\* The four parts together are inductive.
THEOREM Inductive == Spec => []IInv
<1>1. Init => IInv
  <2> SUFFICES ASSUME Init PROVE IInv
    OBVIOUS
  <2>1. TypeOK
    <3>1. q \in Seq(Items)
      BY EmptySeq DEF Init
    <3>2. made \in 0 .. MaxItems
      BY QueueAssumption DEF Init
    <3>3. QED
      BY <3>1, <3>2 DEF Init, TypeOK
  <2>2. MutualExclusion /\ CallAtHand /\ Sleeping = {}
    BY QueueAssumption DEF Init, MutualExclusion, CallAtHand, Sleeping, Pushes
  <2>3. QED
    BY <2>1, <2>2 DEF IInv, NoLostWakeup
<1>2. IInv /\ [Next]_vars => IInv'
  BY TypeStep, MutexStep, CallStep, WakeupStep DEF IInv
<1>3. QED
  BY <1>1, <1>2, PTL DEF Spec

\* notification_queue's types hold in every reachable state.
THEOREM TypeCorrect == Spec => []TypeOK
<1>1. IInv => TypeOK
  BY DEF IInv
<1>2. QED
  BY <1>1, Inductive, PTL

\* _mutex: no two threads are between a lock and its release at once.
THEOREM MutexExcludes == Spec => []MutualExclusion
<1>1. IInv => MutualExclusion
  BY DEF IInv
<1>2. QED
  BY <1>1, Inductive, PTL

\* notify_one and notify_all, called after the mutex was released, lose no
\* wakeup: while a thread sleeps, every queued item has an awake pop or a
\* notification to come, and after done() its notify_all is to come.
THEOREM WakeupsAreKept == Spec => []NoLostWakeup
<1>1. IInv => NoLostWakeup
  BY DEF IInv
<1>2. QED
  BY <1>1, Inductive, PTL

\* Every step of the queue is a step of the channel or leaves it alone.
LEMMA StepSimulation == IInv /\ [Next]_vars => [Channel!Next]_<<q, done, got>>
<1> SUFFICES ASSUME IInv, [Next]_vars PROVE [Channel!Next]_<<q, done, got>>
  OBVIOUS
<1>i. TypeOK /\ CallAtHand
  BY DEF IInv
<1>1. ASSUME NEW t \in Threads, NEW c \in Pushes \cup Pops \cup {"done"}, Call(t, c)
      PROVE  UNCHANGED <<q, done, got>>
  BY <1>1 DEF Call
<1>2. ASSUME NEW t \in Threads,
             \/ Lock(t) \/ TryLockFails(t) \/ Wait(t) \/ SpuriousWakeup(t)
             \/ notify_one(t) \/ notify_all(t)
      PROVE  UNCHANGED <<q, done, got>>
  BY <1>2 DEF Lock, TryLockFails, Wait, SpuriousWakeup, notify_one, notify_all, Notified
<1>3. ASSUME NEW t \in Threads, Emplace(t)
      PROVE  Channel!Put
  <2>1. item[t] \in Items
    BY <1>3, <1>i DEF Emplace, CallAtHand
  <2>2. QED
    BY <1>3, <2>1 DEF Emplace, Channel!Put
<1>4. ASSUME NEW t \in Threads, SetDone(t)
      PROVE  Channel!Close
  BY <1>4 DEF SetDone, Channel!Close
<1>5. ASSUME NEW t \in Threads, Take(t)
      PROVE  Channel!Take(t)
  BY <1>5 DEF Take, Channel!Take
<1>6. ASSUME NEW t \in Threads, ReturnFalse(t)
      PROVE  Channel!TurnAway(t) \/ UNCHANGED <<q, done, got>>
  <2>1. CASE call[t] = "pop"
    BY <1>6, <2>1 DEF ReturnFalse, Channel!TurnAway
  <2>2. CASE call[t] # "pop"
    BY <1>6, <2>2, <1>i DEF ReturnFalse, TypeOK
  <2>3. QED
    BY <2>1, <2>2
<1>7. CASE UNCHANGED vars
  BY <1>7 DEF vars
<1>8. QED
  BY <1>1, <1>2, <1>3, <1>4, <1>5, <1>6, <1>7 DEF Next, Step, Channel!Next

\* However calls, wakeups and failing try_locks interleave, the queue behaves
\* as an atomic channel that only turns takers away when closed and empty.
THEOREM Implementation == Spec => ImplementsChannel
<1>1. Init => Channel!Init
  BY DEF Init, Channel!Init
<1>2. QED
  BY <1>1, StepSimulation, Inductive, PTL DEF Spec, ImplementsChannel, Channel!Spec
=============================================================================
