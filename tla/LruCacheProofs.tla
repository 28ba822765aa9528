--------------------------- MODULE LruCacheProofs ---------------------------
(***************************************************************************)
(* Theorems about LruCache, for every set of keys and values and every     *)
(* max_size: types, distinct stamps and the size bound; and that it        *)
(* implements LruContract as long as moving a value leaves it as it was,   *)
(* the step simulation that needs the distinct stamps.                     *)
(***************************************************************************)
EXTENDS LruCache, FiniteSetTheorems, TLAPS

\* A map whose entries are of the right type and carry distinct stamps
\* smaller than n.
Good(m, n) ==
    /\ DOMAIN m \subseteq Keys
    /\ \A k \in DOMAIN m : m[k] \in Entry /\ m[k].used < n
    /\ \A j, k \in DOMAIN m : m[j].used = m[k].used => j = k

\* The part of the state the calls change besides the map.
HandlesOK ==
    /\ result \in Stored \cup {NoValue}
    /\ pointer \in Keys \cup {NoValue}
    /\ handle \in [key : Keys \cup {NoValue}, value : Stored \cup {NoValue}]

IInv ==
    /\ Good(map, next_usage)
    /\ next_usage \in 1 .. MaxUsage + 1
    /\ HandlesOK
    /\ Cardinality(DOMAIN map) <= MaxSize

\* memory_gate: a set of entries with distinct stamps of lo .. hi has at most
\* as many members as there are stamps.
LEMMA FewStamps ==
    ASSUME NEW m, NEW lo \in Int, NEW hi \in Int,
           \A k \in DOMAIN m : m[k].used \in lo .. hi,
           \A j, k \in DOMAIN m : m[j].used = m[k].used => j = k
    PROVE  /\ Cardinality(DOMAIN m) \in Nat
           /\ Cardinality(DOMAIN m) <= IF lo > hi THEN 0 ELSE hi - lo + 1
<1> DEFINE f == [k \in DOMAIN m |-> m[k].used]
<1>1. f \in Injection(DOMAIN m, lo .. hi)
  BY DEF Injection, IsInjective
<1>2. IsFiniteSet(lo .. hi) /\ Cardinality(lo .. hi) = IF lo > hi THEN 0 ELSE hi - lo + 1
  BY FS_Interval
<1> HIDE DEF f
<1>3. QED
  BY <1>1, <1>2, FS_Injection, FS_CardinalityType

\* set_options with a fresh stamp keeps a map good.
LEMMA Touch ==
    ASSUME NEW m, NEW n \in 1 .. MaxUsage, NEW k \in DOMAIN m, Good(m, n), MaxUsage \in Nat
    PROVE  /\ Good(GateSetOptions(m, k, n), n + 1)
           /\ DOMAIN GateSetOptions(m, k, n) = DOMAIN m
<1> DEFINE g == GateSetOptions(m, k, n)
<1>1. DOMAIN g = DOMAIN m
  BY DEF GateSetOptions
<1>2. \A j \in DOMAIN m : j # k => g[j] = m[j]
  BY DEF GateSetOptions
<1>3. g[k] \in Entry /\ g[k].used = n
  <2>1. m[k] \in Entry
    BY DEF Good
  <2>2. g[k] = [m[k] EXCEPT !.used = n]
    BY DEF GateSetOptions
  <2>3. QED
    BY <2>1, <2>2 DEF Entry
<1>4. \A j \in DOMAIN m : m[j] \in Entry /\ m[j].used < n /\ m[j].used \in Int
  BY DEF Good, Entry
<1> HIDE DEF g
<1>5. \A j \in DOMAIN g : g[j] \in Entry /\ g[j].used < n + 1
  BY <1>1, <1>2, <1>3, <1>4
<1>6. \A i, j \in DOMAIN g : g[i].used = g[j].used => i = j
  BY <1>1, <1>2, <1>3, <1>4 DEF Good
<1>7. Good(g, n + 1)
  BY <1>1, <1>5, <1>6 DEF Good
<1>8. QED
  BY <1>1, <1>7 DEF g

\* get of the gate changes at most a value.
LEMMA MoveOut ==
    ASSUME NEW m, NEW n, NEW k \in DOMAIN m, Good(m, n)
    PROVE  /\ Good(GateGet(m, k), n)
           /\ DOMAIN GateGet(m, k) = DOMAIN m
<1>1. CASE TrivialMove
  BY <1>1 DEF GateGet
<1>2. CASE ~TrivialMove
  <2> DEFINE g == GateGet(m, k)
  <2>1. DOMAIN g = DOMAIN m
    BY <1>2 DEF GateGet
  <2>2. \A j \in DOMAIN m : j # k => g[j] = m[j]
    BY <1>2 DEF GateGet
  <2>3. g[k] \in Entry /\ g[k].used = m[k].used
    <3>1. m[k] \in Entry
      BY DEF Good
    <3>2. g[k] = [m[k] EXCEPT !.value = Empty]
      BY <1>2 DEF GateGet
    <3>3. QED
      BY <3>1, <3>2 DEF Entry, Stored
  <2> HIDE DEF g
  <2>4. \A j \in DOMAIN g : g[j] \in Entry /\ g[j].used = m[j].used
    BY <2>1, <2>2, <2>3 DEF Good
  <2>5. Good(g, n)
    BY <2>1, <2>4 DEF Good
  <2>6. QED
    BY <2>1, <2>5 DEF g
<1>3. QED
  BY <1>1, <1>2

\* set of the strategy keeps a map good and within max_size.
LEMMA StoreAndCleanUp ==
    ASSUME NEW m, NEW n \in 1 .. MaxUsage, NEW k \in Keys, NEW v \in Stored,
           Good(m, n), MaxUsage \in Nat, MaxSize \in Nat
    PROVE  /\ Good(LruSet(m, n, k, v), n + 1)
           /\ Cardinality(DOMAIN LruSet(m, n, k, v)) <= MaxSize
<1> DEFINE g == GateSet(m, k, v, n)
           c == CleanUp(g, n + 1)
<1>1. /\ DOMAIN g = DOMAIN m \cup {k}
      /\ \A j \in DOMAIN g : j # k => j \in DOMAIN m /\ g[j] = m[j]
      /\ g[k] = [value |-> v, used |-> n]
  BY DEF GateSet
<1>2. g[k] \in Entry /\ g[k].used = n
  BY <1>1 DEF Entry
<1>3. \A j \in DOMAIN m : m[j] \in Entry /\ m[j].used < n /\ m[j].used \in 1 .. MaxUsage
  BY DEF Good, Entry
<1> HIDE DEF g
<1>4. \A j \in DOMAIN g : g[j] \in Entry /\ g[j].used \in 1 .. n
  BY <1>1, <1>2, <1>3
<1>5. \A i, j \in DOMAIN g : g[i].used = g[j].used => i = j
  BY <1>1, <1>2, <1>3 DEF Good
<1>6. Good(g, n + 1)
  <2>1. DOMAIN g \subseteq Keys
    BY <1>1 DEF Good
  <2>2. QED
    BY <1>4, <1>5, <2>1 DEF Good
<1>7. Good(c, n + 1) /\ Cardinality(DOMAIN c) <= MaxSize
  <2>1. CASE n + 1 <= MaxSize
    <3>1. c = g
      BY <2>1 DEF CleanUp
    <3>2. /\ Cardinality(DOMAIN g) \in Nat
          /\ Cardinality(DOMAIN g) <= IF 1 > n THEN 0 ELSE n - 1 + 1
      BY <1>4, <1>5, FewStamps
    <3>3. Cardinality(DOMAIN g) <= MaxSize
      BY <2>1, <3>2
    <3>4. QED
      BY <1>6, <3>1, <3>3
  <2>2. CASE ~(n + 1 <= MaxSize)
    <3> DEFINE b == (n + 1) - MaxSize
    <3>1. /\ DOMAIN c = {j \in DOMAIN g : g[j].used >= b}
          /\ \A j \in DOMAIN c : c[j] = g[j]
      BY <2>2 DEF CleanUp, GateEraseOlder
    <3> HIDE DEF c
    <3>2. b \in Int /\ \A j \in DOMAIN c : c[j].used \in b .. n
      BY <1>4, <3>1
    <3>3. \A i, j \in DOMAIN c : c[i].used = c[j].used => i = j
      BY <1>5, <3>1
    <3>4. /\ Cardinality(DOMAIN c) \in Nat
          /\ Cardinality(DOMAIN c) <= IF b > n THEN 0 ELSE n - b + 1
      <4> HIDE DEF b
      <4>1. n \in Int
        OBVIOUS
      <4>2. QED
        BY <3>2, <3>3, <4>1, FewStamps
    <3>5. Good(c, n + 1)
      BY <1>6, <3>1, <3>3 DEF Good
    <3>6. QED
      BY <3>2, <3>4, <3>5
  <2>3. QED
    BY <2>1, <2>2
<1>8. QED
  BY <1>7 DEF LruSet, g

\* A hit of get, get_ptr or operator[].
LEMMA Hit ==
    ASSUME NEW k \in DOMAIN map, IInv, MaxUsage \in Nat, Room(1)
    PROVE  /\ Good(GateSetOptions(map, k, next_usage), next_usage + 1)
           /\ Good(GateSetOptions(GateGet(map, k), k, next_usage), next_usage + 1)
           /\ DOMAIN GateSetOptions(map, k, next_usage) = DOMAIN map
           /\ DOMAIN GateSetOptions(GateGet(map, k), k, next_usage) = DOMAIN map
           /\ map[k].value \in Stored
           /\ k \in Keys
           /\ next_usage + 1 \in 1 .. MaxUsage + 1
<1>1. next_usage \in 1 .. MaxUsage
  BY DEF IInv, Room
<1>2. Good(map, next_usage)
  BY DEF IInv
<1>3. Good(GateGet(map, k), next_usage) /\ DOMAIN GateGet(map, k) = DOMAIN map
  BY <1>2, MoveOut
<1>4. Good(GateSetOptions(map, k, next_usage), next_usage + 1)
      /\ DOMAIN GateSetOptions(map, k, next_usage) = DOMAIN map
  BY <1>1, <1>2, Touch
<1>5. Good(GateSetOptions(GateGet(map, k), k, next_usage), next_usage + 1)
      /\ DOMAIN GateSetOptions(GateGet(map, k), k, next_usage) = DOMAIN map
  BY <1>1, <1>3, Touch
<1>6. map[k].value \in Stored /\ k \in Keys
  BY <1>2 DEF Good, Entry
<1>7. QED
  BY <1>1, <1>4, <1>5, <1>6

\* set, of a key and a value of the right types.
LEMMA SetStep ==
    ASSUME NEW k \in Keys, NEW v \in Stored, IInv, set(k, v)
    PROVE  IInv'
<1>1. MaxUsage \in Nat /\ MaxSize \in Nat
  BY LruAssumption
<1>2. next_usage \in 1 .. MaxUsage
  BY <1>1 DEF IInv, Room, set
<1>3. Good(LruSet(map, next_usage, k, v), next_usage + 1)
      /\ Cardinality(DOMAIN LruSet(map, next_usage, k, v)) <= MaxSize
  BY <1>1, <1>2, StoreAndCleanUp DEF IInv
<1>4. HandlesOK'
  BY DEF IInv, HandlesOK, set, Stored
<1>5. /\ map' = LruSet(map, next_usage, k, v)
      /\ next_usage' = next_usage + 1
  BY DEF set
<1>6. Good(map', next_usage') /\ Cardinality(DOMAIN map') <= MaxSize
  BY <1>3, <1>5
<1>7. next_usage' \in 1 .. MaxUsage + 1
  BY <1>1, <1>2, <1>5
<1>8. QED
  BY <1>4, <1>6, <1>7 DEF IInv

LEMMA GetStep ==
    ASSUME NEW k \in Keys, IInv, get(k)
    PROVE  IInv'
<1>1. CASE Miss(k)
  BY <1>1 DEF get, IInv, HandlesOK
<1>2. CASE ~Miss(k)
  <2>1. k \in DOMAIN map /\ Room(1) /\ MaxUsage \in Nat
    BY <1>2, LruAssumption DEF get, Miss
  <2>2. Good(map', next_usage') /\ DOMAIN map' = DOMAIN map
        /\ next_usage' \in 1 .. MaxUsage + 1 /\ result' \in Stored
    BY <1>2, <2>1, Hit DEF get
  <2>3. HandlesOK'
    BY <2>2 DEF get, IInv, HandlesOK
  <2>4. QED
    BY <2>2, <2>3 DEF IInv
<1>3. QED
  BY <1>1, <1>2

LEMMA GetPtrStep ==
    ASSUME NEW k \in Keys, IInv, get_ptr(k)
    PROVE  IInv'
<1>1. CASE Miss(k)
  BY <1>1 DEF get_ptr, IInv, HandlesOK
<1>2. CASE ~Miss(k)
  <2>1. k \in DOMAIN map /\ Room(1) /\ MaxUsage \in Nat
    BY <1>2, LruAssumption DEF get_ptr, Miss
  <2>2. Good(map', next_usage') /\ DOMAIN map' = DOMAIN map
        /\ next_usage' \in 1 .. MaxUsage + 1 /\ result' \in Stored
    BY <1>2, <2>1, Hit DEF get_ptr
  <2>3. HandlesOK'
    BY <1>2, <2>2 DEF get_ptr, IInv, HandlesOK
  <2>4. QED
    BY <2>2, <2>3 DEF IInv
<1>3. QED
  BY <1>1, <1>2

LEMMA IndexStep ==
    ASSUME NEW k \in Keys, IInv, Index(k)
    PROVE  IInv'
<1>1. CASE Miss(k)
  BY <1>1 DEF Index, IInv, HandlesOK
<1>2. CASE ~Miss(k)
  <2>1. k \in DOMAIN map /\ Room(1) /\ MaxUsage \in Nat
    BY <1>2, LruAssumption DEF Index, Miss
  <2>2. Good(map', next_usage') /\ DOMAIN map' = DOMAIN map
        /\ next_usage' \in 1 .. MaxUsage + 1 /\ result' \in Stored
    BY <1>2, <2>1, Hit DEF Index
  <2>3. HandlesOK'
    BY <1>2, <2>2 DEF Index, IInv, HandlesOK
  <2>4. QED
    BY <2>2, <2>3 DEF IInv
<1>3. QED
  BY <1>1, <1>2

\* The value behind a pointer changes, the stamps do not.
LEMMA WriteThroughStep ==
    ASSUME NEW v \in Values, IInv, WriteThrough(v)
    PROVE  IInv'
<1> DEFINE k == pointer
<1>1. k \in DOMAIN map /\ map' = [map EXCEPT ![k].value = v]
  BY DEF WriteThrough
<1>2. DOMAIN map' = DOMAIN map /\ \A j \in DOMAIN map : j # k => map'[j] = map[j]
  BY <1>1
<1>3. map[k] \in Entry
  BY <1>1 DEF IInv, Good
<1>4. map'[k] = [map[k] EXCEPT !.value = v]
  BY <1>1
<1>5. map'[k] \in Entry /\ map'[k].used = map[k].used
  BY <1>3, <1>4 DEF Entry, Stored
<1>6. \A j \in DOMAIN map' : map'[j] \in Entry /\ map'[j].used = map[j].used
  BY <1>2, <1>5 DEF IInv, Good
<1>7. Good(map', next_usage)
  BY <1>2, <1>6 DEF IInv, Good
<1>8. QED
  BY <1>2, <1>7 DEF IInv, HandlesOK, WriteThrough

LEMMA EmplaceGetStep ==
    ASSUME NEW k \in Keys, NEW v \in Values, IInv, emplace_get(k, v)
    PROVE  IInv'
<1>1. CASE get(k)
  BY <1>1, GetStep
<1>2. CASE ~get(k)
  <2>1. Room(1) /\ MaxUsage \in Nat /\ MaxSize \in Nat /\ v \in Stored
    BY <1>2, LruAssumption DEF emplace_get, Stored
  <2>2. next_usage \in 1 .. MaxUsage
    BY <2>1 DEF IInv, Room
  <2>3. Good(LruSet(map, next_usage, k, v), next_usage + 1)
        /\ Cardinality(DOMAIN LruSet(map, next_usage, k, v)) <= MaxSize
    BY <2>1, <2>2, StoreAndCleanUp DEF IInv
  <2>4. HandlesOK'
    BY <1>2, <2>1 DEF IInv, HandlesOK, emplace_get
  <2>5. /\ map' = LruSet(map, next_usage, k, v)
        /\ next_usage' = next_usage + 1
    BY <1>2 DEF emplace_get
  <2>6. Good(map', next_usage') /\ Cardinality(DOMAIN map') <= MaxSize
    BY <2>3, <2>5
  <2>7. next_usage' \in 1 .. MaxUsage + 1
    BY <2>1, <2>2, <2>5
  <2>8. QED
    BY <2>4, <2>6, <2>7 DEF IInv
<1>3. QED
  BY <1>1, <1>2

LEMMA EmplaceGetPtrStep ==
    ASSUME NEW k \in Keys, NEW v \in Values, IInv, emplace_get_ptr(k, v)
    PROVE  IInv'
<1>1. CASE get_ptr(k)
  BY <1>1, GetPtrStep
<1>2. CASE ~get_ptr(k)
  <2> DEFINE m == LruSet(map, next_usage, k, v)
  <2>1. Room(2) /\ MaxUsage \in Nat /\ MaxSize \in Nat /\ v \in Stored
    BY <1>2, LruAssumption DEF emplace_get_ptr, Stored
  <2>2. next_usage \in 1 .. MaxUsage /\ next_usage + 1 \in 1 .. MaxUsage
    BY <2>1 DEF IInv, Room
  <2>3. Good(m, next_usage + 1) /\ Cardinality(DOMAIN m) <= MaxSize
    BY <2>1, <2>2, StoreAndCleanUp DEF IInv
  <2>4. CASE k \in DOMAIN m
    <3>1. /\ map' = GateSetOptions(m, k, next_usage + 1)
          /\ next_usage' = next_usage + 2
          /\ result' = v /\ pointer' = k /\ handle' = handle
      BY <1>2, <2>4 DEF emplace_get_ptr
    <3>2. Good(map', next_usage + 1 + 1) /\ DOMAIN map' = DOMAIN m
      <4> HIDE DEF m
      <4>1. QED
        BY <2>1, <2>2, <2>3, <2>4, <3>1, Touch
    <3>3. next_usage + 1 + 1 = next_usage'
      BY <2>2, <3>1
    <3>4. HandlesOK'
      BY <2>1, <3>1 DEF IInv, HandlesOK
    <3>5. Good(map', next_usage') /\ Cardinality(DOMAIN map') <= MaxSize
      <4> HIDE DEF m
      <4>1. QED
        BY <2>3, <3>2, <3>3
    <3>6. next_usage' \in 1 .. MaxUsage + 1
      BY <2>1, <2>2, <3>1
    <3>7. QED
      BY <3>4, <3>5, <3>6 DEF IInv
  <2>5. CASE k \notin DOMAIN m
    <3>1. /\ map' = m /\ next_usage' = next_usage + 1
          /\ result' = NoValue /\ pointer' = NoValue /\ handle' = handle
      BY <1>2, <2>5 DEF emplace_get_ptr
    <3>2. HandlesOK'
      BY <3>1 DEF IInv, HandlesOK
    <3>3. Good(map', next_usage') /\ Cardinality(DOMAIN map') <= MaxSize
      <4> HIDE DEF m
      <4>1. QED
        BY <2>3, <3>1
    <3>4. next_usage' \in 1 .. MaxUsage + 1
      BY <2>1, <2>2, <3>1
    <3>5. QED
      BY <3>2, <3>3, <3>4 DEF IInv
  <2>6. QED
    BY <2>4, <2>5
<1>3. QED
  BY <1>1, <1>2

\* The invariant is inductive: every call keeps it.
THEOREM Inductive == Spec => []IInv
<1>1. Init => IInv
  <2> SUFFICES ASSUME Init PROVE IInv
    OBVIOUS
  <2>1. DOMAIN map = {}
    BY DEF Init
  <2>2. Cardinality(DOMAIN map) <= MaxSize
    BY <2>1, FS_EmptySet, LruAssumption
  <2>3. HandlesOK
    BY DEF Init, HandlesOK, NoHandle
  <2>4. QED
    BY <2>1, <2>2, <2>3, LruAssumption DEF Init, IInv, Good
<1>2. IInv /\ [Next]_vars => IInv'
  <2> SUFFICES ASSUME IInv, [Next]_vars PROVE IInv'
    OBVIOUS
  <2>1. ASSUME NEW k \in Keys, get(k) PROVE IInv'
    BY <2>1, GetStep
  <2>2. ASSUME NEW k \in Keys, get_ptr(k) PROVE IInv'
    BY <2>2, GetPtrStep
  <2>3. ASSUME NEW k \in Keys, Index(k) PROVE IInv'
    BY <2>3, IndexStep
  <2>4. ASSUME NEW k \in Keys, NEW v \in Values, set(k, v) PROVE IInv'
    BY <2>4, SetStep DEF Stored
  <2>5. ASSUME NEW k \in Keys, NEW v \in Values, emplace_get(k, v) PROVE IInv'
    BY <2>5, EmplaceGetStep
  <2>6. ASSUME NEW k \in Keys, NEW v \in Values, emplace_get_ptr(k, v) PROVE IInv'
    BY <2>6, EmplaceGetPtrStep
  <2>7. ASSUME NEW v \in Values, WriteThrough(v) PROVE IInv'
    BY <2>7, WriteThroughStep
  <2>8. ASSUME NEW v \in Values, Assign(v) PROVE IInv'
    BY <2>8, SetStep DEF Assign, Stored
  <2>9. CASE Save
    <3>1. handle.key \in Keys /\ handle.value \in Stored
      BY <2>9 DEF Save, IInv, HandlesOK
    <3>2. QED
      BY <2>9, <3>1, SetStep DEF Save
  <2>10. CASE UNCHANGED vars
    BY <2>10 DEF vars, IInv, HandlesOK, Good
  <2>11. QED
    BY <2>1, <2>2, <2>3, <2>4, <2>5, <2>6, <2>7, <2>8, <2>9, <2>10 DEF Next
<1>3. QED
  BY <1>1, <1>2, PTL DEF Spec

\* Every value in the cache, and every value a call returned, is one the user
\* stored or what a move left of one.
THEOREM TypeCorrect == Spec => []TypeOK
<1>1. IInv => TypeOK
  BY DEF IInv, TypeOK, HandlesOK, Good
<1>2. QED
  BY <1>1, Inductive, PTL

\* next_usage is a clock: entries carry distinct stamps of its past.
THEOREM StampsAreDistinct == Spec => []StampsDistinct
<1>1. IInv => StampsDistinct
  BY DEF IInv, StampsDistinct, Good
<1>2. QED
  BY <1>1, Inductive, PTL

\* clean_up() bounds the cache by max_size without ever counting its entries.
THEOREM SizeBounded == Spec => []SizeBound
<1>1. IInv => SizeBound
  BY DEF IInv, SizeBound
<1>2. QED
  BY <1>1, Inductive, PTL
-----------------------------------------------------------------------------
\* What the contract sees of a map: its values, and the order of the uses.
Held(m) == [k \in DOMAIN m |-> m[k].value]
Before(m) == {p \in (DOMAIN m) \X (DOMAIN m) : m[p[1]].used < m[p[2]].used}

\* The order of uses after k was used last, as the contract defines it.
Latest(m, k) ==
    {p \in Before(m) : k \notin {p[1], p[2]}} \cup ((DOMAIN Held(m) \ {k}) \X {k})

\* With values a move leaves alone, nothing but what the user stored is kept.
ValuesKept ==
    /\ \A k \in DOMAIN map : map[k].value \in Values
    /\ handle.value \in Values \cup {NoValue}

\* Two relations over S that hold of the same pairs are the same.
LEMMA SamePairs ==
    ASSUME NEW S, NEW R, NEW T, R \subseteq S \X S, T \subseteq S \X S,
           \A a, b \in S : <<a, b>> \in R <=> <<a, b>> \in T
    PROVE  R = T
<1>1. \A p \in S \X S : p \in R <=> p \in T
  <2> SUFFICES ASSUME NEW p \in S \X S PROVE p \in R <=> p \in T
    OBVIOUS
  <2>1. PICK a \in S, b \in S : p = <<a, b>>
    OBVIOUS
  <2>2. QED
    BY <2>1
<1>2. QED
  BY <1>1

\* The pairs of the two orders.
LEMMA Orders ==
    ASSUME NEW m, NEW k
    PROVE  /\ Before(m) \subseteq (DOMAIN m) \X (DOMAIN m)
           /\ \A a, b : <<a, b>> \in Before(m)
                 <=> a \in DOMAIN m /\ b \in DOMAIN m /\ m[a].used < m[b].used
           /\ Latest(m, k) \subseteq (DOMAIN m \cup {k}) \X (DOMAIN m \cup {k})
           /\ \A a, b : <<a, b>> \in Latest(m, k)
                 <=> \/ <<a, b>> \in Before(m) /\ a # k /\ b # k
                     \/ a \in DOMAIN m /\ a # k /\ b = k
<1>1. DOMAIN Held(m) = DOMAIN m
  BY DEF Held
<1>2. Before(m) \subseteq (DOMAIN m) \X (DOMAIN m)
  BY DEF Before
<1>3. \A a, b : <<a, b>> \in Before(m)
                 <=> a \in DOMAIN m /\ b \in DOMAIN m /\ m[a].used < m[b].used
  BY DEF Before
<1>4. \A a, b : <<a, b>> \in Latest(m, k)
                 <=> \/ <<a, b>> \in Before(m) /\ a # k /\ b # k
                     \/ a \in DOMAIN m /\ a # k /\ b = k
  BY <1>1 DEF Latest
<1>5. Latest(m, k) \subseteq (DOMAIN m \cup {k}) \X (DOMAIN m \cup {k})
  BY <1>1, <1>2 DEF Latest
<1>6. QED
  BY <1>2, <1>3, <1>4, <1>5

\* set_options with a fresh stamp: the values stay, k was used last.
LEMMA TouchIsUse ==
    ASSUME NEW m, NEW n \in 1 .. MaxUsage, NEW k \in DOMAIN m, Good(m, n), MaxUsage \in Nat
    PROVE  /\ Held(GateSetOptions(m, k, n)) = Held(m)
           /\ Before(GateSetOptions(m, k, n)) = Latest(m, k)
<1> DEFINE g == GateSetOptions(m, k, n)
<1>1. DOMAIN g = DOMAIN m /\ \A j \in DOMAIN m : j # k => g[j] = m[j]
  BY DEF GateSetOptions
<1>2. \A j \in DOMAIN m : m[j] \in Entry /\ m[j].used < n /\ m[j].used \in Int
  BY DEF Good, Entry
<1>3. g[k].used = n /\ g[k].value = m[k].value
  <2>1. g[k] = [m[k] EXCEPT !.used = n]
    BY DEF GateSetOptions
  <2>2. QED
    BY <1>2, <2>1 DEF Entry
<1> HIDE DEF g
<1>4. Held(g) = Held(m)
  BY <1>1, <1>3 DEF Held
<1>5. ASSUME NEW a \in DOMAIN m, NEW b \in DOMAIN m
      PROVE  <<a, b>> \in Before(g) <=> <<a, b>> \in Latest(m, k)
  <2>1. <<a, b>> \in Before(g) <=> g[a].used < g[b].used
    BY <1>1, Orders
  <2>2. <<a, b>> \in Latest(m, k) <=> \/ m[a].used < m[b].used /\ a # k /\ b # k
                                      \/ a # k /\ b = k
    BY Orders
  <2>3. QED
    BY <1>1, <1>2, <1>3, <2>1, <2>2
<1>6. Before(g) \subseteq (DOMAIN m) \X (DOMAIN m) /\ Latest(m, k) \subseteq (DOMAIN m) \X (DOMAIN m)
  <2>1. DOMAIN m \cup {k} = DOMAIN m
    OBVIOUS
  <2>2. QED
    BY <1>1, <2>1, Orders
<1>7. Before(g) = Latest(m, k)
  BY <1>5, <1>6, SamePairs
<1>8. QED
  BY <1>4, <1>7 DEF g

\* insert_or_assign with a fresh stamp: k has the new value and was used last.
LEMMA InsertIsUse ==
    ASSUME NEW m, NEW n \in 1 .. MaxUsage, NEW k, NEW v, Good(m, n), MaxUsage \in Nat
    PROVE  LET g == GateSet(m, k, v, n)
           IN  /\ DOMAIN g = DOMAIN m \cup {k}
               /\ g[k].used = n
               /\ \A j \in DOMAIN g : g[j].used \in Int /\ g[j].used <= n
               /\ \A j \in DOMAIN g : g[j].value = IF j = k THEN v ELSE Held(m)[j]
               /\ Before(g) = Latest(m, k)
<1> DEFINE g == GateSet(m, k, v, n)
<1>1. /\ DOMAIN g = DOMAIN m \cup {k}
      /\ \A j \in DOMAIN g : j # k => j \in DOMAIN m /\ g[j] = m[j]
      /\ g[k] = [value |-> v, used |-> n]
  BY DEF GateSet
<1>2. \A j \in DOMAIN m : m[j].used < n /\ m[j].used \in Int
  BY DEF Good, Entry
<1> HIDE DEF g
<1>3. \A j \in DOMAIN g : g[j].used \in Int /\ g[j].used <= n
  BY <1>1, <1>2
<1>4. \A j \in DOMAIN g : g[j].value = IF j = k THEN v ELSE Held(m)[j]
  BY <1>1 DEF Held
<1>5. ASSUME NEW a \in DOMAIN g, NEW b \in DOMAIN g
      PROVE  <<a, b>> \in Before(g) <=> <<a, b>> \in Latest(m, k)
  <2>1. <<a, b>> \in Before(g) <=> g[a].used < g[b].used
    BY Orders
  <2>2. <<a, b>> \in Latest(m, k)
           <=> \/ a \in DOMAIN m /\ b \in DOMAIN m /\ m[a].used < m[b].used /\ a # k /\ b # k
               \/ a \in DOMAIN m /\ a # k /\ b = k
    BY Orders
  <2>3. QED
    BY <1>1, <1>2, <2>1, <2>2
<1>6. Before(g) \subseteq (DOMAIN g) \X (DOMAIN g) /\ Latest(m, k) \subseteq (DOMAIN g) \X (DOMAIN g)
  BY <1>1, Orders
<1>7. Before(g) = Latest(m, k)
  BY <1>5, <1>6, SamePairs
<1>8. QED
  BY <1>1, <1>3, <1>4, <1>7 DEF g

\* set() of the strategy: what clean_up() erases are the entries used longest
\* ago, and not the one just stored unless there is room for none.
LEMMA StoreIsStore ==
    ASSUME NEW m, NEW n \in 1 .. MaxUsage, NEW k \in Keys, NEW v \in Stored,
           Good(m, n), MaxUsage \in Nat, MaxSize \in Nat
    PROVE  LET c == LruSet(m, n, k, v)
               S == DOMAIN Held(m) \cup {k}
               D == S \ DOMAIN c
           IN  /\ D \in SUBSET S
               /\ \A d \in D, j \in S \ D : <<d, j>> \in Latest(m, k)
               /\ Cardinality(S \ D) <= MaxSize
               /\ k \in D => MaxSize = 0
               /\ Held(c) = [j \in S \ D |-> IF j = k THEN v ELSE Held(m)[j]]
               /\ Before(c) = Latest(m, k) \cap ((S \ D) \X (S \ D))
               /\ \A j \in DOMAIN c : c[j].used <= n /\ (j # k => c[j].used < n)
<1> DEFINE g == GateSet(m, k, v, n)
           c == CleanUp(g, n + 1)
           S == DOMAIN Held(m) \cup {k}
           D == S \ DOMAIN c
<1>1. /\ DOMAIN g = S
      /\ g[k].used = n
      /\ \A j \in DOMAIN g : g[j].used \in Int /\ g[j].used <= n
      /\ \A j \in DOMAIN g : g[j].value = IF j = k THEN v ELSE Held(m)[j]
      /\ Before(g) = Latest(m, k)
  <2>1. DOMAIN Held(m) = DOMAIN m
    BY DEF Held
  <2>2. /\ DOMAIN g = DOMAIN m \cup {k}
        /\ g[k].used = n
        /\ \A j \in DOMAIN g : g[j].used \in Int /\ g[j].used <= n
        /\ \A j \in DOMAIN g : g[j].value = IF j = k THEN v ELSE Held(m)[j]
        /\ Before(g) = Latest(m, k)
    BY InsertIsUse, Zenon
  <2> HIDE DEF g
  <2>3. QED
    BY <2>1, <2>2
<1>2. \A j \in DOMAIN g : j # k => g[j].used < n
  BY DEF GateSet, Good, Entry
<1>3. /\ DOMAIN c \subseteq DOMAIN g
      /\ \A j \in DOMAIN c : c[j] = g[j]
      /\ \A d \in DOMAIN g \ DOMAIN c, j \in DOMAIN c : g[d].used < g[j].used
      /\ k \notin DOMAIN c => MaxSize = 0
  <2>1. CASE n + 1 <= MaxSize
    BY <1>1, <2>1 DEF CleanUp
  <2>2. CASE ~(n + 1 <= MaxSize)
    <3> DEFINE b == (n + 1) - MaxSize
    <3>1. /\ DOMAIN c = {j \in DOMAIN g : g[j].used >= b}
          /\ \A j \in DOMAIN c : c[j] = g[j]
      BY <2>2 DEF CleanUp, GateEraseOlder
    <3> HIDE DEF c, g
    <3>2. b \in Int /\ (k \notin DOMAIN c => n < b)
      BY <1>1, <3>1
    <3>3. QED
      BY <1>1, <3>1, <3>2
  <2>3. QED
    BY <2>1, <2>2
<1>4. Cardinality(DOMAIN c) <= MaxSize /\ c = LruSet(m, n, k, v)
  BY StoreAndCleanUp DEF LruSet
<1> HIDE DEF c, g
<1>5. S \ D = DOMAIN c /\ D \in SUBSET S
  BY <1>1, <1>3
<1>6. \A d \in D, j \in S \ D : <<d, j>> \in Latest(m, k)
  <2> SUFFICES ASSUME NEW d \in D, NEW j \in DOMAIN c PROVE <<d, j>> \in Before(g)
    BY <1>1, <1>5
  <2>1. d \in DOMAIN g /\ j \in DOMAIN g /\ g[d].used < g[j].used
    BY <1>1, <1>3
  <2>2. QED
    BY <2>1, Orders
<1>7. Held(c) = [j \in S \ D |-> IF j = k THEN v ELSE Held(m)[j]]
  <2>1. \A j \in DOMAIN c : c[j].value = IF j = k THEN v ELSE Held(m)[j]
    BY <1>1, <1>3
  <2> HIDE DEF D, S
  <2>2. QED
    BY <1>5, <2>1 DEF Held
<1>8. Before(c) = Latest(m, k) \cap ((S \ D) \X (S \ D))
  <2>1. ASSUME NEW a \in DOMAIN c, NEW b \in DOMAIN c
        PROVE  <<a, b>> \in Before(c)
                  <=> <<a, b>> \in Latest(m, k) \cap ((DOMAIN c) \X (DOMAIN c))
    <3>1. <<a, b>> \in Before(c) <=> c[a].used < c[b].used
      BY Orders
    <3>2. <<a, b>> \in Before(g) <=> g[a].used < g[b].used
      BY <1>3, Orders
    <3>3. QED
      BY <1>1, <1>3, <3>1, <3>2
  <2>2. Before(c) \subseteq (DOMAIN c) \X (DOMAIN c)
    BY Orders
  <2> HIDE DEF D, S
  <2>3. Before(c) = Latest(m, k) \cap ((DOMAIN c) \X (DOMAIN c))
    BY <2>1, <2>2, SamePairs
  <2>4. QED
    BY <1>5, <2>3
<1>9. \A j \in DOMAIN c : c[j].used <= n /\ (j # k => c[j].used < n)
  BY <1>1, <1>2, <1>3
<1>10. QED
  BY <1>3, <1>4, <1>5, <1>6, <1>7, <1>8, <1>9
-----------------------------------------------------------------------------
\* The variables of the contract, as the refinement mapping gives them.
LEMMA Mapping ==
    /\ [k \in DOMAIN map |-> map[k].value] = Held(map)
    /\ {p \in (DOMAIN map) \X (DOMAIN map) : map[p[1]].used < map[p[2]].used} = Before(map)
    /\ [k \in DOMAIN map' |-> map'[k].value] = Held(map')
    /\ {p \in (DOMAIN map') \X (DOMAIN map') : map'[p[1]].used < map'[p[2]].used} = Before(map')
BY DEF Held, Before

\* The contract counts as the cache does.
LEMMA SameCardinality == \A S : Contract!Cardinality(S) = Cardinality(S)
BY DEF Contract!Cardinality, Cardinality

\* A hit of get, get_ptr or operator[] is a lookup of the contract.
LEMMA HitIsLookup ==
    ASSUME NEW k \in DOMAIN map, IInv, Room(1), result' = map[k].value,
           map' = GateSetOptions(map, k, next_usage)
    PROVE  Contract!Lookup(k)
<1>1. next_usage \in 1 .. MaxUsage /\ MaxUsage \in Nat /\ Good(map, next_usage)
  BY LruAssumption DEF IInv, Room
<1>2. Held(map') = Held(map) /\ Before(map') = Latest(map, k)
  BY <1>1, TouchIsUse
<1>3. k \in DOMAIN Held(map) /\ result' = Held(map)[k]
  BY DEF Held
<1>4. QED
  BY <1>2, <1>3, Mapping DEF Contract!Lookup, Contract!Used, Latest

\* A miss is one too.
LEMMA MissIsLookup ==
    ASSUME NEW k, k \notin DOMAIN map, result' = NoValue, map' = map
    PROVE  Contract!Lookup(k)
BY DEF Contract!Lookup

\* set() of the strategy is a store of the contract.
LEMMA SetIsStore ==
    ASSUME NEW k \in Keys, NEW v \in Values, IInv, Room(1),
           Held(map') = Held(LruSet(map, next_usage, k, v)),
           Before(map') = Before(LruSet(map, next_usage, k, v))
    PROVE  Contract!Store(k, v)
<1> DEFINE c == LruSet(map, next_usage, k, v)
           S == DOMAIN Held(map) \cup {k}
           D == S \ DOMAIN c
<1>1. next_usage \in 1 .. MaxUsage /\ MaxUsage \in Nat /\ MaxSize \in Nat
      /\ Good(map, next_usage) /\ v \in Stored
  BY LruAssumption DEF IInv, Room, Stored
<1>2. /\ D \in SUBSET S
      /\ \A d \in D, j \in S \ D : <<d, j>> \in Latest(map, k)
      /\ Cardinality(S \ D) <= MaxSize
      /\ k \in D => MaxSize = 0
      /\ Held(c) = [j \in S \ D |-> IF j = k THEN v ELSE Held(map)[j]]
      /\ Before(c) = Latest(map, k) \cap ((S \ D) \X (S \ D))
  BY <1>1, StoreIsStore
<1> HIDE DEF c, D
<1>3. Contract!OldestOf(S, Latest(map, k), D)
  BY <1>2 DEF Contract!OldestOf
<1>4. Contract!Used(k) = Latest(map, k)
  BY Mapping DEF Contract!Used, Latest
<1>5. Held(map') = Held(c) /\ Before(map') = Before(c)
  BY DEF c
<1>6. /\ D \in SUBSET S
      /\ Contract!OldestOf(S, Contract!Used(k), D)
      /\ Contract!Cardinality(S \ D) <= MaxSize
      /\ k \in D => MaxSize = 0
      /\ Held(map') = [j \in S \ D |-> IF j = k THEN v ELSE Held(map)[j]]
      /\ Before(map') = Contract!Used(k) \cap ((S \ D) \X (S \ D))
  BY <1>2, <1>3, <1>4, <1>5, SameCardinality
<1> HIDE DEF S
<1>7. S = DOMAIN Held(map) \cup {k}
  BY DEF S
<1>8. QED
  BY <1>6, <1>7, Zenon DEF Contract!Store, Held, Before

\* The pairs and values a write through a pointer leaves.
LEMMA WriteIsModify ==
    ASSUME NEW v \in Values, IInv, WriteThrough(v)
    PROVE  pointer \in Keys /\ Contract!Modify(pointer, v)
<1> DEFINE k == pointer
<1>1. /\ k \in DOMAIN map /\ DOMAIN map' = DOMAIN map
      /\ \A j \in DOMAIN map : j # k => map'[j] = map[j]
      /\ map'[k] = [map[k] EXCEPT !.value = v]
  BY DEF WriteThrough
<1>2. map[k] \in Entry /\ k \in Keys
  BY <1>1 DEF IInv, Good
<1>3. map'[k].value = v /\ map'[k].used = map[k].used
  BY <1>1, <1>2 DEF Entry
<1>4. Held(map') = [Held(map) EXCEPT ![k] = v] /\ k \in DOMAIN Held(map)
  BY <1>1, <1>3 DEF Held
<1>5. Before(map') = Before(map)
  BY <1>1, <1>3 DEF Before
<1>6. result' = result
  BY DEF WriteThrough
<1>7. QED
  BY <1>2, <1>4, <1>5, <1>6, Mapping DEF Contract!Modify

\* Every call of the cache is one step of the contract.
LEMMA StepSimulation ==
    ASSUME TrivialMove, IInv, ValuesKept, [Next]_vars
    PROVE  [Contract!Next]_(Contract!vars)
<1>g. \A k : GateGet(map, k) = map
  BY DEF GateGet
<1>k. \A k \in DOMAIN map : k \in Keys
  BY DEF IInv, Good
<1>1. ASSUME NEW k \in Keys, get(k) \/ get_ptr(k) \/ Index(k)
      PROVE  Contract!Lookup(k)
  <2>1. CASE Miss(k)
    BY <1>1, <2>1, MissIsLookup DEF get, get_ptr, Index, Miss
  <2>2. CASE ~Miss(k)
    <3>1. /\ k \in DOMAIN map /\ Room(1) /\ result' = map[k].value
          /\ map' = GateSetOptions(map, k, next_usage)
      BY <1>1, <2>2, <1>g DEF get, get_ptr, Index, Miss
    <3>2. QED
      BY <3>1, HitIsLookup
  <2>3. QED
    BY <2>1, <2>2
<1>2. ASSUME NEW k \in Keys, NEW v \in Values, set(k, v)
      PROVE  Contract!Set(k, v)
  BY <1>2, SetIsStore DEF set, Contract!Set
<1>3. ASSUME NEW k \in Keys, NEW v \in Values, emplace_get(k, v)
      PROVE  Contract!LookupOrStore(k, v)
  <2>1. CASE ~Miss(k) /\ get(k)
    <3>1. k \in DOMAIN Held(map)
      BY <2>1 DEF Miss, Held
    <3>2. QED
      BY <1>1, <2>1, <3>1, Mapping DEF Contract!LookupOrStore
  <2>2. CASE ~(~Miss(k) /\ get(k))
    <3>1. /\ k \notin DOMAIN Held(map) /\ Room(1) /\ result' = v
          /\ map' = LruSet(map, next_usage, k, v)
      BY <1>3, <2>2 DEF emplace_get, Miss, Held
    <3>2. Contract!Store(k, v)
      BY <3>1, SetIsStore
    <3>3. QED
      BY <3>1, <3>2, Mapping DEF Contract!LookupOrStore
  <2>3. QED
    BY <2>1, <2>2
<1>4. ASSUME NEW k \in Keys, NEW v \in Values, emplace_get_ptr(k, v)
      PROVE  Contract!LookupOrStore(k, v)
  <2>1. CASE ~Miss(k) /\ get_ptr(k)
    <3>1. k \in DOMAIN Held(map)
      BY <2>1 DEF Miss, Held
    <3>2. QED
      BY <1>1, <2>1, <3>1, Mapping DEF Contract!LookupOrStore
  <2>2. CASE ~(~Miss(k) /\ get_ptr(k))
    <3> DEFINE m == LruSet(map, next_usage, k, v)
    <3>1. k \notin DOMAIN Held(map) /\ Room(2) /\ Room(1)
      BY <1>4, <2>2, LruAssumption DEF emplace_get_ptr, Miss, Held, Room, IInv
    <3>2. /\ next_usage \in 1 .. MaxUsage /\ next_usage + 1 \in 1 .. MaxUsage
          /\ MaxUsage \in Nat /\ MaxSize \in Nat /\ v \in Stored /\ Good(map, next_usage)
      BY <3>1, LruAssumption DEF IInv, Room, Stored
    <3>3. /\ Good(m, next_usage + 1)
          /\ k \notin DOMAIN m => MaxSize = 0
          /\ \A j \in DOMAIN m : j # k => m[j].used < next_usage
          /\ k \in DOMAIN m => m[k].used = next_usage
      <4>1. Good(m, next_usage + 1)
        BY <3>2, StoreAndCleanUp
      <4>2. /\ k \notin DOMAIN m => MaxSize = 0
            /\ \A j \in DOMAIN m : j # k => m[j].used < next_usage
        BY <3>2, StoreIsStore
      <4>3. k \in DOMAIN m => m[k].used = next_usage
        BY DEF LruSet, CleanUp, GateEraseOlder, GateSet
      <4>4. QED
        BY <4>1, <4>2, <4>3
    <3>4. CASE k \in DOMAIN m
      <4>1. map' = GateSetOptions(m, k, next_usage + 1) /\ result' = v
        BY <1>4, <2>2, <3>4 DEF emplace_get_ptr
      <4> HIDE DEF m
      <4>2. Held(map') = Held(m) /\ Before(map') = Latest(m, k)
        BY <3>2, <3>3, <3>4, <4>1, TouchIsUse
      <4>3. Latest(m, k) = Before(m)
        <5>1. ASSUME NEW a \in DOMAIN m, NEW b \in DOMAIN m
              PROVE  <<a, b>> \in Latest(m, k) <=> <<a, b>> \in Before(m)
          <6>1. m[a].used \in Int /\ m[b].used \in Int
            BY <3>3 DEF Good, Entry
          <6>2. <<a, b>> \in Before(m) <=> m[a].used < m[b].used
            BY Orders
          <6>3. <<a, b>> \in Latest(m, k)
                   <=> \/ m[a].used < m[b].used /\ a # k /\ b # k
                       \/ a # k /\ b = k
            BY <6>2, Orders
          <6>4. QED
            BY <3>2, <3>3, <3>4, <6>1, <6>2, <6>3
        <5>2. DOMAIN m \cup {k} = DOMAIN m
          BY <3>4
        <5>3. /\ Before(m) \subseteq (DOMAIN m) \X (DOMAIN m)
              /\ Latest(m, k) \subseteq (DOMAIN m) \X (DOMAIN m)
          BY <5>2, Orders
        <5>4. QED
          BY <5>1, <5>3, SamePairs
      <4>4. Contract!Store(k, v)
        BY <3>1, <4>2, <4>3, SetIsStore DEF m
      <4>5. QED
        BY <3>1, <4>1, <4>4, Mapping DEF Contract!LookupOrStore
    <3>5. CASE k \notin DOMAIN m
      <4>1. map' = m /\ result' = NoValue
        BY <1>4, <2>2, <3>5 DEF emplace_get_ptr
      <4>2. Contract!Store(k, v)
        BY <3>1, <4>1, SetIsStore
      <4> HIDE DEF m
      <4>3. QED
        BY <3>1, <3>3, <3>5, <4>1, <4>2, Mapping DEF Contract!LookupOrStore
    <3>6. QED
      BY <3>4, <3>5
  <2>3. QED
    BY <2>1, <2>2
<1>5. ASSUME NEW v \in Values, WriteThrough(v)
      PROVE  \E k \in Keys : Contract!Modify(k, v)
  BY <1>5, WriteIsModify
<1>6. ASSUME NEW v \in Values, Assign(v)
      PROVE  \E k \in Keys : Contract!Set(k, v)
  BY <1>2, <1>6 DEF Assign
<1>7. ASSUME Save
      PROVE  \E k \in Keys, v \in Values : Contract!Set(k, v)
  <2>1. handle.key \in Keys /\ handle.value \in Values /\ set(handle.key, handle.value)
    BY <1>7 DEF Save, ValuesKept
  <2>2. QED
    BY <1>2, <2>1
<1>8. CASE UNCHANGED vars
  BY <1>8 DEF vars, Contract!vars
<1>9. QED
  BY <1>1, <1>2, <1>3, <1>4, <1>5, <1>6, <1>7, <1>8 DEF Next, Contract!Next

\* The values a map keeps under clean_up() and set() of the strategy.
LEMMA SetKeeps ==
    ASSUME NEW m, NEW n, NEW k, NEW v \in Values, \A j \in DOMAIN m : m[j].value \in Values
    PROVE  \A j \in DOMAIN LruSet(m, n, k, v) : LruSet(m, n, k, v)[j].value \in Values
BY DEF LruSet, CleanUp, GateEraseOlder, GateSet

\* And under set_options.
LEMMA TouchKeeps ==
    ASSUME NEW m, NEW n, NEW k, \A j \in DOMAIN m : m[j].value \in Values /\ m[j] \in Entry
    PROVE  \A j \in DOMAIN GateSetOptions(m, k, n) : GateSetOptions(m, k, n)[j].value \in Values
<1> SUFFICES ASSUME NEW j \in DOMAIN m
             PROVE  GateSetOptions(m, k, n)[j].value \in Values
  BY DEF GateSetOptions
<1>1. [m[j] EXCEPT !.used = n].value = m[j].value
  BY DEF Entry
<1>2. QED
  BY <1>1 DEF GateSetOptions

\* No call brings in a value the user did not store.
LEMMA ValuesStep ==
    ASSUME TrivialMove, IInv, ValuesKept, [Next]_vars
    PROVE  ValuesKept'
<1> DEFINE Kept(m) == \A k \in DOMAIN m : m[k].value \in Values
<1>g. \A k : GateGet(map, k) = map
  BY DEF GateGet
<1>e. Kept(map) /\ \A k \in DOMAIN map : map[k] \in Entry
  BY DEF ValuesKept, IInv, Good
<1>t. \A k : Kept(GateSetOptions(map, k, next_usage))
  BY <1>e, TouchKeeps
<1>1. ASSUME NEW k \in Keys, get(k) \/ get_ptr(k)
      PROVE  ValuesKept'
  <2>1. Kept(map') /\ handle' = handle
    BY <1>1, <1>g, <1>e, <1>t DEF get, get_ptr
  <2>2. QED
    BY <2>1 DEF ValuesKept
<1>2. ASSUME NEW k \in Keys, Index(k)
      PROVE  ValuesKept'
  <2>1. Kept(map')
    BY <1>2, <1>g, <1>e, <1>t DEF Index
  <2>2. handle'.value \in Values \cup {NoValue}
    BY <1>2, <1>e DEF Index, Miss
  <2>3. QED
    BY <2>1, <2>2 DEF ValuesKept
<1>3. ASSUME NEW k \in Keys, NEW v \in Values, set(k, v)
      PROVE  ValuesKept'
  <2>1. Kept(map')
    BY <1>3, <1>e, SetKeeps DEF set
  <2>2. QED
    BY <1>3, <2>1 DEF ValuesKept, set
<1>4. ASSUME NEW k \in Keys, NEW v \in Values, emplace_get(k, v)
      PROVE  ValuesKept'
  <2>1. CASE get(k)
    BY <1>1, <2>1
  <2>2. CASE ~get(k)
    <3>1. Kept(map') /\ handle' = handle
      BY <1>4, <2>2, <1>e, SetKeeps DEF emplace_get
    <3>2. QED
      BY <3>1 DEF ValuesKept
  <2>3. QED
    BY <2>1, <2>2
<1>5. ASSUME NEW k \in Keys, NEW v \in Values, emplace_get_ptr(k, v)
      PROVE  ValuesKept'
  <2>1. CASE get_ptr(k)
    BY <1>1, <2>1
  <2>2. CASE ~get_ptr(k)
    <3> DEFINE m == LruSet(map, next_usage, k, v)
    <3>1. Kept(m)
      BY <1>e, SetKeeps
    <3>2. \A j \in DOMAIN m : m[j] \in Entry
      <4>1. /\ next_usage \in 1 .. MaxUsage /\ MaxUsage \in Nat /\ MaxSize \in Nat
            /\ v \in Stored /\ Good(map, next_usage)
        BY <1>5, <2>2, LruAssumption DEF emplace_get_ptr, Room, IInv, Stored
      <4>2. Good(m, next_usage + 1)
        BY <4>1, StoreAndCleanUp
      <4>3. QED
        BY <4>2 DEF Good
    <3>3. map' \in {m, GateSetOptions(m, k, next_usage + 1)} /\ handle' = handle
      BY <1>5, <2>2 DEF emplace_get_ptr
    <3> HIDE DEF m
    <3>4. Kept(map')
      BY <3>1, <3>2, <3>3, TouchKeeps
    <3>5. QED
      BY <3>3, <3>4 DEF ValuesKept
  <2>3. QED
    BY <2>1, <2>2
<1>6. ASSUME NEW v \in Values, WriteThrough(v)
      PROVE  ValuesKept'
  <2>1. /\ DOMAIN map' = DOMAIN map
        /\ \A j \in DOMAIN map : map'[j].value = IF j = pointer THEN v ELSE map[j].value
    BY <1>6, <1>e DEF WriteThrough, Entry
  <2>2. QED
    BY <1>6, <1>e, <2>1 DEF ValuesKept, WriteThrough
<1>7. ASSUME NEW v \in Values, Assign(v)
      PROVE  ValuesKept'
  BY <1>3, <1>7 DEF Assign
<1>8. CASE Save
  <2>1. handle.key \in Keys /\ handle.value \in Values /\ set(handle.key, handle.value)
    BY <1>8 DEF Save, ValuesKept
  <2>2. QED
    BY <1>3, <2>1
<1>9. CASE UNCHANGED vars
  BY <1>9 DEF vars, ValuesKept
<1>10. QED
  BY <1>1, <1>2, <1>3, <1>4, <1>5, <1>6, <1>7, <1>8, <1>9 DEF Next

\* When moving from a value leaves it as it was, the cache keeps the contract:
\* values survive lookups, evictions follow the order of use, and the entry
\* just stored stays.
THEOREM Implementation == TrivialMove => (Spec => ImplementsContract)
<1> SUFFICES ASSUME TrivialMove PROVE Spec => ImplementsContract
  OBVIOUS
<1>1. Init => ValuesKept
  BY DEF Init, ValuesKept, NoHandle
<1>2. IInv /\ ValuesKept /\ [Next]_vars => ValuesKept'
  BY ValuesStep
<1>3. Init => Contract!Init
  BY DEF Init, Contract!Init
<1>4. IInv /\ ValuesKept /\ [Next]_vars => [Contract!Next]_(Contract!vars)
  BY StepSimulation
<1>5. QED
  BY <1>1, <1>2, <1>3, <1>4, Inductive, PTL DEF Spec, ImplementsContract, Contract!Spec

\* cache.hpp, "Get the value if exists": then a get leaves the value it found.
THEOREM LookupsKeepValues == TrivialMove => (Spec => LookupKeepsValue)
<1> SUFFICES ASSUME TrivialMove PROVE Spec => LookupKeepsValue
  OBVIOUS
<1>1. IInv /\ [Next]_vars
         => [\A k \in Keys : get(k) /\ ~Miss(k) => map'[k].value = map[k].value]_vars
  <2> SUFFICES ASSUME IInv, NEW k \in Keys, get(k), ~Miss(k)
               PROVE  map'[k].value = map[k].value
    OBVIOUS
  <2>1. k \in DOMAIN map /\ map[k] \in Entry
    BY DEF Miss, IInv, Good
  <2>2. map'[k] = [map[k] EXCEPT !.used = next_usage]
    BY <2>1 DEF get, GateGet, GateSetOptions
  <2>3. QED
    BY <2>1, <2>2 DEF Entry
<1>2. QED
  BY <1>1, Inductive, PTL DEF Spec, LookupKeepsValue
=============================================================================
