------------------------------ MODULE LruCache ------------------------------
(***************************************************************************)
(* The cache of src/webpp/storage: class cache (cache.hpp) with            *)
(* lru_strategy (lru_cache.hpp) over the map of memory_gate                *)
(* (memory_gate.hpp).  Every call runs to its end without giving up the    *)
(* thread, so a call is one action.                                        *)
(***************************************************************************)
EXTENDS Naturals, FiniteSets

CONSTANTS
    Keys, Values,
    NoValue,      \* std::nullopt, a null pointer, no key
    Empty,        \* what moving from a value leaves in its place
    TrivialMove,  \* moving a value leaves it as it was (int), or not (string)
    MaxSize,      \* strategy::max_size
    MaxUsage      \* bound: the uses a run may count

ASSUME LruAssumption ==
    /\ NoValue \notin Keys \cup Values \cup {Empty}
    /\ TrivialMove \in BOOLEAN
    /\ MaxSize \in Nat
    /\ MaxUsage \in Nat

Stored == Values \cup {Empty}

VARIABLES
    map,         \* memory_gate's map: key -> [value, used]; used is its option
    next_usage,  \* strategy::next_usage
    result,      \* what the last call returned
    pointer,     \* the key whose value the last get_ptr points to
    handle       \* a cache_result: the_key and its optional value

vars == <<map, next_usage, result, pointer, handle>>

NoHandle == [key |-> NoValue, value |-> NoValue]

Init ==
    /\ map = <<>>
    /\ next_usage = 1
    /\ result = NoValue
    /\ pointer = NoValue
    /\ handle = NoHandle
----------------------------------------------------------------------------
(* memory_gate                                                             *)

\* set: insert_or_assign.
GateSet(m, k, v, opts) ==
    [j \in DOMAIN m \cup {k} |-> IF j = k THEN [value |-> v, used |-> opts] ELSE m[j]]

\* Mistake: a use is not recorded, the oldest entry goes first.
GateSetOptionsNot(m, k, opts) == m

\* set_options: nothing when the key is absent.
GateSetOptions(m, k, opts) ==
    [j \in DOMAIN m |-> IF j = k THEN [m[j] EXCEPT !.used = opts] ELSE m[j]]

\* get moves the value out of the map's node into the bundle it returns.
GateGet(m, k) ==
    IF TrivialMove THEN m
    ELSE [j \in DOMAIN m |-> IF j = k THEN [m[j] EXCEPT !.value = Empty] ELSE m[j]]

\* erase_if(options < break_index)
GateEraseOlder(m, break_index) ==
    [j \in {k \in DOMAIN m : m[k].used >= break_index} |-> m[j]]
----------------------------------------------------------------------------
(* lru_strategy                                                            *)

\* Mistake: one entry too many is spared.
CleanUpOffByOne(m, usage) ==
    IF usage <= MaxSize + 1 THEN m ELSE GateEraseOlder(m, usage - MaxSize - 1)

\* clean_up(), with next_usage = usage.
CleanUp(m, usage) ==
    IF usage <= MaxSize THEN m ELSE GateEraseOlder(m, usage - MaxSize)

\* Mistake: ++next_usage for next_usage++.
LruSetPreIncrement(m, usage, k, v) == CleanUp(GateSet(m, k, v, usage + 1), usage + 1)

\* set(): the entry takes the stamp next_usage++, then clean_up().
LruSet(m, usage, k, v) == CleanUp(GateSet(m, k, v, usage), usage + 1)

Room(n) == next_usage + n <= MaxUsage + 1

set(k, v) ==
    /\ Room(1)
    /\ map' = LruSet(map, next_usage, k, v)
    /\ next_usage' = next_usage + 1
    /\ result' = NoValue
    /\ UNCHANGED <<pointer, handle>>

Miss(k) == k \notin DOMAIN map

\* Mistake: a hit does not use its stamp up.
get_sharing_stamp(k) ==
    /\ IF Miss(k)
       THEN result' = NoValue /\ UNCHANGED map
       ELSE /\ Room(1)
            /\ result' = map[k].value
            /\ map' = GateSetOptions(GateGet(map, k), k, next_usage)
    /\ UNCHANGED <<next_usage, pointer, handle>>

\* get(): a hit takes a stamp too.
get(k) ==
    /\ IF Miss(k)
       THEN result' = NoValue /\ UNCHANGED <<map, next_usage>>
       ELSE /\ Room(1)
            /\ result' = map[k].value
            /\ map' = GateSetOptions(GateGet(map, k), k, next_usage)
            /\ next_usage' = next_usage + 1
    /\ UNCHANGED <<pointer, handle>>

\* get_ptr(): as get(), but the value stays.
get_ptr(k) ==
    /\ IF Miss(k)
       THEN /\ result' = NoValue /\ pointer' = NoValue
            /\ UNCHANGED <<map, next_usage>>
       ELSE /\ Room(1)
            /\ result' = map[k].value /\ pointer' = k
            /\ map' = GateSetOptions(map, k, next_usage)
            /\ next_usage' = next_usage + 1
    /\ UNCHANGED handle

\* The user assigns through the pointer while the node it points to is there.
WriteThrough(v) ==
    /\ pointer \in DOMAIN map
    /\ map' = [map EXCEPT ![pointer].value = v]
    /\ UNCHANGED <<next_usage, result, pointer, handle>>
----------------------------------------------------------------------------
(* cache                                                                   *)

\* emplace_get(): get(), and set() when it found nothing.
emplace_get(k, v) ==
    \/ ~Miss(k) /\ get(k)
    \/ /\ Miss(k) /\ Room(1)
       /\ map' = LruSet(map, next_usage, k, v)
       /\ next_usage' = next_usage + 1
       /\ result' = v
       /\ UNCHANGED <<pointer, handle>>

\* emplace_get_ptr(): on a miss, set() and then get_ptr() again, which finds
\* nothing when set() itself cleaned the entry up.
emplace_get_ptr(k, v) ==
    \/ ~Miss(k) /\ get_ptr(k)
    \/ /\ Miss(k) /\ Room(2)
       /\ LET m == LruSet(map, next_usage, k, v)
          IN  IF k \in DOMAIN m
              THEN /\ map' = GateSetOptions(m, k, next_usage + 1)
                   /\ next_usage' = next_usage + 2
                   /\ result' = v /\ pointer' = k
              ELSE /\ map' = m
                   /\ next_usage' = next_usage + 1
                   /\ result' = NoValue /\ pointer' = NoValue
       /\ UNCHANGED handle

\* operator[]: a cache_result with the outcome of get().
Index(k) ==
    /\ IF Miss(k)
       THEN result' = NoValue /\ UNCHANGED <<map, next_usage>>
       ELSE /\ Room(1)
            /\ result' = map[k].value
            /\ map' = GateSetOptions(GateGet(map, k), k, next_usage)
            /\ next_usage' = next_usage + 1
    /\ handle' = [key |-> k, value |-> result']
    /\ UNCHANGED pointer

\* cache_result::operator=: set() in the cache; the optional keeps its value.
Assign(v) == handle.key \in Keys /\ set(handle.key, v)

\* cache_result::save(): set() the value of the optional; value() throws
\* when there is none.
Save == handle.key \in Keys /\ handle.value # NoValue /\ set(handle.key, handle.value)
----------------------------------------------------------------------------
Next ==
    \/ \E k \in Keys :
         \/ get(k) \/ get_ptr(k) \/ Index(k)
         \/ \E v \in Values : set(k, v) \/ emplace_get(k, v) \/ emplace_get_ptr(k, v)
    \/ \E v \in Values : WriteThrough(v) \/ Assign(v)
    \/ Save

Spec == Init /\ [][Next]_vars
----------------------------------------------------------------------------
Entry == [value : Stored, used : 1 .. MaxUsage]

TypeOK ==
    /\ DOMAIN map \subseteq Keys
    /\ \A k \in DOMAIN map : map[k] \in Entry
    /\ next_usage \in 1 .. MaxUsage + 1
    /\ result \in Stored \cup {NoValue}
    /\ pointer \in Keys \cup {NoValue}
    /\ handle \in [key : Keys \cup {NoValue}, value : Stored \cup {NoValue}]

\* No two entries carry the same stamp and none a stamp of the future: erasing
\* by stamp can neither spare too many entries nor take a fresh one.
StampsDistinct ==
    /\ \A k \in DOMAIN map : map[k].used < next_usage
    /\ \A j, k \in DOMAIN map : map[j].used = map[k].used => j = k

\* max_size bounds the entries held after every call, though clean_up() never
\* counts them: it only compares stamps, which lookups use up as well.
SizeBound == Cardinality(DOMAIN map) <= MaxSize

\* cache.hpp: "Get the value if exists".  What a call returned is still what
\* the cache holds under that key: a second get finds the same value.
LookupKeepsValue ==
    [][\A k \in Keys : get(k) /\ ~Miss(k) => map'[k].value = map[k].value]_vars

\* The contract a cache promises, with the order of uses read off the stamps.
Contract == INSTANCE LruContract WITH
    held   <- [k \in DOMAIN map |-> map[k].value],
    before <- {p \in (DOMAIN map) \X (DOMAIN map) : map[p[1]].used < map[p[2]].used}

\* The strategy and the gate implement the contract: values survive lookups,
\* evictions follow the order of use, the entry just stored stays.
ImplementsContract == Contract!Spec
============================================================================
