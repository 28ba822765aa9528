---------------------------- MODULE LruContract ----------------------------
(***************************************************************************)
(* What a cache with a least-recently-used strategy promises its user: it  *)
(* may forget entries, oldest use first, but never the entry just stored,  *)
(* never more than asked for room, and a lookup returns what was stored    *)
(* last under the key and leaves every value alone.                        *)
(***************************************************************************)
EXTENDS Naturals, FiniteSets

CONSTANTS Keys, Values, NoValue, MaxSize

VARIABLES
    held,      \* the entries: a function from the keys held to their values
    before,    \* the pairs <<a, b>> of keys held with a used before b
    result     \* what the last call returned

vars == <<held, before, result>>

Init ==
    /\ held = <<>>
    /\ before = {}
    /\ result = NoValue

\* The order of uses once k, held or not, has been used last.
Used(k) ==
    {p \in before : k \notin {p[1], p[2]}} \cup ((DOMAIN held \ {k}) \X {k})

\* A set of keys that holds, with a key, every key used before it.
OldestOf(S, order, D) ==
    D \subseteq S /\ \A d \in D, k \in S \ D : <<d, k>> \in order

Store(k, v) ==
    LET S     == DOMAIN held \cup {k}
        order == Used(k)
    IN  \E D \in SUBSET S :
          /\ OldestOf(S, order, D)
          /\ Cardinality(S \ D) <= MaxSize
          /\ k \in D => MaxSize = 0
          /\ held' = [j \in S \ D |-> IF j = k THEN v ELSE held[j]]
          /\ before' = order \cap ((S \ D) \X (S \ D))

Set(k, v) == Store(k, v) /\ result' = NoValue

Lookup(k) ==
    \/ /\ k \notin DOMAIN held
       /\ result' = NoValue
       /\ UNCHANGED <<held, before>>
    \/ /\ k \in DOMAIN held
       /\ result' = held[k]
       /\ before' = Used(k)
       /\ UNCHANGED held

\* emplace_get and emplace_get_ptr: a lookup, or the storing of v.
LookupOrStore(k, v) ==
    \/ k \in DOMAIN held /\ Lookup(k)
    \/ /\ k \notin DOMAIN held
       /\ Store(k, v)
       /\ result' \in IF MaxSize = 0 THEN {v, NoValue} ELSE {v}

\* The user writes through the pointer a lookup gave out.
Modify(k, v) ==
    /\ k \in DOMAIN held
    /\ held' = [held EXCEPT ![k] = v]
    /\ UNCHANGED <<before, result>>

Next == \E k \in Keys : \/ Lookup(k)
                        \/ \E v \in Values : Set(k, v) \/ LookupOrStore(k, v) \/ Modify(k, v)

Spec == Init /\ [][Next]_vars
============================================================================
