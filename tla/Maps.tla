-------------------------------- MODULE Maps --------------------------------
(***************************************************************************)
(* std::collections::HashMap as the concierge uses it: a function whose    *)
(* domain is the set of keys present.                                      *)
(***************************************************************************)
EXTENDS Functions

\* m is a map from some keys in K to values in V.
IsMap(m, K, V) == DOMAIN m \subseteq K /\ m \in [DOMAIN m -> V]

\* HashMap::new / default.
EmptyMap == [k \in {} |-> k]

\* HashMap::insert: adds the key or overwrites its value.
Put(m, k, v) == [x \in DOMAIN m \cup {k} |-> IF x = k THEN v ELSE m[x]]

\* HashMap::remove.
Erase(m, k) == Restrict(m, DOMAIN m \ {k})
=============================================================================
