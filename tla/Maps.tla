-------------------------------- MODULE Maps --------------------------------
(***************************************************************************)
(* Go maps as TLA+ functions: a key is present when it is in the domain.   *)
(* Deleting keys is Restrict of the community module Functions.            *)
(***************************************************************************)

\* The map with no key.
EmptyMap == [k \in {} |-> k]

\* f after f[k] = v for every key k in ks.
Put(f, ks, v) == [k \in (DOMAIN f) \cup ks |-> IF k \in ks THEN v ELSE f[k]]

=============================================================================
