---------------------------- MODULE MapTheorems -----------------------------
(***************************************************************************)
(* What the map operators preserve, and what a sequence ranges over.       *)
(***************************************************************************)
EXTENDS Maps, Functions, Sequences, Integers, TLAPS

\* Put keeps a map from K to V one when it is given keys of K and a value of V.
LEMMA PutType ==
    ASSUME NEW f, NEW K, NEW V, NEW ks, NEW v,
           DOMAIN f \subseteq K, \A k \in DOMAIN f : f[k] \in V,
           ks \subseteq K, v \in V
    PROVE  /\ DOMAIN Put(f, ks, v) \subseteq K
           /\ \A k \in DOMAIN Put(f, ks, v) : Put(f, ks, v)[k] \in V
  BY DEF Put

\* What a key is mapped to after Put.
LEMMA PutValue ==
    ASSUME NEW f, NEW ks, NEW v, NEW k
    PROVE  /\ DOMAIN Put(f, ks, v) = (DOMAIN f) \cup ks
           /\ k \in ks => Put(f, ks, v)[k] = v
           /\ (k \in DOMAIN f /\ k \notin ks) => Put(f, ks, v)[k] = f[k]
  BY DEF Put

\* A restriction has the values of the map it restricts.
LEMMA RestrictValue ==
    ASSUME NEW f, NEW S, S \subseteq DOMAIN f
    PROVE  /\ DOMAIN Restrict(f, S) = S
           /\ \A k \in S : Restrict(f, S)[k] = f[k]
  BY DEF Restrict

\* Appending adds one element to what a sequence ranges over.
LEMMA RangeAppend ==
    ASSUME NEW S, NEW s \in Seq(S), NEW x \in S
    PROVE  Range(Append(s, x)) = Range(s) \cup {x}
  <1>1. DOMAIN Append(s, x) = 1..(Len(s) + 1) /\ DOMAIN s = 1..Len(s) /\ Len(s) \in Nat
    OBVIOUS
  <1>2. \A i \in 1..Len(s) : Append(s, x)[i] = s[i]
    OBVIOUS
  <1>3. Append(s, x)[Len(s) + 1] = x
    OBVIOUS
  <1> QED
    BY <1>1, <1>2, <1>3 DEF Range

=============================================================================
