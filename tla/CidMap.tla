------------------------------- MODULE CidMap -------------------------------
(***************************************************************************)
(* What the CID store of server/registry/cids.go promises to the handlers: *)
(* a map from repository and reference to CID that a lookup reads at one   *)
(* moment, and that survives a crash for the tags whose last Add had       *)
(* returned.  What a lookup does when the map does not know the key is     *)
(* left open.  CidStore implements it with a map in memory, a directory of *)
(* files and a lock.                                                       *)
(***************************************************************************)
EXTENDS Maps

CONSTANTS
    Threads,  \* the callers
    Keys,     \* repository and reference
    Kept,     \* the keys a crash must not lose
    Cids,
    None

VARIABLES
    known,    \* key -> CID
    torn,     \* kept keys whose last Add has not reached the disk
    ask,      \* what each caller looks up
    away,     \* the callers whose key was not known
    answer    \* what each caller was told

vars == <<known, torn, ask, away, answer>>

Init ==
    /\ known = EmptyMap
    /\ torn = {}
    /\ ask = [t \in Threads |-> None]
    /\ away = {}
    /\ answer = [t \in Threads |-> None]

-----------------------------------------------------------------------------

\* k is given the CID c; a kept key may be at risk from here on.
Add(k, c) ==
    /\ UNCHANGED <<answer, away, ask>>
    /\ known' = Put(known, {k}, c)
    /\ torn' \in {torn \cup {k}, torn \ {k}}

\* The last Add of k has reached the disk.
Settle(k) ==
    /\ UNCHANGED <<answer, away, ask, known>>
    /\ torn' = torn \ {k}

\* A caller comes with a key, or with a call that is no lookup.
Ask(t, k) ==
    /\ t \notin away
    /\ answer' = [answer EXCEPT ![t] = None]
    /\ ask' = [ask EXCEPT ![t] = k]
    /\ UNCHANGED <<known, torn, away>>

\* The key is known and the caller is told.
Find(t) ==
    /\ ask[t] \in DOMAIN known
    /\ answer' = [answer EXCEPT ![t] = known[ask[t]]]
    /\ ask' = [ask EXCEPT ![t] = None]
    /\ UNCHANGED <<known, torn, away>>

\* The key is not known and the caller is sent away.
Miss(t) ==
    /\ ask[t] # None
    /\ ask[t] \notin DOMAIN known
    /\ away' = away \cup {t}
    /\ UNCHANGED <<known, torn, ask, answer>>

\* What a caller is told that was sent away, or that looked up no key, does
\* not come from the map.
Elsewhere(t) ==
    /\ t \in away \/ ask[t] = None
    /\ away' = away \ {t}
    /\ \E c \in Cids \cup {None} : answer' = [answer EXCEPT ![t] = c]
    /\ ask' = [ask EXCEPT ![t] = None]
    /\ UNCHANGED <<known, torn>>

\* The process dies and comes back: a kept key that is not torn is as it was.
Crash ==
    /\ DOMAIN known' \subseteq Keys
    /\ \A k \in Kept \ torn :
          /\ k \in DOMAIN known' <=> k \in DOMAIN known
          /\ k \in DOMAIN known => known'[k] = known[k]
    /\ torn' = {}
    /\ away' = {}
    /\ ask' = [t \in Threads |-> None]
    /\ UNCHANGED answer

Next ==
    \/ \E t \in Threads : Find(t) \/ Miss(t) \/ Elsewhere(t)
    \/ \E t \in Threads : \E k \in Keys \cup {None} : Ask(t, k)
    \/ \E k \in Keys : Settle(k)
    \/ \E k \in Keys, c \in Cids : Add(k, c)
    \/ Crash

Spec == Init /\ [][Next]_vars

=============================================================================
