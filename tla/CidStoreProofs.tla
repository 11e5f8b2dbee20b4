--------------------------- MODULE CidStoreProofs ---------------------------
(***************************************************************************)
(* Theorems about CidStore, for any number of callers, any keys and CIDs,  *)
(* any resolvers, with failing disks and crashes.                          *)
(***************************************************************************)
EXTENDS CidStore, MapTheorems

-----------------------------------------------------------------------------
(* Paths. *)

\* A key is a repository and a reference.
LEMMA KeyType ==
    ASSUME NEW k \in Keys
    PROVE  /\ k = <<k[1], k[2]>>
           /\ k[1] \in Seq(Names \cup Images)
           /\ k[1] # <<>>
           /\ k[2] \in Names \cup Digests
  BY StoreAssumption

\* Two keys have different files.
LEMMA PathInjective ==
    ASSUME NEW k \in Keys, NEW x \in Keys, Path(k) = Path(x)
    PROVE  k = x
  <1> DEFINE S == Names \cup Images \cup Digests
  <1>1. k[1] \in Seq(S) /\ x[1] \in Seq(S) /\ k[2] \in S /\ x[2] \in S
    BY KeyType
  <1>2. Len(Append(k[1], k[2])) = Len(k[1]) + 1 /\ Len(Append(x[1], x[2])) = Len(x[1]) + 1
    BY <1>1
  <1>3. Len(k[1]) = Len(x[1]) /\ Len(k[1]) \in Nat
    BY <1>1, <1>2 DEF Path
  <1>4. k[2] = x[2]
    <2>1. Append(k[1], k[2])[Len(k[1]) + 1] = k[2] /\ Append(x[1], x[2])[Len(x[1]) + 1] = x[2]
      BY <1>1
    <2> QED BY <2>1, <1>3 DEF Path
  <1>5. \A i \in 1..Len(k[1]) : k[1][i] = x[1][i]
    <2>1. \A i \in 1..Len(k[1]) : Append(k[1], k[2])[i] = k[1][i]
      BY <1>1
    <2>2. \A i \in 1..Len(x[1]) : Append(x[1], x[2])[i] = x[1][i]
      BY <1>1
    <2> QED BY <2>1, <2>2, <1>3 DEF Path
  <1>6. k[1] = x[1]
    BY <1>1, <1>3, <1>5
  <1> QED
    BY <1>4, <1>6, KeyType

-----------------------------------------------------------------------------
(* The inductive invariant. *)

\* Where a caller is says which call it is in, and only the holder of the lock
\* writes: a tag whose CID is in memory already.
Calling ==
    \A t \in Threads :
        /\ pc[t] # "idle" => resp[t] = None
        /\ pc[t] \in {"Add", "write"} => req[t].op = "Add"
        /\ pc[t] \in {"Get", "resolve"} => req[t].op = "Get"
        /\ pc[t] \in {"List", "collect"} => req[t].op = "List"
        /\ pc[t] = "write" =>
              /\ writer = t
              /\ req[t].key \in DOMAIN cids
              /\ cids[req[t].key] = req[t].cid
              /\ Path(req[t].key) \in DOMAIN files

StoreInv == TypeOK /\ Calling /\ KeptOnDisk

\* The fields of a call.
LEMMA CallType ==
    ASSUME NEW t \in Threads, NEW q \in Requests[t]
    PROVE  /\ q.op \in {"Add", "Get", "List"}
           /\ q.key \in Keys
           /\ q.op = "Add" => q.cid \in Cids
  BY StoreAssumption DEF Calls

\* A kept tag has a file due, and nothing stands where it belongs.
LEMMA KeptIsFree ==
    ASSUME TypeOK, NEW k \in Kept, NEW c \in Cids
    PROVE  Persistent(k, c) /\ ~Blocked(Path(k))
  <1>1. k \in Keys /\ k[2] \notin Digests /\ ~Named(k[1])
    BY DEF Kept
  <1>2. \A x \in Keys : Path(x) \notin Above(Path(k)) /\ Path(k) \notin Above(Path(x))
    BY DEF Kept
  <1>3. k[1] # <<c>>
    <2>1. CASE c \in Images
      BY <2>1, <1>1 DEF Named
    <2>2. CASE c = EmptyCid
      <3>1. ASSUME k[1] = <<c>> PROVE FALSE
        <4>1. k[1][1] = c /\ Len(k[1]) = 1
          BY <3>1
        <4>2. k[1][1] \in Names \cup Images
          BY <4>1, <1>1, KeyType
        <4> QED BY <4>1, <4>2, <2>2, StoreAssumption
      <3> QED BY <3>1
    <2> QED BY <2>1, <2>2 DEF Cids
  <1>4. Above(Path(k)) \cap DOMAIN files = {}
    BY <1>2 DEF TypeOK
  <1>5. Path(k) \notin dirs
    BY <1>2 DEF TypeOK
  <1> QED
    BY <1>1, <1>3, <1>4, <1>5 DEF Persistent, Blocked

\* The invariant holds in the beginning.
LEMMA StoreInit == Init => StoreInv
  <1> SUFFICES ASSUME Init PROVE StoreInv
    OBVIOUS
  <1>1. TypeOK
    BY DEF Init, TypeOK, EmptyMap, StartChains, Points
  <1>2. Calling
    BY DEF Init, Calling
  <1>3. KeptOnDisk
    BY DEF Init, KeptOnDisk, EmptyMap
  <1> QED BY <1>1, <1>2, <1>3 DEF StoreInv

\* Where the callers are, and what they have.
CallsTyped ==
    /\ pc \in [Threads -> Points]
    /\ req \in [Threads -> Calls \cup {None}]
    /\ at \in [Threads -> Nat]
    /\ found \in [Threads -> SUBSET (Names \cup Images \cup Digests)]
    /\ resp \in [Threads -> Cids \cup {None}]
    /\ \A t \in Threads : pc[t] # "idle" => req[t] \in Requests[t]

\* What the store holds.
StoreTyped ==
    /\ writer \in Threads \cup {None}
    /\ DOMAIN cids \subseteq Keys
    /\ \A k \in DOMAIN cids : cids[k] \in Cids
    /\ DOMAIN files \subseteq {Path(k) : k \in Keys}
    /\ \A p \in DOMAIN files : files[p] \in Cids
    /\ dirs \subseteq UNION {Above(Path(k)) : k \in Keys}
    /\ failed \subseteq Kept
    /\ chain \in [DOMAIN Config -> Trees \cup {"store", None}]

\* Going on and returning keep the types of the callers.
LEMMA GotoType ==
    ASSUME CallsTyped, NEW t \in Threads, pc[t] # "idle", NEW p \in Points, Goto(t, p)
    PROVE  CallsTyped'
  BY DEF CallsTyped, Goto

LEMMA ReplyType ==
    ASSUME CallsTyped, NEW t \in Threads, NEW c \in Cids \cup {None}, Reply(t, c)
    PROVE  CallsTyped'
  BY DEF CallsTyped, Reply, Points

\* What is listed are names.
LEMMA LinksType ==
    ASSUME StoreTyped, NEW r, NEW repo
    PROVE  Links(r, repo) \subseteq Names \cup Images \cup Digests
  <1>1. \A k \in Keys : k[2] \in Names \cup Digests
    BY KeyType
  <1>2. ASSUME NEW k \in Keys, repo \in Above(Path(k))
        PROVE  Path(k)[Len(repo) + 1] \in Names \cup Images \cup Digests
    <2> DEFINE S == Names \cup Images \cup Digests
    <2>1. k[1] \in Seq(S) /\ k[2] \in S
      BY KeyType
    <2>2. Path(k) \in Seq(S)
      BY <2>1 DEF Path
    <2>3. PICK i \in 1..(Len(Path(k)) - 1) : repo = SubSeq(Path(k), 1, i)
      BY <1>2 DEF Above
    <2>4. Len(repo) = i
      BY <2>2, <2>3
    <2> QED BY <2>2, <2>3, <2>4
  <1>3. r \in Trees => DOMAIN TreeAt[r] \subseteq Keys
    BY StoreAssumption
  <1>4. CASE r = "store"
    BY <1>1, <1>4 DEF Links
  <1>5. CASE r \in Trees /\ r # "store"
    BY <1>2, <1>3, <1>5 DEF Links, Entries
  <1> QED
    BY <1>4, <1>5 DEF Links

\* What is found in the store or by a resolver is a CID.
LEMMA StoredType ==
    ASSUME StoreTyped, NEW k \in Keys
    PROVE  /\ Known(k) => Stored(k) \in Cids
           /\ \A i \in DOMAIN chain : Has(chain[i], k) \in Cids \cup {None}
  <1>1. Known(k) => Stored(k) \in Cids
    BY DEF StoreTyped, Known, Stored
  <1>2. \A x \in Trees : k \in DOMAIN TreeAt[x] => TreeAt[x][k] \in Cids
    BY StoreAssumption DEF Cids
  <1>3. ASSUME NEW r PROVE Has(r, k) \in Cids \cup {None}
    <2>1. CASE r = "store" /\ Path(k) \in DOMAIN files
      BY <2>1, StoreAssumption DEF Has, StoreTyped
    <2>2. CASE r \in Trees /\ k \in DOMAIN TreeAt[r]
      BY <2>2, <1>2, StoreAssumption DEF Has
    <2> QED BY <2>1, <2>2, StoreAssumption DEF Has
  <1> QED BY <1>1, <1>3

\* Every step keeps the types.
LEMMA TypeStep == TypeOK /\ Calling /\ [Next]_vars => TypeOK'
  <1> SUFFICES ASSUME StoreTyped, CallsTyped, Calling, [Next]_vars PROVE StoreTyped' /\ CallsTyped'
    BY DEF TypeOK, StoreTyped, CallsTyped
  <1>1. ASSUME UNCHANGED <<storeVars, chain>> PROVE StoreTyped'
    BY <1>1 DEF StoreTyped, storeVars
  <1>2. CASE UNCHANGED vars
    BY <1>2 DEF vars, storeVars, callVars, StoreTyped, CallsTyped
  <1>3. ASSUME NEW t \in Threads, NEW q \in Requests[t], Call(t, q)
        PROVE  StoreTyped' /\ CallsTyped'
    <2>1. q \in Calls /\ q.op \in Points \ {"idle"}
      BY StoreAssumption DEF Calls, Points
    <2> QED BY <1>1, <1>3, <2>1 DEF Call, CallsTyped
  <1>4. CASE Crash
    <2>1. StoreTyped'
      BY <1>4 DEF Crash, StoreTyped, EmptyMap, StartChains
    <2>2. CallsTyped'
      BY <1>4 DEF Crash, CallsTyped, Points
    <2> QED BY <2>1, <2>2
  <1>5. ASSUME NEW t \in Threads, Serve(t) PROVE StoreTyped' /\ CallsTyped'
    <2> DEFINE k == req[t].key
    <2>0. pc[t] # "idle" /\ req[t] \in Requests[t]
      BY <1>5 DEF Serve, AddMemory, AddOpen, AddWrite, GetKnown, GetUnknown, ResolveName,
        ResolveNext, ResolveNot, ListStore, ListNext, ListDone, CallsTyped
    <2>1. k \in Keys /\ (req[t].op = "Add" => req[t].cid \in Cids)
      BY <2>0, CallType
    <2>2. ASSUME NEW c \in Cids, cids' = Put(cids, {k}, c)
          PROVE  DOMAIN cids' \subseteq Keys /\ \A x \in DOMAIN cids' : cids'[x] \in Cids
      BY <2>1, <2>2 DEF StoreTyped, Put
    <2>3. ASSUME NEW c \in Cids, files' = Put(files, {Path(k)}, c)
          PROVE  /\ DOMAIN files' \subseteq {Path(x) : x \in Keys}
                 /\ \A p \in DOMAIN files' : files'[p] \in Cids
      BY <2>1, <2>3 DEF StoreTyped, Put
    <2>4. ASSUME NEW p \in Points, Goto(t, p) PROVE CallsTyped'
      BY <2>0, <2>4, GotoType
    <2>5. ASSUME NEW c \in Cids \cup {None}, Reply(t, c) PROVE CallsTyped'
      BY <2>5, ReplyType
    <2>6. CASE AddMemory(t)
      <3>1. req[t].cid \in Cids
        BY <2>1, <2>6 DEF AddMemory, Calling
      <3> QED BY <2>1, <2>2, <2>5, <2>6, <3>1 DEF AddMemory, StoreTyped
    <2>7. CASE AddOpen(t)
      <3>1. req[t].cid \in Cids /\ EmptyCid \in Cids
        BY <2>1, <2>7 DEF AddOpen, Calling, Cids
      <3>2. CallsTyped'
        BY <2>4, <2>5, <2>7 DEF AddOpen, Points
      <3>3. cids' = Put(cids, {k}, req[t].cid)
        BY <2>7 DEF AddOpen
      <3>4. (files' = Put(files, {Path(k)}, EmptyCid) \/ files' = files)
            /\ writer' \in {t, writer} /\ failed' \in {failed, failed \cup ({k} \cap Kept)}
            /\ dirs' \in {dirs, dirs \cup Above(Path(k))} /\ chain' = chain
        BY <2>7 DEF AddOpen
      <3>5. dirs' \subseteq UNION {Above(Path(x)) : x \in Keys}
        BY <2>1, <3>4 DEF StoreTyped
      <3>6. DOMAIN files' \subseteq {Path(x) : x \in Keys} /\ \A p \in DOMAIN files' : files'[p] \in Cids
        BY <2>3, <3>1, <3>4 DEF StoreTyped
      <3>7. DOMAIN cids' \subseteq Keys /\ \A x \in DOMAIN cids' : cids'[x] \in Cids
        BY <2>2, <3>1, <3>3
      <3> QED BY <2>1, <3>2, <3>4, <3>5, <3>6, <3>7 DEF StoreTyped
    <2>8. CASE AddWrite(t)
      <3>1. req[t].cid \in Cids
        BY <2>1, <2>8 DEF AddWrite, Calling
      <3> QED BY <2>1, <2>3, <2>5, <2>8, <3>1 DEF AddWrite, StoreTyped
    <2>9. CASE GetKnown(t) \/ GetUnknown(t)
      BY <1>1, <2>1, <2>4, <2>5, <2>9, StoredType DEF GetKnown, GetUnknown, Points
    <2>10. CASE ResolveName(t) \/ ResolveNot(t)
      BY <1>1, <2>5, <2>10 DEF ResolveName, ResolveNot, Cids
    <2>11. CASE ResolveNext(t)
      <3>1. Has(chain[at[t]], k) \in Cids \cup {None}
        BY <2>1, <2>11, StoredType DEF ResolveNext
      <3>2. CASE Reply(t, Has(chain[at[t]], k))
        BY <1>1, <2>5, <2>11, <3>1, <3>2 DEF ResolveNext
      <3>3. CASE at' = [at EXCEPT ![t] = @ + 1] /\ UNCHANGED <<pc, req, found, resp>>
        BY <1>1, <2>11, <3>3 DEF ResolveNext, CallsTyped
      <3> QED BY <2>11, <3>2, <3>3 DEF ResolveNext
    <2>12. CASE ListStore(t)
      <3>1. \A p \in DOMAIN files : files[p] \in Cids
        BY DEF StoreTyped
      <3> QED BY <1>1, <2>4, <2>5, <2>12, <3>1 DEF ListStore, Points, Cids
    <2>13. CASE ListNext(t)
      <3>1. Links(chain[at[t]], k[1]) \subseteq Names \cup Images \cup Digests
        BY LinksType
      <3> QED BY <1>1, <2>13, <3>1 DEF ListNext, CallsTyped
    <2>14. CASE ListDone(t)
      BY <1>1, <2>5, <2>14 DEF ListDone
    <2> QED
      BY <1>5, <2>6, <2>7, <2>8, <2>9, <2>10, <2>11, <2>12, <2>13, <2>14 DEF Serve
  <1> QED
    BY <1>2, <1>3, <1>4, <1>5 DEF Next

\* What a caller is said to be and to have, by the parts of the state it is
\* about.
CallerIs(p, q, a) ==
    /\ p # "idle" => a = None
    /\ p \in {"Add", "write"} => q.op = "Add"
    /\ p \in {"Get", "resolve"} => q.op = "Get"
    /\ p \in {"List", "collect"} => q.op = "List"

WriterHas(t) ==
    pc[t] = "write" =>
        /\ writer = t
        /\ req[t].key \in DOMAIN cids
        /\ cids[req[t].key] = req[t].cid
        /\ Path(req[t].key) \in DOMAIN files

LEMMA CallingStep == TypeOK /\ Calling /\ [Next]_vars => Calling'
  <1> SUFFICES ASSUME TypeOK, Calling, [Next]_vars, NEW u \in Threads
               PROVE  CallerIs(pc'[u], req'[u], resp'[u]) /\ WriterHas(u)'
    BY DEF Calling, CallerIs, WriterHas
  <1>1. CallerIs(pc[u], req[u], resp[u]) /\ WriterHas(u)
    BY DEF Calling, CallerIs, WriterHas
  <1>2. ASSUME pc'[u] = pc[u], req'[u] = req[u], resp'[u] = resp[u],
               UNCHANGED storeVars \/ pc[u] # "write"
        PROVE  CallerIs(pc'[u], req'[u], resp'[u]) /\ WriterHas(u)'
    BY <1>1, <1>2 DEF CallerIs, WriterHas, storeVars
  <1>3. CASE UNCHANGED vars
    BY <1>2, <1>3 DEF vars, callVars
  <1>4. CASE Crash
    BY <1>4 DEF Crash, CallerIs, WriterHas
  <1>5. ASSUME NEW t \in Threads, NEW q \in Requests[t], Call(t, q)
        PROVE  CallerIs(pc'[u], req'[u], resp'[u]) /\ WriterHas(u)'
    <2>1. CASE u = t
      <3>1. pc'[t] = q.op /\ req'[t] = q /\ resp'[t] = None
        BY <1>5 DEF Call, TypeOK
      <3>2. q.op \in {"Add", "Get", "List"}
        BY CallType
      <3> QED BY <2>1, <3>1, <3>2 DEF CallerIs, WriterHas
    <2>2. CASE u # t
      BY <1>2, <1>5, <2>2 DEF Call, TypeOK
    <2> QED BY <2>1, <2>2
  <1>6. ASSUME NEW t \in Threads, Serve(t)
        PROVE  CallerIs(pc'[u], req'[u], resp'[u]) /\ WriterHas(u)'
    <2>1. ASSUME NEW c, Reply(t, c), u = t
          PROVE  CallerIs(pc'[u], req'[u], resp'[u]) /\ WriterHas(u)'
      BY <2>1 DEF Reply, TypeOK, CallerIs, WriterHas
    <2>2. ASSUME NEW c, Reply(t, c), UNCHANGED storeVars \/ pc[u] # "write"
          PROVE  CallerIs(pc'[u], req'[u], resp'[u]) /\ WriterHas(u)'
      <3>1. CASE u = t
        BY <2>1, <2>2, <3>1
      <3>2. CASE u # t
        BY <1>2, <2>2, <3>2 DEF Reply, TypeOK
      <3> QED BY <3>1, <3>2
    <2>3. ASSUME NEW p \in {"resolve", "collect"}, Goto(t, p), UNCHANGED storeVars,
                 p = "resolve" => pc[t] = "Get", p = "collect" => pc[t] = "List"
          PROVE  CallerIs(pc'[u], req'[u], resp'[u]) /\ WriterHas(u)'
      <3>1. CASE u = t
        BY <1>1, <2>3, <3>1 DEF Goto, TypeOK, CallerIs, WriterHas
      <3>2. CASE u # t
        BY <1>2, <2>3, <3>2 DEF Goto, TypeOK
      <3> QED BY <3>1, <3>2
    <2>4. writer = None => pc[u] # "write"
      BY <1>1, StoreAssumption DEF WriterHas
    <2>5. CASE AddMemory(t)
      BY <2>2, <2>4, <2>5 DEF AddMemory
    <2>6. CASE AddOpen(t)
      <3>1. CASE Reply(t, None)
        BY <2>2, <2>4, <2>6, <3>1 DEF AddOpen
      <3>2. CASE /\ files' = Put(files, {Path(req[t].key)}, EmptyCid)
                 /\ writer' = t
                 /\ Goto(t, "write")
        <4>1. CASE u = t
          <5>1. CallerIs(pc'[u], req'[u], resp'[u])
            BY <1>1, <2>6, <3>2, <4>1 DEF AddOpen, Goto, TypeOK, CallerIs
          <5>2. cids' = Put(cids, {req[t].key}, req[t].cid) /\ req' = req
            BY <2>6, <3>2 DEF AddOpen, Goto
          <5>3. WriterHas(t)'
            BY <3>2, <5>2 DEF WriterHas, Put
          <5> QED BY <4>1, <5>1, <5>3
        <4>2. CASE u # t
          BY <1>2, <2>4, <2>6, <3>2, <4>2 DEF AddOpen, Goto, TypeOK
        <4> QED BY <4>1, <4>2
      <3> QED BY <2>6, <3>1, <3>2 DEF AddOpen
    <2>7. CASE AddWrite(t)
      <3>1. u # t => pc[u] # "write"
        <4>1. writer = t
          BY <2>7 DEF AddWrite, Calling
        <4> QED BY <1>1, <4>1 DEF WriterHas
      <3> QED BY <2>1, <2>2, <2>7, <3>1 DEF AddWrite
    <2>8. CASE GetKnown(t) \/ GetUnknown(t)
      BY <2>2, <2>3, <2>8 DEF GetKnown, GetUnknown
    <2>9. CASE ResolveName(t) \/ ResolveNot(t) \/ ListDone(t)
      BY <2>2, <2>9 DEF ResolveName, ResolveNot, ListDone
    <2>10. CASE ResolveNext(t) \/ ListNext(t)
      BY <1>2, <2>2, <2>10 DEF ResolveNext, ListNext
    <2>11. CASE ListStore(t)
      BY <2>2, <2>3, <2>11 DEF ListStore
    <2> QED
      BY <1>6, <2>5, <2>6, <2>7, <2>8, <2>9, <2>10, <2>11 DEF Serve
  <1> QED
    BY <1>3, <1>4, <1>5, <1>6 DEF Next

\* Whatever a step does, the kept tags of memory stay in their files.
LEMMA KeptStep == StoreInv /\ TypeOK' /\ [Next]_vars => KeptOnDisk'
  <1> SUFFICES ASSUME StoreInv, TypeOK', [Next]_vars,
                      NEW x \in Kept, x \in DOMAIN cids', x \notin failed'
               PROVE  InWriting(x)' \/ OnDisk(x)'
    BY DEF KeptOnDisk
  <1>1. TypeOK /\ Calling /\ x \in Keys
    BY DEF StoreInv, Kept
  <1>2. (x \in DOMAIN cids /\ x \notin failed) => InWriting(x) \/ OnDisk(x)
    BY DEF StoreInv, KeptOnDisk
  <1>3. ASSUME UNCHANGED <<cids, files, failed>>, InWriting(x) => InWriting(x)'
        PROVE  InWriting(x)' \/ OnDisk(x)'
    BY <1>2, <1>3 DEF OnDisk
  <1>4. CASE UNCHANGED vars
    BY <1>3, <1>4 DEF vars, storeVars, callVars, InWriting
  <1>5. CASE Crash
    BY <1>5 DEF Crash, EmptyMap
  <1>6. ASSUME NEW t \in Threads, NEW q \in Requests[t], Call(t, q)
        PROVE  InWriting(x)' \/ OnDisk(x)'
    BY <1>1, <1>3, <1>6 DEF Call, storeVars, InWriting, TypeOK
  <1>7. ASSUME NEW t \in Threads, Serve(t) PROVE InWriting(x)' \/ OnDisk(x)'
    <2> DEFINE k == req[t].key
    <2>1. pc[t] # "idle" => k \in Keys /\ (req[t].op = "Add" => req[t].cid \in Cids)
      BY <1>1, CallType DEF TypeOK
    <2>2. ASSUME NEW c, Reply(t, c), pc[t] # "write"
          PROVE  InWriting(x) => InWriting(x)'
      BY <1>1, <2>2 DEF Reply, InWriting, TypeOK
    <2>3. ASSUME NEW p, Goto(t, p), pc[t] # "write"
          PROVE  InWriting(x) => InWriting(x)'
      BY <1>1, <2>3 DEF Goto, InWriting, TypeOK
    <2>4. CASE AddMemory(t)
      <3>1. k \in Keys /\ req[t].cid \in Cids
        BY <1>1, <2>1, <2>4 DEF AddMemory, Calling
      <3>2. x # k
        BY <1>1, <2>4, <3>1, KeptIsFree DEF AddMemory
      <3>3. x \in DOMAIN cids /\ cids'[x] = cids[x] /\ UNCHANGED <<files, failed>>
        BY <2>4, <3>2 DEF AddMemory, Put
      <3>4. InWriting(x) => InWriting(x)'
        BY <2>2, <2>4 DEF AddMemory
      <3> QED BY <1>2, <3>3, <3>4 DEF OnDisk
    <2>5. CASE AddOpen(t)
      <3>1. k \in Keys
        BY <2>1, <2>5 DEF AddOpen
      <3>2. cids' = Put(cids, {k}, req[t].cid)
        BY <2>5 DEF AddOpen
      <3>3. CASE x = k
        <4>1. failed' = failed \cup ({k} \cap Kept) \/ Goto(t, "write")
          BY <2>5 DEF AddOpen
        <4>2. Goto(t, "write") => InWriting(x)'
          BY <1>1, <3>3 DEF Goto, InWriting, TypeOK
        <4> QED BY <3>3, <4>1, <4>2
      <3>4. CASE x # k
        <4>1. Path(x) # Path(k)
          BY <1>1, <3>1, <3>4, PathInjective
        <4>2. x \in DOMAIN cids /\ cids'[x] = cids[x]
          BY <3>2, <3>4 DEF Put
        <4>3. files' = files \/ files' = Put(files, {Path(k)}, EmptyCid)
          BY <2>5 DEF AddOpen
        <4>4. Path(x) \in DOMAIN files => Path(x) \in DOMAIN files' /\ files'[Path(x)] = files[Path(x)]
          BY <4>1, <4>3 DEF Put
        <4>5. InWriting(x) => InWriting(x)'
          BY <2>2, <2>3, <2>5 DEF AddOpen
        <4>6. x \notin failed
          BY <2>5 DEF AddOpen
        <4> QED BY <1>2, <4>2, <4>4, <4>5, <4>6 DEF OnDisk
      <3> QED BY <3>3, <3>4
    <2>6. CASE AddWrite(t)
      <3>1. k \in Keys /\ k \in DOMAIN cids /\ cids[k] = req[t].cid /\ cids' = cids
        BY <1>1, <2>1, <2>6 DEF AddWrite, Calling
      <3>2. CASE x = k
        <4>1. files' = Put(files, {Path(k)}, req[t].cid)
          BY <2>6, <3>2 DEF AddWrite
        <4> QED BY <3>1, <3>2, <4>1 DEF OnDisk, Put
      <3>3. CASE x # k
        <4>1. Path(x) # Path(k)
          BY <1>1, <3>1, <3>3, PathInjective
        <4>2. files' = files \/ files' = Put(files, {Path(k)}, req[t].cid)
          BY <2>6 DEF AddWrite
        <4>3. Path(x) \in DOMAIN files => Path(x) \in DOMAIN files' /\ files'[Path(x)] = files[Path(x)]
          BY <4>1, <4>2 DEF Put
        <4>4. InWriting(x) => InWriting(x)'
          BY <1>1, <2>6, <3>3 DEF AddWrite, Reply, InWriting, TypeOK
        <4>5. x \notin failed
          BY <2>6, <3>3 DEF AddWrite
        <4> QED BY <1>2, <3>1, <4>3, <4>4, <4>5 DEF OnDisk
      <3> QED BY <3>2, <3>3
    <2>7. CASE GetKnown(t) \/ GetUnknown(t) \/ ListStore(t)
      BY <1>3, <2>2, <2>3, <2>7 DEF GetKnown, GetUnknown, ListStore, storeVars
    <2>8. CASE ResolveName(t) \/ ResolveNot(t) \/ ListDone(t)
      BY <1>3, <2>2, <2>8 DEF ResolveName, ResolveNot, ListDone, storeVars
    <2>9. CASE ResolveNext(t) \/ ListNext(t)
      <3>1. CASE UNCHANGED <<pc, req>>
        BY <1>3, <2>9, <3>1 DEF ResolveNext, ListNext, storeVars, InWriting
      <3>2. CASE \E c : Reply(t, c)
        BY <1>3, <2>2, <2>9, <3>2 DEF ResolveNext, ListNext, storeVars
      <3> QED BY <2>9, <3>1, <3>2 DEF ResolveNext, ListNext
    <2> QED
      BY <1>7, <2>4, <2>5, <2>6, <2>7, <2>8, <2>9 DEF Serve
  <1> QED
    BY <1>4, <1>5, <1>6, <1>7 DEF Next

\* The invariant is inductive.
LEMMA StoreStep == StoreInv /\ [Next]_vars => StoreInv'
  BY TypeStep, CallingStep, KeptStep DEF StoreInv

-----------------------------------------------------------------------------

\* The store and its callers keep their types.
THEOREM StoreTypes == Spec => []TypeOK
  BY StoreInit, StoreStep, PTL DEF Spec, StoreInv

\* When Add has returned, a tag that no other repository is in the way of is in
\* its file, unless the disk refused it.
THEOREM AddsReachDisk == Spec => []KeptOnDisk
  BY StoreInit, StoreStep, PTL DEF Spec, StoreInv

-----------------------------------------------------------------------------
(* Listings. *)

LEMMA OthersWait ==
    ASSUME TypeOK, NEW t \in Threads, Serve(t), NEW u \in Threads, u # t
    PROVE  pc'[u] = pc[u] /\ req'[u] = req[u] /\ at'[u] = at[u] /\ found'[u] = found[u]
  <1>1. ASSUME NEW c, Reply(t, c)
        PROVE  pc'[u] = pc[u] /\ req'[u] = req[u] /\ at'[u] = at[u] /\ found'[u] = found[u]
    BY <1>1 DEF Reply, TypeOK
  <1>2. ASSUME NEW p, Goto(t, p)
        PROVE  pc'[u] = pc[u] /\ req'[u] = req[u] /\ at'[u] = at[u] /\ found'[u] = found[u]
    BY <1>2 DEF Goto, TypeOK
  <1>3. CASE ResolveNext(t) \/ ListNext(t)
    BY <1>1, <1>3 DEF ResolveNext, ListNext, TypeOK
  <1>4. CASE ~(ResolveNext(t) \/ ListNext(t))
    BY <1>1, <1>2, <1>4
       DEF Serve, AddMemory, AddOpen, AddWrite, GetKnown, GetUnknown, ResolveName, ResolveNot,
           ListStore, ListDone
  <1> QED BY <1>3, <1>4

\* The step that asks the store's resolver of a listing is the listing's own.
LEMMA AskedByListing ==
    ASSUME TypeOK, [Next]_vars, NEW t \in Threads, AsksStore(t)
    PROVE  ListNext(t)
  <1>1. /\ at[t] \in Nat /\ at[t] >= 1 /\ at'[t] # at[t] /\ at'[t] # 1
        /\ pc[t] = "collect" /\ at[t] \in DOMAIN chain
    BY StoreAssumption DEF AsksStore, TypeOK
  <1>2. ASSUME NEW u \in Threads, Serve(u) PROVE ListNext(t)
    <2>1. u = t
      BY <1>1, <1>2, OthersWait
    <2> QED
      BY <1>1, <1>2, <2>1 DEF Serve, AddMemory, AddOpen, AddWrite, GetKnown, GetUnknown,
         ResolveName, ResolveNext, ResolveNot, ListStore, ListDone
  <1>3. ASSUME NEW u \in Threads, NEW q \in Requests[u], Call(u, q) PROVE FALSE
    BY <1>1, <1>3 DEF Call
  <1>4. ~Crash /\ ~UNCHANGED vars
    BY <1>1 DEF Crash, vars, callVars
  <1> QED BY <1>2, <1>3, <1>4 DEF Next

\* A kept tag that memory has is a file that is there, written or being written.
LEMMA TagHasFile ==
    ASSUME StoreInv, NEW k \in (Kept \cap DOMAIN cids) \ failed
    PROVE  k \in Keys /\ Path(k) \in DOMAIN files
  <1>1. CASE InWriting(k)
    BY <1>1 DEF StoreInv, Calling, InWriting, Kept
  <1>2. CASE OnDisk(k)
    BY <1>2 DEF OnDisk, Kept
  <1> QED BY <1>1, <1>2 DEF StoreInv, KeptOnDisk

\* What the file resolver adds to a listing.
LEMMA ListsItsFiles ==
    ASSUME StoreInv, [Next]_vars, NEW t \in Threads, AsksStore(t)
    PROVE  LET repo == req[t].key[1] IN
           /\ \A k \in (Kept \cap DOMAIN cids) \ failed : k[1] = repo => k[2] \in found'[t]
           /\ \A g \in found'[t] \ found[t] : Append(repo, g) \in DOMAIN files
  <1> DEFINE repo == req[t].key[1]
             S == {k[2] : k \in {x \in Keys : x[1] = repo /\ Path(x) \in DOMAIN files}}
  <1>1. TypeOK
    BY DEF StoreInv
  <1>2. ListNext(t)
    BY <1>1, AskedByListing
  <1>3. Links("store", repo) = S
    BY DEF Links
  <1>4. "store" \notin Trees /\ chain[at[t]] = "store"
    BY StoreAssumption DEF AsksStore
  <1>5. found'[t] = found[t] \cup S
    BY <1>1, <1>2, <1>3, <1>4 DEF ListNext, TypeOK
  <1>6. ASSUME NEW k \in (Kept \cap DOMAIN cids) \ failed, k[1] = repo
        PROVE  k[2] \in found'[t]
    BY <1>5, <1>6, TagHasFile
  <1>7. ASSUME NEW g \in found'[t] \ found[t] PROVE Append(repo, g) \in DOMAIN files
    BY <1>5, <1>7 DEF Path
  <1> QED BY <1>6, <1>7

\* A listing has every kept tag that lookups find, also while its file is written
\* anew, and of the store's directory nothing but tags (resolv.go 55-66).
THEOREM TagsListed == Spec => ListsTags
  <1>1. StoreInv /\ [Next]_vars =>
            [\A t \in Threads : AsksStore(t) =>
                LET repo == req[t].key[1] IN
                /\ \A k \in (Kept \cap DOMAIN cids) \ failed : k[1] = repo => k[2] \in found'[t]
                /\ \A g \in found'[t] \ found[t] : Append(repo, g) \in DOMAIN files]_vars
    BY ListsItsFiles
  <1> QED BY <1>1, StoreInit, StoreStep, PTL DEF Spec, ListsTags

-----------------------------------------------------------------------------
(* CidStore implements CidMap. *)

\* The state as CidMap sees it.
Know == [k \in {x \in Keys : Known(x)} |->
            IF k \in DOMAIN cids THEN cids[k] ELSE files[Path(k)]]
AtRisk == {k \in Kept : k \in failed \/ InWriting(k)}
AskOf(t) == IF pc[t] \in {"Get", "resolve"} THEN req[t].key ELSE None
Asking == [t \in Threads |-> AskOf(t)]
Away == {t \in Threads : pc[t] = "resolve"}

LEMMA MapMaps ==
    /\ \A f, ks, v : Map!Put(f, ks, v) = Put(f, ks, v)
    /\ Map!EmptyMap = EmptyMap
  BY DEF Map!Put, Put, Map!EmptyMap, EmptyMap

\* A step in which a caller goes on changes nothing CidMap sees of the others.
LEMMA GotoSeen ==
    ASSUME StoreInv, NEW t \in Threads, NEW p, Goto(t, p), pc[t] # "write", p # "write",
           UNCHANGED storeVars
    PROVE  /\ Know' = Know /\ AtRisk' = AtRisk /\ resp' = resp
           /\ p # "resolve" /\ pc[t] # "resolve" => Away' = Away
           /\ p = "resolve" => Away' = Away \cup {t}
           /\ AskOf(t)' = AskOf(t) => Asking' = Asking
  <1>1. TypeOK
    BY DEF StoreInv
  <1>2. Know' = Know
    BY DEF Know, Known, storeVars
  <1>3. AtRisk' = AtRisk
    BY <1>1 DEF AtRisk, InWriting, Goto, TypeOK, storeVars
  <1>4. p # "resolve" /\ pc[t] # "resolve" => Away' = Away
    BY <1>1 DEF Away, Goto, TypeOK
  <1>5. p = "resolve" => Away' = Away \cup {t}
    BY <1>1 DEF Away, Goto, TypeOK
  <1>6. AskOf(t)' = AskOf(t) => Asking' = Asking
    BY <1>1 DEF Asking, AskOf, Goto, TypeOK
  <1> QED BY <1>2, <1>3, <1>4, <1>5, <1>6 DEF Goto

\* So does one in which it returns, but for its question and its answer.
LEMMA ReplySeen ==
    ASSUME StoreInv, NEW t \in Threads, NEW c, Reply(t, c)
    PROVE  /\ resp' = [resp EXCEPT ![t] = c]
           /\ Away' = Away \ {t}
           /\ Asking' = [Asking EXCEPT ![t] = None]
           /\ pc[t] # "write" => \A k \in Keys : InWriting(k)' <=> InWriting(k)
           /\ pc[t] # "write" /\ UNCHANGED storeVars => Know' = Know /\ AtRisk' = AtRisk
  <1>1. TypeOK
    BY DEF StoreInv
  <1>2. Away' = Away \ {t}
    BY <1>1 DEF Away, Reply, TypeOK
  <1>3. Asking' = [Asking EXCEPT ![t] = None]
    BY <1>1 DEF Asking, AskOf, Reply, TypeOK
  <1>4. pc[t] # "write" => \A k \in Keys : InWriting(k)' <=> InWriting(k)
    BY <1>1 DEF InWriting, Reply, TypeOK
  <1>5. pc[t] # "write" /\ UNCHANGED storeVars => Know' = Know /\ AtRisk' = AtRisk
    BY <1>4 DEF Know, Known, AtRisk, storeVars, Kept
  <1> QED BY <1>2, <1>3, <1>4, <1>5 DEF Reply

\* A caller that is not in a lookup returns nothing unseen.
LEMMA SilentReply ==
    ASSUME StoreInv, NEW t \in Threads, Reply(t, None),
           pc[t] \notin {"idle", "Get", "resolve"}
    PROVE  UNCHANGED <<Asking, Away, resp>>
  <1>1. TypeOK /\ resp[t] = None
    BY DEF StoreInv, Calling
  <1>2. Asking[t] = None /\ t \notin Away
    BY DEF Asking, AskOf, Away
  <1>3. resp' = resp /\ Away' = Away
    <2>1. resp' = [resp EXCEPT ![t] = None] /\ Away' = Away \ {t}
      BY ReplySeen
    <2>2. resp' = resp
      BY <1>1, <2>1 DEF TypeOK
    <2> QED BY <1>2, <2>1, <2>2
  <1>4. Asking' = Asking
    BY <1>1 DEF Asking, AskOf, Reply, TypeOK
  <1> QED BY <1>3, <1>4

\* The first step of an Add is Add.
LEMMA AddIsAdd ==
    ASSUME StoreInv, NEW t \in Threads, AddMemory(t) \/ AddOpen(t)
    PROVE  Map!Next
  <1> DEFINE k == req[t].key
             c == req[t].cid
  <1>1. TypeOK /\ Calling /\ pc[t] = "Add"
    BY DEF StoreInv, AddMemory, AddOpen
  <1>2. k \in Keys /\ c \in Cids
    BY <1>1, CallType DEF TypeOK, Calling
  <1>3. cids' = Put(cids, {k}, c)
    BY DEF AddMemory, AddOpen
  <1>4. \A x \in Keys \ {k} :
           /\ Path(x) \in DOMAIN files' <=> Path(x) \in DOMAIN files
           /\ Path(x) \in DOMAIN files => files'[Path(x)] = files[Path(x)]
    <2>1. \A x \in Keys \ {k} : Path(x) # Path(k)
      BY <1>2, PathInjective
    <2>2. files' = files \/ files' = Put(files, {Path(k)}, EmptyCid)
      BY DEF AddMemory, AddOpen
    <2> QED BY <2>1, <2>2 DEF Put
  <1>5. Know' = Put(Know, {k}, c)
    <2>1. DOMAIN cids' = DOMAIN cids \cup {k} /\ cids'[k] = c
      BY <1>3 DEF Put
    <2>2. \A x \in Keys \ {k} : x \in DOMAIN cids => cids'[x] = cids[x]
      BY <1>3 DEF Put
    <2>3. \A x \in Keys : Known(x)' <=> Known(x) \/ x = k
      BY <1>4, <2>1 DEF Known
    <2> HIDE DEF k, c
    <2>4. DOMAIN Know = {x \in Keys : Known(x)} /\ DOMAIN Know' = DOMAIN Know \cup {k}
      BY <1>2, <2>3 DEF Know
    <2>5. \A x \in DOMAIN Know' : Know'[x] = IF x = k THEN c ELSE Know[x]
      <3> SUFFICES ASSUME NEW CONSTANT x \in DOMAIN Know'
                   PROVE  Know'[x] = IF x = k THEN c ELSE Know[x]
        OBVIOUS
      <3>1. x \in Keys
        BY DEF Know
      <3>2. Know'[x] = IF x \in DOMAIN cids' THEN cids'[x] ELSE files'[Path(x)]
        BY DEF Know
      <3>3. CASE x = k
        BY <2>1, <3>2, <3>3
      <3>4. CASE x # k
        <4>1. x \in DOMAIN cids' <=> x \in DOMAIN cids
          BY <2>1, <3>4
        <4>2. Known(x)
          BY <2>4, <3>4 DEF Know
        <4>3. Know[x] = IF x \in DOMAIN cids THEN cids[x] ELSE files[Path(x)]
          BY <3>1, <4>2 DEF Know
        <4>4. x \notin DOMAIN cids => files'[Path(x)] = files[Path(x)]
          BY <1>4, <3>1, <3>4, <4>2 DEF Known
        <4> QED BY <2>2, <3>1, <3>2, <3>4, <4>1, <4>3, <4>4
      <3> QED BY <3>3, <3>4
    <2>6. Know' = [x \in DOMAIN Know' |-> Know'[x]]
      BY DEF Know
    <2> QED BY <2>4, <2>5, <2>6 DEF Put
  <1>6. AtRisk' \in {AtRisk \cup {k}, AtRisk \ {k}}
    <2>1. \A x \in Keys \ {k} : x \in failed' <=> x \in failed
      BY DEF AddMemory, AddOpen
    <2>2. \A x \in Keys \ {k} : InWriting(x)' <=> InWriting(x)
      BY <1>1 DEF AddMemory, AddOpen, InWriting, Goto, Reply, TypeOK
    <2> HIDE DEF k
    <2> QED BY <2>1, <2>2 DEF AtRisk, Kept
  <1>7. UNCHANGED <<Asking, Away, resp>>
    <2>1. CASE Reply(t, None)
      BY <1>1, <2>1, SilentReply
    <2>2. CASE Goto(t, "write")
      BY <1>1, <2>2 DEF Goto, Asking, AskOf, Away, TypeOK
    <2> QED BY <2>1, <2>2 DEF AddMemory, AddOpen
  <1> HIDE DEF k, c
  <1>8. PICK x \in Keys, d \in Cids : x = k /\ d = c
    BY <1>2
  <1>9. Map!Add(x, d)
    BY <1>5, <1>6, <1>7, <1>8, MapMaps DEF Map!Add, Know, AtRisk, Asking, AskOf, Away
  <1> QED BY <1>9 DEF Map!Next

\* The second is Settle, or is not seen when the disk refuses the file.
LEMMA WriteIsSettle ==
    ASSUME StoreInv, NEW t \in Threads, AddWrite(t)
    PROVE  [Map!Next]_(Map!vars)
  <1> DEFINE k == req[t].key
  <1>1. TypeOK /\ Calling /\ pc[t] = "write"
    BY DEF StoreInv, AddWrite
  <1>2. k \in Keys /\ k \in DOMAIN cids /\ Path(k) \in DOMAIN files
    BY <1>1, CallType DEF TypeOK, Calling
  <1>3. Know' = Know
    <2>1. \A x \in Keys \ {k} : Path(x) # Path(k)
      BY <1>2, PathInjective
    <2>2. files' = files \/ files' = Put(files, {Path(k)}, req[t].cid)
      BY DEF AddWrite
    <2>3. cids' = cids
      BY DEF AddWrite
    <2>4. \A x \in Keys : Known(x)' <=> Known(x)
      BY <1>2, <2>2, <2>3 DEF Known, Put
    <2>5. \A x \in Keys : x \notin DOMAIN cids /\ Path(x) \in DOMAIN files
                            => files'[Path(x)] = files[Path(x)]
      BY <1>2, <2>1, <2>2 DEF Put
    <2> QED BY <2>3, <2>4, <2>5 DEF Know, Known
  <1>4. \A x \in Keys \ {k} : InWriting(x)' <=> InWriting(x)
    BY <1>1 DEF AddWrite, Reply, InWriting, TypeOK
  <1>5. AtRisk' \in {AtRisk, AtRisk \ {k}}
    <2>1. InWriting(k)
      BY <1>1 DEF InWriting
    <2>2. \A x \in Keys \ {k} : x \in failed' <=> x \in failed
      BY DEF AddWrite
    <2>3. CASE failed' = failed \cup ({k} \cap Kept)
      <3>1. \A x \in Kept : (x \in failed' \/ InWriting(x)') <=> (x \in failed \/ InWriting(x))
        BY <1>4, <2>1, <2>2, <2>3 DEF Kept
      <3> QED BY <3>1 DEF AtRisk, Kept
    <2>4. CASE failed' = failed \ {k}
      <3>1. ASSUME NEW u \in Threads, pc'[u] = "write"
            PROVE  FALSE
        <4>1. u # t /\ pc[u] = "write"
          BY <1>1, <3>1 DEF AddWrite, Reply, TypeOK
        <4> QED BY <1>1, <4>1 DEF Calling
      <3>2. \A x \in Kept : ~InWriting(x)'
        BY <3>1 DEF InWriting
      <3> HIDE DEF k
      <3>3. k \notin failed'
        BY <2>4
      <3>4. \A x \in Kept \ {k} : (x \in failed' \/ InWriting(x)') <=> (x \in failed \/ InWriting(x))
        BY <1>4, <2>2 DEF Kept
      <3>5. \A x \in Kept : (x \in failed' \/ InWriting(x)') <=> (x # k /\ (x \in failed \/ InWriting(x)))
        BY <3>2, <3>3, <3>4
      <3>6. AtRisk' = {x \in Kept : x \in failed' \/ InWriting(x)'}
        BY DEF AtRisk
      <3>7. AtRisk' = AtRisk \ {k}
        BY <3>5, <3>6 DEF AtRisk
      <3> QED BY <3>7
    <2> QED BY <2>3, <2>4 DEF AddWrite
  <1>6. UNCHANGED <<Asking, Away, resp>>
    BY <1>1, SilentReply DEF AddWrite
  <1> HIDE DEF k
  <1>7. CASE AtRisk' = AtRisk
    BY <1>3, <1>6, <1>7 DEF Map!vars, Know, AtRisk, Asking, AskOf, Away
  <1>8. CASE AtRisk' = AtRisk \ {k}
    <2>1. PICK x \in Keys : x = k
      BY <1>2
    <2>2. Map!Settle(x)
      BY <1>3, <1>6, <1>8, <2>1 DEF Map!Settle, Know, AtRisk, Asking, AskOf, Away
    <2> QED BY <2>2 DEF Map!Next
  <1> QED BY <1>5, <1>7, <1>8

\* A key found in memory or in its file is Find.
LEMMA KnownIsFind ==
    ASSUME StoreInv, NEW t \in Threads, GetKnown(t)
    PROVE  Map!Next
  <1>1. TypeOK /\ Calling /\ pc[t] = "Get" /\ Known(req[t].key)
    BY DEF StoreInv, GetKnown
  <1>2. req[t].key \in Keys
    BY <1>1, CallType DEF TypeOK
  <1>3. PICK c : c = Stored(req[t].key)
    OBVIOUS
  <1>4. Reply(t, c) /\ UNCHANGED storeVars
    BY <1>3 DEF GetKnown
  <1>5. AskOf(t) \in DOMAIN Know /\ Know[AskOf(t)] = c
    BY <1>1, <1>2, <1>3 DEF AskOf, Know, Stored
  <1>6. Know' = Know /\ AtRisk' = AtRisk /\ Away' = Away \ {t}
    BY <1>1, <1>4, ReplySeen
  <1>7. resp' = [resp EXCEPT ![t] = c] /\ Asking' = [Asking EXCEPT ![t] = None]
    BY <1>4, ReplySeen
  <1>8. Away' = Away
    BY <1>1, <1>6 DEF Away
  <1>9. Asking[t] = AskOf(t)
    BY DEF Asking
  <1>10. Map!Find(t)
    BY <1>5, <1>6, <1>7, <1>8, <1>9 DEF Map!Find, Know, AtRisk, Asking, AskOf, Away
  <1> QED BY <1>10 DEF Map!Next

\* A key found in neither is Miss.
LEMMA UnknownIsMiss ==
    ASSUME StoreInv, NEW t \in Threads, GetUnknown(t)
    PROVE  Map!Next
  <1>1. TypeOK /\ pc[t] = "Get" /\ ~Known(req[t].key) /\ Goto(t, "resolve") /\ UNCHANGED storeVars
    BY DEF StoreInv, GetUnknown
  <1>2. req[t].key \in Keys
    BY <1>1, CallType DEF TypeOK
  <1>3. AskOf(t) # None /\ AskOf(t) \notin DOMAIN Know
    BY <1>1, <1>2, StoreAssumption DEF AskOf, Know
  <1>4. AskOf(t)' = AskOf(t)
    BY <1>1 DEF AskOf, Goto, TypeOK
  <1>5. Know' = Know /\ AtRisk' = AtRisk /\ resp' = resp /\ Away' = Away \cup {t} /\ Asking' = Asking
    BY <1>1, <1>4, GotoSeen
  <1>6. Asking[t] = AskOf(t)
    BY DEF Asking
  <1>7. Map!Miss(t)
    BY <1>3, <1>5, <1>6 DEF Map!Miss, Know, AtRisk, Asking, AskOf, Away
  <1> QED BY <1>7 DEF Map!Next

\* What is answered after a miss, or to no lookup, is Elsewhere.
LEMMA OtherIsElsewhere ==
    ASSUME StoreInv, NEW t \in Threads, NEW c \in Cids \cup {None}, Reply(t, c),
           UNCHANGED storeVars, pc[t] \notin {"idle", "write", "Get"}
    PROVE  Map!Next
  <1>1. Know' = Know /\ AtRisk' = AtRisk /\ Away' = Away \ {t}
    BY ReplySeen
  <1>2. resp' = [resp EXCEPT ![t] = c] /\ Asking' = [Asking EXCEPT ![t] = None]
    BY ReplySeen
  <1>3. t \in Away \/ Asking[t] = None
    BY DEF Away, Asking, AskOf
  <1>4. Map!Elsewhere(t)
    BY <1>1, <1>2, <1>3 DEF Map!Elsewhere, Know, AtRisk, Asking, AskOf, Away
  <1> QED BY <1>4 DEF Map!Next

\* A call is Ask, whatever it asks for.
LEMMA CallIsAsk ==
    ASSUME StoreInv, NEW t \in Threads, NEW q \in Requests[t], Call(t, q)
    PROVE  Map!Next
  <1>1. TypeOK /\ pc[t] = "idle" /\ UNCHANGED storeVars
    BY DEF StoreInv, Call
  <1>2. PICK k \in Keys \cup {None} : k = IF q.op = "Get" THEN q.key ELSE None
    BY CallType
  <1>3. Know' = Know
    BY <1>1 DEF Know, Known, storeVars
  <1>4. AtRisk' = AtRisk
    <2>1. \A x \in Keys : InWriting(x)' <=> InWriting(x)
      BY <1>1, CallType DEF InWriting, Call, TypeOK
    <2>2. AtRisk' = {x \in Kept : x \in failed' \/ InWriting(x)'}
      BY DEF AtRisk
    <2> QED BY <1>1, <2>1, <2>2 DEF AtRisk, storeVars, Kept
  <1>5. Away' = Away /\ t \notin Away
    BY <1>1, CallType DEF Away, Call, TypeOK
  <1>6. Asking' = [Asking EXCEPT ![t] = k]
    BY <1>1, <1>2, CallType DEF Asking, AskOf, Call, TypeOK
  <1>7. resp' = [resp EXCEPT ![t] = None]
    BY DEF Call
  <1>8. Map!Ask(t, k)
    BY <1>3, <1>4, <1>5, <1>6, <1>7 DEF Map!Ask, Know, AtRisk, Asking, AskOf, Away
  <1> QED BY <1>8 DEF Map!Next

\* A step from one resolver to the next, or to the collecting of a list, is
\* not seen.
LEMMA PassingUnseen ==
    ASSUME StoreInv, NEW t \in Threads, UNCHANGED storeVars, UNCHANGED resp,
           \/ UNCHANGED <<pc, req>>
           \/ pc[t] = "List" /\ Goto(t, "collect")
    PROVE  UNCHANGED Map!vars
  <1>1. TypeOK
    BY DEF StoreInv
  <1>2. Know' = Know /\ AtRisk' = AtRisk /\ Away' = Away /\ Asking' = Asking
    <2>1. CASE UNCHANGED <<pc, req>>
      BY <2>1 DEF Know, Known, AtRisk, InWriting, Kept, Away, Asking, AskOf, storeVars
    <2>2. CASE pc[t] = "List" /\ Goto(t, "collect")
      <3>1. AskOf(t)' = AskOf(t)
        BY <1>1, <2>2 DEF AskOf, Goto, TypeOK
      <3> QED BY <2>2, <3>1, GotoSeen
    <2> QED BY <2>1, <2>2
  <1> QED BY <1>2 DEF Map!vars, Know, AtRisk, Asking, AskOf, Away

\* The end of the process is Crash: a kept tag that no Add has at risk is in its
\* file, which is where it is found again.
LEMMA CrashIsCrash ==
    ASSUME StoreInv, Crash
    PROVE  Map!Next
  <1>1. TypeOK /\ KeptOnDisk
    BY DEF StoreInv
  <1>2. cids' = EmptyMap /\ files' = files /\ failed' = {} /\ resp' = resp
    BY DEF Crash
  <1>3. pc' = [t \in Threads |-> "idle"]
    BY DEF Crash
  <1>4. AtRisk' = {} /\ Away' = {} /\ Asking' = [t \in Threads |-> None]
    BY <1>2, <1>3 DEF AtRisk, InWriting, Away, Asking, AskOf
  <1>5. DOMAIN Know' \subseteq Keys
    BY DEF Know
  <1>6. \A k \in Keys : k \in DOMAIN Know' <=> Path(k) \in DOMAIN files
    BY <1>2 DEF Know, Known, EmptyMap
  <1>7. \A k \in Keys : k \in DOMAIN Know' => Know'[k] = files[Path(k)]
    BY <1>2 DEF Know, Known, EmptyMap
  <1>8. ASSUME NEW k \in Kept \ AtRisk
        PROVE  /\ k \in DOMAIN Know' <=> k \in DOMAIN Know
               /\ k \in DOMAIN Know => Know'[k] = Know[k]
    <2>1. k \in Keys /\ k \notin failed /\ ~InWriting(k)
      BY DEF AtRisk, Kept
    <2>2. CASE k \in DOMAIN cids
      <3>1. Path(k) \in DOMAIN files /\ files[Path(k)] = cids[k]
        BY <1>1, <2>1, <2>2 DEF KeptOnDisk, OnDisk
      <3>2. k \in DOMAIN Know /\ Know[k] = cids[k]
        BY <2>1, <2>2 DEF Know, Known
      <3> QED BY <1>6, <1>7, <2>1, <3>1, <3>2
    <2>3. CASE k \notin DOMAIN cids
      <3>1. k \in DOMAIN Know <=> Path(k) \in DOMAIN files
        BY <2>1, <2>3 DEF Know, Known
      <3>2. k \in DOMAIN Know => Know[k] = files[Path(k)]
        BY <2>1, <2>3 DEF Know, Known
      <3> QED BY <1>6, <1>7, <2>1, <3>1, <3>2
    <2> QED BY <2>2, <2>3
  <1>9. Map!Crash
    BY <1>2, <1>4, <1>5, <1>8 DEF Map!Crash, Know, AtRisk, Asking, AskOf, Away
  <1> QED BY <1>9 DEF Map!Next

\* A fresh store is an empty map, and every step of CidStore one of CidMap.
LEMMA MapInit == Init => Map!Init
  BY MapMaps DEF Init, Map!Init, Known, InWriting, EmptyMap, Kept

LEMMA MapStep == StoreInv /\ [Next]_vars => [Map!Next]_(Map!vars)
  <1> SUFFICES ASSUME StoreInv, [Next]_vars PROVE [Map!Next]_(Map!vars)
    OBVIOUS
  <1>1. TypeOK /\ Calling
    BY DEF StoreInv
  <1>2. CASE UNCHANGED vars
    <2>1. Know' = Know /\ AtRisk' = AtRisk /\ Away' = Away /\ Asking' = Asking /\ resp' = resp
      BY <1>2 DEF vars, storeVars, callVars, Know, Known, AtRisk, InWriting, Kept, Away, Asking, AskOf
    <2> QED BY <2>1 DEF Map!vars, Know, AtRisk, Asking, AskOf, Away
  <1>3. CASE Crash
    BY <1>3, CrashIsCrash
  <1>4. ASSUME NEW t \in Threads, NEW q \in Requests[t], Call(t, q)
        PROVE  Map!Next
    BY <1>4, CallIsAsk
  <1>5. ASSUME NEW t \in Threads, Serve(t)
        PROVE  [Map!Next]_(Map!vars)
    <2>1. CASE AddMemory(t) \/ AddOpen(t)
      BY <2>1, AddIsAdd
    <2>2. CASE AddWrite(t)
      BY <2>2, WriteIsSettle
    <2>3. CASE GetKnown(t)
      BY <2>3, KnownIsFind
    <2>4. CASE GetUnknown(t)
      BY <2>4, UnknownIsMiss
    <2>5. CASE ResolveName(t)
      <3>1. PICK c \in Images : Reply(t, c)
        BY <2>5 DEF ResolveName
      <3> QED BY <2>5, <3>1, OtherIsElsewhere DEF ResolveName, Cids
    <2>6. CASE ResolveNext(t)
      <3>1. CASE UNCHANGED <<pc, req, resp>>
        BY <2>6, <3>1, PassingUnseen DEF ResolveNext
      <3>2. CASE Reply(t, Has(chain[at[t]], req[t].key))
        <4>1. PICK c \in Cids \cup {None} : c = Has(chain[at[t]], req[t].key)
          BY <1>1, <2>6, CallType, StoreAssumption DEF ResolveNext, Has, TypeOK, Cids
        <4>2. Reply(t, c)
          BY <3>2, <4>1
        <4> QED BY <2>6, <4>2, OtherIsElsewhere DEF ResolveNext
      <3> QED BY <2>6, <3>1, <3>2 DEF ResolveNext
    <2>7. CASE ResolveNot(t) \/ ListDone(t)
      BY <2>7, OtherIsElsewhere DEF ResolveNot, ListDone
    <2>8. CASE ListStore(t)
      <3>1. CASE Goto(t, "collect")
        BY <2>8, <3>1, PassingUnseen DEF ListStore, Goto
      <3>2. CASE \E c \in Cids : Reply(t, c)
        BY <2>8, <3>2, OtherIsElsewhere DEF ListStore
      <3> QED BY <1>1, <2>8, <3>1, <3>2 DEF ListStore, TypeOK, Cids
    <2>9. CASE ListNext(t)
      BY <2>9, PassingUnseen DEF ListNext
    <2> QED
      BY <1>5, <2>1, <2>2, <2>3, <2>4, <2>5, <2>6, <2>7, <2>8, <2>9 DEF Serve
  <1> QED BY <1>2, <1>3, <1>4, <1>5 DEF Next

\* The store is a map that is read and changed at one moment, and a crash takes
\* nothing from a kept tag but what an Add had not finished writing.
THEOREM ImplementsCidMap == Spec => MapSpec
  BY StoreInit, StoreStep, MapInit, MapStep, PTL DEF Spec, MapSpec, Map!Spec

=============================================================================
