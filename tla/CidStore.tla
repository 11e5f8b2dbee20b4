------------------------------ MODULE CidStore ------------------------------
(***************************************************************************)
(* The CID store of server/registry/cids.go and the lookup of a reference  *)
(* that starts with it: registry.resolve and the resolvers of resolv.go.   *)
(*                                                                         *)
(* The store is a map in memory and a file per repository and tag, under   *)
(* one RWMutex.  Reading is one step: a reader has the lock while it looks *)
(* and nobody writes meanwhile.  Writing a file is two, opening it (which  *)
(* empties it) and writing it.  The resolvers take no lock, and by default *)
(* the only one is a file resolver over the store's own directory          *)
(* (cmd/ipdr/ipdr.go 163-175).                                             *)
(*                                                                         *)
(* A repository is a sequence of path components; a file is named by the   *)
(* sequence of its repository and its tag.                                 *)
(***************************************************************************)
EXTENDS Maps, Sequences, Integers

CONSTANTS
    Threads,   \* goroutines that use the store
    Names,     \* path components of repositories, and tags
    Digests,   \* references that start with "sha256:"
    Images,    \* CIDs
    Keys,      \* the <<repository, reference>> there are
    Requests,  \* the calls each of them makes
    Trees,     \* directories on IPFS that a resolver may read
    TreeAt,    \* tree -> a map of keys to the CIDs in its files
    Config,    \* the resolvers asked for: "store", "dnslink" or a tree
    Env,       \* which events of the environment happen
    EmptyCid,  \* the empty string, where a CID is expected
    None

Cids == Images \cup {EmptyCid}
Repos == {k[1] : k \in Keys}

\* key, and the file of a key.
Path(k) == Append(k[1], k[2])

\* The directories above a file.
Above(p) == {SubSeq(p, 1, i) : i \in 1..(Len(p) - 1)}

\* The repository that is a CID names it.
Named(repo) == \E c \in Images : repo = <<c>>

\* The tags whose file no other repository's file can be in the way of.
Kept ==
    {k \in Keys :
        /\ k[2] \notin Digests
        /\ ~Named(k[1])
        /\ \A x \in Keys : Path(x) \notin Above(Path(k)) /\ Path(k) \notin Above(Path(x))}

Calls == [op : {"Add"}, key : Keys, cid : Cids]
         \cup [op : {"Get"}, key : Keys, cid : {None}]
         \cup [op : {"List"}, key : Keys, cid : {None}]
Events == {"disk",    \* a file cannot be opened or written
           "crash",   \* the process dies and is started again
           "api"}     \* the IPFS API fails

ASSUME StoreAssumption ==
    /\ Keys \subseteq Seq(Names \cup Images) \X (Names \cup Digests)
    /\ \A k \in Keys : k[1] # <<>>
    /\ EmptyCid \notin Names \cup Images
    /\ None \notin Cids \cup Keys \cup Calls \cup Threads \cup Trees \cup {"store"}
    /\ "store" \notin Trees
    /\ \A x \in Trees : DOMAIN TreeAt[x] \subseteq Keys
    /\ \A x \in Trees : \A k \in DOMAIN TreeAt[x] : TreeAt[x][k] \in Images
    /\ Config \in Seq(Trees \cup {"store", "dnslink"})
    /\ Requests \in [Threads -> SUBSET Calls]
    /\ Env \subseteq Events

VARIABLES
    writer,  \* who holds the lock for writing
    cids,    \* cidStore.cids
    files,   \* path -> what the file under cidStore.location holds
    dirs,    \* the paths that are directories there
    chain,   \* resolver.resolvers; None where one could not be had
    failed,  \* history: the kept tags whose last file the disk refused
    pc,      \* where each caller is
    req,     \* its call
    at,      \* the resolver it asks next
    found,   \* the listing it has collected
    resp     \* its answer

storeVars == <<writer, cids, files, dirs, failed>>
callVars == <<pc, req, at, found, resp>>
vars == <<storeVars, chain, callVars>>

\* Variant: a resolver is kept though its record could not be had.
StartChains_Unchecked == {Config}

\* NewResolver: a dnslink record is looked up once, when the server starts; it
\* points to some tree or to files, here those of the store, or cannot be had and
\* is left out without a word.
StartChains ==
    {ch \in [DOMAIN Config -> Trees \cup {"store", None}] :
        \A i \in DOMAIN Config : Config[i] # "dnslink" => ch[i] = Config[i]}

Points == {"idle", "Add", "write", "Get", "resolve", "List", "collect"}

TypeOK ==
    /\ writer \in Threads \cup {None}
    /\ DOMAIN cids \subseteq Keys
    /\ \A k \in DOMAIN cids : cids[k] \in Cids
    /\ DOMAIN files \subseteq {Path(k) : k \in Keys}
    /\ \A p \in DOMAIN files : files[p] \in Cids
    /\ dirs \subseteq UNION {Above(Path(k)) : k \in Keys}
    /\ failed \subseteq Kept
    /\ chain \in [DOMAIN Config -> Trees \cup {"store", None}]
    /\ pc \in [Threads -> Points]
    /\ req \in [Threads -> Calls \cup {None}]
    /\ at \in [Threads -> Nat]
    /\ found \in [Threads -> SUBSET (Names \cup Images \cup Digests)]
    /\ resp \in [Threads -> Cids \cup {None}]
    /\ \A t \in Threads : pc[t] # "idle" => req[t] \in Requests[t]

\* A fresh store.
Init ==
    /\ writer = None
    /\ cids = EmptyMap
    /\ files = EmptyMap
    /\ dirs = {}
    /\ failed = {}
    /\ chain \in StartChains
    /\ pc = [t \in Threads |-> "idle"]
    /\ req = [t \in Threads |-> None]
    /\ at = [t \in Threads |-> 1]
    /\ found = [t \in Threads |-> {}]
    /\ resp = [t \in Threads |-> None]

-----------------------------------------------------------------------------

\* The call goes on at p, or returns c and its local variables are gone.
Goto(t, p) ==
    /\ pc' = [pc EXCEPT ![t] = p]
    /\ UNCHANGED <<req, at, found, resp>>

Reply(t, c) ==
    /\ pc' = [pc EXCEPT ![t] = "idle"]
    /\ req' = [req EXCEPT ![t] = None]
    /\ at' = [at EXCEPT ![t] = 1]
    /\ found' = [found EXCEPT ![t] = {}]
    /\ resp' = [resp EXCEPT ![t] = c]

\* A handler calls the store, or a client asks /dig for the tags of a name.
Call(t, q) ==
    /\ pc[t] = "idle"
    /\ q \in Requests[t]
    /\ pc' = [pc EXCEPT ![t] = q.op]
    /\ req' = [req EXCEPT ![t] = q]
    /\ resp' = [resp EXCEPT ![t] = None]
    /\ UNCHANGED <<storeVars, chain, at, found>>

-----------------------------------------------------------------------------
(* cids.go, Add *)

\* Variant: a tag that has a file is not written again.
Persistent_Once(k, c) == k[1] # <<c>> /\ k[2] \notin Digests /\ Path(k) \notin DOMAIN files

\* Only tags are given a file, and a CID's own entry is not.
Persistent(k, c) == k[1] # <<c>> /\ k[2] \notin Digests

\* MkdirAll meets a file, or the file itself is a directory.
Blocked(p) == Above(p) \cap DOMAIN files # {} \/ p \in dirs

\* Memory first.  Where no file is due or none can be made that is all, and the
\* error of writeCID is dropped.
AddMemory(t) ==
    /\ pc[t] = "Add"
    /\ writer = None
    /\ LET k == req[t].key IN
       /\ ~Persistent(k, req[t].cid) \/ Blocked(Path(k))
       /\ cids' = Put(cids, {k}, req[t].cid)
    /\ Reply(t, None)
    /\ UNCHANGED <<writer, files, dirs, failed, chain>>

\* Variant: the old file is removed, and a new one comes with what is written.
AddOpen_Removes(t) ==
    /\ pc[t] = "Add"
    /\ writer = None
    /\ LET k == req[t].key IN
       /\ Persistent(k, req[t].cid)
       /\ ~Blocked(Path(k))
       /\ cids' = Put(cids, {k}, req[t].cid)
       /\ dirs' = dirs \cup Above(Path(k))
       /\ files' = [p \in DOMAIN files \ {Path(k)} |-> files[p]]
    /\ writer' = t
    /\ Goto(t, "write")
    /\ UNCHANGED <<failed, chain>>

\* The file is created or emptied, its directories are made; or it cannot be
\* opened and keeps what it had, if it was there.
AddOpen(t) ==
    /\ pc[t] = "Add"
    /\ writer = None
    /\ LET k == req[t].key IN
       /\ Persistent(k, req[t].cid)
       /\ ~Blocked(Path(k))
       /\ cids' = Put(cids, {k}, req[t].cid)
       /\ \/ /\ dirs' = dirs \cup Above(Path(k))
             /\ files' = Put(files, {Path(k)}, EmptyCid)
             /\ writer' = t
             /\ Goto(t, "write")
             /\ UNCHANGED failed
          \/ /\ "disk" \in Env
             /\ dirs' \in {dirs, dirs \cup Above(Path(k))}
             /\ failed' = failed \cup ({k} \cap Kept)
             /\ UNCHANGED <<files, writer>>
             /\ Reply(t, None)
    /\ UNCHANGED chain

\* Variant: the lock is kept when the file is written.
AddWrite_KeepsLock(t) ==
    /\ pc[t] = "write"
    /\ files' = Put(files, {Path(req[t].key)}, req[t].cid)
    /\ failed' = failed \ {req[t].key}
    /\ Reply(t, None)
    /\ UNCHANGED <<writer, cids, dirs, chain>>

\* It is written, or stays empty.
AddWrite(t) ==
    /\ pc[t] = "write"
    /\ LET k == req[t].key IN
       \/ /\ files' = Put(files, {Path(k)}, req[t].cid)
          /\ failed' = failed \ {k}
       \/ /\ "disk" \in Env
          /\ failed' = failed \cup ({k} \cap Kept)
          /\ UNCHANGED files
    /\ writer' = None
    /\ Reply(t, None)
    /\ UNCHANGED <<cids, dirs, chain>>

-----------------------------------------------------------------------------
(* registry.resolve with a reference *)

\* In memory, or else in its file.
Known(k) == k \in DOMAIN cids \/ Path(k) \in DOMAIN files

\* Variant: the file comes first.
Stored_FileFirst(k) == IF Path(k) \in DOMAIN files THEN files[Path(k)] ELSE cids[k]

Stored(k) == IF k \in DOMAIN cids THEN cids[k] ELSE files[Path(k)]

\* cidStore.Get finds the key in memory, or else its file.
GetKnown(t) ==
    /\ pc[t] = "Get"
    /\ writer = None
    /\ Known(req[t].key)
    /\ Reply(t, Stored(req[t].key))
    /\ UNCHANGED <<storeVars, chain>>

\* It does not: a repository that is a CID is its own answer, any other goes
\* to the resolvers.
GetUnknown(t) ==
    /\ pc[t] = "Get"
    /\ writer = None
    /\ ~Known(req[t].key)
    /\ Goto(t, "resolve")
    /\ UNCHANGED <<storeVars, chain>>

\* What the resolver r has for the key k, None if nothing.
Has(r, k) ==
    IF r = "store" /\ Path(k) \in DOMAIN files THEN files[Path(k)]
    ELSE IF r \in Trees /\ k \in DOMAIN TreeAt[r] THEN TreeAt[r][k]
    ELSE None

\* The name is a CID.
ResolveName(t) ==
    /\ pc[t] = "resolve"
    /\ \E c \in Images : req[t].key[1] = <<c>> /\ Reply(t, c)
    /\ UNCHANGED <<storeVars, chain>>

\* The next resolver answers, or is passed over.
ResolveNext(t) ==
    /\ pc[t] = "resolve"
    /\ ~Named(req[t].key[1])
    /\ at[t] \in DOMAIN chain
    /\ LET c == Has(chain[at[t]], req[t].key) IN
       \/ /\ c # None
          /\ Reply(t, c)
       \/ /\ c = None \/ ("api" \in Env /\ chain[at[t]] \in Trees)
          /\ at' = [at EXCEPT ![t] = @ + 1]
          /\ UNCHANGED <<pc, req, found, resp>>
    /\ UNCHANGED <<storeVars, chain>>

\* Nobody knows.
ResolveNot(t) ==
    /\ pc[t] = "resolve"
    /\ ~Named(req[t].key[1])
    /\ at[t] \notin DOMAIN chain
    /\ Reply(t, None)
    /\ UNCHANGED <<storeVars, chain>>

-----------------------------------------------------------------------------
(* registry.resolve without a reference: /dig?q=name *)

\* The key "name:" is never in memory, but its file is found if another
\* repository has a tag there; a CID is its own answer here too.
ListStore(t) ==
    /\ pc[t] = "List"
    /\ writer = None
    /\ LET repo == req[t].key[1] IN
       \/ /\ repo \in DOMAIN files
          /\ Reply(t, files[repo])
       \/ /\ repo \notin DOMAIN files
          /\ \E c \in Images : repo = <<c>> /\ Reply(t, c)
       \/ /\ repo \notin DOMAIN files
          /\ ~Named(repo)
          /\ Goto(t, "collect")
    /\ UNCHANGED <<storeVars, chain>>

\* What is in a directory when there are these paths.
Entries(paths, repo) == {p[Len(repo) + 1] : p \in {x \in paths : repo \in Above(x)}}

\* The file resolver lists the regular files of its directory; a tree on IPFS
\* lists every link, those to the directories of other repositories too.
Links(r, repo) ==
    IF r = "store" THEN {k[2] : k \in {x \in Keys : x[1] = repo /\ Path(x) \in DOMAIN files}}
    ELSE IF r \in Trees THEN Entries({Path(k) : k \in DOMAIN TreeAt[r]}, repo)
    ELSE {}

\* Every resolver is asked, and what they list is put together.
ListNext(t) ==
    /\ pc[t] = "collect"
    /\ at[t] \in DOMAIN chain
    /\ at' = [at EXCEPT ![t] = @ + 1]
    /\ \/ found' = [found EXCEPT ![t] = @ \cup Links(chain[at[t]], req[t].key[1])]
       \/ "api" \in Env /\ chain[at[t]] \in Trees /\ UNCHANGED found
    /\ UNCHANGED <<storeVars, chain, pc, req, resp>>

ListDone(t) ==
    /\ pc[t] = "collect"
    /\ at[t] \notin DOMAIN chain
    /\ Reply(t, None)
    /\ UNCHANGED <<storeVars, chain>>

-----------------------------------------------------------------------------

\* The process dies and is started again: the files are what is left.
Crash ==
    /\ "crash" \in Env
    /\ writer' = None
    /\ cids' = EmptyMap
    /\ failed' = {}
    /\ chain' \in StartChains
    /\ pc' = [t \in Threads |-> "idle"]
    /\ at' = [t \in Threads |-> 1]
    /\ req' = [t \in Threads |-> None]
    /\ found' = [t \in Threads |-> {}]
    /\ UNCHANGED <<files, dirs, resp>>

Serve(t) ==
    \/ AddMemory(t)
    \/ AddOpen(t)
    \/ AddWrite(t)
    \/ GetKnown(t)
    \/ GetUnknown(t)
    \/ ResolveName(t)
    \/ ResolveNext(t)
    \/ ResolveNot(t)
    \/ ListStore(t)
    \/ ListNext(t)
    \/ ListDone(t)

Next ==
    \/ \E t \in Threads : \E q \in Requests[t] : Call(t, q)
    \/ \E t \in Threads : Serve(t)
    \/ Crash

Spec == Init /\ [][Next]_vars

\* Goroutines are scheduled, an RWMutex lets neither readers nor writers wait
\* forever, and the IPFS API returns.
FairSpec == Spec /\ \A t \in Threads : SF_vars(Serve(t))

-----------------------------------------------------------------------------
(* Properties. *)

\* The file of k says what memory says.
OnDisk(k) == Path(k) \in DOMAIN files /\ files[Path(k)] = cids[k]

\* The key whose file is being written.
InWriting(k) == \E t \in Threads : pc[t] = "write" /\ req[t].key = k

\* Once Add has returned, a kept tag is in its file, unless the disk refused it:
\* nothing another Add does to memory, files or directories comes in between
\* (cids.go 24-37, 66-74).
KeptOnDisk == \A k \in (Kept \cap DOMAIN cids) \ failed : InWriting(k) \/ OnDisk(k)

\* What CidMap calls by other names.
Map == INSTANCE CidMap WITH
    known <- [k \in {x \in Keys : Known(x)} |->
                 IF k \in DOMAIN cids THEN cids[k] ELSE files[Path(k)]],
    torn <- {k \in Kept : k \in failed \/ InWriting(k)},
    ask <- [t \in Threads |-> IF pc[t] \in {"Get", "resolve"} THEN req[t].key ELSE None],
    away <- {t \in Threads : pc[t] = "resolve"},
    answer <- resp

\* Seen by its callers, the store is a map that is read and changed at one
\* moment, whoever writes meanwhile, and a crash takes nothing from a kept tag
\* but what the Add it interrupts, or a failing disk, has not written
\* (cids.go 24-54).
MapSpec == Map!Spec

\* The caller's listing has come to the resolver that reads the store's directory.
AsksStore(t) ==
    /\ pc[t] = "collect"
    /\ at[t] \in DOMAIN chain
    /\ chain[at[t]] = "store"
    /\ at'[t] = at[t] + 1

\* The file resolver lists a directory that Add writes to, without its lock
\* (resolv.go 55-66, cids.go 57-74).  A kept tag that lookups find in memory is
\* listed, also while its file is being written anew, unless the disk refused it;
\* and nothing is listed but what has a file there, so no directory that Add
\* has made for a longer name.  Trees on IPFS list directories too (124-133).
ListsTags ==
    [][\A t \in Threads : AsksStore(t) =>
          LET repo == req[t].key[1] IN
          /\ \A k \in (Kept \cap DOMAIN cids) \ failed : k[1] = repo => k[2] \in found'[t]
          /\ \A g \in found'[t] \ found[t] : Append(repo, g) \in DOMAIN files]_vars

\* Every call returns.
Returns == \A t \in Threads : pc[t] # "idle" ~> pc[t] = "idle"

=============================================================================
