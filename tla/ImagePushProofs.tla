-------------------------- MODULE ImagePushProofs ---------------------------
(***************************************************************************)
(* Theorems about ImagePush, for any number of pushes, any archives and    *)
(* any failures.                                                           *)
(***************************************************************************)
EXTENDS ImagePush, MapTheorems

-----------------------------------------------------------------------------
(* Names. *)

\* The index is called like nothing else in an archive.
LEMMA IndexNameAlone == IndexName \notin Names \cup ConfigNames
  <1>1. \A x : <<"sha256", x>> # <<"manifest.json">>
    <2> SUFFICES ASSUME NEW x, <<"sha256", x>> = <<"manifest.json">> PROVE FALSE
      OBVIOUS
    <2>1. Len(<<"sha256", x>>) = 2 /\ Len(<<"manifest.json">>) = 1
      OBVIOUS
    <2> QED BY <2>1
  <1> QED BY <1>1, PushAssumption DEF IndexName, ConfigNames, Digest

\* What an entry of an archive is.
LEMMA EntryType ==
    ASSUME NEW e \in Entries, e.kind # "link"
    PROVE  /\ e.name \in Names \cup ConfigNames \cup {IndexName}
           /\ e.name = IndexName => e.kind = "index" /\ e.data \in Indexes
           /\ e.name # IndexName => e.kind = "file" /\ e.data \in Data
  BY IndexNameAlone DEF Entries

\* What a call is given.
LEMMA JobType ==
    ASSUME NEW j \in Jobs
    PROVE  j.archive \in Seq(Entries) /\ j.form \in Forms /\ j.tag \in Tags /\ j # None
  BY PushAssumption

-----------------------------------------------------------------------------
(* The inductive invariant: types. *)

\* The files of an archive: its index and all the others.
FilesTyped(f) ==
    /\ DOMAIN f \subseteq Names \cup ConfigNames \cup {IndexName}
    /\ \A n \in DOMAIN f : IF n = IndexName THEN f[n] \in Indexes ELSE f[n] \in Data

Fields == {"rest", "files", "todo", "config", "blobs", "layers", "manifests"}

WorkTyped(w) ==
    /\ DOMAIN w = Fields
    /\ w.rest \in Seq(Entries)
    /\ FilesTyped(w.files)
    /\ w.todo \in Seq(Names)
    /\ w.config \in ConfigNames \cup {None}
    /\ BlobMap(w.blobs)
    /\ w.layers \in Seq({Digest(l) : l \in Layers})
    /\ ManifestMap(w.manifests)

\* The images on IPFS.
Given == UNION {Links(root) : root \in added}

RefsTyped(r, given) ==
    /\ DOMAIN r = {"at", "links", "offer"}
    /\ r.at \in {"none", "decode", "send", "closed"}
    /\ r.links \subseteq given
    /\ r.at = "send" => r.offer \in given

\* Before it is written there is no manifest, and from the configuration on there
\* is one of those.
Staged(p, w) ==
    /\ p \in {"untar", "prep", "layers", "write"} => w.manifests = EmptyMap
    /\ p \in {"layers", "write", "add"} => w.config \in ConfigNames

\* A root has the shape that prepareV2Manifest gives it.
RootTyped(root) ==
    /\ DOMAIN root = {"default"}
    /\ BlobMap(root.default.blobs)
    /\ ManifestMap(root.default.manifests)

\* What a call has in hand, and what a listing has read, is on IPFS.
PushInv ==
    /\ pc \in [Pushers -> Points]
    /\ job \in [Pushers -> Jobs \cup {None}]
    /\ tries \in [Pushers -> 0..MaxTries]
    /\ DOMAIN work = Pushers /\ DOMAIN hash = Pushers
    /\ DOMAIN refs = Pushers /\ DOMAIN result = Pushers
    /\ \A p \in Pushers :
          /\ WorkTyped(work[p])
          /\ Staged(pc[p], work[p])
          /\ RefsTyped(refs[p], Given)
          /\ hash[p] # None => hash[p] \in added
          /\ result[p] \in Given \cup {None, Failed}
          /\ pc[p] # "idle" => job[p] # None /\ result[p] = None
    /\ \A root \in added : RootTyped(root)

LEMMA InvTypes == PushInv => TypeOK
  BY DEF PushInv, TypeOK, WorkTyped, RefsTyped, RootTyped

\* An empty map is one of whatever is asked for.
LEMMA FreshTyped ==
    ASSUME NEW a \in Seq(Entries)
    PROVE  WorkTyped(Fresh(a)) /\ \A p : p # "add" /\ p # "layers" /\ p # "write" => Staged(p, Fresh(a))
  <1>1. DOMAIN EmptyMap = {}
    BY DEF EmptyMap
  <1>2. DOMAIN Fresh(a) = Fields
    BY DEF Fresh, Fields
  <1> QED
    BY <1>1, <1>2 DEF Fresh, WorkTyped, FilesTyped, BlobMap, ManifestMap, Staged

LEMMA PushInit == Init => PushInv
  <1> SUFFICES ASSUME Init PROVE PushInv
    OBVIOUS
  <1>1. <<>> \in Seq(Entries)
    OBVIOUS
  <1>2. WorkTyped(Fresh(<<>>)) /\ Staged("idle", Fresh(<<>>))
    BY <1>1, FreshTyped
  <1>3. RefsTyped(NoRefs, Given)
    BY DEF RefsTyped, NoRefs
  <1> QED
    BY <1>2, <1>3 DEF Init, PushInv, Points, MaxTries

\* The archive is read on.
LEMMA RestUpdate ==
    ASSUME NEW w, WorkTyped(w), NEW a \in Seq(Entries)
    PROVE  LET x == [w EXCEPT !.rest = a] IN
           /\ WorkTyped(x)
           /\ \A q : Staged(q, w) => Staged(q, x)
  <1> DEFINE x == [w EXCEPT !.rest = a]
  <1>1. /\ DOMAIN x = Fields /\ x.rest = a /\ x.files = w.files /\ x.todo = w.todo
        /\ x.config = w.config /\ x.blobs = w.blobs /\ x.layers = w.layers /\ x.manifests = w.manifests
    BY DEF WorkTyped, Fields
  <1> HIDE DEF x
  <1> QED
    BY <1>1 DEF WorkTyped, Staged

\* A file is unpacked.
LEMMA FilesUpdate ==
    ASSUME NEW w, WorkTyped(w), NEW a, FilesTyped(a)
    PROVE  LET x == [w EXCEPT !.files = a] IN
           /\ WorkTyped(x)
           /\ \A q : Staged(q, w) => Staged(q, x)
  <1> DEFINE x == [w EXCEPT !.files = a]
  <1>1. /\ DOMAIN x = Fields /\ x.rest = w.rest /\ x.files = a /\ x.todo = w.todo
        /\ x.config = w.config /\ x.blobs = w.blobs /\ x.layers = w.layers /\ x.manifests = w.manifests
    BY DEF WorkTyped, Fields
  <1> HIDE DEF x
  <1> QED
    BY <1>1 DEF WorkTyped, Staged

\* The index and the configuration are read.
LEMMA PreparedUpdate ==
    ASSUME NEW w, WorkTyped(w), NEW a \in Seq(Names),
           NEW b \in ConfigNames, NEW c, BlobMap(c)
    PROVE  LET x == [w EXCEPT !.todo = a, !.config = b, !.blobs = c] IN
           /\ WorkTyped(x)
           /\ Staged("prep", w) => Staged("layers", x)
  <1> DEFINE x == [w EXCEPT !.todo = a, !.config = b, !.blobs = c]
  <1>1. /\ DOMAIN x = Fields /\ x.rest = w.rest /\ x.files = w.files /\ x.todo = a
        /\ x.config = b /\ x.blobs = c /\ x.layers = w.layers /\ x.manifests = w.manifests
    BY DEF WorkTyped, Fields
  <1> HIDE DEF x
  <1> QED
    BY <1>1 DEF WorkTyped, Staged

\* A layer is compressed.
LEMMA LayeredUpdate ==
    ASSUME NEW w, WorkTyped(w), NEW a \in Seq(Names), NEW b, BlobMap(b),
           NEW c \in Seq({Digest(y) : y \in Layers})
    PROVE  LET x == [w EXCEPT !.todo = a, !.blobs = b, !.layers = c] IN
           /\ WorkTyped(x)
           /\ \A q : Staged(q, w) => Staged(q, x)
  <1> DEFINE x == [w EXCEPT !.todo = a, !.blobs = b, !.layers = c]
  <1>1. /\ DOMAIN x = Fields /\ x.rest = w.rest /\ x.files = w.files /\ x.todo = a
        /\ x.config = w.config /\ x.blobs = b /\ x.layers = c /\ x.manifests = w.manifests
    BY DEF WorkTyped, Fields
  <1> HIDE DEF x
  <1> QED
    BY <1>1 DEF WorkTyped, Staged

\* The manifests are written.
LEMMA WrittenUpdate ==
    ASSUME NEW w, WorkTyped(w), NEW a, ManifestMap(a)
    PROVE  LET x == [w EXCEPT !.manifests = a] IN
           /\ WorkTyped(x)
           /\ Staged("write", w) => Staged("add", x)
  <1> DEFINE x == [w EXCEPT !.manifests = a]
  <1>1. /\ DOMAIN x = Fields /\ x.rest = w.rest /\ x.files = w.files /\ x.todo = w.todo
        /\ x.config = w.config /\ x.blobs = w.blobs /\ x.layers = w.layers /\ x.manifests = a
    BY DEF WorkTyped, Fields
  <1> HIDE DEF x
  <1> QED
    BY <1>1 DEF WorkTyped, Staged

-----------------------------------------------------------------------------
(* Every step keeps it. *)

\* A call goes on with its files.
LEMMA GotoInv ==
    ASSUME PushInv, NEW p \in Pushers, pc[p] # "idle", NEW q \in Points, q # "idle",
           NEW w, WorkTyped(w), Staged(q, w), Goto(p, q, w)
    PROVE  PushInv'
  <1>1. Given' = Given
    BY DEF Given, Goto
  <1> QED
    BY <1>1 DEF PushInv, Goto

\* A call returns, and the listings stay what they have to be.
LEMMA ReturnInv ==
    ASSUME PushInv, NEW p \in Pushers, NEW c \in Given \cup {Failed}, Return(p, c),
           UNCHANGED added, DOMAIN refs' = Pushers,
           \A q \in Pushers : RefsTyped(refs'[q], Given)
    PROVE  PushInv'
  <1>1. Given' = Given
    BY DEF Given
  <1>2. <<>> \in Seq(Entries)
    OBVIOUS
  <1>3. WorkTyped(Fresh(<<>>)) /\ Staged("idle", Fresh(<<>>))
    BY <1>2, FreshTyped
  <1> QED
    BY <1>1, <1>3 DEF PushInv, Return, Points, MaxTries

\* The same when nothing becomes of the listings.
LEMMA FailedInv ==
    ASSUME PushInv, NEW p \in Pushers, Return(p, Failed), UNCHANGED <<refs, added>>
    PROVE  PushInv'
  BY ReturnInv DEF PushInv

LEMMA PushStep ==
    ASSUME PushInv, NEW p \in Pushers, NEW j \in Jobs, Push(p, j)
    PROVE  PushInv'
  <1>1. Given' = Given
    BY DEF Given, Push
  <1>2. WorkTyped(Fresh(j.archive)) /\ Staged("untar", Fresh(j.archive)) /\ j # None
    BY FreshTyped, JobType
  <1>3. RefsTyped(NoRefs, Given)
    BY DEF RefsTyped, NoRefs
  <1> QED
    BY <1>1, <1>2, <1>3 DEF PushInv, Push, Points

\* The head and the rest of a sequence.
LEMMA HeadTail ==
    ASSUME NEW S, NEW s \in Seq(S), s # <<>>
    PROVE  Head(s) \in S /\ Tail(s) \in Seq(S)
  OBVIOUS

LEMMA UnpackStep ==
    ASSUME PushInv, NEW p \in Pushers, Unpack(p)
    PROVE  PushInv'
  <1> DEFINE e == Head(work[p].rest)
             w == [work[p] EXCEPT !.rest = Tail(@)]
  <1>1. WorkTyped(work[p]) /\ Staged("untar", work[p]) /\ pc[p] = "untar"
    BY DEF PushInv, Unpack
  <1>2. e \in Entries /\ Tail(work[p].rest) \in Seq(Entries)
    BY <1>1, HeadTail DEF WorkTyped, Unpack
  <1>3. WorkTyped(w) /\ Staged("untar", w)
    BY <1>1, <1>2, RestUpdate
  <1>4. CASE e.kind = "link"
    BY <1>1, <1>3, <1>4, GotoInv DEF Unpack, Points
  <1>5. CASE e.kind # "link"
    <2> DEFINE f == Put(w.files, {e.name}, e.data)
    <2>1. FilesTyped(f)
      BY <1>2, <1>3, <1>5, EntryType DEF FilesTyped, Put, WorkTyped
    <2> HIDE DEF f
    <2> DEFINE x == [w EXCEPT !.files = f]
    <2>2. WorkTyped(x) /\ Staged("untar", x)
      BY <1>3, <2>1, FilesUpdate
    <2>3. Goto(p, "untar", x)
      BY <1>5 DEF Unpack, f
    <2> QED BY <1>1, <2>2, <2>3, GotoInv DEF Points
  <1> QED BY <1>4, <1>5

LEMMA UnpackedStep ==
    ASSUME PushInv, NEW p \in Pushers, Unpacked(p)
    PROVE  PushInv'
  <1> DEFINE w == [work[p] EXCEPT !.rest = <<>>]
  <1>1. WorkTyped(work[p]) /\ Staged("untar", work[p]) /\ pc[p] = "untar"
    BY DEF PushInv, Unpacked
  <1>2. WorkTyped(w) /\ Staged("prep", w)
    <2>1. <<>> \in Seq(Entries)
      OBVIOUS
    <2> QED BY <1>1, <2>1, RestUpdate DEF Staged
  <1> QED BY <1>1, <1>2, GotoInv DEF Unpacked, Points

\* The index that prep finds, and the configuration it names.
LEMMA IndexType ==
    ASSUME NEW f, FilesTyped(f), IndexName \in DOMAIN f, f[IndexName] # None,
           f[IndexName].config \in DOMAIN f
    PROVE  /\ f[IndexName].config \in ConfigNames
           /\ f[IndexName].layers \in Seq(Names)
           /\ f[f[IndexName].config] \in Data
  <1>1. f[IndexName] \in [config : ConfigNames, layers : Seq(Names)]
    BY DEF FilesTyped, Indexes
  <1> QED BY <1>1, IndexNameAlone DEF FilesTyped

LEMMA PrepareStep ==
    ASSUME PushInv, NEW p \in Pushers, Prepare(p)
    PROVE  PushInv'
  <1> DEFINE f == work[p].files
             ix == f[IndexName]
             ok == IndexName \in DOMAIN f /\ f[IndexName] # None
                     /\ f[IndexName].config \in DOMAIN f
  <1>1. WorkTyped(work[p]) /\ Staged("prep", work[p]) /\ pc[p] = "prep"
    BY DEF PushInv, Prepare
  <1>2. CASE ok
    <2> DEFINE b == Put(work[p].blobs, {ix.config}, f[ix.config])
    <2>1. ix.config \in ConfigNames /\ ix.layers \in Seq(Names) /\ f[ix.config] \in Data
      BY <1>1, <1>2, IndexType DEF WorkTyped
    <2>2. BlobMap(b)
      BY <1>1, <2>1 DEF BlobMap, BlobNames, Put, WorkTyped
    <2> HIDE DEF b
    <2> DEFINE w == [work[p] EXCEPT !.todo = ix.layers, !.config = ix.config, !.blobs = b]
    <2>3. WorkTyped(w) /\ Staged("layers", w)
      BY <1>1, <2>1, <2>2, PreparedUpdate
    <2>4. Goto(p, "layers", w)
      BY <1>2 DEF Prepare, b
    <2> QED BY <1>1, <2>3, <2>4, GotoInv DEF Points
  <1>3. CASE ~ok
    BY <1>3, FailedInv DEF Prepare
  <1> QED BY <1>2, <1>3

\* What may be read of a layer, and what that becomes.
LEMMA LayerType ==
    ASSUME NEW f, FilesTyped(f), NEW n \in Names, NEW d \in Contents(f, n)
    PROVE  d \in Data \cup {Nothing} /\ Gzip(d) \in Layers
  <1>1. n # IndexName
    BY PushAssumption
  <1> QED BY <1>1 DEF FilesTyped, Contents, Layers

LEMMA LayeredTyped ==
    ASSUME NEW w, WorkTyped(w), w.todo # <<>>, NEW d, Gzip(d) \in Layers
    PROVE  WorkTyped(Layered(w, d)) /\ \A q : Staged(q, w) => Staged(q, Layered(w, d))
  <1> DEFINE b == Put(w.blobs, {Digest(Gzip(d))}, Gzip(d))
             s == Append(w.layers, Digest(Gzip(d)))
             x == [w EXCEPT !.todo = Tail(w.todo), !.blobs = b, !.layers = s]
  <1>1. BlobMap(b)
    BY DEF BlobMap, BlobNames, Put, WorkTyped
  <1>2. s \in Seq({Digest(l) : l \in Layers})
    BY DEF WorkTyped
  <1>3. Tail(w.todo) \in Seq(Names)
    BY HeadTail DEF WorkTyped
  <1>4. Layered(w, d) = x
    BY DEF Layered, WorkTyped
  <1> HIDE DEF b, s
  <1>5. WorkTyped(x) /\ \A q : Staged(q, w) => Staged(q, x)
    BY <1>1, <1>2, <1>3, LayeredUpdate
  <1> QED BY <1>4, <1>5

LEMMA CompressStep ==
    ASSUME PushInv, NEW p \in Pushers, Compress(p)
    PROVE  PushInv'
  <1>1. WorkTyped(work[p]) /\ Staged("layers", work[p]) /\ pc[p] = "layers" /\ work[p].todo # <<>>
    BY DEF PushInv, Compress
  <1>2. PICK d \in Contents(work[p].files, Head(work[p].todo)) : Goto(p, "layers", Layered(work[p], d))
    BY DEF Compress
  <1>3. Gzip(d) \in Layers
    BY <1>1, LayerType, HeadTail DEF WorkTyped
  <1>4. WorkTyped(Layered(work[p], d)) /\ Staged("layers", Layered(work[p], d))
    BY <1>1, <1>3, LayeredTyped
  <1> QED BY <1>1, <1>2, <1>4, GotoInv DEF Points

LEMMA CompressedStep ==
    ASSUME PushInv, NEW p \in Pushers, Compressed(p)
    PROVE  PushInv'
  <1>1. WorkTyped(work[p]) /\ Staged("layers", work[p]) /\ pc[p] = "layers"
    BY DEF PushInv, Compressed
  <1>2. Staged("write", work[p])
    BY <1>1 DEF Staged
  <1> QED BY <1>1, <1>2, GotoInv DEF Compressed, Points

LEMMA WriteStep ==
    ASSUME PushInv, NEW p \in Pushers, Write(p)
    PROVE  PushInv'
  <1>1. WorkTyped(work[p]) /\ Staged("write", work[p]) /\ pc[p] = "write" /\ job[p] \in Jobs
    BY DEF PushInv, Write
  <1>2. CASE job[p].form = "port"
    BY <1>2, FailedInv DEF Write
  <1>3. CASE job[p].form # "port"
    <2> DEFINE man == [config |-> work[p].config, layers |-> work[p].layers]
               m == Put(EmptyMap, {Latest, Ref(job[p]), Digest(man)}, man)
               w == [work[p] EXCEPT !.manifests = m]
    <2>1. man \in Manifests
      BY <1>1 DEF Manifests, WorkTyped, Staged
    <2>2. Ref(job[p]) \in Tags /\ Latest \in Tags
      BY <1>1, JobType, PushAssumption DEF Ref
    <2> HIDE DEF man
    <2>3. DOMAIN m = {Latest, Ref(job[p]), Digest(man)} /\ \A r \in DOMAIN m : m[r] = man
      BY DEF Put, EmptyMap
    <2>4. ManifestMap(m)
      BY <2>1, <2>2, <2>3 DEF ManifestMap
    <2>5. work[p].manifests = EmptyMap
      BY <1>1 DEF Staged
    <2> HIDE DEF m
    <2>6. WorkTyped(w) /\ Staged("add", w)
      BY <1>1, <2>4, WrittenUpdate
    <2>7. Goto(p, "add", w)
      BY <1>3, <2>5 DEF Write, man, m
    <2> QED BY <1>1, <2>6, <2>7, GotoInv DEF Points
  <1> QED BY <1>2, <1>3

\* What is on IPFS stays there.
LEMMA GivenGrows ==
    ASSUME NEW r, NEW given, NEW more, given \subseteq more, RefsTyped(r, given)
    PROVE  RefsTyped(r, more)
  BY DEF RefsTyped

LEMMA AddStep ==
    ASSUME PushInv, NEW p \in Pushers, Add(p)
    PROVE  PushInv'
  <1> DEFINE root == Root(Image(work[p]))
  <1>1. Given \subseteq Given'
    BY DEF Given, Add
  <1>2. RootTyped(root)
    BY DEF PushInv, Root, Image, RootTyped, WorkTyped
  <1> HIDE DEF root
  <1>3. \A r \in added' : RootTyped(r)
    BY <1>2 DEF PushInv, Add, root
  <1>4. \A q \in Pushers : RefsTyped(refs'[q], Given')
    BY <1>1, GivenGrows DEF PushInv, Add
  <1>5. \A q \in Pushers : Staged(pc'[q], work'[q]) /\ WorkTyped(work'[q])
    BY DEF PushInv, Add, Staged
  <1>6. \A q \in Pushers : /\ hash'[q] # None => hash'[q] \in added'
                           /\ result'[q] \in Given' \cup {None, Failed}
                           /\ pc'[q] # "idle" => job'[q] # None /\ result'[q] = None
    BY <1>1 DEF PushInv, Add
  <1> QED
    BY <1>3, <1>4, <1>5, <1>6 DEF PushInv, Add, Points

LEMMA ListStep ==
    ASSUME PushInv, NEW p \in Pushers, List(p)
    PROVE  PushInv'
  <1>1. CASE hash[p] = None
    BY <1>1, FailedInv DEF List
  <1>2. CASE hash[p] # None
    <2> DEFINE r == [at |-> "decode", links |-> Links(hash[p]), offer |-> None]
    <2>1. Given' = Given
      BY <1>2 DEF Given, List
    <2>2. RefsTyped(r, Given)
      BY <1>2 DEF PushInv, RefsTyped, Given
    <2> HIDE DEF r
    <2>3. refs' = [refs EXCEPT ![p] = r] /\ pc' = [pc EXCEPT ![p] = "take"] /\ pc[p] = "refs"
      BY <1>2 DEF List, r
    <2>4. UNCHANGED <<job, work, hash, tries, result, added>>
      BY <1>2 DEF List
    <2> QED
      BY <2>1, <2>2, <2>3, <2>4 DEF PushInv, Points, Staged
  <1> QED BY <1>1, <1>2

\* A listing goroutine goes on.
LEMMA RefsInv ==
    ASSUME PushInv, NEW p \in Pushers, NEW r, RefsTyped(r, Given),
           refs' = [refs EXCEPT ![p] = r], UNCHANGED <<pc, job, work, hash, result, added>>,
           tries' \in [Pushers -> 0..MaxTries]
    PROVE  PushInv'
  <1>1. Given' = Given
    BY DEF Given
  <1> QED BY <1>1 DEF PushInv

LEMMA DecodeStep ==
    ASSUME PushInv, NEW p \in Pushers, Refs(p)
    PROVE  PushInv'
  <1>1. RefsTyped(refs[p], Given)
    BY DEF PushInv
  <1>2. UNCHANGED <<pc, job, work, hash, result, added>> /\ tries' \in [Pushers -> 0..MaxTries]
    BY DEF PushInv, Refs, Decode, DecodeEnd
  <1>3. CASE Decode(p)
    <2>1. PICK c \in refs[p].links :
             refs' = [refs EXCEPT ![p] = [at |-> "send", links |-> @.links \ {c}, offer |-> c]]
      BY <1>3 DEF Decode
    <2>2. RefsTyped([at |-> "send", links |-> refs[p].links \ {c}, offer |-> c], Given)
      BY <1>1 DEF RefsTyped
    <2> QED BY <1>2, <2>1, <2>2, RefsInv
  <1>4. CASE DecodeEnd(p)
    <2>1. RefsTyped([NoRefs EXCEPT !.at = "closed"], Given)
      BY DEF RefsTyped, NoRefs
    <2> QED BY <1>2, <1>4, <2>1, RefsInv DEF DecodeEnd
  <1> QED BY <1>3, <1>4 DEF Refs

LEMMA TakeStep ==
    ASSUME PushInv, NEW p \in Pushers, Take(p)
    PROVE  PushInv'
  <1> DEFINE r == [refs[p] EXCEPT !.at = "decode", !.offer = None]
  <1>1. RefsTyped(refs[p], Given) /\ refs[p].at = "send" /\ DOMAIN refs = Pushers
    BY DEF PushInv, Take
  <1>2. refs[p].offer \in Given
    BY <1>1 DEF RefsTyped
  <1>3. RefsTyped(r, Given)
    BY <1>1 DEF RefsTyped
  <1> HIDE DEF r
  <1>4. refs' = [refs EXCEPT ![p] = r] /\ Return(p, refs[p].offer) /\ UNCHANGED added
    BY DEF Take, r
  <1>5. DOMAIN refs' = Pushers /\ \A q \in Pushers : RefsTyped(refs'[q], Given)
    BY <1>1, <1>3, <1>4 DEF PushInv
  <1> QED BY <1>2, <1>4, <1>5, ReturnInv

LEMMA TakeNothingStep ==
    ASSUME PushInv, NEW p \in Pushers, TakeNothing(p)
    PROVE  PushInv'
  <1>1. Given' = Given
    BY DEF Given, TakeNothing
  <1>2. tries' \in [Pushers -> 0..MaxTries]
    BY DEF PushInv, TakeNothing, MaxTries
  <1> QED BY <1>1, <1>2 DEF PushInv, TakeNothing

LEMMA ExitStep ==
    ASSUME PushInv, NEW p \in Pushers, Exit(p)
    PROVE  PushInv'
  <1>1. Given' = Given
    BY DEF Given, Exit
  <1>2. <<>> \in Seq(Entries)
    OBVIOUS
  <1>3. WorkTyped(Fresh(<<>>)) /\ Staged("idle", Fresh(<<>>))
    BY <1>2, FreshTyped
  <1>4. RefsTyped(NoRefs, Given)
    BY DEF RefsTyped, NoRefs
  <1> QED
    BY <1>1, <1>3, <1>4 DEF PushInv, Exit, Points, MaxTries

LEMMA InvStep == PushInv /\ [Next]_vars => PushInv'
  <1> SUFFICES ASSUME PushInv, [Next]_vars PROVE PushInv'
    OBVIOUS
  <1>1. ASSUME NEW p \in Pushers, NEW j \in Jobs, Push(p, j) PROVE PushInv'
    BY <1>1, PushStep
  <1>2. ASSUME NEW p \in Pushers, Fail(p) PROVE PushInv'
    BY <1>2, FailedInv DEF Fail
  <1>3. ASSUME NEW p \in Pushers, Work(p) PROVE PushInv'
    BY <1>2, <1>3, UnpackStep, UnpackedStep, PrepareStep, CompressStep, CompressedStep,
       WriteStep, AddStep, ListStep, TakeStep, TakeNothingStep, ExitStep DEF Work
  <1>4. ASSUME NEW p \in Pushers, Refs(p) PROVE PushInv'
    BY <1>4, DecodeStep
  <1>5. CASE UNCHANGED vars
    BY <1>5 DEF vars, localVars, PushInv, Given
  <1> QED BY <1>1, <1>3, <1>4, <1>5 DEF Next

\* A push keeps the types, whatever the archive, the docker daemon, the disk and
\* the IPFS API do.
THEOREM PushTypes == Spec => []TypeOK
  BY PushInit, InvStep, InvTypes, PTL DEF Spec

-----------------------------------------------------------------------------
(* What is put together is whole. *)

\* Entries of archives that call a configuration by its digest.
NamedEntries == {e \in Entries : (e.kind = "file" /\ e.name \in ConfigNames) => e.name = Digest(e.data)}

FilesNamed(f) == \A n \in DOMAIN f : n \in ConfigNames => n = Digest(f[n])
Digested(b) == \A d \in DOMAIN b : d = Digest(b[d])

\* The image of one manifest, complete.
Whole(im) ==
    /\ Latest \in DOMAIN im.manifests
    /\ LET man == im.manifests[Latest] IN
       /\ Digest(man) \in DOMAIN im.manifests
       /\ \A r \in DOMAIN im.manifests : im.manifests[r] = man
       /\ DOMAIN im.blobs = {man.config} \cup Range(man.layers)
    /\ Digested(im.blobs)

\* What a call has made of the archive so far.
Made(p, w) ==
    /\ p = "untar" => w.rest \in Seq(NamedEntries)
    /\ p \in {"untar", "prep"} => FilesNamed(w.files) /\ w.blobs = EmptyMap /\ w.layers = <<>>
    /\ p \in {"layers", "write"} =>
          DOMAIN w.blobs = {w.config} \cup Range(w.layers) /\ Digested(w.blobs)
    /\ p = "add" => Whole(Image(w))

WholeInv ==
    /\ \A p \in Pushers : Made(pc[p], work[p])
    /\ \A root \in added : Whole(root.default)

LEMMA GotoWhole ==
    ASSUME PushInv, WholeInv, NEW p \in Pushers, NEW q, NEW w, Made(q, w), Goto(p, q, w)
    PROVE  WholeInv'
  BY DEF PushInv, WholeInv, Goto

\* A call that has returned has nothing in hand.
LEMMA ReturnWhole ==
    ASSUME PushInv, WholeInv, NEW p \in Pushers, NEW c, Return(p, c), UNCHANGED added
    PROVE  WholeInv'
  BY DEF PushInv, WholeInv, Return, Made

LEMMA PushWhole ==
    ASSUME ConfigsNamed, PushInv, WholeInv, NEW p \in Pushers, NEW j \in Jobs, Push(p, j)
    PROVE  WholeInv'
  <1>1. j.archive \in Seq(NamedEntries)
    <2>1. j.archive \in Seq(Entries)
      BY JobType
    <2>2. \A i \in 1..Len(j.archive) : j.archive[i] \in NamedEntries
      BY <2>1 DEF ConfigsNamed, NamedEntries
    <2> QED BY <2>1, <2>2
  <1>2. Made("untar", Fresh(j.archive))
    BY <1>1 DEF Made, Fresh, FilesNamed, EmptyMap
  <1> QED
    BY <1>2 DEF PushInv, WholeInv, Push

LEMMA UnpackWhole ==
    ASSUME PushInv, WholeInv, NEW p \in Pushers, Unpack(p)
    PROVE  WholeInv'
  <1> DEFINE e == Head(work[p].rest)
             w == [work[p] EXCEPT !.rest = Tail(@)]
  <1>1. WorkTyped(work[p]) /\ Made("untar", work[p]) /\ pc[p] = "untar" /\ work[p].rest # <<>>
    BY DEF PushInv, WholeInv, Unpack
  <1>2. e \in NamedEntries /\ Tail(work[p].rest) \in Seq(NamedEntries)
    BY <1>1, HeadTail DEF Made
  <1>3. /\ DOMAIN w = Fields /\ w.rest = Tail(work[p].rest) /\ w.files = work[p].files
        /\ w.blobs = work[p].blobs /\ w.layers = work[p].layers
    BY <1>1 DEF WorkTyped, Fields
  <1> HIDE DEF w
  <1>4. CASE e.kind = "link"
    <2>1. Made("untar", w)
      BY <1>1, <1>2, <1>3 DEF Made
    <2>2. Goto(p, "untar", w)
      BY <1>4 DEF Unpack, w
    <2> QED BY <2>1, <2>2, GotoWhole
  <1>5. CASE e.kind # "link"
    <2> DEFINE f == Put(w.files, {e.name}, e.data)
               x == [w EXCEPT !.files = f]
    <2>1. e \in Entries /\ (e.name \in ConfigNames => e.name = Digest(e.data))
      BY <1>2, <1>5, EntryType, IndexNameAlone DEF NamedEntries
    <2>2. FilesNamed(f)
      BY <1>1, <1>3, <2>1 DEF Made, FilesNamed, Put
    <2> HIDE DEF f
    <2>3. x.rest = w.rest /\ x.files = f /\ x.blobs = w.blobs /\ x.layers = w.layers
      BY <1>3 DEF Fields
    <2> HIDE DEF x
    <2>4. Made("untar", x)
      BY <1>1, <1>2, <1>3, <2>2, <2>3 DEF Made
    <2>5. Goto(p, "untar", x)
      BY <1>5 DEF Unpack, w, x, f
    <2> QED BY <2>4, <2>5, GotoWhole
  <1> QED BY <1>4, <1>5

LEMMA UnpackedWhole ==
    ASSUME PushInv, WholeInv, NEW p \in Pushers, Unpacked(p)
    PROVE  WholeInv'
  <1> DEFINE w == [work[p] EXCEPT !.rest = <<>>]
  <1>1. WorkTyped(work[p]) /\ Made("untar", work[p])
    BY DEF PushInv, WholeInv, Unpacked
  <1>2. w.files = work[p].files /\ w.blobs = work[p].blobs /\ w.layers = work[p].layers
    BY <1>1 DEF WorkTyped, Fields
  <1>3. Made("prep", w)
    BY <1>1, <1>2 DEF Made
  <1> QED BY <1>3, GotoWhole DEF Unpacked

LEMMA PrepareWhole ==
    ASSUME PushInv, WholeInv, NEW p \in Pushers, Prepare(p)
    PROVE  WholeInv'
  <1> DEFINE f == work[p].files
             ix == f[IndexName]
             ok == IndexName \in DOMAIN f /\ f[IndexName] # None
                     /\ f[IndexName].config \in DOMAIN f
  <1>1. WorkTyped(work[p]) /\ Made("prep", work[p])
    BY DEF PushInv, WholeInv, Prepare
  <1>2. CASE ok
    <2> DEFINE b == Put(work[p].blobs, {ix.config}, f[ix.config])
               w == [work[p] EXCEPT !.todo = ix.layers, !.config = ix.config, !.blobs = b]
    <2>1. ix.config \in ConfigNames
      BY <1>1, <1>2, IndexType DEF WorkTyped
    <2>2. DOMAIN b = {ix.config} /\ Digested(b)
      BY <1>1, <1>2, <2>1 DEF Made, FilesNamed, Digested, Put, EmptyMap
    <2> HIDE DEF b
    <2>3. w.config = ix.config /\ w.blobs = b /\ w.layers = work[p].layers
      BY <1>1 DEF WorkTyped, Fields
    <2>4. Goto(p, "layers", w)
      BY <1>2 DEF Prepare, b
    <2> HIDE DEF w
    <2>5. Range(<<>>) = {}
      BY DEF Range
    <2>6. Made("layers", w)
      BY <1>1, <2>2, <2>3, <2>5 DEF Made
    <2> QED BY <2>4, <2>6, GotoWhole
  <1>3. CASE ~ok
    BY <1>3, ReturnWhole DEF Prepare
  <1> QED BY <1>2, <1>3

LEMMA CompressWhole ==
    ASSUME PushInv, WholeInv, NEW p \in Pushers, Compress(p)
    PROVE  WholeInv'
  <1>1. PICK d \in Contents(work[p].files, Head(work[p].todo)) : Goto(p, "layers", Layered(work[p], d))
    BY DEF Compress
  <1> DEFINE n == Digest(Gzip(d))
             b == Put(work[p].blobs, {n}, Gzip(d))
             s == Append(work[p].layers, n)
             w == [work[p] EXCEPT !.todo = Tail(work[p].todo), !.blobs = b, !.layers = s]
  <1>2. WorkTyped(work[p]) /\ Made("layers", work[p]) /\ work[p].todo # <<>>
    BY DEF PushInv, WholeInv, Compress
  <1>3. Gzip(d) \in Layers
    BY <1>2, LayerType, HeadTail DEF WorkTyped
  <1>4. Range(s) = Range(work[p].layers) \cup {n}
    BY <1>2, <1>3, RangeAppend DEF WorkTyped
  <1>5. DOMAIN b = DOMAIN work[p].blobs \cup {n} /\ Digested(b)
    BY <1>2 DEF Made, Digested, Put
  <1>6. Layered(work[p], d) = w
    BY <1>2 DEF Layered, WorkTyped, Fields
  <1> HIDE DEF b, s
  <1>7. w.config = work[p].config /\ w.blobs = b /\ w.layers = s
    BY <1>2 DEF WorkTyped, Fields
  <1>8. Goto(p, "layers", w)
    BY <1>1, <1>6
  <1> HIDE DEF w
  <1>9. Made("layers", w)
    BY <1>2, <1>4, <1>5, <1>7 DEF Made
  <1> QED BY <1>8, <1>9, GotoWhole

LEMMA CompressedWhole ==
    ASSUME PushInv, WholeInv, NEW p \in Pushers, Compressed(p)
    PROVE  WholeInv'
  <1>1. Made("write", work[p])
    BY DEF WholeInv, Compressed, Made
  <1> QED BY <1>1, GotoWhole DEF Compressed

LEMMA WriteWhole ==
    ASSUME PushInv, WholeInv, NEW p \in Pushers, Write(p)
    PROVE  WholeInv'
  <1>1. WorkTyped(work[p]) /\ Staged("write", work[p]) /\ Made("write", work[p])
    BY DEF PushInv, WholeInv, Write
  <1>2. CASE job[p].form = "port"
    BY <1>2, ReturnWhole DEF Write
  <1>3. CASE job[p].form # "port"
    <2> DEFINE man == [config |-> work[p].config, layers |-> work[p].layers]
               m == Put(EmptyMap, {Latest, Ref(job[p]), Digest(man)}, man)
               w == [work[p] EXCEPT !.manifests = m]
    <2>1. man.config = work[p].config /\ man.layers = work[p].layers
      OBVIOUS
    <2> HIDE DEF man
    <2>2. DOMAIN m = {Latest, Ref(job[p]), Digest(man)} /\ \A r \in DOMAIN m : m[r] = man
      BY DEF Put, EmptyMap
    <2>3. work[p].manifests = EmptyMap
      BY <1>1 DEF Staged
    <2> HIDE DEF m
    <2>4. w.blobs = work[p].blobs /\ w.manifests = m
      BY <1>1 DEF WorkTyped, Fields
    <2>5. Goto(p, "add", w)
      BY <1>3, <2>3 DEF Write, man, m
    <2> HIDE DEF w
    <2>6. Image(w).blobs = work[p].blobs /\ Image(w).manifests = m
      BY <2>4 DEF Image
    <2>7. Whole(Image(w))
      BY <1>1, <2>1, <2>2, <2>6 DEF Whole, Made
    <2> QED BY <2>5, <2>7, GotoWhole DEF Made
  <1> QED BY <1>2, <1>3

LEMMA AddWhole ==
    ASSUME PushInv, WholeInv, NEW p \in Pushers, Add(p)
    PROVE  WholeInv'
  <1>1. Whole(Root(Image(work[p])).default)
    BY DEF WholeInv, Add, Made, Root
  <1> QED
    BY <1>1 DEF PushInv, WholeInv, Add, Made

LEMMA WholeStep == ConfigsNamed /\ PushInv /\ WholeInv /\ [Next]_vars => WholeInv'
  <1> SUFFICES ASSUME ConfigsNamed, PushInv, WholeInv, [Next]_vars PROVE WholeInv'
    OBVIOUS
  <1>1. ASSUME NEW p \in Pushers, NEW j \in Jobs, Push(p, j) PROVE WholeInv'
    BY <1>1, PushWhole
  <1>2. ASSUME NEW p \in Pushers, Fail(p) PROVE WholeInv'
    BY <1>2, ReturnWhole DEF Fail
  <1>3. ASSUME NEW p \in Pushers, List(p) PROVE WholeInv'
    <2>1. CASE hash[p] = None
      BY <1>3, <2>1, ReturnWhole DEF List
    <2>2. CASE hash[p] # None
      BY <1>3, <2>2 DEF List, PushInv, WholeInv, Made
    <2> QED BY <2>1, <2>2
  <1>4. ASSUME NEW p \in Pushers, Take(p) PROVE WholeInv'
    BY <1>4, ReturnWhole DEF Take
  <1>5. ASSUME NEW p \in Pushers, TakeNothing(p) PROVE WholeInv'
    BY <1>5 DEF TakeNothing, WholeInv
  <1>6. ASSUME NEW p \in Pushers, Exit(p) PROVE WholeInv'
    BY <1>6 DEF Exit, WholeInv, Made
  <1>7. ASSUME NEW p \in Pushers, Work(p) PROVE WholeInv'
    BY <1>2, <1>3, <1>4, <1>5, <1>6, <1>7, UnpackWhole, UnpackedWhole, PrepareWhole,
       CompressWhole, CompressedWhole, WriteWhole, AddWhole DEF Work
  <1>8. ASSUME NEW p \in Pushers, Refs(p) PROVE WholeInv'
    BY <1>8 DEF Refs, Decode, DecodeEnd, WholeInv
  <1>9. CASE UNCHANGED vars
    BY <1>9 DEF vars, localVars, WholeInv
  <1> QED BY <1>1, <1>7, <1>8, <1>9 DEF Next

\* What has been handed out is one of the roots on IPFS, and whole.
LEMMA WholeServable == PushInv /\ WholeInv => Servable
  <1> SUFFICES ASSUME PushInv, WholeInv, NEW p \in Pushers, result[p] \notin {None, Failed}
               PROVE  \E root \in added : result[p] \in Links(root) /\ Whole(result[p])
    BY DEF Servable, Whole, Digested, Range
  <1>1. PICK root \in added : result[p] \in Links(root)
    BY DEF PushInv, Given
  <1>2. result[p] = root.default
    BY <1>1 DEF PushInv, RootTyped, Links
  <1> QED BY <1>1, <1>2 DEF WholeInv

\* Whatever fails, a CID that a push returns is on IPFS and names an image as the
\* server takes one: one manifest under all its names and exactly its blobs.
THEOREM PushServable == ConfigsNamed => (Spec => []Servable)
  <1> SUFFICES ASSUME ConfigsNamed PROVE Spec => []Servable
    OBVIOUS
  <1>1. Init => WholeInv
    BY DEF Init, WholeInv, Made
  <1>2. PushInv /\ WholeInv /\ [Next]_vars => WholeInv'
    BY WholeStep
  <1> QED BY <1>1, <1>2, PushInit, InvStep, WholeServable, PTL DEF Spec

-----------------------------------------------------------------------------
(* ImageOffer is implemented. *)

\* Names say which entry is meant.
LEMMA EntryValue ==
    ASSUME NEW j \in Jobs, NEW i \in DOMAIN j.archive
    PROVE  Entry(j.archive, j.archive[i].name) = j.archive[i]
  <1> DEFINE a == j.archive
             n == j.archive[i].name
  <1>1. \A k \in DOMAIN a : a[k].name = n => a[k] = a[i]
    BY PushAssumption
  <1>2. \A e \in {a[k] : k \in DOMAIN a} : e.name = n <=> e = a[i]
    BY <1>1
  <1>3. \E e \in {a[k] : k \in DOMAIN a} : e.name = n
    OBVIOUS
  <1> QED BY <1>2, <1>3 DEF Entry

\* The files are those of the whole archive.
Complete(a, f) ==
    /\ \A i \in DOMAIN a : a[i].kind # "link" => a[i].name \in DOMAIN f /\ f[a[i].name] = a[i].data
    /\ \A x \in DOMAIN f : Filed(a, x)

\* What is read of a layer is then what the archive says.
LEMMA ContentsRead ==
    ASSUME NEW j \in Jobs, NEW f, Complete(j.archive, f), NEW n
    PROVE  Contents(f, n) = Readings(j.archive, n)
  <1>1. CASE Filed(j.archive, n)
    <2>1. PICK i \in DOMAIN j.archive : j.archive[i].name = n /\ j.archive[i].kind # "link"
      BY <1>1 DEF Filed
    <2>2. Entry(j.archive, n) = j.archive[i]
      BY <2>1, EntryValue
    <2>3. n \in DOMAIN f /\ f[n] = j.archive[i].data
      BY <2>1 DEF Complete
    <2> QED BY <1>1, <2>2, <2>3 DEF Contents, Readings
  <1>2. CASE ~Filed(j.archive, n)
    BY <1>2 DEF Complete, Contents, Readings
  <1> QED BY <1>1, <1>2

\* The sequence a without its first n members is s.
Ahead(a, s, n) == Len(a) = n + Len(s) /\ \A k \in 1..Len(s) : s[k] = a[n + k]

\* While the archive is read: what of it is unpacked, and what has yet to come.
HasRead(a, w, n) ==
    /\ Ahead(a, w.rest, n)
    /\ \A i \in 1..n :
          a[i].kind # "link" => a[i].name \in DOMAIN w.files /\ w.files[a[i].name] = a[i].data
    /\ \A x \in DOMAIN w.files : \E i \in 1..n : a[i].name = x /\ a[i].kind # "link"

Reads(a, w) == \E n \in Nat : HasRead(a, w, n)

\* When it is read, or has broken off: the index is there only with all the rest.
Taken(a, f) ==
    /\ \A x \in DOMAIN f : \E i \in DOMAIN a : a[i].name = x /\ a[i].kind # "link" /\ f[x] = a[i].data
    /\ IndexName \in DOMAIN f => Complete(a, f)

IsMap(f) == f = [x \in DOMAIN f |-> f[x]]

\* While the layers are made: the ones that are, and the ones that have yet to be.
Listed(j, w) ==
    /\ Sound(j)
    /\ Complete(j.archive, w.files)
    /\ w.config = IndexOf(j).config /\ Filed(j.archive, w.config)
    /\ Ahead(IndexOf(j).layers, w.todo, Len(w.layers))
    /\ \A i \in 1..Len(w.layers) :
          \E d \in Readings(j.archive, IndexOf(j).layers[i]) : w.layers[i] = Digest(Gzip(d))
    /\ IsMap(w.blobs)

Follows(q, j, w) ==
    /\ q = "untar" => Reads(j.archive, w)
    /\ q = "prep" => Taken(j.archive, w.files)
    /\ q = "layers" => Listed(j, w)
    /\ q = "write" => Listed(j, w) /\ w.todo = <<>>
    /\ q = "add" => Sound(j) /\ Image(w) \in ImagesOf(j)

\* The same for what AddDir has returned and remoteRefs has read.
Offers(q, j, h, r) ==
    /\ q \notin {"refs", "take"} => h = None
    /\ q = "refs" => Sound(j) /\ (h # None => \E im \in ImagesOf(j) : h = Root(im))
    /\ q = "take" => /\ Sound(j)
                     /\ r.links \subseteq ImagesOf(j)
                     /\ r.at = "send" => r.offer \in ImagesOf(j)

FollowInv ==
    \A p \in Pushers :
        /\ Follows(pc[p], job[p], work[p])
        /\ Offers(pc[p], job[p], hash[p], refs[p])

LEMMA GotoFollows ==
    ASSUME PushInv, FollowInv, NEW p \in Pushers, NEW q, q \notin {"refs", "take"}, NEW w,
           pc[p] \notin {"refs", "take"}, Follows(q, job[p], w), Goto(p, q, w)
    PROVE  FollowInv'
  BY DEF PushInv, FollowInv, Goto, Offers

LEMMA ReturnFollows ==
    ASSUME PushInv, FollowInv, NEW p \in Pushers, NEW c, Return(p, c),
           \A q \in Pushers : q # p => refs'[q] = refs[q]
    PROVE  FollowInv'
  BY DEF PushInv, FollowInv, Return, Offers, Follows

LEMMA PushFollows ==
    ASSUME PushInv, FollowInv, NEW p \in Pushers, NEW j \in Jobs, Push(p, j)
    PROVE  FollowInv'
  <1>1. j.archive \in Seq(Entries)
    BY JobType
  <1>2. Reads(j.archive, Fresh(j.archive))
    <2>1. HasRead(j.archive, Fresh(j.archive), 0)
      BY <1>1 DEF HasRead, Ahead, Fresh, EmptyMap
    <2> QED BY <2>1 DEF Reads
  <1>3. Follows("untar", j, Fresh(j.archive))
    BY <1>2 DEF Follows
  <1> QED
    BY <1>3 DEF PushInv, FollowInv, Push, Offers

\* The next member, and what is ahead then.
LEMMA AheadNext ==
    ASSUME NEW S, NEW a \in Seq(S), NEW s \in Seq(S), s # <<>>, NEW n \in Nat, Ahead(a, s, n)
    PROVE  Head(s) = a[n + 1] /\ n + 1 \in DOMAIN a /\ Ahead(a, Tail(s), n + 1)
  <1>1. Len(s) \in Nat /\ Len(s) # 0 /\ DOMAIN a = 1..Len(a)
    OBVIOUS
  <1>2. Head(s) = s[1] /\ Len(Tail(s)) = Len(s) - 1 /\ \A k \in 1..(Len(s) - 1) : Tail(s)[k] = s[k + 1]
    OBVIOUS
  <1>3. 1 \in 1..Len(s) /\ n + 1 \in 1..(n + Len(s)) /\ n + Len(s) = (n + 1) + (Len(s) - 1)
    BY <1>1
  <1>4. ASSUME NEW k \in 1..(Len(s) - 1) PROVE Tail(s)[k] = a[(n + 1) + k]
    <2>1. k + 1 \in 1..Len(s) /\ n + (k + 1) = (n + 1) + k
      BY <1>1
    <2> QED BY <1>2, <2>1 DEF Ahead
  <1> QED BY <1>1, <1>2, <1>3, <1>4 DEF Ahead

\* The first n are members, and all when they have the last or nothing is ahead.
LEMMA AheadCount ==
    ASSUME NEW S, NEW a \in Seq(S), NEW s \in Seq(S), NEW n \in Nat, Ahead(a, s, n)
    PROVE  1..n \subseteq DOMAIN a /\ (s = <<>> \/ Len(a) \in 1..n => 1..n = DOMAIN a)
  <1>1. Len(s) \in Nat /\ DOMAIN a = 1..Len(a) /\ Len(a) = n + Len(s) /\ (s = <<>> => Len(s) = 0)
    BY DEF Ahead
  <1> QED BY <1>1

LEMMA UnpackFollows ==
    ASSUME PushInv, FollowInv, NEW p \in Pushers, Unpack(p)
    PROVE  FollowInv'
  <1> DEFINE a == job[p].archive
             s == work[p].rest
             e == Head(s)
             w == [work[p] EXCEPT !.rest = Tail(@)]
             f == Put(w.files, {e.name}, e.data)
             x == [w EXCEPT !.files = f]
  <1>1. /\ WorkTyped(work[p]) /\ Reads(a, work[p]) /\ pc[p] = "untar" /\ s # <<>>
        /\ job[p] \in Jobs
    BY DEF PushInv, FollowInv, Follows, Unpack
  <1>2. a \in Seq(Entries) /\ s \in Seq(Entries)
    BY <1>1, JobType DEF WorkTyped
  <1>3. PICK n \in Nat : HasRead(a, work[p], n)
    BY <1>1 DEF Reads
  <1>4. e = a[n + 1] /\ n + 1 \in DOMAIN a /\ Ahead(a, Tail(s), n + 1)
    BY <1>1, <1>2, <1>3, AheadNext DEF HasRead
  <1>5. DOMAIN w = Fields /\ w.rest = Tail(s) /\ w.files = work[p].files
    BY <1>1 DEF WorkTyped, Fields
  <1> HIDE DEF w
  <1>6. 1..(n + 1) = 1..n \cup {n + 1} /\ n + 1 \in Nat
    OBVIOUS
  <1>7. \A i \in 1..n : i \in DOMAIN a /\ a[i].name # e.name
    <2> SUFFICES ASSUME NEW i \in 1..n PROVE i \in DOMAIN a /\ a[i].name # e.name
      OBVIOUS
    <2>1. i \in DOMAIN a /\ i # n + 1
      BY <1>2, <1>3, AheadCount DEF HasRead
    <2> QED BY <1>1, <1>4, <2>1, PushAssumption
  <1>8. CASE e.kind = "link"
    <2>1. \A i \in 1..(n + 1) :
             a[i].kind # "link" => a[i].name \in DOMAIN w.files /\ w.files[a[i].name] = a[i].data
      BY <1>3, <1>4, <1>5, <1>6, <1>8 DEF HasRead
    <2>2. \A y \in DOMAIN w.files : \E i \in 1..(n + 1) : a[i].name = y /\ a[i].kind # "link"
      BY <1>3, <1>5, <1>6 DEF HasRead
    <2>3. HasRead(a, w, n + 1)
      BY <1>4, <1>5, <2>1, <2>2 DEF HasRead
    <2>4. Reads(a, w)
      BY <1>6, <2>3 DEF Reads
    <2>5. Goto(p, "untar", w)
      BY <1>8 DEF Unpack, w
    <2> QED BY <1>1, <2>4, <2>5, GotoFollows DEF Follows
  <1>9. CASE e.kind # "link"
    <2>1. x.rest = Tail(s) /\ x.files = f
      BY <1>5 DEF Fields
    <2>2. Goto(p, "untar", x)
      BY <1>9 DEF Unpack, w
    <2>3. DOMAIN f = DOMAIN work[p].files \cup {e.name} /\ f[e.name] = e.data
          /\ \A y \in DOMAIN work[p].files : y # e.name => f[y] = work[p].files[y]
      BY <1>5 DEF Put
    <2> HIDE DEF x, f
    <2>4. \A i \in 1..(n + 1) :
             a[i].kind # "link" => a[i].name \in DOMAIN f /\ f[a[i].name] = a[i].data
      <3> SUFFICES ASSUME NEW i \in 1..(n + 1), a[i].kind # "link"
                   PROVE  a[i].name \in DOMAIN f /\ f[a[i].name] = a[i].data
        OBVIOUS
      <3>1. CASE i = n + 1
        BY <1>4, <2>3, <3>1
      <3>2. CASE i \in 1..n
        BY <1>3, <1>7, <2>3, <3>2 DEF HasRead
      <3> QED BY <1>6, <3>1, <3>2
    <2>5. \A y \in DOMAIN f : \E i \in 1..(n + 1) : a[i].name = y /\ a[i].kind # "link"
      <3>1. a[n + 1].name = e.name /\ a[n + 1].kind # "link" /\ n + 1 \in 1..(n + 1)
        BY <1>4, <1>6, <1>9
      <3>2. \A y \in DOMAIN work[p].files : \E i \in 1..n : a[i].name = y /\ a[i].kind # "link"
        BY <1>3 DEF HasRead
      <3> QED BY <1>6, <2>3, <3>1, <3>2
    <2>6. Reads(a, x)
      <3>1. HasRead(a, x, n + 1)
        BY <1>4, <2>1, <2>4, <2>5 DEF HasRead
      <3> QED BY <1>6, <3>1 DEF Reads
    <2> QED BY <1>1, <2>2, <2>6, GotoFollows DEF Follows
  <1> QED BY <1>8, <1>9

LEMMA UnpackedFollows ==
    ASSUME IndexLast, PushInv, FollowInv, NEW p \in Pushers, Unpacked(p)
    PROVE  FollowInv'
  <1> DEFINE a == job[p].archive
             f == work[p].files
             w == [work[p] EXCEPT !.rest = <<>>]
  <1>1. WorkTyped(work[p]) /\ Reads(a, work[p]) /\ pc[p] = "untar" /\ job[p] \in Jobs
    BY DEF PushInv, FollowInv, Follows, Unpacked
  <1>2. a \in Seq(Entries) /\ work[p].rest \in Seq(Entries)
    BY <1>1, JobType DEF WorkTyped
  <1>3. w.files = f
    BY <1>1 DEF WorkTyped, Fields
  <1>4. PICK n \in Nat : HasRead(a, work[p], n)
    BY <1>1 DEF Reads
  <1>5. 1..n \subseteq DOMAIN a /\ (Len(a) \in 1..n => 1..n = DOMAIN a)
    BY <1>2, <1>4, AheadCount DEF HasRead
  <1>6. \A y \in DOMAIN f : \E i \in DOMAIN a : a[i].name = y /\ a[i].kind # "link" /\ f[y] = a[i].data
    <2> SUFFICES ASSUME NEW y \in DOMAIN f
                 PROVE  \E i \in DOMAIN a : a[i].name = y /\ a[i].kind # "link" /\ f[y] = a[i].data
      OBVIOUS
    <2>1. PICK i \in 1..n : a[i].name = y /\ a[i].kind # "link"
      BY <1>4 DEF HasRead
    <2>2. f[a[i].name] = a[i].data /\ i \in DOMAIN a
      BY <1>4, <1>5, <2>1 DEF HasRead
    <2> QED BY <2>1, <2>2
  <1>7. ASSUME IndexName \in DOMAIN f PROVE Complete(a, f)
    <2>1. PICK i \in 1..n : a[i].name = IndexName /\ a[i].kind # "link"
      BY <1>4, <1>7 DEF HasRead
    <2>2. i \in DOMAIN a /\ a[i] \in Entries
      BY <1>2, <1>5
    <2>3. a[i].kind = "index"
      BY <2>1, <2>2, EntryType
    <2>4. i = Len(a)
      BY <1>1, <2>2, <2>3 DEF IndexLast
    <2>5. DOMAIN a = 1..n
      BY <1>5, <2>1, <2>4
    <2>6. \A x \in DOMAIN f : Filed(a, x)
      BY <1>6 DEF Filed
    <2> QED BY <1>4, <2>5, <2>6 DEF Complete, HasRead
  <1>8. Taken(a, f)
    BY <1>6, <1>7 DEF Taken
  <1>9. Goto(p, "prep", w)
    BY DEF Unpacked
  <1> HIDE DEF w
  <1> QED BY <1>1, <1>3, <1>8, <1>9, GotoFollows DEF Follows

LEMMA PrepareFollows ==
    ASSUME PushInv, WholeInv, FollowInv, NEW p \in Pushers, Prepare(p)
    PROVE  FollowInv'
  <1> DEFINE a == job[p].archive
             f == work[p].files
             ix == f[IndexName]
             ok == IndexName \in DOMAIN f /\ f[IndexName] # None
                     /\ f[IndexName].config \in DOMAIN f
  <1>1. /\ WorkTyped(work[p]) /\ Taken(a, f) /\ pc[p] = "prep" /\ job[p] \in Jobs
        /\ Made("prep", work[p])
    BY DEF PushInv, WholeInv, FollowInv, Follows, Prepare
  <1>2. CASE ok
    <2> DEFINE b == Put(work[p].blobs, {ix.config}, f[ix.config])
               w == [work[p] EXCEPT !.todo = ix.layers, !.config = ix.config, !.blobs = b]
    <2>1. ix.layers \in Seq(Names)
      BY <1>1, <1>2, IndexType DEF WorkTyped
    <2>2. Complete(a, f)
      BY <1>1, <1>2 DEF Taken
    <2>3. PICK i \in DOMAIN a : a[i].name = IndexName /\ ix = a[i].data
      BY <1>1, <1>2 DEF Taken
    <2>4. ix = IndexOf(job[p]) /\ Has(a, IndexName)
      BY <1>1, <2>3, EntryValue DEF IndexOf, Has
    <2>5. Filed(a, ix.config)
      BY <1>2, <2>2 DEF Complete
    <2>6. Sound(job[p])
      BY <1>2, <2>4, <2>5 DEF Sound, Has, Filed
    <2>7. IsMap(b)
      BY DEF IsMap, Put
    <2>8. Goto(p, "layers", w)
      BY <1>2 DEF Prepare
    <2> HIDE DEF b
    <2>9. /\ w.config = ix.config /\ w.blobs = b /\ w.layers = work[p].layers
          /\ w.todo = ix.layers /\ w.files = f
      BY <1>1 DEF WorkTyped, Fields
    <2> HIDE DEF w
    <2>10. w.layers = <<>>
      BY <1>1, <2>9 DEF Made
    <2>11. Ahead(ix.layers, ix.layers, Len(<<>>))
      BY <2>1 DEF Ahead
    <2>12. Len(<<>>) = 0
      OBVIOUS
    <2>13. Listed(job[p], w)
      BY <2>2, <2>4, <2>5, <2>6, <2>7, <2>9, <2>10, <2>11, <2>12 DEF Listed
    <2> QED BY <1>1, <2>8, <2>13, GotoFollows DEF Follows
  <1>3. CASE ~ok
    BY <1>3, ReturnFollows DEF Prepare
  <1> QED BY <1>2, <1>3

\* The index of an archive that is an image.
LEMMA IndexOfSound ==
    ASSUME NEW j \in Jobs, Sound(j)
    PROVE  IndexOf(j).config \in ConfigNames /\ IndexOf(j).layers \in Seq(Names)
  <1>1. PICK i \in DOMAIN j.archive : j.archive[i].name = IndexName
    BY DEF Sound, Has
  <1>2. IndexOf(j) = j.archive[i].data
    BY <1>1, EntryValue DEF IndexOf
  <1>3. j.archive[i] \in Entries
    BY JobType
  <1>4. j.archive[i].kind # "link"
    BY <1>1, <1>3, IndexNameAlone DEF Entries
  <1>5. IndexOf(j) \in [config : ConfigNames, layers : Seq(Names)]
    BY <1>1, <1>2, <1>3, <1>4, EntryType DEF Indexes, Sound
  <1> QED BY <1>5

LEMMA CompressFollows ==
    ASSUME PushInv, FollowInv, NEW p \in Pushers, Compress(p)
    PROVE  FollowInv'
  <1>1. PICK d \in Contents(work[p].files, Head(work[p].todo)) : Goto(p, "layers", Layered(work[p], d))
    BY DEF Compress
  <1> DEFINE j == job[p]
             t == work[p].todo
             l == work[p].layers
             ls == IndexOf(j).layers
             n == Digest(Gzip(d))
             b == Put(work[p].blobs, {n}, Gzip(d))
             s == Append(l, n)
             w == [work[p] EXCEPT !.todo = Tail(t), !.blobs = b, !.layers = s]
             From(x, i) == \E y \in Readings(j.archive, ls[i]) : x = Digest(Gzip(y))
  <1>2. WorkTyped(work[p]) /\ Listed(j, work[p]) /\ pc[p] = "layers" /\ t # <<>> /\ j \in Jobs
    BY DEF PushInv, FollowInv, Follows, Compress
  <1>3. Sound(j) /\ Ahead(ls, t, Len(l)) /\ \A i \in 1..Len(l) : From(l[i], i)
    BY <1>2 DEF Listed
  <1>4. t \in Seq(Names) /\ Len(l) \in Nat /\ l \in Seq({Digest(y) : y \in Layers})
    BY <1>2 DEF WorkTyped
  <1>5. ls \in Seq(Names)
    BY <1>2, <1>3, IndexOfSound
  <1>6. Head(t) = ls[Len(l) + 1] /\ Ahead(ls, Tail(t), Len(l) + 1)
    BY <1>2, <1>3, <1>4, <1>5, AheadNext
  <1>7. From(n, Len(l) + 1)
    <2>1. d \in Readings(j.archive, Head(t))
      BY <1>1, <1>2, ContentsRead DEF Listed
    <2> QED BY <1>6, <2>1
  <1> HIDE DEF From
  <1>8. n \in {Digest(y) : y \in Layers}
    BY <1>1, <1>2, LayerType, HeadTail DEF WorkTyped
  <1>9. Len(s) = Len(l) + 1 /\ s[Len(l) + 1] = n /\ \A i \in 1..Len(l) : s[i] = l[i]
    BY <1>4, <1>8
  <1>10. IsMap(b)
    BY DEF IsMap, Put
  <1>11. Goto(p, "layers", w)
    BY <1>1, <1>2 DEF Layered, WorkTyped, Fields
  <1> HIDE DEF b, s
  <1>12. /\ w.config = work[p].config /\ w.blobs = b /\ w.layers = s /\ w.todo = Tail(t)
         /\ w.files = work[p].files
    BY <1>2 DEF WorkTyped, Fields
  <1> HIDE DEF w
  <1>13. Ahead(ls, w.todo, Len(w.layers))
    BY <1>6, <1>9, <1>12
  <1>14. \A i \in 1..Len(w.layers) : From(w.layers[i], i)
    <2> SUFFICES ASSUME NEW i \in 1..(Len(l) + 1) PROVE From(s[i], i)
      BY <1>9, <1>12
    <2>1. CASE i = Len(l) + 1
      BY <1>7, <1>9, <2>1
    <2>2. CASE i # Len(l) + 1
      <3>1. i \in 1..Len(l)
        BY <1>4, <2>2
      <3> QED BY <1>3, <1>9, <3>1
    <2> QED BY <2>1, <2>2
  <1>15. Listed(j, w)
    BY <1>2, <1>10, <1>12, <1>13, <1>14 DEF Listed, From
  <1> QED BY <1>2, <1>11, <1>15, GotoFollows DEF Follows

LEMMA CompressedFollows ==
    ASSUME PushInv, FollowInv, NEW p \in Pushers, Compressed(p)
    PROVE  FollowInv'
  <1>1. pc[p] = "layers" /\ Follows("write", job[p], work[p])
    BY DEF FollowInv, Compressed, Follows
  <1> QED BY <1>1, GotoFollows DEF Compressed

\* A digest names one content, and compression loses nothing.
LEMMA DigestInjective == \A x, y : Digest(x) = Digest(y) => x = y
  <1> SUFFICES ASSUME NEW x, NEW y, <<"sha256", x>> = <<"sha256", y>> PROVE x = y
    BY DEF Digest
  <1>1. <<"sha256", x>>[2] = x /\ <<"sha256", y>>[2] = y
    OBVIOUS
  <1> QED BY <1>1

\* A map of contents under their digests is given by its domain.
LEMMA DigestedMap ==
    ASSUME NEW f, IsMap(f), Digested(f), NEW bs, DOMAIN f = {Digest(b) : b \in bs}
    PROVE  f = [n \in {Digest(b) : b \in bs} |-> CHOOSE b \in bs : Digest(b) = n]
  <1>1. ASSUME NEW n \in DOMAIN f PROVE f[n] = CHOOSE b \in bs : Digest(b) = n
    <2>1. PICK b \in bs : n = Digest(b)
      OBVIOUS
    <2>2. f[n] = b
      BY <2>1, DigestInjective DEF Digested
    <2>3. \A c \in bs : Digest(c) = n <=> c = b
      BY <2>1, DigestInjective
    <2> QED BY <2>1, <2>2, <2>3
  <1> QED BY <1>1 DEF IsMap

\* The layers are all made.
LEMMA ListedLayers ==
    ASSUME NEW j \in Jobs, NEW w, Listed(j, w), w.todo = <<>>, FilesTyped(w.files),
           w.layers \in Seq({Digest(l) : l \in Layers})
    PROVE  \E ds \in LayersOf(j) : w.layers = [i \in DOMAIN ds |-> Digest(Gzip(ds[i]))]
  <1> DEFINE ls == IndexOf(j).layers
             rs(i) == Readings(j.archive, ls[i])
             ds == [i \in DOMAIN ls |-> CHOOSE d \in rs(i) : w.layers[i] = Digest(Gzip(d))]
  <1>1. ls \in Seq(Names)
    BY IndexOfSound DEF Listed
  <1>2. /\ Ahead(ls, <<>>, Len(w.layers))
        /\ \A i \in 1..Len(w.layers) : \E d \in rs(i) : w.layers[i] = Digest(Gzip(d))
    BY DEF Listed
  <1>3. Len(w.layers) \in Nat /\ w.layers = [i \in 1..Len(w.layers) |-> w.layers[i]]
    OBVIOUS
  <1>4. <<>> \in Seq(Names)
    OBVIOUS
  <1>5. 1..Len(w.layers) = DOMAIN ls
    BY <1>1, <1>2, <1>3, <1>4, AheadCount
  <1>6. \A i \in DOMAIN ls : ds[i] \in rs(i) /\ w.layers[i] = Digest(Gzip(ds[i]))
    BY <1>2, <1>5
  <1>7. \A i \in DOMAIN ls : rs(i) \subseteq Data \cup {Nothing}
    <2> SUFFICES ASSUME NEW i \in DOMAIN ls PROVE rs(i) \subseteq Data \cup {Nothing}
      OBVIOUS
    <2>1. ls[i] \in Names
      BY <1>1
    <2>2. rs(i) = Contents(w.files, ls[i])
      BY ContentsRead DEF Listed
    <2> QED BY <2>1, <2>2, LayerType
  <1>8. DOMAIN ds = DOMAIN ls
    OBVIOUS
  <1>9. ds \in [DOMAIN ls -> Data \cup {Nothing}]
    BY <1>6, <1>7
  <1> HIDE DEF ds
  <1>10. ds \in LayersOf(j)
    BY <1>6, <1>8, <1>9 DEF LayersOf
  <1>11. w.layers = [i \in DOMAIN ds |-> Digest(Gzip(ds[i]))]
    BY <1>3, <1>5, <1>6, <1>8
  <1> QED BY <1>10, <1>11

\* The configuration of an archive that is an image is called by its digest.
LEMMA ConfigDigest ==
    ASSUME ConfigsNamed, NEW j \in Jobs, NEW w, Listed(j, w)
    PROVE  w.config = Digest(Entry(j.archive, w.config).data)
  <1>1. w.config \in ConfigNames
    BY IndexOfSound DEF Listed
  <1>2. PICK i \in DOMAIN j.archive : j.archive[i].name = w.config /\ j.archive[i].kind # "link"
    BY DEF Listed, Filed
  <1>3. j.archive[i] \in Entries
    BY JobType
  <1>4. j.archive[i].kind = "file"
    BY <1>1, <1>2, <1>3, EntryType, IndexNameAlone
  <1>5. w.config = Digest(j.archive[i].data)
    BY <1>1, <1>2, <1>4 DEF ConfigsNamed
  <1> QED BY <1>2, <1>5, EntryValue

\* So are the blobs.
LEMMA ListedBlobs ==
    ASSUME ConfigsNamed, NEW j \in Jobs, NEW w, Listed(j, w), NEW ds,
           w.layers = [i \in DOMAIN ds |-> Digest(Gzip(ds[i]))],
           Digested(w.blobs), DOMAIN w.blobs = {w.config} \cup Range(w.layers)
    PROVE  w.blobs = ImageOf(j, ds).blobs
  <1> DEFINE gs == {Gzip(ds[i]) : i \in DOMAIN ds}
             bs == gs \cup {Entry(j.archive, IndexOf(j).config).data}
  <1>1. Range(w.layers) = {Digest(g) : g \in gs}
    BY DEF Range
  <1>2. w.config = IndexOf(j).config
    BY DEF Listed
  <1>3. DOMAIN w.blobs = {Digest(b) : b \in bs}
    BY <1>1, <1>2, ConfigDigest
  <1>4. w.blobs = [n \in {Digest(b) : b \in bs} |-> CHOOSE b \in bs : Digest(b) = n]
    BY <1>3, DigestedMap DEF Listed
  <1> QED BY <1>4 DEF ImageOf

LEMMA WriteFollows ==
    ASSUME ConfigsNamed, PushInv, WholeInv, FollowInv, NEW p \in Pushers, Write(p)
    PROVE  FollowInv'
  <1>1. /\ WorkTyped(work[p]) /\ Staged("write", work[p]) /\ Made("write", work[p])
        /\ Listed(job[p], work[p]) /\ work[p].todo = <<>> /\ pc[p] = "write" /\ job[p] \in Jobs
    BY DEF PushInv, WholeInv, FollowInv, Follows, Write
  <1>2. CASE job[p].form = "port"
    BY <1>2, ReturnFollows DEF Write
  <1>3. CASE job[p].form # "port"
    <2> DEFINE man == [config |-> work[p].config, layers |-> work[p].layers]
               m == Put(EmptyMap, {Latest, Ref(job[p]), Digest(man)}, man)
               w == [work[p] EXCEPT !.manifests = m]
    <2>1. PICK ds \in LayersOf(job[p]) : work[p].layers = [i \in DOMAIN ds |-> Digest(Gzip(ds[i]))]
      <3>1. FilesTyped(work[p].files) /\ work[p].layers \in Seq({Digest(l) : l \in Layers})
        BY <1>1 DEF WorkTyped
      <3> QED BY <1>1, <3>1, ListedLayers
    <2> DEFINE im == ImageOf(job[p], ds)
    <2>2. work[p].blobs = im.blobs
      <3>1. /\ DOMAIN work[p].blobs = {work[p].config} \cup Range(work[p].layers)
            /\ Digested(work[p].blobs)
        BY <1>1 DEF Made
      <3> QED BY <1>1, <2>1, <3>1, ListedBlobs
    <2>3. man = [config |-> IndexOf(job[p]).config, layers |-> [i \in DOMAIN ds |-> Digest(Gzip(ds[i]))]]
      BY <1>1, <2>1 DEF Listed
    <2> HIDE DEF man
    <2>4. m = [r \in {Latest, Ref(job[p]), Digest(man)} |-> man]
      BY DEF Put, EmptyMap
    <2>5. m = im.manifests
      BY <2>3, <2>4 DEF ImageOf
    <2>6. Goto(p, "add", w)
      BY <1>1, <1>3 DEF Write, Staged, man
    <2> HIDE DEF m
    <2>7. w.blobs = work[p].blobs /\ w.manifests = m
      BY <1>1 DEF WorkTyped, Fields
    <2> HIDE DEF w
    <2>8. im = [blobs |-> im.blobs, manifests |-> im.manifests]
      BY DEF ImageOf
    <2>9. Image(w) \in ImagesOf(job[p])
      BY <2>1, <2>2, <2>5, <2>7, <2>8 DEF Image, ImagesOf
    <2>10. Sound(job[p])
      BY <1>1 DEF Listed
    <2> QED BY <1>1, <2>6, <2>9, <2>10, GotoFollows DEF Follows
  <1> QED BY <1>2, <1>3

LEMMA AddFollows ==
    ASSUME PushInv, FollowInv, NEW p \in Pushers, Add(p)
    PROVE  FollowInv'
  <1> DEFINE root == Root(Image(work[p]))
  <1>1. /\ pc[p] = "add" /\ Sound(job[p]) /\ hash[p] = None
        /\ \E im \in ImagesOf(job[p]) : root = Root(im)
    BY DEF FollowInv, Follows, Offers, Add
  <1>2. hash' = [hash EXCEPT ![p] = root] \/ hash' = hash
    BY DEF Add
  <1>3. pc' = [pc EXCEPT ![p] = "refs"] /\ UNCHANGED <<job, work, refs>>
    BY DEF Add
  <1> HIDE DEF root
  <1> QED BY <1>1, <1>2, <1>3 DEF PushInv, FollowInv, Follows, Offers

\* The directory has the one entry.
LEMMA RootLinks == \A im : Links(Root(im)) = {im}
  BY DEF Links, Root

LEMMA ListFollows ==
    ASSUME PushInv, FollowInv, NEW p \in Pushers, List(p)
    PROVE  FollowInv'
  <1> DEFINE r == [at |-> "decode", links |-> Links(hash[p]), offer |-> None]
  <1>1. /\ pc[p] = "refs" /\ Sound(job[p])
        /\ hash[p] # None => \E im \in ImagesOf(job[p]) : hash[p] = Root(im)
    BY DEF FollowInv, Offers, List
  <1>2. CASE hash[p] = None
    BY <1>2, ReturnFollows DEF List
  <1>3. CASE hash[p] # None
    <2>1. r.links \subseteq ImagesOf(job[p]) /\ r.at = "decode"
      BY <1>1, <1>3, RootLinks
    <2>2. refs' = [refs EXCEPT ![p] = r] /\ pc' = [pc EXCEPT ![p] = "take"] /\ UNCHANGED <<job, work, hash>>
      BY <1>3 DEF List
    <2> HIDE DEF r
    <2> QED BY <1>1, <2>1, <2>2 DEF PushInv, FollowInv, Follows, Offers
  <1> QED BY <1>2, <1>3

LEMMA RefsFollows ==
    ASSUME PushInv, FollowInv, NEW p \in Pushers, Refs(p)
    PROVE  FollowInv'
  <1>1. UNCHANGED <<pc, job, work, hash>>
    BY DEF Refs, Decode, DecodeEnd
  <1>2. \A q \in Pushers : q # p => refs'[q] = refs[q]
    BY DEF PushInv, Refs, Decode, DecodeEnd
  <1>3. Offers(pc[p], job[p], hash[p], refs[p])
    BY DEF FollowInv
  <1>4. Offers(pc[p], job[p], hash[p], refs'[p])
    <2>1. CASE Decode(p)
      BY <1>3, <2>1 DEF PushInv, RefsTyped, Decode, Offers
    <2>2. CASE DecodeEnd(p)
      BY <1>3, <2>2 DEF PushInv, RefsTyped, DecodeEnd, NoRefs, Offers
    <2> QED BY <2>1, <2>2 DEF Refs
  <1> QED BY <1>1, <1>2, <1>4 DEF FollowInv

LEMMA TakeFollows ==
    ASSUME PushInv, FollowInv, NEW p \in Pushers, Take(p)
    PROVE  FollowInv'
  <1>1. Return(p, refs[p].offer) /\ \A q \in Pushers : q # p => refs'[q] = refs[q]
    BY DEF PushInv, Take
  <1> QED BY <1>1, ReturnFollows

LEMMA FollowStep ==
    ASSUME ConfigsNamed, IndexLast, PushInv, WholeInv, FollowInv, [Next]_vars
    PROVE  FollowInv'
  <1>1. ASSUME NEW p \in Pushers, NEW j \in Jobs, Push(p, j) PROVE FollowInv'
    BY <1>1, PushFollows
  <1>2. ASSUME NEW p \in Pushers, Fail(p) PROVE FollowInv'
    BY <1>2, ReturnFollows DEF Fail
  <1>3. ASSUME NEW p \in Pushers, TakeNothing(p) PROVE FollowInv'
    BY <1>3 DEF FollowInv, TakeNothing
  <1>4. ASSUME NEW p \in Pushers, Exit(p) PROVE FollowInv'
    BY <1>4 DEF FollowInv, Exit, Follows, Offers
  <1>5. ASSUME NEW p \in Pushers, Work(p) PROVE FollowInv'
    BY <1>2, <1>3, <1>4, <1>5, UnpackFollows, UnpackedFollows, PrepareFollows, CompressFollows,
       CompressedFollows, WriteFollows, AddFollows, ListFollows, TakeFollows DEF Work
  <1>6. CASE UNCHANGED vars
    BY <1>6 DEF vars, localVars, FollowInv
  <1> QED BY <1>1, <1>5, <1>6, RefsFollows DEF Next

LEMMA FollowStart == Init => FollowInv
  BY DEF Init, FollowInv, Follows, Offers

\* What a step means to those who call.
LEMMA OfferStep ==
    ASSUME PushInv, FollowInv, [Next]_vars
    PROVE  [Offer!Next]_(Offer!vars)
  <1>1. ASSUME NEW p \in Pushers, NEW j \in Jobs, Push(p, j) PROVE Offer!Next
    BY <1>1 DEF Push, Offer!Next, Offer!Give
  <1>2. ASSUME NEW p \in Pushers, Return(p, Failed), pc[p] # "idle" PROVE Offer!Next
    <2>1. job[p] # None /\ result[p] = None
      BY <1>2 DEF PushInv
    <2> QED BY <1>2, <2>1 DEF Return, Offer!Next, Offer!Tell
  <1>3. ASSUME NEW p \in Pushers, Take(p) PROVE Offer!Next
    <2>1. job[p] # None /\ result[p] = None /\ Sound(job[p]) /\ refs[p].offer \in ImagesOf(job[p])
      BY <1>3 DEF PushInv, FollowInv, Offers, Take
    <2> QED BY <1>3, <2>1 DEF Take, Return, Offer!Next, Offer!Tell
  <1>4. ASSUME NEW p \in Pushers, Exit(p) PROVE Offer!Next
    BY <1>4 DEF Exit, Offer!Next, Offer!Die
  <1>5. ASSUME NEW p \in Pushers, Fail(p) PROVE Offer!Next
    BY <1>2, <1>5 DEF Fail
  <1>6. ASSUME NEW p \in Pushers, Unpack(p) \/ Unpacked(p) \/ Compress(p) \/ Compressed(p)
        PROVE  UNCHANGED Offer!vars
    BY <1>6 DEF Unpack, Unpacked, Compress, Compressed, Goto, Offer!vars
  <1>7. ASSUME NEW p \in Pushers, Add(p) \/ TakeNothing(p) \/ Refs(p) PROVE UNCHANGED Offer!vars
    BY <1>7 DEF Add, TakeNothing, Refs, Decode, DecodeEnd, Offer!vars
  <1>8. ASSUME NEW p \in Pushers, Prepare(p) \/ Write(p) \/ List(p)
        PROVE  Offer!Next \/ UNCHANGED Offer!vars
    BY <1>2, <1>8 DEF Prepare, Write, List, Goto, Offer!vars
  <1>9. CASE UNCHANGED vars
    BY <1>9 DEF vars, Offer!vars
  <1> QED
    BY <1>1, <1>3, <1>4, <1>5, <1>6, <1>7, <1>8, <1>9 DEF Next, Work

\* A push returns an image with the configuration of its archive and all the layers
\* in order, none of them empty but links and those that could not be read; or it
\* fails, or ends with its process.
THEOREM PushImplementsOffer == ConfigsNamed /\ IndexLast => (Spec => OfferSpec)
  <1> SUFFICES ASSUME ConfigsNamed, IndexLast PROVE Spec => OfferSpec
    OBVIOUS
  <1>1. Init => WholeInv
    BY DEF Init, WholeInv, Made
  <1>2. PushInv /\ WholeInv /\ [Next]_vars => WholeInv'
    BY WholeStep
  <1>3. PushInv /\ WholeInv /\ FollowInv /\ [Next]_vars => FollowInv'
    BY FollowStep
  <1>4. PushInv /\ FollowInv /\ [Next]_vars => [Offer!Next]_(Offer!vars)
    BY OfferStep
  <1>5. Init => Offer!Init
    BY DEF Init, Offer!Init
  <1> QED
    BY <1>1, <1>2, <1>3, <1>4, <1>5, PushInit, InvStep, FollowStart, PTL DEF Spec, OfferSpec, Offer!Spec

=============================================================================
