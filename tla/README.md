# IPDR in TLA+

IPDR is a Docker registry that keeps images on IPFS. `ipdr server` answers
docker's registry calls and stores what is pushed under a CID; `ipdr push` and
`ipdr pull` do without a server of their own, and with one inside their process.
This directory holds a TLA+ model of it, the TLC configurations that check it
on small instances, and proofs that TLAPS checks. Paths below are relative to
the root of the repository; `blobs.go`, `manifest.go`, `cids.go`, `resolv.go`
are those of `server/registry`, `ipfs.go` is `ipfs/ipfs.go`, and
"cli/registry.go" is `registry/registry.go`.

`PROJECT.json` has the same facts for machines: the components, the runs, for
each definition the lines it stands for, the findings, the hazards with the
properties that watch them, and, for each property, a mutation of the code that
breaks it.

    tlc -workers 2 -config MCRegistry_push.cfg MCRegistry.tla   # a run
    tlapm RegistryProofs.tla                                    # a proof

## 1. The system

### Components

| component | state | operations | model |
|---|---|---|---|
| blob handler, `blobs.go` | `contents` (digest to bytes, all repositories), `uploads` (id to bytes), `layers` (repository to the digests that wait for a manifest); one mutex | HEAD, GET, POST, PATCH with and without range, PUT; `get` and `remove` for the manifest handler | `BlobUploads` (bytes, sessions), `Registry` (locks, who sees what), `BlobStore` (what both agree on) |
| manifest handler, `manifest.go` | `manifests` (repository and reference to manifest), a cache as well as the record; one mutex held through a whole call | GET, HEAD, PUT | `Registry` |
| CID store, `cids.go` | `cids` in memory, a file per repository and tag; one RWMutex | `Add`, `Get` | `CidStore`, with `CidMap` for what it promises; single steps in `Registry` |
| routing, resolving, `/dig`, `server/registry/registry.go` | none | `resolve`, `resolveCID`, `dig`, `New` | `resolve`, `dig` and the start in `Registry` and `CidStore`; routing and wording left out |
| resolvers, `resolv.go` | the chain built at the start; files of others | lookups and listings through files, a dnslink record, IPFS | `CidStore`; in `Registry` a map that the environment changes |
| IPFS client, `ipfs/ipfs.go` | the goroutines of a listing and of a daemon, and their channels | `AddImage`, `AddDir`, `Refs`, `NewClient`, `RunDaemon` | outcomes in `Registry`, `AddDir` and `remoteRefs` in `ImagePush`, the daemon in `IpfsDaemon` |
| push of the command line, `cli/registry.go` | temporary directories, the lists being built | `PushImage` and all it calls | `ImagePush`, with `ImageOffer` for what it promises |
| pull of the command line, `cli/registry.go`, `cmd/ipdr` | the server inside the process | `PullImage`, `runServer`, `ipdr pull`, `ipdr server` | `ImagePull` |
| HTTP server, `server/server.go` | the handlers of the process's one mux, a listener | `NewServer`, `Start`, `Stop` | `ImagePull` |
| docker client, `docker/` | none | calls to the docker API | `PullImage` in `ImagePull`, a stream that breaks off in `ImagePush`; the rest left out |
| formats and network helpers, `regutil/`, `netutil/` | none | conversions, the port of a host name | `ExtractPort` in `ImagePull`; a CID is recognisable and the same in every form |
| docker's own push and pull | (external) | | `DockerPush`, `UploadClients` |

### How they interact

Every request has a goroutine. The router hands it to the blob or the manifest
handler. A manifest PUT reads the blobs that were uploaded to its repository out
of the blob handler (`get`), takes them away (`remove`), adds manifest and
blobs to IPFS (`AddImage`) and records the CID in the CID store, under the
reference and under the digest; for all of this it has the lock of the manifest
handler, and, for each of the two calls, that of the blob handler. A manifest
GET takes the manifest from the cache or resolves the reference (a repository
that is itself a CID; the CID store; the resolvers) and fetches it from the
gateway; then it resolves the reference again and records, for each blob of the
manifest, that CID: this is how a blob HEAD or GET finds its bytes later. The
resolvers, by default, read the files that the CID store writes, without
its lock. `ipdr push` builds the same directory from a `docker save` archive and
adds it to IPFS without a server. `ipdr pull` asks the port of its host name for
"/health"; if nobody answers in 100 ms it starts a server in a goroutine of its own
process, and asks docker to pull from the host name. That server ends with the pull.

### What is hard here

- Handlers interleave at locks and at calls to IPFS. The manifest lock is held
  across network calls; the blob lock is released between `get` and `remove`.
- `get` and `remove` return early with the blob lock held (311-313, 318-320,
  332-334); whether they can is a matter of what other handlers did before.
- Upload sessions are shared by id and written piece by piece from bodies that
  may break off; clients retry, and late calls are still served; ids may repeat
  after a restart.
- Only the files of the CID store survive a restart; a write empties the file
  before it fills it, may fail half way, and may find another repository's
  directory in its place.
- Manifests are cached by tag, and the tag may move while the cache does not.
- A push of the command line passes a dozen steps, most of which can fail, and
  talks to a goroutine over an unbuffered channel it does not drain.
- Processes of one host meet at a port: docker may come before the listener, the
  server a pull finds may end with somebody else's pull, and what docker says of
  the blobs is thrown away. A process has one mux, and registers its handlers once.
- The ready channel of `RunDaemon` has two senders and one receive.

### What makes each part correct

- Blobs: what is held under a digest has it; a session is what its client sent;
  what a manifest PUT has read of the blobs it finds again when it takes them away,
  and no blob is held that waits for no manifest.
- Manifests: a digest names one manifest, for ever; a manifest that is answered
  201 is on IPFS with all its blobs; the blobs of a manifest that was served
  can be got; every call is answered.
- CID store: for its callers, one map; a tag whose `Add` returned survives.
- Listings of the store's directory have its tags, and nothing else.
- Push: the whole image or an error, in a form the server reads; no call and no
  goroutine stays behind. (A layer that could not be read is empty; no other may be.)
- Pull: it gets the image, as long as what it reads from stays and no server that it
  starts in vain ends its process; who serves goes on; `RunDaemon` tells a failure
  and leaves no more than a goroutine.

## 2. The modules

    Maps                         functions that grow (Put)
    BlobStore ........ abstract: blobs held and lists that wait
      ^ implemented by           ^ used by
    BlobUploads                Registry ......... the server
      ^ extended by              ^ extended by
    UploadClients              DockerPush ....... docker push and pull
    CidMap  <- implemented by -  CidStore ....... cids.go and the resolvers
    ImageOffer <- implemented by - ImagePush .... ipdr push
    IpfsDaemon <- extended by ---- ImagePull .... ipdr pull, ipdr server, the host
    MC<module>                   the instances for TLC
    MapTheorems, RegistryProofs, BlobUploadsProofs, UploadClientsProofs,
    CidStoreProofs, ImagePushProofs, HostProofs
    DockerPushProofs ............ extends RegistryProofs by the clients

An operator called `X_Something` beside an operator `X` is a variant of it with
a plausible bug, which some property must notice; no specification uses one.

### Registry

A thread is a connection. `Send` begins a call, the handler takes its steps, and
`Reply` leaves the answer in `resp`. Steps are as large as the locks
allow: a step ends before a lock is taken, and around each call to IPFS, so that
whatever another goroutine can do in between, it can do in the model.

| action | code |
|---|---|
| `PutBlob` | an upload's last call, its commit (blobs.go 189-210, 276-298) |
| `HeadBlobLocal`, `HeadBlobResolve`, `HeadBlobGateway` | HEAD: in memory; else resolve; else ask the gateway (86-141) |
| `GetBlob` | GET (143-187): in memory or from the gateway |
| `FetchCached`, `FetchResolve`, `FetchGateway` | `fetch` under the manifest lock (manifest.go 209-259), for GET and HEAD |
| `Reverse` | the second resolve and the lookups GET leaves (76-97) |
| `PutRegister` | PUT up to the blob store: the check of a list's manifests, the record by reference and digest (120-165) |
| `PutGet`, `PutRemove` | `blobs.get`, `blobs.remove` (blobs.go 307-342), the returns with the lock held included |
| `PutAdd` | `AddImage`, its outcomes, and the record in the CID store (manifest.go 179-201) |
| `Dig` | `/dig` (server/registry/registry.go 89-144) |
| `Restart`, `Publish` | the process dies; someone writes a file that a resolver reads |

A CID is modelled by what it names: the manifest, the references it has
there and the blobs next to it. So "the CID has the blob" is a fact about the
value, as it is on IPFS. Digests are injective (no SHA-256 collisions: an
ASSUME). The loops that add a CID under several keys, each `Add` with its own
turn of the store's lock, are one step here; `CidStore` has what happens inside a write.
A GET of a manifest list panics, since a list has no configuration to take a
digest from (manifest.go 85-87); the lock is released by `defer` and net/http
recovers the panic, so that the step ends the call as "panic" with the lock free.

`Env` names the events that may happen in an instance: a gateway that does not
deliver, an API that cannot be reached ("send") or answers with an error
("api"), a disk that fails, restarts, publications.

### BlobStore and BlobUploads

`BlobStore` has `Commit`, `Discard` and `Forget`; `Registry` uses its operators
through `INSTANCE`, and `BlobUploads` implements it. In `BlobUploads` a call's
body comes piece by piece (`Read`) while the handler has the lock; `Cut` lets
the sender stop anywhere, which io.Copy's dropped error hides from the
handler. `Start`, `OpenRange`, `OpenStream`, `OpenFinish`, `EndPatch`,
`EndFinish`, `PostWhole` are the branches of `blobs.handle` 189-298. A range is
checked for its start only, as in the code. Ids are drawn in order from a
source that is not seeded, so that a new process may draw the same again
(`Reseeded`). `UploadClients` adds clients that retry.

### CidStore and CidMap

`AddMemory`, `AddOpen`, `AddWrite` are `Add` with `writeCID`: memory first, then
the file is opened, which empties it, and written (memory and opening are one step, since
nobody can look into memory in between, and the files are as before). Either may fail; a path that
is a directory, or runs through a file, cannot be opened. `GetKnown`,
`GetUnknown`, `ResolveName`, `ResolveNext`, `ResolveNot` are `resolve` with `Get` in front
and the chain of resolvers behind, one resolver per step; `ListStore`,
`ListNext`, `ListDone` are `/dig` without a tag. A reader is one step, since it
holds the RWMutex. The chain is chosen at the start and after a crash
(`StartChains`): a dnslink record points to a tree on IPFS or to files (here those of
the store once more), or cannot be had and is left out. The file resolver lists names
that are files (`Links`, resolv.go 55-66), the IPFS resolver all links of a directory,
those to directories among them (124-133): the two do not agree on what a tag is.

`CidMap` says what the handlers may take for granted. `Kept` are the keys a
crash must not lose: tags (a digest is never written to disk), of a repository
that is not a CID, whose path is not in the way of another's. What a caller is
told when the map does not know its key is left open.

### ImagePush and ImageOffer

One action per stage of `PushImage` (cli/registry.go 117-143): entries of the archive, one
at a time; the index; the configuration; each layer, compressed; the three
manifests; `AddDir`; then `Refs` with its goroutine (ipfs.go 168-202), which
reads the listing and offers names on a channel that the caller takes one from.
An archive is a sequence of entries (file, link, index); docker writes the index
last and names the configuration by its digest. Some behaviours that are easy
to miss are kept: the error of a send in `AddDir` is lost and gives an empty
hash, which the next call to the API refuses (ipfs.go 96-143); the error of reading
a layer is lost too, and a file that is missing, was a link or cannot be read
(`Flaky`) gives an empty layer in a push that succeeds (`Contents`, 509), while
the other failures of a disk make it fail; a listing that
breaks off looks like one that is over; ten empty names end the process
(log.Fatal), with every other push in it (`Exit`); an image named with a
registry's port cannot be pushed (282). Because of a missing slash (224) all
images are prepared under the name "default", so a root has one entry, and this
is why no goroutine is left behind (`RefsEnd`).

### ImagePull and IpfsDaemon

The programs of one host: `ipdr pull`, `ipdr server`, a program that pulls again
and again through a `Registry` ("library"), and one with a `Server` of its own
("embed", as `server/server_test.go`). `owner` says who listens on a port.

| action | code |
|---|---|
| `Pull`, `Health` | `PullImage` and `runServer` (cli/registry.go 162-164, 195-210); a check that is not answered in time counts as none; a server that is started is one more in `starts` |
| `Register`, `StartPanics`, `StartReturns` | the goroutine comes to `Start` (server.go 73-88): the handlers are registered, or were before, which is a panic and the end of the process, or the listener is there and `Start` returns |
| `ConfigFails` | `registry.New` without an IPFS host asks `ipfs config`; its failure is a log.Fatal (ipfs.go 63-69). `runServer` passes none (203-207), `ipdr server` has a default |
| `Listen`, `CannotListen` | `net.Listen` (server.go 90-94); the error ends `ipdr server` and is dropped by the goroutine of a pull |
| `CertFails` | `ServeTLS` (97-98) returns at once if the certificate or its key is of no use, and `ipdr server` ends with the error |
| `Stop` | closes the listener, not the connections (105-109) |
| `Manifest`, `Refused`, `Blobs` | docker's pull (docker.go 98-109): an error before the manifest is an error, one after it is in the stream that is discarded |
| `Return` | the tag or the error; an `ipdr pull` ends here, and its server with it |
| `Quit`, `Kill`, `OtherListens` | ends of processes, and programs that are not ours on a port |

A host name is its port, or else the first digits it has, since `ExtractPort`
takes those (netutil.go 116): a server for `192.168.0.2` listens on 192 and one for
a bare name on 5000, while the health check and docker ask port 80 (`DialPort`).
`told` is what the last step has said: what the pull that has just returned says, or how
the process that has just been ended was ended (killed, by the panic of a second
registration, by log.Fatal). `steady` is a history: whether a server of ours and a daemon
have been where the pull asks since it began, or since docker got the manifest. No action
reads either.

`IpfsDaemon` is `RunDaemon`: `Found` and `NotFound` are `pgrep` (which may fail and then
sees no daemon), `Timeout` the
timer of ten seconds, `StartDaemon` and `RunReturns` the two ends of
`ipfs daemon`, `Receive` the one receive. A sender that nobody receives from
stays in `ready`. Between `NotFound` and `StartDaemon` another caller may do
the same; the lock of the repository then fails one of the daemons. The daemons
are external, and pulls read from whichever is up.

### DockerPush

What a docker client does: HEAD every blob, upload those that are 404, put the
manifest; get a manifest, then its blobs. It is external: taken from what the
handlers answer, README.md 253-290 and `example/hello/test.sh`.

## 3. The runs

Twelve runs. Passing ones check all reachable states of their instance; each
property has a mutation of the code that breaks it (`PROJECT.json`, "mutants").

| run | states | what it checks |
|---|---|---|
| `push` | 3,111,270 | Two connections push into two repositories that share a blob, two manifests and a list, and look at a digest by CID, all in any order and without end, with API errors and restarts. `PullByDigest`, `RemoveFindsList`, `HeldListed`, `RestartKeepsTags`. |
| `pull` | 188,074 | Two connections pull what resolvers publish meanwhile, one image a list, through a gateway that may fail, with restarts, and upload a blob whose manifest never comes. `ReverseSound`, `ServedFromCid`, `PullByDigest`, and `Answered`: every call is answered. |
| `apart` | 17,026 | Three docker clients push and pull images that share no blob, one of them twice into one repository, with API errors. A push leaves the whole image (`PushComplete`), a pull gets it (`PullWhole`), the blob lock is not leaked (`LockGivenBack`), every job ends (`JobsEnd`). |
| `uploads` | 539,613 | A docker client and one that sends chunks, with lost connections and a restart. `ContentAddressed`, `SessionIntact`, `SessionGrows`, `StoreSpec` (it implements `BlobStore`), `EveryoneDone`. |
| `cids` | 271,632 | One caller adds, one looks up and lists, the disk fails, the process crashes inside a write, and a dnslink record is a tree, files or gone. `KeptOnDisk`, `MapSpec` (it implements `CidMap`), `ListsTags`, `Returns`. |
| `image` | 77,760 | Two pushes in one process, of an image with a layer twice, one that may fail to be read, and of five archives or names that cannot all be pushed, with failing disk, docker and API. `Servable`, `OfferSpec` (it implements `ImageOffer`), `PushEnds`, `RefsEnd`. |
| `host` | 335,152 | One process that pulls, serves with TLS or has a server of its own, one that pulls again and again and wants a daemon; docker.local:5000, an address and a bare name; port 5000 taken by others, missed health checks, certificates of no use, kills, daemons that come, fail and end. `OneStart`, `PullHolds`, `ServerStays`, `PullEnds`; `FailureTold`, `OneLeft`, `DaemonReturns`. |
| `empty_cid`, `moved_tag`, `test`, `wedge`, `linked_layer` | up to 865 | One disagreement each, section 6. |

### Bounds

Nothing in `Registry`, `CidStore` and `ImagePush` is bounded but the sets of
values: calls may be repeated for ever, in any order.

- *Threads.* Two connections: every race in the handlers is between the owner of a
  lock or of a gap between locks and one other; three in `apart`, where a plan is
  short. `push` uses the symmetry of the threads and has no liveness
  property, with which symmetry would not be sound.
- *Images.* `m1` has one blob, `m2` that blob and another, `l1` is a list of
  `m1`: a shared blob, an unshared one, a list with its manifest present and
  absent.
- *Repositories.* Two in `push`, `pull` and `apart`. In `push` they share a blob, so
  that a PUT into one deletes bytes the other lists (`remove` deletes for all of
  them, 337), and a blob comes to a repository in the middle of its PUT. That the
  other repository keeps its bytes is therefore not a property: the code does
  not promise it, and it is listed as a hazard. `RemoveFindsList` holds all the
  same, since only the PUT that has the manifest lock deletes, and so does `HeldListed`.
- *Uploads.* Blobs of one and of two pieces with a common first piece. `MaxGiveUps` = 1 and
  `MaxRestarts` = 1: one fault of each kind at any moment. `MaxDraws` = 6: more
  ids than those faults can use up, so that the bound never stops a client
  (`EveryoneDone` would fail if it did). Ids repeat after a restart (`Reseeded`
  is FALSE), which is the harder case.
- *CID store.* A tag with a file, a digest, a CID's own entry, and two tags whose
  paths are in each other's way (`a:b`, `a/b:g`). The chain is the store's own
  directory and a dnslink record, absent or pointing at a tree or at that directory.
- *Push.* `MaxTries` = 10 is the code's own number. One of three layers may fail to be
  read, the one no other is equal to.
- *Host.* Two processes: one that serves and one that asks, or two that start a
  server for one port. `MaxStarts` = 1 bounds the starts that have not begun in
  one process at one time, not those of its lifetime: the second pull of the library
  process finds its handlers registered (`StartPanics`). A
  health check waits while one has not begun; it begins soon, since its goroutine is
  fair. One image: pulls of different images share nothing but
  the server and the port.

`CHECK_DEADLOCK FALSE` stands where the program can stop: in `push` and in the
runs that show a disagreement, a leaked blob lock leaves everybody waiting.

### Fairness

- `Registry`, `DockerPush`: strong fairness of each connection's handler.
  Goroutines are scheduled; a `sync.Mutex` passes into starvation mode and hands itself to
  the longest waiter, which is what turns "again and again free" into "taken";
  calls to IPFS return. The last is an assumption: `http.Head` and `AddImage`
  have no timeout, and a gateway that never answers does stop the server
  (blobs.go 108, manifest.go 184).
- `UploadClients`: the same for handlers, with bodies that come or stop (there
  is no read timeout either), and weak fairness of clients. Faults are not fair
  and end by their bounds.
- `CidStore`: strong fairness of each caller; a waiting writer of an RWMutex
  keeps new readers out, and readers are let in after a writer.
- `ImagePush`: weak fairness of each push and each listing goroutine; docker and
  the IPFS API answer or fail. A docker that stays silent would hold a push.
- `ImagePull`: weak fairness of the goroutine of each process's server, of each pull
  and of the goroutines of `RunDaemon`, the timer among them. Docker answers; a
  daemon need not come, or end, and no port need become free.
- Sends of new calls, restarts, publications and failures are never fair.

## 4. The proofs

TLAPS checks, for every value of the constants that meets the ASSUMEs of the modules:

| theorem | says |
|---|---|
| `TypeCorrect` (Registry) | types, and that each program point has the call and the locals it needs |
| `SecondLookup` | `RemoveFindsList`: the early return of `blobs.remove` with the lock held is unreachable, for any number of connections and repositories |
| `NoneLeftBehind` | `HeldListed`: every blob that is held waits on a list, also with repositories that share blobs |
| `DigestIsPinned` | `HonestWorld => (Spec => []PullByDigest)` |
| `TagsSurvive` | `"disk" \notin Env => (Spec => RestartKeepsTags)` |
| `ServedIsFound` | `NothingMoves /\ ApiReached => (Spec => []ServedFromCid)` |
| `LookupsLead` | `NothingMoves /\ OnlyPulls => (Spec => []ReverseSound)` |
| `PushesComplete` (DockerPush) | `PushesApart /\ ApiReached => (ClientSpec => []PushComplete)` |
| `LockComesBack` | `PushesApart /\ HasConfig /\ ApiReached => (ClientSpec => []LockGivenBack)` |
| `PullsWhole` | `PullWhole` of any clients, when also no tag moves, what is asked for by CID is whole and the gateway delivers |
| `UploadsTyped` (BlobUploads) | types, and that only the holder of the lock has a body half read, behind the session as it is |
| `BlobsVerified` | `ContentAddressed` |
| `SessionsGrow` | `SessionGrows` |
| `ImplementsBlobStore` | the sessions implement `BlobStore` |
| `SessionsIntact` (UploadClients) | `SessionIntact`, for any clients, blobs, lost answers and calls served late |
| `StoreTypes` (CidStore) | types |
| `AddsReachDisk` | `KeptOnDisk` |
| `ImplementsCidMap` | the store implements `CidMap` |
| `TagsListed` | `ListsTags`: a listing of the store's directory, without the lock, has the kept tags and only files |
| `PushTypes` (ImagePush) | types |
| `PushServable` | `ConfigsNamed => (Spec => []Servable)` |
| `PushImplementsOffer` | `ConfigsNamed /\ IndexLast => (Spec => OfferSpec)`: a push implements `ImageOffer`, where only a layer that is a link, missing or cannot be read may be empty |
| `HostTypes` (ImagePull) | types, and that a port is owned by just the server that listens there |
| `DaemonIsRun` | `PullSpec => DaemonSpec`: the host uses `RunDaemon` as `IpfsDaemon` describes it |
| `FailuresTold`, `AtMostOneLeft` | `FailureTold`, `OneLeft` |
| `NeverTwice` | `OneStart` |
| `PullKeepsWord` | `PullHolds`: a pull whose sources stay gets the image, or its process was ended |
| `ServersStay` | `ServerStays`: who serves goes on, for each kind of program |

### Along which arguments

- *SecondLookup.* `RemoveFindsList` is not inductive: it must be known that
  nobody else is between `get` and `remove`. `LockInv` says that whoever is inside
  the critical section of the manifest lock holds it; so only the PUT at
  "putRemove" may discard, and everything else that touches the blob store adds
  to it. `LookupInv` is the two together.
- *NoneLeftBehind.* `HeldListed` is inductive by itself, for a reason that is not
  local: an upload puts the bytes in and on a list in one step (292-293), and `remove`
  deletes with the bytes the list it finds at that moment, not the one `get` has read, so
  that a blob that came in between goes with its list. A `remove` of what `get` returned
  (the mutation of the run `push`) would leave it behind: HEAD would answer 200 for it,
  and no PUT would add it. A digest that another repository lists as well stays
  there as an entry without bytes, which `HeldListed` allows.
- *DigestIsPinned.* `DigestInv` joins three things: every CID that the
  server has in its maps, in its files and in its locals is honest (under
  a digest it has the manifest with that digest), the cache is pinned, the
  answers are pinned. A fetch puts into the cache what an honest CID says; a PUT
  puts a manifest under its own digest and under the reference given, which is why the
  theorem needs `HonestWorld`: the code does not compare a digest reference with the
  body (manifest.go 165).
- *TagsSurvive.* Invariant: for a repository's name and a tag, memory and file
  agree, unless memory has nothing. `Persistent` decides which keys are written;
  tags of named repositories are.
- *ServedIsFound.* The cache and the CID of an answer are read at different moments, so
  the property needs to know of every place a CID or manifest is kept that it is what was
  said of that reference (`Agreed`: the cache, memory, files, what resolvers
  read, what a connection at the gateway has in hand). `Says` is what clients put,
  resolvers publish and a digest or CID names; `NothingMoves` has it that these are one
  manifest. The run `moved_tag` is what happens otherwise. `ApiReached`: without it the
  empty CID of `empty_cid` is recorded.
- *LookupsLead.* `WholeInv`: every image the server knows has the blobs of its manifest,
  and lookups of blobs lead to one that has it; with `Agreed`, the CID that
  `Reverse` resolves is of the manifest it serves. `WholeStep` asks of PUTs only
  that what they add is whole (`AddedWhole`), which in `OnlyPulls` is so since there
  are none, and for docker's clients is proved.
- *DockerPush.* The three theorems about clients rest on `ClientInv`: the types, and
  `Linked`, which joins a client and its connection: its phase says which
  call was sent, for which job, and that what is still to do is of that job's manifest.
  To the server a client's step is a `Send` or nothing (`ServerSees`), so that all that is
  proved of `Registry` holds here.
- *PushesComplete.* `Gathered` follows a push: what it has seen to is on the list of its
  repository; then all of it is; then in `bundle`; then in the CID it is told.
  A HEAD that answers 200 must therefore mean this list, and no other place. `ListsInv`:
  what is held is on a list, and what is on a list is of a push begun there; `SentInv`: what the
  maps know is of pushes whose manifest was sent, and no lookup leads to a blob
  before. Under `PushesApart` (no layer in two pushes, one client per repository, no
  manifest is a layer) a blob being gathered is of no other push, so that HEAD is
  404 until it is uploaded, and no PUT but its own takes it away. The run `test` is what
  happens when two pushes share a layer: the hypothesis is what the code needs.
- *LockComesBack.* From the same invariant, `b.lock` is always free between steps: a
  PUT finds a list for its repository (an image has at least a configuration,
  `HasConfig`) with all its bytes, `SecondLookup` keeps it there for `remove`, and
  no HEAD has a CID to ask the gateway about. `wedge` shows the leak otherwise: an
  image that was pulled is pushed again.
- *PullsWhole.* `Found`: what a pull has still to get can be looked up, since `Reverse`
  prepared it and lookups stay; `WholeInv` has it that they lead to the blobs, as
  the images pushed are whole (`PushesWhole`, from `Gathered`).
- *BlobUploads.* `UploadInv` is `TypeOK /\ Serving /\ Behind`: a connection at
  "reading" holds the lock; its buffer is the session followed by what has come,
  so that the end of a PATCH replaces a session by an extension of it
  (`SessionsGrow`), and two of them never meet. `ContentAddressed` is inductive.
  Refinement: `contents` maps to its domain, a list to its set of digests; a
  commit is `Commit`, a discard `Discard`, a restart `Forget`, all else stutters.
- *SessionsIntact.* `SessionIntact` says nothing of the calls under way, and a call
  that was given up may still write. `OwnIds`: an id in use was drawn, no two clients
  have one, and an id that is being handed out is used by nobody. `Flows`: every call of
  a session, wanted or not, brings what comes in the blob at the place the call names
  (`Fits`), or the beginning of that if it was cut. So whatever a handler puts into a
  session is a first part of the blob, and by `Behind` no shorter than what was there.
  `Acks`: the chunk a client still waits for was not cut, so that all of it is
  in the session when 204 is read. A restart forgets sessions and may give their
  ids out again, which is why the property is about the first life of the process.
- *CidStore.* `StoreInv` is `TypeOK /\ Calling /\ KeptOnDisk`: whoever writes
  has the lock, and the key it writes has in memory the CID it is given. Paths
  are injective, and no path runs through a kept one, so that opening a kept
  file succeeds but for the disk. Refinement: the map is memory, or the file
  where memory has nothing; `AddMemory` is `Add`, and with it the key is at risk until
  `AddWrite`; a kept key that is not at risk is in its file, so a `Crash` keeps it.
- *TagsListed.* From `StoreInv`: a kept tag that is in memory and was not refused is in
  its file when no `Add` is at work on it (`KeptOnDisk`), and while one is, the file has
  been opened, and is there though it may be empty (`Calling`): `AddOpen` empties a file
  and removes none. What the listing adds is of keys that have a file, so that no
  directory is among it.
- *PushServable.* `PushInv` says where the parts come from: whatever a listing
  has read, a call has been told or AddDir has returned is in `added`. `WholeInv`
  follows the image through the making: while layers are compressed, the
  blobs are those of the configuration and of the layers listed so far, each
  under its digest; the manifest is written of just that. docker calls the file
  of a configuration by its digest and `ipfsPrep` copies it under that name
  (cli/registry.go 263-267): this is `ConfigsNamed`, which the code takes for granted.
- *PushImplementsOffer.* `FollowInv` compares each stage with the archive: `Reads`
  says that the files are those of the entries read so far, `Taken` that the index
  is among them only when all the others are, `Listed` that the layers made are
  readings (`Readings`: the data of the entry, or nothing for a link, a missing file or
  one that cannot be read) of a first part of the index. `Write` then completes an image
  of `ImagesOf(job)`, and what is listed of the directory is that image alone.
  Refinement: `Push` is `Give`, `Take` and each return of a failure are `Tell`, `Exit` is
  `Die`, all else stutters. `IndexLast` is needed: an index that comes
  before a layer makes an image with an empty layer of a stream that broke off.
  The run `linked_layer` shows the empty layer of a link, which `OfferSpec` allows.
  `MCHypotheses` says that the jobs of the run `image` meet both.
- *FailuresTold*, *AtMostOneLeft.* `Balanced` counts, for a call, what has been sent: the
  timer sends once, the goroutine once, the call receives once. So what is left when it has
  returned is one value, and if it is a failure the timer was first.
  Every step of `ImagePull` is for a daemon and its callers a step of `IpfsDaemon`
  (`DaemonSees`), so that this carries over.
- *NeverTwice.* `NotYet`: an `ipdr pull` that has not asked for its health has started
  no server. It has one thread (`SinglePull`), so that it asks once.
- *PullKeepsWord.* What is steady is there (`SteadyInv`): a pull whose sources were
  there all along is not refused, and its blobs come. But a pull also ends with its
  process, so each step that ends one has to be gone through (`OverOf`: a process that ends
  under a pull is the pull's own, an `ipdr pull` or a library). An error of `net.Listen` or a
  bad certificate ends `ipdr server` only; a program does not quit, nor fail in
  `NewClient`, in the middle of a pull (`ClientInv`); the panic of a second registration is
  never met by an `ipdr pull` (`OneStart`). What is left is what `PullHolds` names.
- *ServersStay.* The same for the one who serves: from the types, a port that has an owner
  is not taken; a second `Start` of the same `Server` finds its listener
  (`Started`); from `OneStart`, an `ipdr server` or `ipdr pull` that serves has no start
  to come that could panic; from `ClientInv`, who serves does not fail in `NewClient`;
  a failure to listen, of a certificate or of `ipfs config` comes before a
  server serves, and is its own process's.
- `MapTheorems` has the facts on `Put`, `Restrict` and `Append` they share.

Assumptions, all of them named ASSUMEs that TLC evaluates in the runs: the
constants are of their types; None and the empty CID are nothing else; a CID is
no repository's name; no two manifests have one digest; in `CidStore` keys are
non-empty paths; in `UploadClients` None is no answer; in `DockerPush` what is pushed are
image manifests; in `ImagePull` the process of a pull has one thread and callers of
`RunDaemon` are processes; in `ImagePush` the names in an archive differ and no layer is
called manifest.json.

Hypotheses that a theorem names are met by the runs beside it: `MCHypotheses` in
`MCRegistry` has `NothingMoves` and `OnlyPulls` of the calls of `pull`, in
`MCDockerPush` it has those of the client theorems of the plan of `apart`, in `MCImagePush`
those of `image`.

### What is model-checked only

Liveness (`Answered`, `JobsEnd`, `EveryoneDone`, `Returns`, `PushEnds`,
`RefsEnd`, `PullEnds`, `DaemonReturns`): fairness and ENABLED are outside of what TLAPS 1.4 proves.
Every safety and action property and every refinement that a passing run checks is also
a theorem, some under the hypotheses above; no safety property is model-checked only. What is
proved of docker's clients is without restarts of the server.

## 5. What is not modelled, and why

- Routing by path and method, headers but for the digest and the CID, wording of errors, HEAD's content
  length of 0: no state, and no property is about them.
- Base58 and base32 forms of a CID (`regutil`): conversions; a CID is taken to be
  recognised in either form.
- A manifest whose body breaks off is one more manifest to `Registry`: nothing
  in the code tells them apart.
- `docker/` but for `PullImage`, `netutil/` but for `ExtractPort`: calls to
  others, one after the other, most of them called by tests only.
- The content of what a server inside a pull serves: `ImagePull` has it that an
  image is served when a daemon is up, and a manifest once served also without one;
  the handlers are `Registry`.
- A manifest or a session that stays in memory for ever, and dnslink records that are
  looked up once at the start (resolv.go 169): nothing in the code promises otherwise.
- GET and HEAD of a manifest pushed here answer with an empty digest
  (manifest.go 131): the model keeps the field, no property is about it.
- Temporary directories are not removed by the code; nothing depends on them.
- A second process on the store's directory.
- TLS in a program with a `Server` of its own (only `ipdr server` is given a
  certificate here), and an `Accept` that fails for good while a server serves.

## 6. Disagreements the runs show

- `empty_cid`: when `AddImage` cannot send its request it returns no error
  (ipfs.go 232-234), so a manifest PUT is answered 201 and "" is recorded as its
  CID; `ipfs_test.go` 25-27 expects a hash.
- `wedge`: the same return met by docker: push, pull, tag again, push. Every
  later upload of any client waits for ever, in a tool that "proxies Docker
  registry requests to IPFS for pushing and pulling images" (README.md 20). A
  manifest list whose manifests are all there meets the same return, and is
  refused with 404, though manifest.go 136-139 says it is the manifests that are checked.
- `test`: in the steps of `example/hello/test.sh`, the second push finds the base
  layer by HEAD through the lookup that the pull left, does not upload it, and
  the image is stored without it, answered 201.
- `moved_tag`: GET resolves its target twice, once to fetch the manifest and once for
  the lookups (manifest.go 77, 218). When the tag moves in between, the old manifest is
  served and its blobs are pointed at the new image, and the rest of the pull is
  answered 404. A manifest that is in the cache (213-216) meets the same line whenever the
  tag has moved since.
- `linked_layer`: docker saves a layer that an image has twice as a symbolic
  link; `untar` passes over links and `gzipFile` drops the error of reading
  (cli/registry.go 509, 587-607): the layer is stored empty and the push succeeds. A layer
  that a disk error keeps from being read goes the same way, in the run `image`.

What `ImagePull` shows without a run of its own, since its properties leave
room for it:

- The first pull may be refused: docker is asked while the goroutine of
  `go srv.Start()` (cli/registry.go 208) has not come to its listener yet.
- `Start` says "return if already started" (server.go 74), but what it looks at is set
  after the handlers are registered, and by the same `Server` only: two pulls of
  one process, or two threads, run into the panic of `http.HandleFunc` (79).
- "Successfully pulled" is printed of an image docker does not have, when server or
  gateway goes away between the manifest and the blobs (docker.go 106).
- With a host name that has no port, the server is not where docker asks.
- A hash in base58, as in README.md 150 (`ipdr pull /ipfs/Qm...`), is passed to docker
  as it is; a repository name has small letters only.

## 7. The plan

Order: the server first (locks and their hazards), then uploads, docker's view
of it, the CID store, then the command line. All of it is done:

1. `BlobStore`, `Registry`, `RegistryProofs`.
2. `BlobUploads`, `UploadClients`, `BlobUploadsProofs`, `UploadClientsProofs`.
3. `DockerPush`, without restarts, `DockerPushProofs`.
4. `CidMap`, `CidStore`, `CidStoreProofs`.
5. `ImageOffer`, `ImagePush`, `ImagePushProofs`.
6. `IpfsDaemon`, `ImagePull`, `HostProofs`.

What is open: `DockerPush` with restarts; clients that share layers, for which the code
would have to change first (`test`, `wedge`).
