# A TLA+ model of the ODD SDK

This directory holds TLA+ specifications of the ODD SDK (`src/`), the TLC
configurations that model-check them, and proofs that TLAPS checks. The SDK
gives web apps user accounts, a session per device, linking of further devices,
and WNFS, a file system that is encrypted where it is private, kept in IPFS and
found through a data root that is published in DNS.

Everything runs on the event loop of a browser. There are no threads, so nothing
happens between two awaits, but nearly every operation awaits (crypto, storage,
network), and the SDK neither locks nor queues: two calls of an app, a timer, a
message from a channel and an `online` event interleave at every await. That,
and what is lost when the page is closed, is what the models are about. Every
action is the code between two awaits, and each module keeps the values that the
code has read before an await apart from what they are by then.

## Inventory

| Component | State | Operations | Hard behaviour | What makes it correct |
|---|---|---|---|---|
| Account linking (`src/linking`) | per side: step, session key, RSA pair, channel, emitter, interval | temporary DID, session key, challenge, confirm, reject, cancel | messages of several devices in any order, ticks during handlers, answers late or twice, failures of auth | answers are those the user gave, compared pins are of one exchange, keys at hand, linking ends |
| Linking channel (`components/auth/channel.ts`) | web socket, cached root DID | open, send, close | opening waits for DNS | nothing is delivered after close |
| Auth components (`components/auth`) | session, account UCAN, read key | register, session, canDelegate, delegate, link | closed between two writes, expiry | a session that is stored can be loaded, used and handed on |
| Private revisions (`fs/v1/PrivateTree.ts`, `PrivateFile.ts`, `PrivateHistory.ts`, `protocol/private/index.ts`) | header with revision and links, nodes stored by name and revision | put, update, remove, soft links, search, back | mutations share one header, search while storing | latest is found, history has no gaps |
| MMPT (`protocol/private/mmpt.ts`) | links and children in memory, blocks in IPFS | add, get, put, load, split | concurrent add at every level | nothing acknowledged is lost, one tree per set of names |
| File system and root tree (`fs/filesystem.ts`, `fs/root/tree.ts`) | trees, links, counter, private log, proofs | 14 calls, put, updatePuttable, addPrivateLogEntry, publish | a link is assigned after an await with no look at what changed | what has returned is saved, what is published stays |
| Publishing (`fs/filesystem.ts`, `data-root.ts`) | proofs, CID log, debounce, queue, flag | write, publish, hooks, update, online, leave | overlap, 5xx retries, outages, closing the page | the data root follows, local versions are kept, the alert is accurate |
| Loading (`src/filesystem.ts`) | none | choose version, create, recover | offline, data root behind or ahead | no older version is preferred, the key that is stored opens what is chosen |
| Public tree and history (`fs/v1`, `fs/base`, `fs/bare`) | header, children | mkdir, add, rm, mv, get, history | shared instances | a map from paths to contents |
| Public root on WASM (`fs/v3`) | promise of the root | as above, `atomically` | operations that overlap or fail | each starts from the one before |
| Sharing (`fs/share.ts`) | shared counter, share links | share, load, accept | counter races | a share is found by its receiver |
| Repositories (`repository.ts`, `repositories/`) | list, dictionary, storage | add, clear, find, look-up | several tabs | cache and storage agree, a look-up finds what was validated |
| Session and assembly (`session.ts`, `index.ts`) | user name, type, storage | open, migrate, create, restore, destroy | failure between steps, a second tab, a new version | as auth |
| UCANs and permissions (`ucan/`, `permissions.ts`, `capabilities.ts`) | none | build, validate, root issuer | chains, expiry | accepted permissions are of use |
| Lobby (`fission-lobby.ts`) | pending request, iframes, timers | request, collect, retry | timeouts, nested retries, foreign messages | collecting ends, in a session that loads or none |
| IPFS node (`ipfs/node.ts`) | peer status, back-off, timers | ping, reconnect, report | races of timers | some chain of attempts never ends, the status follows the peer |
| Extension bridge (`extension/index.ts`) | connection, listeners | connect, state, disconnect | events and calls while the state is gathered | an event is sent once, with the state of its time, and none when disconnected |

Crypto, DNS look-ups, DIDs, encodings, apps and name lists are conversions or
single calls; they are abstracted where the models meet them. `PROJECT.json`
lists every component with its status, and the hazards line by line with the
properties that cover them.

## Modules

| Module | Models | Proofs |
|---|---|---|
| `AccountLinking` | `linking/consumer.ts`, `producer.ts`, `common.ts`, `send` and `close` of the channel | `AccountLinking_proofs` |
| `PrivateRevisions` (TLC: `MCPrivateRevisions`) | revisions of a private directory or file and `findLatestRevision` | end of `Mmpt_proofs` |
| `Mmpt` (TLC: `MCMmpt`) | `mmpt.ts`, concurrent `add` | `Mmpt_proofs` |
| `PublicTree` (TLC: `MCPublicTree`) | the public tree: `add`, `mkdir`, `rm`, `mv`, loading and saving | none yet |
| `UnixTree` | what `PublicTree` is to implement: a function from paths to contents | none yet |
| `FileSystem` (TLC: `MCFileSystem`) | the calls of `filesystem.ts`, the root tree, sharing, the promise of `PublicRootWasm` | `FileSystem_proofs` |
| `Publishing` | `publish`, its hooks, `dataRoot.update`, the version chosen by `loadFileSystem` | `Publishing_proofs` |
| `Session` (TLC: `MCSession`) | sessions over storage and keystore: `index.ts`, `session.ts`, `filesystem.ts`, auth, repositories, in several tabs | `Session_proofs` |
| `Capabilities` (TLC: `MCCapabilities`) | the lobby, `capabilities.ts`, permissions, UCAN look-up, the private nodes that permissions need | `Capabilities_proofs` |
| `PeerConnections` (TLC: `MCPeerConnections`) | `ipfs/node.ts` and the creation of nodes | `PeerConnections_proofs` |
| `Extension` | `extension/index.ts`, `event-emitter.ts` | `Extension_proofs` |

The modules meet where one is an assumption of another. `PrivateRevisions` takes
the MMPT for a set of names that only grows and that a look-up sees at once,
which `Mmpt` checks of the tree (`NamesAreFound`). `FileSystem` takes each tree
for the set of the changes that it has, which `PublicTree` and `Mmpt` justify
below their root, and follows the root tree up to the hooks of `publish`. A put of
the MMPT that runs into another call's add is the case that `RootIsComplete` of
`Mmpt` does not speak of: `FileSystem` lets it miss a name for each such call.
`Publishing` starts at the hooks, takes a mutation for a step that makes a version, and
follows it to the server. `Session` takes a file system for the key that it is
encrypted with, and says which one is opened in the end; `Capabilities` does the
same for sessions that come from the lobby.

### AccountLinking

`net` holds messages in flight and `tasks` the calls that are awaited, with what
was read before. `pstep`, `pkey` are the producer's `ls.step`, `ls.sessionKey`;
`cstep`, `ckey`, `rsa` those of each consumer; `copen`, `popen` whether the
channel is open; `shown` the challenges emitted to the app and not yet answered.
A temporary key names the exchange it starts, so the session key and pin made
for it have its name. Cryptography is abstracted to who can decrypt what: a
session key message opens under its own RSA key, a challenge and a response
under their session key. Messages that a participant could not decrypt change
nothing and are delivered to it only where the code acts before decrypting:
`ReceiveDIDInNegotiation` moves the step.

### PrivateRevisions

`revision` is the counter in the one header that all mutations share, `stored`
the revisions in the MMPT. A mutation puts its child, links it (counting up and
copying the header without an await), stores the copy, and ends with a put of the
node, as `runMutationOnNode` does. `AssignLinks` is `write` with several soft
links, or `mv`: it counts up without a put, marked by the ghost `loose`. `kind`
says whether the node is a directory or a file; `UpdateContent` is a write of a
file, which counts up after its await, so that of two overlapping ones the first
may be counted past before it is put: `loose` too. The search starts from a node that
was read (`GetRecurse`), or from the first revision, when a node is loaded from
its key (`FromBareNameFilter`), and keeps `lower`, `upper`, `stride` of the code;
`had` remembers what was stored when it began.

### Mmpt

Nodes are named by paths. A link stands for the whole content its CID
determines, so that CIDs are equal exactly when contents are. `inMem` is the
`children` cache. Each `add` is at a node (`at`), loading it, adding to it or
putting it, with `before` for `cidBefore` and `putting` for the CID on its way.
A call that returned leaves the root unput, as in the code: the caller puts it.

### PublicTree and UnixTree

`node` holds the directory instances, each with its `children` cache and its
skeleton. An entry of a skeleton has the CID the child was put under, which
stands for the skeleton as it was serialised, and `shared`, the instance whose
live skeleton object it is, or `sub`, what was read from the depot: in the code
`updateLink` stores the child's own skeleton object, so that reads, which follow
skeletons, see changes that no CID has yet. `call` has one record per caller:
where it is, the `chain` of instances it went down, what it found before the
await, and the put under way. `onUpdate` is `Climbing`: every directory up to the
root is put into its parent before the walk goes on. `mv` is three walks in a row
(make the parent, remove, insert). The put of the root inside a tree operation
has no effect that the model keeps (its CID only serves previous versions) and
has no step. A call ends with `updatePuttable`, which is what a reload finds.
A file's content is the number of the call that wrote it. The links beside the
skeleton, previous versions, soft links and the pretty tree, which runs the same
recursion, are left out.

`UnixTree` is the abstract specification. Its state is what reads see and what
is saved, each a function on paths, and its steps are whole calls. `shown`, the
view at the end of the last call, is the refinement mapping for what reads see;
the saved skeleton, read as a tree, is the other. A call that throws changes
nothing, with the exception that the code makes: a directory moved below itself
is lost to reads (`MvBelowItself`).

### Publishing

Versions are numbered as they are made. `proofs` says that `this.proofs` is not
empty, `had` and `root` are the locals of each publish call, `log` and `saved`
the CID log in memory and storage, `timer` the argument of the debounced
function, `queue` and `publishing` its two fields, `sent` and `answers` the HTTP
exchange. `ServerAccepts` out of order is the retry after a 5xx; `OtherDevice` is
an update by the user elsewhere. `Reload` closes the page at any point and applies
the choice of `loadFileSystem` to what storage has (`Loaded`). With an empty log,
the index of a data root that is not in it, -1, is the index of the last entry: the
data root is loaded as up to date and not logged. `own` are the versions made or
loaded here, the ghost `unlogged` those that were loaded so; `Known` is the rest,
and what `OwnRootIsKnown` and `LocalVersionIsKept` speak of. One timing assumption is
made: storage takes the log within the three seconds of the debounce
(`TimerFires`). Loading while offline always throws in the code, so pages
are opened online.

### FileSystem

`call` has a record per caller: the call, where it stands, what it has put and
not yet assigned (`snap`, a value for each part), and for version 3 the promise it awaits (`pin`).
`promise` is the sequence of promises that `PublicRootWasm.root` has been. `mem`
is what is in memory, `links` the links of the root tree. A call begins
(`Begin`), is refused by its arguments (`Refused`), by the proofs or nodes that
are missing (`Deny`), or passes `Check` or `Query`; it changes the tree, puts it
(`Putting` takes what is put at that moment) and each link is assigned by a later
`UpdateLink`, in any order. What a put of the MMPT stores (`Puts`) may lack one
name for each other call that is adding one at that moment (`Adding`), which may
have taken it out of the links to split its leaf (`mmpt.ts:87-94`); the ghost `torn`
says that there was such a call. A chunk of the private log is a list of calls, and
its size is counted in elements as the code does (`WithEntry`): the bytes of a hash
are joined by commas like the entries, so that an entry is read back as `HashSize`
elements, 32 in the code. The other ghosts: `done`, the calls that returned, and for
each call `clash`, the parts of the root that an overlapping call puts too.
Properties speak of the parts that do not clash, and of a private part where the
copy is not `torn`. A reload keeps in `done` what was published, without the private
parts if the published one is `torn` (`Left`): the names it may miss are gone with
the page. The calls in the run are those
that differ in what they put: a public write with publish, soft links and a
history step in the public tree, a listing, a private write, and a share.

### Session

`store` and `keys` are the storage component and the keystore, which share one
database; `tab` has the memory of each tab. A call that writes several items is
the list of its writes, and `Write` makes the next one; `Close` may come before
any of them. Accounts and data roots are the server's. `harm` collects what the
code has no answer to, and the properties are claimed while it is empty:

* `cut`: the page was closed in the middle of linking, recovering or destroying
  (a complete `destroy` mends it);
* `tabs`: one tab registered, linked, recovered or destroyed while another was
  open, which keeps its session and its repositories in memory;
* `upgrade`: the migration from an older program, run again at a new version,
  met another session;
* `twice`: a new file system was made for a user who had one already, unpublished.

### Capabilities

One page, with the user that the lobby put into its URL. `attempts` are the
attempts at the exchange with the iframe; each has a timer, listens once its
frame is loaded, and hears messages meant for the others. `Retried` is `retry` for
all the attempts that one event disturbs, in any order: the place of an attempt in
the list matters for the first one only, whose result is awaited. What is collected is
stored in the order of the code, validated, and loaded; `Validate` is reached
again for a session that is in storage (`Resume`). Of a path only the parents
that look-ups and loads ask for are kept.

### PeerConnections

`tasks` has a slot for every pending attempt, wait or race of one peer. A race
has its ping, its timer and the step of the reconnect that the timer starts, each
of which can end at any time; `latest` is `latestPeerTimeoutIds`. `addresses`
counts the Multiaddr objects, by whose identity `report` finds entries again.

### Extension

`running` holds calls and handlers that gather the state, each with what it has
found of the session; `bound` and `known` are what the handlers closed over. The
data root of a user may be missing in it: a look-up that fails says null (`LookedUp`).
`was`, `since`, `connected` and `missed` are ghosts: the state at the time of the
event.

## Runs

| Run | Question | Bounds | Result |
|---|---|---|---|
| `linking` | safety with two consumers, and linking ends | 2 keys, 2 failures of auth | holds, 56 k states |
| `linking_did` | a second temporary DID is ignored | 1 consumer, 2 keys | refuted |
| `revisions` | search and history | 2 mutations at once, 5 revisions, 2 links a write | holds, 372 k states |
| `mmpt` | concurrent adds | 3 + 5 names of 3 binary nibbles | holds, 118 k states |
| `public_tree` | calls one at a time implement `UnixTree`; reads miss no write when calls overlap | 3 of 13 calls in turn and 1 reload, or 3 of 4 calls, 2 at once; paths of 3 names out of 2 | holds, 374 k states |
| `filesystem` | what returned is saved, shares are found, what is published stays | 3 of 6 calls, 2 at once, 1 reload, 2 sets of private nodes | holds, 3.4 M states |
| `publishing` | safety, and liveness of calm use | 2 writes, 2 outages, 2 faults, 2 reloads | holds, 327 k states |
| `publishing_latest` | the latest version is published | 2 writes, nothing fails | refuted |
| `session` | a stored session loads, is proven, can delegate | 2 tabs, 2 users, 3 calls, 3 openings, 1 upgrade | holds, 2.0 M states |
| `capabilities` | collected sessions load and are of use; collecting ends | 2 users, 3 openings, 2 tries, 6 grants | holds, 537 k states |
| `peer_connections` | the peer is watched, its status follows it | 2 flips, and an online event, a late answer or a second node | holds, 262 k states |
| `extension` | forwarded once, with the right state | 3 calls, 2 events, 2 updates of the data root, look-ups that fail | holds, 2.6 M states |

Why the bounds are enough. Linking: two keys let a tick of one consumer overlap
with the other's exchange or with its own, which is what overwrites a key or a
step (three keys with one fault were checked once, 2.1 M states). Revisions: five
revisions let the search double its stride twice and bisect once with a gap to
either side. MMPT: three nibbles give a split of a leaf at the root and one below
a node that must be loaded, twice over, and one name that is there already.
Public tree: three calls make a directory, change it and move or remove it, in
the tree that was loaded too; two calls at once are what it takes to load or
create a directory twice, the third reads what they left. Only `add` and `mkdir`
overlap there: a removal that overlaps an `add` below it may bring the directory
back, and the code gives no promise to hold against that; and nothing is reloaded
after an overlap, because the saved CIDs may then be of an older tree than the
one in memory. File system: two calls overlap at every await, and a third one,
before or after them, meets what they left in the links, the promise and the log,
whose chunks of three elements hold two entries of two elements each: the second is
added where one element has place, the third finds none, so that the limit falls
inside an entry as it does in the code (32 entries of 32 bytes in 1020). Publishing: two calls are what it takes to steal
proofs, to reorder puts and answers, and to replace one queued update by another.
Session: three calls are register or link, publish or destroy, and one more on
what is left; two openings of one tab are a restart, the third is another tab.
Capabilities: three openings are the first visit, the return from the lobby and a
restart; two tries are a retry inside a retry, which is where results are dropped;
the grants are what was asked for, the root UCAN, something less and something more.
Peers: two flips take the peer down and up again; a back-off of two units reaches
its limit and stays there. Extension: connect, disconnect and connect again;
two events can be posted in the other order, each with an update of the data root
between the event and the look-up.

The model-checked liveness properties assume this fairness and no more. Event
loops run what is ready (`Receive`, `Resume`, `Step`, `System`, `PageSteps`,
`Next` weakly fair); an interval and a timer fire; a channel delivers while both
ends are open; a user answers a pin; an iframe loads in the end and the lobby
answers (`Capabilities`), but nothing is said of when, so that timeouts may come
first; calls of libp2p come to an end, and of the pings to a peer that is
reachable again and again one is answered (the one strong fairness, in
`PeerConnections`: a ping that can be answered need not be, and a next one is
sent). Nobody has to open, cancel, write, or get back online. In `mmpt` the
fairness is that of the event loop as a whole, no particular call has to be
resumed: `AddsReturn` still holds. `LinkingEnds` is claimed unless a second
temporary DID is broadcast or auth throws: the first stops the exchange, which is
the finding of `linking_did`, and from the second the code does not recover.
`CalmIsPublished` speaks of use without overlap, outage, failure or reload (the
ghost `calm`), because without that the code does not get there:
`publishing_latest`. `CollectSettles` is claimed unless a message from elsewhere
rejects the first attempt.

`CHECK_DEADLOCK FALSE` is said of all runs but `revisions`: both sides of linking
may cancel or finish, and elsewhere all calls end and the bounds are used up. In
`filesystem` and `session` the callers and the tabs are symmetric; runs with a
temporal property use no symmetry.

## Findings

* `linking_did`: `producer.ts:92` sets the step before it knows whether the
  message was a challenge, against `producer.test.ts:102`.
* `publishing_latest`: overlapping publishes may leave the data root behind for
  good (`filesystem.ts:538`): proofs are taken by the first call, or the put of
  the older version ends last.

## What the code does that no document speaks of

What the models had to follow, and what properties are claimed around. None of it
contradicts a line of the repository, unless one is named.

File system and trees:

* Two calls that put one part of the root at once assign its link in any order:
  the later assignment may be the older tree. The same holds for the private log,
  of which both calls take the old one, and for the shared counter, which gives
  two shares one key.
* With version 3, two operations that await the same promise both start from
  its root, and one change is lost. A failed operation leaves its rejected promise
  as the root for good. `historyStep` sets the last root to the one before it is
  rebased. Through a `PublicDirectoryWasm` every change succeeds and then throws,
  because `updateCache` takes the result of `getNode` for a node.
* A call may put and publish the MMPT while another one splits a leaf
  (`mmpt.ts:87-94`), without the name in that leaf, which a call that has returned
  may have put, against `fs/filesystem.ts:538`, the latest version. The next put that
  does not run into an add has it again, if the page is not closed before.
* A data root that is loaded with an empty log is not logged (`filesystem.ts:62`: its
  index, -1, equals `length() - 1`). At the next load it counts as newer
  (`filesystem.ts:75`) than what was made on the device since, which is dropped.
* A chunk of the private log has place for 1020 bytes of hashes, which are read back
  as elements of their own: a new chunk begins after 32 entries (`root/tree.ts:298`).
* When the handler on the pretty tree fails, the public tree has changed in
  memory and goes out with the next call.
* The tree that the root links to is the one whose put ended last, not the one
  that was put last (`root/tree.ts:267`). After overlapping changes the saved CIDs
  in `PublicTree` may not match the skeletons that reads follow, so that a change
  after a reload starts from an older directory.
* Two overlapping writes of one private file, and links assigned without a put,
  leave a gap in the revisions; `back()` (`PrivateHistory.ts:41`) and the search
  stop at it.
* `fileSystem:publish` is emitted for a failed update too (`filesystem.ts:129`).

Sessions:

* Expiry in seconds is compared with milliseconds (`wnfs.ts:99`): each restored
  session adds a UCAN.
* The migration runs again at each version, and old databases are never removed.
* A new file system is not published before the first change to it.
* `recoverFileSystem` stores the session before the data root and the key; in
  `register`, the account is made before the session is stored.
* `RootKey.retrieve` throws where `if (!readKey)` expects null, `getDataRoot`
  rejects at the last retry even with an answer, and opening a session offline always throws
  (`filesystem.ts:50-54`).
* The data root look-up says that it falls back to DNS and does not
  (`data-root.ts:15`). A fetch that fails says null, as for a user without a data root
  (`data-root.ts:55`); messages to the extension then have a user and no root.

Capabilities:

* When a message from elsewhere rejects the first attempt, `collect` never ends:
  the result of the retry goes nowhere. An attempt that has timed out and is
  rejected later starts a second retry.
* `validatePermissions` passes over a root UCAN that is expired or self-signed,
  and `lookupFilesystemUcan` returns it: permissions that were accepted are then of
  no use. So are they for a file whose own UCAN was granted unasked and has expired:
  it is found before that of the directory.
* When the lobby sends back a user and a session of another is stored, both are
  validated, and the stored one wins (`index.ts:592`).
* A page closed between a read key and its filter leaves a session that
  validates and does not load.

Peers and the extension:

* A ping answered after its timer fired starts a second chain, against the
  intention of the comment at `node.ts:229`; an online event starts one more, and
  leaves an entry that is never updated, so that a dead peer counts as connected.
* An empty peer list that was cached makes the next start fail, too.
* After `disconnect` and `connect` nothing is forwarded: the listeners are not
  made anew. Messages carry the id of the first connection, and `connect` and
  `disconnect` report the session of the assembly.
* Messages about a created and a destroyed session may be posted in the other
  order.

## What is proved

For every number of devices, callers, calls, keys, names, outages, faults,
revisions, events, peers' comings and goings, and permissions, from the constants'
assumptions alone. Each theorem has the form *initially, by every step, hence
always*, with one lemma or step per action. The assumptions say that bounds are
numbers, that lists are sequences, that `None` is no number, user, UCAN, version, list or
name of a step, that the user of an older program on the device is not the one who
has a device elsewhere, that `LOG_CHUNK_SIZE`, the size of a hash, `KEEP_TRYING_INTERVAL`, the tries of an exchange and the
lifetime of a UCAN are not zero, and that sharing publishes, as `sharePrivate` always
does.

* `AccountLinking_proofs`: `TypeCorrect`; `ChoiceIsKept` (`OutcomeWasChosen`);
  `PinsAgree` (`PinAgreement`); `KeyIsAtHand` (`SessionKeyAtHand`);
  `AnswersAreSingle` (`AnsweredOnce`). The properties speak of what users see,
  and become inductive once they also say it of what is in flight: `ChoiceInv` of
  every response and call on its way, `AgreementInv` of challenges not yet
  shown, `HandInv` of handlers that will set a step, and `OnceInv` that an
  exchange is in exactly one place, a message, a call, or an answer.
* `Mmpt_proofs`, of `PrivateRevisions`, which takes the MMPT for a set of names (the
  two modules share no name, so that one can extend both): `RevisionsTyped`
  (`RevisionsTypeOK`); `SearchIsCorrect` (`SearchIsCurrent`), by the classic invariant of a search, weakened to what
  stays true while revisions are added: the upper bound was missing when the
  search began; `HistoryIsKept` (`HistoryIsUnbroken` and `LastIsStored`), with
  every revision being stored, in the hands of a mutation, or counted before a
  put that is still to come (`Counted`).
* `Publishing_proofs`: `TypeCorrect`; `OwnVersionsAreKnown` (`OwnRootIsKnown`)
  and `LocalVersionsAreKept` (`LocalVersionIsKept`), from `KnownInv`: what a call
  has put is logged before the debounce, and stored before it is sent or queued, and
  what was loaded and is not logged is not `Known`;
  `AlertIsAccurate` (`AlertCoversUpdate`), from `TokenInv`: the CID of a call is
  in one place at most, so that no answer is taken for another's.
* `FileSystem_proofs`: `Invariance`, and from it `Types` (`TypeOK`), `SavedAlways`
  (`ReturnedIsSaved`), `SharesFound` (`ShareIsFound`) and `KeptPublished`
  (`PublishedIsKept`). A part of the root is in many places at once: in memory, in
  the links, in the published root, and in whatever the running calls have put
  and not yet assigned; the invariant follows all of these copies. `ShapeInv` says
  what each call holds at its stage, and `ClashInv` that of two running calls that
  put the same part, both have it in `clash`. So a call that is alone in a part has
  its mark in memory from its change on, on the link once it is assigned, and in
  what it has put (`MarkInv`); when it returns, on every copy there is (`DoneInv`),
  and if it published, it had taken the proofs (`ProofInv`). The log and the
  counter need more, because their values come from other calls too: a call is in
  no copy of the log before its step (`LogInv`), every copy of the counter is a
  number above the keys it has given out (`CountInv`), and those are no more than
  the calls (`LimitInv`). A copy of the MMPT that is `torn` is no copy to rest on: a
  call's mark is claimed of the others, and of the names in memory, from which every
  later put starts. `LeftIs` says what a reload keeps.
* `PeerConnections_proofs`: `Invariance`, and from it `Types` (`TypeOK`) and
  `Watched` (`PeerIsWatched`). That some task is live is not inductive: an answer
  to a race that is not the latest ends it. The invariant names the task that
  remains: the latest race, which still has its timer or its reconnect
  (`LatestInv`), or else a task that tries or waits (`WaitInv`). `RaceInv` says
  that a reconnect begins when the timer has fired, so that an answer that leaves
  a reconnect behind is a late one and is counted (`CountInv`).
* `Mmpt_proofs`: `Invariance`, and from it `Types` (`TypeOK`), `NamesFound`
  (`NamesAreFound`) and `RootComplete` (`RootIsComplete`). The first half is about
  words and trees: prefixes are an order, of the words that one name starts with
  one is longest, a tree of names is its nodes with the names that end there, and
  one name more adds a leaf (`TreeInsert`) or the nodes down to where it parts from
  another leaf (`TreeSplit`), and changes nothing off its way (`TreeGrows`). The
  invariant says that memory agrees with the one tree of the names put so far
  (`Held`): nodes and leaves (`MemInv`, `LeafInv`), and links to what is not in
  memory (`LinkInv`). Links within memory may be stale, and `OwedInv` says who makes
  them good: a call that is below with its put to come, or is putting what the
  link has to be. Two more parts are what the retry of `putAndUpdateChildLink` rests
  on. `FullInv`: no link that is up to date has a stale one under it. `PutInv`: a
  put that began when the link was up to date puts the same again, so that a put
  that overwrites a good link, though its comparison holds, does no harm. A new
  name on the way makes every earlier link and put stale at once, as none of them
  has the name (`NameInv`).
* `Extension_proofs`: `TypeCorrect`; `EventsAreForwardedOnce` (`ForwardedOnce`),
  from `OnceInv`: at most one set of handlers is registered, and only while
  connected, so that an event on its way has one handler; `MessagesAreTruthful`
  (`MessagesAreTrue`), from `TruthInv`: what the handlers have closed over is the
  session, unless an event came while they were not registered, and what one has
  found so far is true of its event.
* `Capabilities_proofs`: `AcceptedSecretsLoad` (`SecretsLoad`), from `SecretsInv`:
  a key is in the keystore only with its filter in storage or as the next thing
  to be written, and none is removed between the check and the load;
  `AcceptedPermissionsProve` (`ChangesAreProven`), from `ProofsInv`: a page that is
  open has the UCANs that are stored, of which only root UCANs are the device's own,
  and the user whose permissions are checked, just collected or of the stored
  session, has given one of them. The lemmas say what the look-ups return (the last
  UCAN of a resource, the first of the labels), and that the label of a path that was
  asked for is among those of every path below it. The proof needs the condition on
  UCANs that nobody asked for (`Unclouded`): a grant of more than was asked for
  breaks the property without it; `CollectingIsTyped` (`TypeOK`), from `TypesInv`,
  which adds to `ProofsInv` that a filter is stored for a key that is, and
  `ExchangeInv`. The latter bounds the attempts at an exchange: each may be retried
  twice, by its timer and by a message, and a message retries all that listen. It
  names every attempt by a set of tries, the least of which is what the attempt has
  left, and the others those of the attempts before it whose retry came of a message.
  No two have the same name, nor has one the name of a retry that another can still
  make (`Clear`, `RetriesAreNamed`), so there are fewer attempts than sets of tries
  (`AttemptsAreFew`), and no induction over the list is needed.
* `Session_proofs`: `SessionAlways`, and from it `SessionTyped` (`TypeOK`),
  `StoredSessionAlwaysLoads` (`StoredSessionLoads`), `UcanIsOfSession`
  (`UcanOfSession`) and `SessionAlwaysDelegates` (`SessionCanDelegate`). The
  invariant has three parts, each claimed as far as the code keeps it. `Typed` holds
  always: in particular nothing is stored or about to be written for a user without
  an account, and the keys of the two users who have one from elsewhere never change.
  `Alone` holds unless tabs got in each other's way: who links, recovers or destroys
  is the only open tab, and a `destroy` has wiped what its list says so far. `Settled`
  holds while there is no harm and nothing is being destroyed: the account of the
  stored session began with the key of whoever this device's UCANs go back to, its
  read key opens what the data root and the last logged version are encrypted with
  (`StoreSettled`), each open tab is of that session (`TabSettled`), and each list of
  writes has come to a place where the rest of it can be left out (`Links`,
  `Recovers`, `Registers`, `Inherits`, `Publishes`): the session is the last thing to
  be stored that others rest on. A `destroy` that ends makes `Settled` true again
  from the empty store alone, which is why `Settled` need not be followed through it.
  A page that was cut off in it is `harm`, and only `Alone` carries over.

Only model-checked: `PublicTree`, whose serialised skeletons are defined by
recursion, and that it implements `UnixTree`; and every liveness property, since fairness and `ENABLED` are beyond the prover.

## What is not modelled, and the plan

In this order:

1. Proofs: that every file of `UnixTree` has directories above it.
2. Soft links and previous versions in `PublicTree`, nested private directories.

Not modelled, because there is no state or order to check: DNS and HTTP
themselves, WebCrypto, the encodings of nodes, CIDs and DIDs, the list of blocked
user names, calls about apps, feature tests and shorthands of the assembly, the
monitors of the node. Not modelled, because the modules would repeat another one:
the pretty tree (the recursion of the public tree without history), the previous
versions (a chain of loads), accepting a share (a soft link). Out of reach: what
WASM does inside of an operation, IPFS itself, and the validity of signatures.
