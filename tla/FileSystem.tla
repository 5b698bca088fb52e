----------------------------- MODULE FileSystem -----------------------------
(***************************************************************************)
(* A file system and its root tree (src/src/fs/filesystem.ts,              *)
(* src/src/fs/root/tree.ts, src/src/fs/share.ts) under calls that run at   *)
(* the same time, with the public tree of version 3                        *)
(* (src/src/fs/v3/PublicRootWasm.ts) or of an earlier one.                 *)
(*                                                                         *)
(* A call checks its permission, changes the trees in memory, puts them    *)
(* and assigns what was put to the links of the root tree; a publish hands *)
(* the put root to the hooks.  Between the put of a part and the           *)
(* assignment of its link there is an await, and nothing looks whether the *)
(* link has changed meanwhile: a call can undo what an overlapping call    *)
(* has saved.  The properties say what holds all the same.                 *)
(*                                                                         *)
(* A tree is the set of the calls whose change it has (how version 1 makes *)
(* such a change is module PublicTree, how MMPT does is module Mmpt).  An  *)
(* MMPT that is put while another call adds to it may miss names.  The     *)
(* root of version 3 is a promise, replaced by each operation: promise[i]  *)
(* is the i-th of them.                                                    *)
(*                                                                         *)
(* Left out: file systems that are localOnly, which add no proofs and so   *)
(* never publish; the event emitted after a change; failing depots.        *)
(***************************************************************************)
EXTENDS Naturals, Sequences, SequencesExt, FiniteSets

CONSTANTS
  Callers,     \* those who make calls, one at a time each
  Ops,         \* the calls: [kind, path, to, publish, with]
  Held,        \* the possible sets of paths whose private node is loaded
  ChunkSize,   \* LOG_CHUNK_SIZE: elements in a chunk of the private log
  HashSize,    \* elements that an entry is read back as: the bytes of a hash
  MaxCalls,    \* bound: number of calls
  MaxReloads,  \* bound: number of times the page is loaded again
  None         \* null

ASSUME FileSystemAssumption ==
  /\ ChunkSize \in Nat \ {0} /\ HashSize \in Nat \ {0} /\ MaxCalls \in Nat /\ MaxReloads \in Nat
  /\ \A op \in Ops :
       /\ op.path.kind \in {"file", "directory"}
       /\ op.kind = "share" => op.publish
  /\ None \notin Nat

VARIABLES
  wasm,       \* is the public tree of version 3?
  held,       \* paths of the private nodes that permissions cover
  mem,        \* the trees, the log, the shares and the counter in memory
  promise,    \* version 3: the promises that `root' has been, oldest first
  links,      \* links of the root tree: what was last put for each part
  proofs,     \* is there a proof for the next publish?
  published,  \* the links of the root that the hooks were last run with
  call,       \* where each caller's call stands
  calls,      \* number of calls made
  reloads,    \* number of reloads
  done        \* history: calls that returned, with the parts they had alone

vars == <<wasm, held, mem, promise, links, proofs, published, call, calls, reloads, done>>

-----------------------------------------------------------------------------
(* Paths: a partition, the names below it, and a kind. *)
IsFile(path) == path.kind = "file"
SamePartition(p, q) == p.part = q.part

(* The private node of a path or else of the nearest directory above it. *)
FindPrivateNode(path) ==
  LET at(n) == [part |-> "private", kind |-> IF n = Len(path.names) THEN path.kind ELSE "directory",
                names |-> SubSeq(path.names, 1, n)]
      found == {n \in 0..Len(path.names) : at(n) \in held}
  IN IF path.part # "private" \/ found = {} THEN None
     ELSE at(CHOOSE n \in found : \A m \in found : m <= n)

(* Arguments that make a call throw before it does anything. *)
MkdirRefused(op) == op.kind = "mkdir" /\ IsFile(op.path)
WriteRefused(op) == op.kind = "write" /\ ~IsFile(op.path)
LinksRefused(op) == op.kind = "links" /\ IsFile(op.path)
MvRefused(op) == op.kind = "mv" /\ (op.path.kind # op.to.kind \/ ~SamePartition(op.path, op.to))
SymlinkRefused(op) == op.kind = "symlink" /\ (IsFile(op.path) \/ ~SamePartition(op.path, op.to))
ReadRefused(op) == IF IsFile(op.path) THEN op.kind = "ls" ELSE op.kind = "read"

Refused(op) ==
  \/ MkdirRefused(op) \/ WriteRefused(op) \/ LinksRefused(op) \/ MvRefused(op)
  \/ SymlinkRefused(op) \/ ReadRefused(op)

Reads == {"ls", "read", "exists"}

(* A private node that is a file has no place for these. *)
FileNodeRefuses(op, node) == IsFile(node) /\ op.kind \in {"mkdir", "rm", "mv", "symlink"}

(* Version 3 has no soft links: symlink throws, and assigning links finds   *)
(* no updateChild once it has made the directory.                          *)
NoSoftLinks(op) == wasm /\ op.path.part = "public" /\ op.kind = "symlink"
LinksFail(op) == wasm /\ op.path.part = "public" /\ op.kind = "links" /\ op.path.names # << >>

(* The pretty tree takes no soft links. *)
IsPretty(op) == op.kind \notin {"symlink", "links"}

(* Parts of the root tree that a call puts. *)
Parts(op) ==
  (IF op.kind \in Reads THEN {}
   ELSE IF op.kind \in {"historyStep", "inDirectory"} THEN {"public"}
   ELSE IF op.kind = "share" THEN {"private", "shared"}
   ELSE IF op.path.part = "public" THEN {"public", "pretty"}
   ELSE {"private", "log"})
  \union (IF op.publish THEN {"root"} ELSE {})

(* Those of them that then have its mark. *)
Unmarked(op) ==
  CASE op.kind = "historyStep" -> {"public"}
    [] op.path.part = "public" /\ op.kind = "symlink" -> {"pretty"}
    [] op.path.part = "public" /\ op.kind = "links" -> IF wasm THEN {"public", "pretty"} ELSE {"pretty"}
    [] OTHER -> {}

Marked(op) == Parts(op) \ Unmarked(op)

-----------------------------------------------------------------------------
(* The root tree. *)
NoNames == [names |-> {}, torn |-> FALSE]
EmptyLinks == [public |-> {}, pretty |-> {}, private |-> NoNames, log |-> << >>, shared |-> {}, counter |-> None]

(* fromCID: what is in memory after the root with these links was loaded. *)
Loaded(l) ==
  [public |-> l.public, pretty |-> l.pretty, mmpt |-> l.private.names, log |-> l.log,
   shares |-> l.shared, counter |-> IF l.counter = None THEN 1 ELSE l.counter]

RootPromise(value) == <<[state |-> "ok", value |-> value]>>

Rest == [pc |-> "rest", op |-> None, id |-> 0, w |-> "off", pin |-> 0, snap |-> << >>,
         next |-> None, took |-> FALSE, count |-> 0, clash |-> {}]

Init ==
  /\ wasm \in BOOLEAN /\ held \in Held
  /\ links = EmptyLinks /\ mem = Loaded(links) /\ promise = RootPromise({})
  /\ proofs = FALSE /\ published = links
  /\ call = [c \in Callers |-> Rest]
  /\ calls = 0 /\ reloads = 0 /\ done = {}

Become(c, cl) == call' = [call EXCEPT ![c] = cl]
Throw(c) == Become(c, Rest)

(* The call returns: it had those parts alone that no other call changed. *)
Return(c) ==
  LET cl == call[c] IN
  /\ Become(c, Rest)
  /\ done' = done \union {[id |-> cl.id, parts |-> Marked(cl.op) \ cl.clash,
                           with |-> cl.op.with, count |-> cl.count]}

Constant == UNCHANGED <<wasm, held, calls, reloads>>
Inside == Constant /\ UNCHANGED <<published, proofs, done>>

(* Put what is in `snap', assign it to the links, then go on with `next'. *)
Putting(cl, snap, next) == [cl EXCEPT !.pc = "puts", !.snap = snap, !.next = next]

(* atomically, up to its first await: the promise that `root' is now. *)
Grabbing(cl) == [cl EXCEPT !.w = "await", !.pin = Len(promise)]

-----------------------------------------------------------------------------
(* A call begins. *)
Clashing(op, d) == IF call[d].pc = "rest" THEN {} ELSE Parts(op) \cap Parts(call[d].op)

Begin(c, op) ==
  /\ call[c].pc = "rest" /\ calls < MaxCalls
  /\ ~Refused(op)
  /\ op.kind \in {"historyStep", "inDirectory"} => wasm
  /\ calls' = calls + 1
  /\ LET begun == [Rest EXCEPT !.op = op, !.id = calls',
                               !.clash = UNION {Clashing(op, d) : d \in Callers \ {c}}]
     IN call' = [d \in Callers |->
          IF d # c THEN [call[d] EXCEPT !.clash = @ \union Clashing(op, d)]
          ELSE CASE op.kind = "historyStep" -> Grabbing([begun EXCEPT !.pc = "step"])
                 [] op.kind = "inDirectory" -> Grabbing([begun EXCEPT !.pc = "child"])
                 [] op.kind \in {"mv", "share"} \union Reads -> [begun EXCEPT !.pc = "query"]
                 [] OTHER -> [begun EXCEPT !.pc = "check"]]
  /\ UNCHANGED <<wasm, held, mem, promise, links, proofs, published, reloads, done>>

(* There is no proof or an expired one, no private node for the path, or   *)
(* what the query found (or did not) makes the call throw.                 *)
Deny(c) ==
  /\ call[c].pc \in {"query", "check"}
  /\ \E added \in {proofs, TRUE} : proofs' = added
  /\ Throw(c)
  /\ Constant /\ UNCHANGED <<mem, promise, links, published, done>>

(* Mutant: queries add no proof, so a share has none to publish with. *)
AddMutationProof(c) == proofs' = (proofs \/ call[c].pc = "check")

(* checkMutationPermissionAndAddProof *)
AddProof(c) == proofs' = TRUE

(* runOnNode: reads end; mv found its target free; share found its items. *)
Query(c) ==
  /\ call[c].pc = "query"
  /\ LET cl == call[c]
         node == FindPrivateNode(cl.op.path)
     IN /\ cl.op.path.part = "private" => node # None
        /\ Become(c, CASE cl.op.kind = "mv" -> [cl EXCEPT !.pc = "check"]
                       [] cl.op.kind = "share" -> [cl EXCEPT !.pc = "share"]
                       [] OTHER -> Rest)
  /\ AddProof(c)
  /\ Constant /\ UNCHANGED <<mem, promise, links, published, done>>

(* runMutationOnNode, with the proof that was found. *)
Check(c) ==
  /\ call[c].pc = "check"
  /\ LET cl == call[c]
         node == FindPrivateNode(cl.op.path)
     IN CASE cl.op.path.part = "private" ->
               /\ node # None /\ ~FileNodeRefuses(cl.op, node)
               /\ Become(c, [cl EXCEPT !.pc = "private"])
          [] cl.op.path.part = "public" ->
               /\ ~NoSoftLinks(cl.op)
               /\ Become(c, IF LinksFail(cl.op) THEN Grabbing([cl EXCEPT !.pc = "child"])
                            ELSE IF wasm /\ cl.op.kind = "links" THEN [cl EXCEPT !.pc = "pretty"]
                            ELSE IF wasm THEN Grabbing([cl EXCEPT !.pc = "public"])
                            ELSE [cl EXCEPT !.pc = "public"])
          [] OTHER -> FALSE
  /\ AddProof(c)
  /\ Constant /\ UNCHANGED <<mem, promise, links, published, done>>

(* The handler, or an operation on the root of version 3, throws: a        *)
(* rejected promise stays in `root', and everything on it throws from now. *)
Fail(c) ==
  /\ call[c].pc \in {"public", "pretty", "private", "step", "child"} /\ call[c].w # "await"
  /\ promise' = IF call[c].w = "pending" THEN [promise EXCEPT ![call[c].pin].state = "failed"]
                ELSE promise
  /\ Throw(c)
  /\ Inside /\ UNCHANGED <<mem, links>>

-----------------------------------------------------------------------------
(* Version 3.  The awaited promise is settled: fn(root) replaces `root'. *)
Settled(c) == promise[call[c].pin].state # "pending"

(* Mutant: fn is called with the root that was last stepped from. *)
StaleRoot(c) == promise[1].value

AwaitedRoot(c) == promise[call[c].pin].value

Atomically(c) ==
  /\ call[c].w = "await" /\ Settled(c)
  /\ IF promise[call[c].pin].state = "failed" THEN Throw(c) /\ UNCHANGED promise
     ELSE /\ promise' = Append(promise, [state |-> "pending", value |-> AwaitedRoot(c)])
          /\ Become(c, [call[c] EXCEPT !.w = "pending", !.pin = Len(promise')])
  /\ Inside /\ UNCHANGED <<mem, links>>

(* mkdir, add, rm, mv: the promise is fulfilled with the changed root. *)
Changed(c) ==
  /\ call[c].w = "pending"
  /\ promise' = [promise EXCEPT ![call[c].pin] =
                   [state |-> "ok", value |-> @.value \union {call[c].id}]]
  /\ Inside /\ UNCHANGED <<mem, links>>

Fulfil(c) ==
  call[c].pc = "public" /\ Changed(c) /\ Become(c, [call[c] EXCEPT !.pc = "pretty", !.w = "off"])

(* Through a PublicDirectoryWasm the call throws afterwards: updateCache   *)
(* takes the result of getNode for a node.                                 *)
FulfilInDirectory(c) == call[c].pc = "child" /\ Changed(c) /\ Throw(c)

(* historyStep rebases the root; a put then awaits `root' once more ... *)
HistoryStep(c) ==
  /\ call[c].w = "pending" /\ call[c].pc \in {"puts", "step"}
  /\ promise' = [promise EXCEPT ![call[c].pin].state = "ok"]
  /\ IF call[c].pc = "step" THEN Return(c)
     ELSE Become(c, [call[c] EXCEPT !.w = "stepped", !.pin = Len(promise)]) /\ UNCHANGED done
  /\ Constant /\ UNCHANGED <<published, proofs, mem, links>>

(* ... and stores what it then is. *)
StoreRoot(c) ==
  /\ call[c].w = "stepped" /\ Settled(c)
  /\ IF promise[call[c].pin].state = "failed" THEN Throw(c)
     ELSE Become(c, [call[c] EXCEPT !.w = "off",
            !.snap = [p \in DOMAIN @ \union {"public"} |->
                        IF p = "public" THEN AwaitedRoot(c) ELSE @[p]]])
  /\ Inside /\ UNCHANGED <<mem, promise, links>>

-----------------------------------------------------------------------------
(* The handler on the public tree of an earlier version ... *)
ChangePublic(c) ==
  /\ call[c].pc = "public" /\ ~wasm
  /\ mem' = [mem EXCEPT !.public = @ \union {call[c].id}]
  /\ Become(c, [call[c] EXCEPT !.pc = "pretty"])
  /\ Inside /\ UNCHANGED <<promise, links>>

(* ... and on the pretty tree; then both are put, at the same time. *)
ChangePretty(c) ==
  /\ call[c].pc = "pretty"
  /\ mem' = [mem EXCEPT !.pretty = IF IsPretty(call[c].op) THEN @ \union {call[c].id} ELSE @]
  /\ Become(c, LET both == [public |-> mem.public, pretty |-> mem'.pretty]
                   next == IF call[c].op.publish THEN "publish" ELSE "return"
               IN IF wasm THEN Grabbing(Putting(call[c], [p \in {"pretty"} |-> both[p]], next))
                  ELSE Putting(call[c], both, next))
  /\ Inside /\ UNCHANGED <<promise, links>>

(* Calls other than c that may be adding a name to the MMPT. *)
Adding(c) == {d \in Callers \ {c} : call[d].pc \in {"private", "share"}}

(* What a put of the MMPT stores.  A call that adds a name next to another *)
(* one takes that one out of the links, until the child with both is put:  *)
(* what is put meanwhile lacks it.  `torn' is history: a call was adding.  *)
(* That the name being added may be in the put already is left out: it is  *)
(* in every put of the call that adds it.                                  *)
Puts(c, names) ==
  {[names |-> names \ Range(taken), torn |-> Adding(c) # {}] :
     taken \in [Adding(c) -> names \union {None}]}

(* The handler on a private node, and its put into the MMPT. *)
ChangePrivate(c) ==
  /\ call[c].pc = "private"
  /\ mem' = [mem EXCEPT !.mmpt = @ \union {call[c].id}]
  /\ \E put \in Puts(c, mem'.mmpt) :
       Become(c, Putting(call[c], [p \in {"private"} |-> put], "log"))
  /\ Inside /\ UNCHANGED <<promise, links>>

(* updateLink; a log that was put also becomes the one in memory. *)
UpdateLink(c, part) ==
  /\ call[c].pc = "puts" /\ part \in DOMAIN call[c].snap
  /\ links' = [links EXCEPT ![part] = call[c].snap[part]]
  /\ mem' = IF part = "log" THEN [mem EXCEPT !.log = call[c].snap[part]] ELSE mem
  /\ Become(c, [call[c] EXCEPT !.snap = [p \in DOMAIN @ \ {part} |-> @[p]]])
  /\ Inside /\ UNCHANGED promise

(* Mutant: the last entry of a chunk is not counted. *)
OverfullChunk(log, id) ==
  IF log = << >> \/ HashSize * (Len(Last(log)) - 1) + 1 > ChunkSize THEN Append(log, <<id>>)
  ELSE [log EXCEPT ![Len(log)] = Append(@, id)]

(* The log with an entry more, in a new chunk if the last one has no place *)
(* for an element.  The bytes of a hash are joined by commas as the        *)
(* entries are, so a chunk is read back as the bytes of all of its hashes. *)
WithEntry(log, id) ==
  IF log = << >> \/ HashSize * Len(Last(log)) + 1 > ChunkSize THEN Append(log, <<id>>)
  ELSE [log EXCEPT ![Len(log)] = Append(@, id)]

(* addPrivateLogEntry takes the log before its awaits. *)
AddPrivateLogEntry(c) ==
  /\ call[c].pc = "puts" /\ call[c].snap = << >> /\ call[c].next = "log"
  /\ Become(c, Putting(call[c], [p \in {"log"} |-> WithEntry(mem.log, call[c].id)],
                       IF call[c].op.publish THEN "publish" ELSE "return"))
  /\ Inside /\ UNCHANGED <<mem, promise, links>>

EndCall(c) ==
  /\ call[c].pc = "puts" /\ call[c].w = "off" /\ call[c].snap = << >> /\ call[c].next = "return"
  /\ Return(c)
  /\ Constant /\ UNCHANGED <<mem, promise, links, proofs, published>>

-----------------------------------------------------------------------------
(* Sharing.  A share key is a hash of recipient, sender and counter. *)
Key(share) == <<share.with, share.count>>

(* loadShare: what a recipient finds under the id of a share. *)
LoadShare(shared, with, count) == {s.item : s \in {t \in shared : Key(t) = <<with, count>>}}

(* The counter is read, and the index of the items put and added to MMPT. *)
AddIndex(c) ==
  /\ call[c].pc = "share"
  /\ mem' = [mem EXCEPT !.mmpt = @ \union {call[c].id}]
  /\ Become(c, [call[c] EXCEPT !.pc = "index", !.count = mem.counter])
  /\ Inside /\ UNCHANGED <<promise, links>>

(* A share under a key that is there already takes its place. *)
WithShare(shares, share) == {s \in shares : Key(s) # Key(share)} \union {share}

AddShares(c) ==
  /\ call[c].pc = "index"
  /\ mem' = [mem EXCEPT !.shares = WithShare(@, [with |-> call[c].op.with, count |-> call[c].count,
                                                 item |-> call[c].id])]
  /\ Become(c, Putting(call[c], [p \in {"shared"} |-> mem'.shares], "bump"))
  /\ Inside /\ UNCHANGED <<promise, links>>

(* Mutant: the counter is counted up in memory only. *)
CounterInMemory(cl, counter) == Putting(cl, << >>, "mmpt")

SetSharedCounter(cl, counter) == Putting(cl, [p \in {"counter"} |-> counter], "mmpt")

BumpSharedCounter(c) ==
  /\ call[c].pc = "puts" /\ call[c].snap = << >> /\ call[c].next = "bump"
  /\ mem' = [mem EXCEPT !.counter = @ + 1]
  /\ Become(c, SetSharedCounter(call[c], mem.counter + 1))
  /\ Inside /\ UNCHANGED <<promise, links>>

PutShared(c) ==
  /\ call[c].pc = "puts" /\ call[c].snap = << >> /\ call[c].next = "mmpt"
  /\ \E put \in Puts(c, mem.mmpt) :
       Become(c, Putting(call[c], [p \in {"private"} |-> put], "publish"))
  /\ Inside /\ UNCHANGED <<mem, promise, links>>

-----------------------------------------------------------------------------
(* publish takes the proofs, puts the root as its links now are ... *)
BeginPublish(c) ==
  /\ call[c].pc = "puts" /\ call[c].w = "off" /\ call[c].snap = << >> /\ call[c].next = "publish"
  /\ proofs' = FALSE
  /\ Become(c, [call[c] EXCEPT !.pc = "publish", !.took = proofs, !.snap = links])
  /\ Constant /\ UNCHANGED <<mem, promise, links, published, done>>

(* ... and runs the hooks once for each proof. *)
EndPublish(c) ==
  /\ call[c].pc = "publish"
  /\ published' = IF call[c].took THEN call[c].snap ELSE published
  /\ Return(c)
  /\ Constant /\ UNCHANGED <<mem, promise, links, proofs>>

(* What of the calls that returned a reload leaves: those that the         *)
(* published root has, without their private names if it may miss some.    *)
Left(r) == [r EXCEPT !.parts = @ \ IF published.private.torn THEN {"private"} ELSE {}]

(* The page is closed, with whatever runs; the published root is loaded. *)
Reload ==
  /\ reloads < MaxReloads /\ reloads' = reloads + 1
  /\ links' = published /\ mem' = Loaded(published) /\ promise' = RootPromise(published.public)
  /\ proofs' = FALSE
  /\ call' = [c \in Callers |-> Rest]
  /\ done' = {Left(r) : r \in {s \in done : "root" \in s.parts}}
  /\ UNCHANGED <<wasm, held, published, calls>>

Step(c) ==
  \/ Deny(c) \/ Query(c) \/ Check(c) \/ Fail(c)
  \/ Atomically(c) \/ Fulfil(c) \/ FulfilInDirectory(c) \/ HistoryStep(c) \/ StoreRoot(c)
  \/ ChangePublic(c) \/ ChangePretty(c) \/ ChangePrivate(c)
  \/ \E part \in DOMAIN links : UpdateLink(c, part)
  \/ AddPrivateLogEntry(c) \/ EndCall(c)
  \/ AddIndex(c) \/ AddShares(c) \/ BumpSharedCounter(c) \/ PutShared(c)
  \/ BeginPublish(c) \/ EndPublish(c)

Next ==
  \/ \E c \in Callers, op \in Ops : Begin(c, op)
  \/ \E c \in Callers : Step(c)
  \/ Reload

Spec == Init /\ [][Next]_vars

-----------------------------------------------------------------------------
(* Every variable has its type; a chunk has one entry more at most than    *)
(* there is place for (LOG_CHUNK_SIZE, tree.ts:286: 32 of 32 bytes each in *)
(* 1020); the promise that `root' is now is the only one that later calls  *)
(* await, and it exists.                                                   *)
TypeOK ==
  /\ wasm \in BOOLEAN /\ proofs \in BOOLEAN /\ held \in Held
  /\ calls \in 0..MaxCalls /\ reloads \in 0..MaxReloads
  /\ DOMAIN links = DOMAIN EmptyLinks /\ DOMAIN published = DOMAIN EmptyLinks
  /\ mem.counter \in 1..(MaxCalls + 1)
  /\ \A chunk \in Range(mem.log) : Len(chunk) >= 1 /\ HashSize * (Len(chunk) - 1) < ChunkSize
  /\ \A i \in 1..Len(promise) : promise[i].state \in {"pending", "ok", "failed"}
  /\ \A c \in Callers : call[c].w # "off" => call[c].pin \in 1..Len(promise)

(* Does a root with the links l have what the returned call r did? *)
Has(l, r, part) ==
  CASE part = "log" -> Cardinality({i \in 1..Len(l.log) : r.id \in Range(l.log[i])}) = 1
    [] part = "shared" -> LoadShare(l.shared, r.with, r.count) = {r.id}
    [] part = "private" -> r.id \in l.private.names
    [] OTHER -> r.id \in l[part]

(* May l miss names, for it was put while another call was adding one? *)
Torn(l, part) == part = "private" /\ l.private.torn

Alone(r) == r.parts \ {"root"}

(* A call that returned stays saved in every part of the root that no other *)
(* call changed while it ran, whatever later calls overlap, fail or throw;  *)
(* but the private part may miss it for as long as the last put of it was   *)
(* one that ran into another call's add: the next that did not has it again *)
(* (FileSystem.runMutationOnNode, RootTree.updatePuttable,                  *)
(* addPrivateLogEntry, PublicRootWasm.atomically).                         *)
ReturnedIsSaved ==
  \A r \in done : \A part \in Alone(r) \ {"shared"} : Torn(links, part) \/ Has(links, r, part)

(* A recipient finds a returned share under its id, and it alone, in the    *)
(* current and in the published root, and after a reload, unless another    *)
(* share was being made at the same time (FileSystem.sharePrivate,          *)
(* loadShare, RootTree.bumpSharedCounter).                                 *)
ShareIsFound ==
  \A r \in done : "shared" \in r.parts =>
    /\ Has(links, r, "shared")
    /\ "root" \in r.parts => Has(published, r, "shared")

(* What a call published while no other one did stays published, through    *)
(* later calls and reloads, but for a private part as above: names it       *)
(* misses come back with the next one published that does not, unless the   *)
(* page is closed before (FileSystem.publish).                             *)
PublishedIsKept ==
  \A r \in done : "root" \in r.parts =>
    \A part \in Alone(r) : Torn(published, part) \/ Has(published, r, part)
=============================================================================
