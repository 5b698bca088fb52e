----------------------------- MODULE PublicTree -----------------------------
(***************************************************************************)
(* The public part of a file system (src/src/fs/v1/PublicTree.ts and the   *)
(* recursion over paths of src/src/fs/base/tree.ts) under calls of add,    *)
(* mkdir, rm and mv that may run at the same time.                         *)
(*                                                                         *)
(* A directory is an instance in memory that keeps the child instances it  *)
(* has met, and for each name an entry of its skeleton: the CID that the   *)
(* child was last put under, and the skeleton of the child, which is the   *)
(* very object that the child goes on changing.  Reads follow the          *)
(* skeletons; changes follow the child instances and, where there is none, *)
(* load the child from its CID.                                            *)
(*                                                                         *)
(* A CID stands for the content that was put: a file's content, or a       *)
(* directory's skeleton as it was when it was serialised.  A put is        *)
(* two awaits, before and after the skeleton is read.  After a change, all *)
(* directories up to the root are put in turn, each into its parent.       *)
(*                                                                         *)
(* Left out: the links next to the skeleton, which are assigned with it,   *)
(* metadata and previous versions, soft links, and the pretty tree, on     *)
(* which the same recursion runs.                                          *)
(***************************************************************************)
EXTENDS Naturals, Sequences, SequencesExt, FiniteSets

CONSTANTS
  Callers,     \* those who make calls, one at a time each
  Names,       \* names of files and directories
  MaxDepth,    \* bound: length of a path
  Ops,         \* the calls: [kind, path, to]
  Plans,       \* who may make which of them in a behaviour, and how often the page is
               \* loaded again: [callers, ops, reloads]
  Loaded,      \* skeletons of the trees that are loaded to begin with
  MaxCalls,    \* bound: number of calls
  Absent,      \* nothing is there
  Dir,         \* a directory is there
  None         \* null

ASSUME PublicTreeAssumption ==
  /\ \A op \in Ops : op.kind \in {"add", "mkdir", "rm", "mv"} /\ op.path # << >>
  /\ \A p \in Plans : p.callers \subseteq Callers /\ p.ops \subseteq Ops /\ p.reloads \in Nat
  /\ MaxDepth \in Nat \ {0} /\ MaxCalls \in Nat
  /\ Absent # Dir

VARIABLES
  plan,     \* the plan of this behaviour
  node,     \* the directory instances; the first is the root
  call,     \* where each caller's call stands
  saved,    \* skeleton of the tree that the file system's root links to
  calls,    \* number of calls made
  reloads,  \* number of reloads
  shown,    \* history: what reads saw when the last call ended
  recent    \* history: per path, what calls that nothing superseded wrote there

vars == <<plan, node, call, saved, calls, reloads, shown, recent>>

Root == 1
(* Contents of files: the number of the call that wrote them; 0 was loaded. *)
Contents == 0..MaxCalls
Paths == UNION {[1..n -> Names] : n \in 1..MaxDepth}

Empty == [n \in Names |-> None]
FileItem(content) == [isFile |-> TRUE, ref |-> content]
DirItem(id) == [isFile |-> FALSE, ref |-> id]
Instance(skeleton) == [children |-> Empty, skeleton |-> skeleton]

(* The skeleton behind an entry: the object shared with an instance, or    *)
(* what was read from the depot.                                           *)
SubSkeleton(e) == IF e.shared = None THEN e.sub ELSE node[e.shared].skeleton

(* A skeleton as it is serialised. *)
RECURSIVE Frozen(_)
Frozen(skeleton) ==
  [n \in Names |-> IF skeleton[n] = None THEN None
                   ELSE [skeleton[n] EXCEPT !.shared = None,
                                            !.sub = Frozen(SubSkeleton(skeleton[n]))]]

(* getRecurse: the entry at a path of one name or more. *)
GetRecurse(skeleton, path) ==
  LET into(s, n) == IF s = None \/ s[n] = None THEN None ELSE SubSkeleton(s[n])
      last == FoldLeft(into, skeleton, Front(path))
  IN IF last = None THEN None ELSE last[Last(path)]

Get(path) == GetRecurse(node[Root].skeleton, path)

(* The entry at a path when each directory is loaded from its CID. *)
Fetched(skeleton, path) ==
  LET into(s, n) == IF s = None \/ s[n] = None \/ s[n].isFile THEN None ELSE s[n].cid
      last == FoldLeft(into, skeleton, Front(path))
  IN IF last = None THEN None ELSE last[Last(path)]

Kind(e) == IF e = None THEN Absent ELSE IF e.isFile THEN e.cid ELSE Dir
View == [p \in Paths |-> Kind(Get(p))]
ViewOf(skeleton) == [p \in Paths |-> Kind(GetRecurse(skeleton, p))]
FetchedView(skeleton) == [p \in Paths |-> Kind(Fetched(skeleton, p))]

-----------------------------------------------------------------------------
(* Calls.  A walk goes down `path' from the root: `chain' has the instances *)
(* met so far.  A put is of `item' into `host' under `name'; `level' is the *)
(* place of `host' in the chain, or in the target path of a move.          *)

Rest == [pc |-> "rest", op |-> None, content |-> 0, walk |-> None, path |-> << >>, chain |-> << >>,
         found |-> None, changed |-> FALSE, host |-> Root, name |-> None, item |-> None,
         level |-> 0, snapshot |-> None, moved |-> None, before |-> {}]

Init ==
  /\ plan \in Plans /\ saved \in Loaded
  /\ node = <<Instance(saved)>>
  /\ call = [c \in Callers |-> Rest]
  /\ calls = 0 /\ reloads = 0
  /\ shown = View
  /\ recent = [p \in Paths |-> {shown[p]}]

Goto(c, pc) == call' = [call EXCEPT ![c].pc = pc]

Walking(cl, walk, path) ==
  [cl EXCEPT !.pc = "look", !.walk = walk, !.path = path, !.chain = <<Root>>, !.changed = FALSE]

(* runMutationOnNode, up to the first await; mv asks for its target first. *)
Call(c, op) ==
  /\ call[c].pc = "rest" /\ calls < MaxCalls
  /\ calls' = calls + 1
  /\ call' = [call EXCEPT ![c] =
       LET begun == [Rest EXCEPT !.op = op, !.content = calls', !.before = recent[op.path]]
       IN IF op.kind = "mv" THEN [begun EXCEPT !.pc = "exists"]
          ELSE Walking(begun, op.kind, op.path)]
  /\ UNCHANGED <<plan, node, saved, reloads, shown, recent>>

(* The call throws: what it changed in memory stays, and is not saved. *)
Throw(c) ==
  /\ call' = [call EXCEPT ![c] = Rest]
  /\ shown' = View'
  /\ UNCHANGED <<plan, saved, calls, reloads, recent>>

Busy == UNCHANGED <<plan, saved, calls, reloads, shown, recent>>

Top(c) == call[c].chain[Len(call[c].chain)]
Name(c) == call[c].path[Len(call[c].chain)]
AtEnd(c) == Len(call[c].chain) = Len(call[c].path)

(* A walk is over: the call goes on to its next part. *)
WalkedOn(cl) ==
  CASE cl.op.kind # "mv" -> [cl EXCEPT !.pc = "save"]
    [] cl.walk = "mkdir" -> Walking(cl, "rm", cl.op.path)
    [] OTHER -> [cl EXCEPT !.pc = "insert", !.walk = "insert", !.level = Len(cl.op.to), !.item = cl.moved]

(* Mutant: the directories above are not put. *)
ClimbingNot(cl) == IF cl.changed THEN WalkedOn(cl) ELSE [cl EXCEPT !.pc = "look"]

(* onUpdate: the directory at `level' + 1 of the chain is put into the one *)
(* above it; above the root the walk goes on, or ends if its change is made. *)
Climbing(cl) ==
  CASE cl.level > 0 -> [cl EXCEPT !.pc = "put", !.host = cl.chain[cl.level],
                                  !.name = cl.path[cl.level],
                                  !.item = DirItem(cl.chain[cl.level + 1])]
    [] cl.level = 0 /\ cl.changed -> WalkedOn(cl)
    [] OTHER -> [cl EXCEPT !.pc = "look"]

(* updateDirectChild, up to the first await of the put. *)
Adopt(host, name, item) == [node EXCEPT ![host].children[name] = item]

Putting(cl, host, name, item) ==
  [cl EXCEPT !.pc = "put", !.host = host, !.name = name, !.item = item]

-----------------------------------------------------------------------------
(* getDirectChild: the cached child, null, or one that has to be loaded. *)
Look(c) ==
  /\ call[c].pc = "look" /\ ~(call[c].walk = "rm" /\ AtEnd(c))
  /\ LET child == node[Top(c)].children[Name(c)]
         info == node[Top(c)].skeleton[Name(c)]
     IN call' = [call EXCEPT ![c].found = IF child # None THEN child ELSE info,
                             ![c].pc = IF child = None /\ info # None THEN "load" ELSE "act"]
  /\ Busy /\ UNCHANGED node

(* Mutant: the second look at `children' is left out. *)
NotAddedMeanwhile(c) == FALSE

AddedMeanwhile(c) == node[Top(c)].children[Name(c)] # None

(* The child was loaded; one that was added meanwhile is kept instead. *)
Load(c) ==
  /\ call[c].pc = "load"
  /\ LET child == node[Top(c)].children[Name(c)]
         info == call[c].found
         item == IF info.isFile THEN FileItem(info.cid) ELSE DirItem(Len(node) + 1)
         more == IF info.isFile THEN node ELSE Append(node, Instance(info.cid))
     IN IF AddedMeanwhile(c)
        THEN /\ call' = [call EXCEPT ![c].pc = "act", ![c].found = child]
             /\ UNCHANGED node
        ELSE /\ call' = [call EXCEPT ![c].pc = "act", ![c].found = item]
             /\ node' = [more EXCEPT ![Top(c)].children[Name(c)] = item]
  /\ Busy

Descend(c, id) ==
  LET cl == [call[c] EXCEPT !.chain = Append(@, id)]
  IN call' = [call EXCEPT ![c] = IF AtEnd(c) THEN WalkedOn(cl) ELSE [cl EXCEPT !.pc = "look"]]

(* createOrUpdateChildFile *)
PutFile(c) ==
  /\ call[c].pc = "act" /\ call[c].walk = "add" /\ AtEnd(c)
  /\ call[c].found # None => call[c].found.isFile
  /\ LET file == FileItem(call[c].content)
     IN /\ node' = Adopt(Top(c), Name(c), file)
        /\ call' = [call EXCEPT ![c] = [Putting(@, Top(c), Name(c), file)
                                          EXCEPT !.level = Len(call[c].chain), !.changed = TRUE]]
  /\ Busy

(* getOrCreateDirectChild, where there is a directory already: createChildTree *)
(* returns one that was added after it was looked for.                       *)
Enter(c) ==
  /\ call[c].pc = "act" /\ ~(call[c].walk = "add" /\ AtEnd(c))
  /\ LET child == IF call[c].found = None /\ call[c].walk # "rm"
                  THEN node[Top(c)].children[Name(c)] ELSE call[c].found
     IN child # None /\ ~child.isFile /\ Descend(c, child.ref)
  /\ Busy /\ UNCHANGED node

(* createChildTree, where there is none. *)
CreateDir(c) ==
  /\ call[c].pc = "act" /\ ~(call[c].walk = "add" /\ AtEnd(c)) /\ call[c].walk # "rm"
  /\ call[c].found = None /\ node[Top(c)].children[Name(c)] = None
  /\ LET id == Len(node) + 1
     IN /\ node' = [Append(node, Instance(Empty)) EXCEPT
                      ![Top(c)].children[Name(c)] = DirItem(id)]
        /\ call' = [call EXCEPT ![c] =
             [Putting(@, Top(c), Name(c), DirItem(id))
                EXCEPT !.level = Len(call[c].chain), !.chain = Append(@, id), !.changed = AtEnd(c)]]
  /\ Busy

(* A file stands in the way, or for an add a directory, or for rm nothing. *)
Obstructed(c) ==
  /\ call[c].pc = "act"
  /\ LET found == call[c].found
         now == node[Top(c)].children[Name(c)]
     IN CASE call[c].walk = "add" /\ AtEnd(c) -> found # None /\ ~found.isFile
          [] found # None -> found.isFile
          [] call[c].walk = "rm" -> TRUE
          [] OTHER -> now # None /\ now.isFile
  /\ UNCHANGED node /\ Throw(c)

(* Mutant: the cached instance is not forgotten. *)
RemovedFromLinks(host, name) == [node EXCEPT ![host].skeleton[name] = None]

RemoveDirectChild(host, name) ==
  [node EXCEPT ![host].children[name] = None, ![host].skeleton[name] = None]

(* rmRecurse at the end of its path, and the climb that follows. *)
RemoveTarget(c) ==
  /\ call[c].pc = "look" /\ call[c].walk = "rm" /\ AtEnd(c)
  /\ node' = RemoveDirectChild(Top(c), Name(c))
  /\ call' = [call EXCEPT ![c] = Climbing([@ EXCEPT !.level = Len(call[c].chain) - 1, !.changed = TRUE])]
  /\ Busy

-----------------------------------------------------------------------------
(* putDetailed: the skeleton is read after the first await ... *)
Serialise(c) ==
  /\ call[c].pc = "put"
  /\ LET item == call[c].item
     IN call' = [call EXCEPT ![c].pc = "putting",
                   ![c].snapshot = IF item.isFile THEN item.ref ELSE Frozen(node[item.ref].skeleton)]
  /\ Busy /\ UNCHANGED node

(* Mutant: a file has a skeleton to share, too. *)
EntryShared(item, cid) ==
  [isFile |-> item.isFile, cid |-> cid, sub |-> Empty, shared |-> item.ref]

EntryFor(item, cid) ==
  [isFile |-> item.isFile, cid |-> cid, sub |-> Empty,
   shared |-> IF item.isFile THEN None ELSE item.ref]

(* ... and updateLink assigns what was put to the parent, which then is put *)
(* in turn; a move puts the parent of its target instead.                  *)
UpdateLink(c) ==
  /\ call[c].pc = "putting"
  /\ node' = [node EXCEPT ![call[c].host].skeleton[call[c].name] =
                EntryFor(call[c].item, call[c].snapshot)]
  /\ call' = [call EXCEPT ![c] =
       CASE @.walk # "insert" -> Climbing([@ EXCEPT !.level = @ - 1])
         [] @.level > 1 -> [@ EXCEPT !.pc = "insert", !.item = DirItem(call[c].host), !.level = @ - 1]
         [] OTHER -> [@ EXCEPT !.pc = "save"]]
  /\ Busy

-----------------------------------------------------------------------------
(* mv: FileSystem.mv asks whether the target exists. *)
AskTarget(c) ==
  /\ call[c].pc = "exists"
  /\ UNCHANGED node
  /\ IF Get(call[c].op.to) # None THEN Throw(c) ELSE Goto(c, "get") /\ Busy

(* get makes an instance of its own of what is behind the entry's CID. *)
FreshItem(e) == IF e.isFile THEN FileItem(e.cid) ELSE DirItem(Len(node) + 1)
WithFresh(e) == IF e.isFile THEN node ELSE Append(node, Instance(e.cid))

GetMoved(c) ==
  /\ call[c].pc = "get"
  /\ LET e == Get(call[c].op.path)
     IN IF e = None THEN UNCHANGED node /\ Throw(c)
        ELSE /\ node' = WithFresh(e)
             /\ call' = [call EXCEPT ![c].pc = "parent", ![c].moved = FreshItem(e)]
             /\ Busy

(* The parent of the target is made if it is not there; then `from' goes. *)
GetParent(c) ==
  /\ call[c].pc = "parent" /\ UNCHANGED node
  /\ LET parent == Front(call[c].op.to)
         e == IF parent = << >> THEN None ELSE Get(parent)
     IN IF e # None /\ e.isFile THEN Throw(c)
        ELSE /\ call' = [call EXCEPT ![c] =
                  IF e = None /\ parent # << >> THEN Walking(@, "mkdir", parent)
                  ELSE Walking(@, "rm", @.op.path)]
             /\ Busy

(* The moved node is put into its new parent, that one into its own parent, *)
(* and so on: each is an instance of its own, except for the root.         *)
Insert(c) ==
  /\ call[c].pc = "insert"
  /\ LET cl == call[c]
         name == cl.op.to[cl.level]
         e == Get(SubSeq(cl.op.to, 1, cl.level - 1))
     IN CASE cl.level = 1 ->
               /\ node' = Adopt(Root, name, cl.item)
               /\ call' = [call EXCEPT ![c] = Putting(cl, Root, name, cl.item)]
               /\ Busy
          [] cl.level > 1 /\ e # None /\ ~e.isFile ->
               /\ node' = [WithFresh(e) EXCEPT ![Len(node) + 1].children[name] = cl.item]
               /\ call' = [call EXCEPT ![c] = Putting(cl, Len(node) + 1, name, cl.item)]
               /\ Busy
          [] OTHER -> UNCHANGED node /\ Throw(c)

-----------------------------------------------------------------------------
(* updatePuttable: the root is put, and the root tree's link to it assigned. *)
Save(c) ==
  /\ call[c].pc = "save"
  /\ call' = [call EXCEPT ![c].pc = "saving", ![c].snapshot = Frozen(node[Root].skeleton)]
  /\ Busy /\ UNCHANGED node

Return(c) ==
  /\ call[c].pc = "saving"
  /\ saved' = call[c].snapshot
  /\ call' = [call EXCEPT ![c] = Rest]
  /\ shown' = View
  /\ recent' = [p \in Paths |->
       IF call[c].op.kind = "add" /\ call[c].op.path = p
       THEN (recent[p] \ call[c].before) \union {call[c].content} ELSE recent[p]]
  /\ UNCHANGED <<plan, node, calls, reloads>>

(* The page is closed, with whatever runs, and the saved tree loaded again. *)
Reload ==
  /\ reloads < plan.reloads /\ reloads' = reloads + 1
  /\ node' = <<Instance(saved)>>
  /\ call' = [c \in Callers |-> Rest]
  /\ shown' = View'
  /\ recent' = [p \in Paths |-> {shown'[p]}]
  /\ UNCHANGED <<plan, saved, calls>>

Step(c) ==
  \/ Look(c) \/ Load(c) \/ PutFile(c) \/ Enter(c) \/ CreateDir(c) \/ Obstructed(c)
  \/ RemoveTarget(c) \/ Serialise(c) \/ UpdateLink(c)
  \/ AskTarget(c) \/ GetMoved(c) \/ GetParent(c) \/ Insert(c)
  \/ Save(c) \/ Return(c)

Next ==
  \/ \E c \in plan.callers, op \in plan.ops : Call(c, op)
  \/ \E c \in Callers : Step(c)
  \/ Reload

Spec == Init /\ [][Next]_vars

AtRest == \A c \in Callers : call[c].pc = "rest"
OneAtATime == Cardinality(plan.callers) = 1

-----------------------------------------------------------------------------
(* Every call that runs is at an instance that exists, and every skeleton   *)
(* entry is null, a file, or a directory with an instance or a skeleton.    *)
TypeOK ==
  /\ DOMAIN call = Callers
  /\ \A c \in Callers :
       /\ call[c].pc \in {"rest", "look", "load", "act", "put", "putting", "exists", "get",
                          "parent", "insert", "save", "saving"}
       /\ call[c].host \in 1..Len(node)
       /\ \A i \in 1..Len(call[c].chain) : call[c].chain[i] \in 1..Len(node)
  /\ \A i \in 1..Len(node), n \in Names :
       LET e == node[i].skeleton[n]
       IN e # None => IF e.isFile THEN e.shared = None ELSE e.shared \in 1..Len(node) \union {None}
  /\ calls \in 0..MaxCalls /\ reloads \in 0..plan.reloads

(* Calls one at a time: once none runs, the directory that the CID of an entry leads to is    *)
(* the one that its skeleton shows, all the way down: what a change finds,  *)
(* which loads children from CIDs, is what a read has seen                  *)
(* (PublicTree.get, PublicTree.getDirectChild).                             *)
CidsMatchSkeletons == AtRest /\ OneAtATime => FetchedView(node[Root].skeleton) = View

(* A read never misses a write that has returned: it sees the last one, or  *)
(* one that ran at the same time, even while other calls change the same    *)
(* directories (PublicTree.updateDirectChild, getDirectChild).              *)
Written == {op.path : op \in {o \in plan.ops : o.kind = "add"}}
Running(p) == {call[c].content : c \in {d \in Callers :
                 call[d].pc # "rest" /\ call[d].op.path = p}}
ReadsAreRecent == OneAtATime \/ \A p \in Written : View[p] \in recent[p] \union Running(p)

(* Called one at a time, the calls do what UnixTree promises: each as a     *)
(* whole, when it returns.                                                  *)
Nothing == [p \in Paths |-> Absent]
Promise == INSTANCE UnixTree WITH
  files <- IF OneAtATime THEN shown ELSE Nothing,
  stored <- IF OneAtATime THEN ViewOf(saved) ELSE Nothing
KeepsItsPromise == Promise!Spec
=============================================================================
