-------------------------- MODULE PrivateRevisions --------------------------
(***************************************************************************)
(* The revisions of a private node (src/src/fs/v1, src/src/fs/protocol).   *)
(*                                                                         *)
(* A private node is stored in the MMPT under a name that its revision     *)
(* number is part of; a name is never overwritten.  Nothing says which     *)
(* revision is the last: findLatestRevision searches for it, forward in    *)
(* strides that double, then back by bisection, one MMPT lookup per step.  *)
(*                                                                         *)
(* The node here is the root of the private tree, or a private file.  File *)
(* system mutations run concurrently on its one in-memory instance: one    *)
(* counts the revision up in the header as it changes a link or the        *)
(* content, and puts a copy of the header.                                 *)
(* Each action is the code between two awaits.                             *)
(*                                                                         *)
(* No name here is one of Mmpt's, so that Mmpt_proofs can extend both, for *)
(* what the two say of the private tree together.                          *)
(***************************************************************************)
EXTENDS Integers

CONSTANTS
  Writers,      \* calls of runMutationOnNode that may run at once
  MaxLinks,     \* bound: soft links assigned in one write
  MaxRevision   \* bound: revisions of the node

ASSUME RevisionAssumption ==
  /\ MaxLinks \in Nat
  /\ MaxRevision \in Nat \ {0}

VARIABLES
  kind,      \* "directory" or "file"
  revision,  \* header.revision of the node in memory
  stored,    \* revisions that are in the MMPT
  stage,     \* where each mutation stands
  copied,    \* the revision of the copy that a mutation is putting
  loose,     \* ghost: a link or a content was changed without a put of its own
  phase,     \* the search: "idle", "forward", "back" or "done"
  base,      \* lastKnownRevision
  lower,     \* lowerBound, the revision of lastRevision
  upper,     \* upperBound
  stride,    \* 2^i
  had        \* ghost: what was stored when the search began

writers == <<kind, revision, stored, stage, copied, loose>>
search == <<phase, base, lower, upper, stride, had>>
revisionVars == <<writers, search>>

Revisions == 1..MaxRevision

RevisionsInit ==
  /\ kind \in {"directory", "file"}
  /\ revision = 1 /\ stored = {1} /\ loose = FALSE
  /\ stage = [w \in Writers |-> "idle"]
  /\ copied = [w \in Writers |-> 1]
  /\ phase = "idle" /\ base = 1 /\ lower = 1 /\ upper = 1 /\ stride = 1
  /\ had = {}

-----------------------------------------------------------------------------
(* MUTATIONS *)

(* A file or directory below the node is written: first the child is put.  *)
PutChild(w) ==
  /\ kind = "directory" /\ stage[w] \in {"idle", "after"}
  /\ stage' = [stage EXCEPT ![w] = "child"]
  /\ UNCHANGED <<kind, revision, stored, copied, loose, search>>

(* Mutant: onUpdate is not called. *)
BumpOnly(w) ==
  /\ revision < MaxRevision
  /\ revision' = revision + 1
  /\ stage' = [stage EXCEPT ![w] = "after"]
  /\ UNCHANGED <<kind, stored, copied, loose, search>>

(* Count up and put a copy of the header, with no await in between. *)
BumpAndPut(w) ==
  /\ revision < MaxRevision
  /\ revision' = revision + 1
  /\ copied' = [copied EXCEPT ![w] = revision + 1]
  /\ stage' = [stage EXCEPT ![w] = "put"]
  /\ UNCHANGED <<kind, stored, loose, search>>

(* updateDirectChild: the child is there, update its link and put. *)
LinkChild(w) == stage[w] = "child" /\ BumpAndPut(w)

(* rm: take the link out and put. *)
RemoveChild(w) == kind = "directory" /\ stage[w] = "idle" /\ BumpAndPut(w)

(* Soft links of one write, each of them a revision, or the new link of    *)
(* mv, whose updateDirectChild is given no onUpdate: nothing is put yet.   *)
AssignLinks(w, n) ==
  /\ kind = "directory" /\ stage[w] \in {"idle", "child"}
  /\ stage[w] = "child" => n = 1
  /\ revision + n <= MaxRevision
  /\ revision' = revision + n
  /\ loose' = TRUE
  /\ stage' = [stage EXCEPT ![w] = "after"]
  /\ UNCHANGED <<kind, stored, copied, search>>

(* The content of a file is stored, and its revision counted; the put is   *)
(* its directory's to make, some awaits later.                             *)
UpdateContent(w) ==
  /\ kind = "file" /\ stage[w] = "idle"
  /\ revision < MaxRevision
  /\ revision' = revision + 1
  /\ loose' = (loose \/ \E v \in Writers : stage[v] = "after")
  /\ stage' = [stage EXCEPT ![w] = "after"]
  /\ UNCHANGED <<kind, stored, copied, search>>

(* runMutationOnNode ends with a put of the node as it is by then; so does *)
(* updateDirectChild with a file.                                          *)
PutNode(w) ==
  /\ stage[w] = "after"
  /\ copied' = [copied EXCEPT ![w] = revision]
  /\ stage' = [stage EXCEPT ![w] = "last"]
  /\ UNCHANGED <<kind, revision, stored, loose, search>>

(* The copy is encrypted, stored, and its name added to the MMPT. *)
PutEnds(w) ==
  /\ stage[w] \in {"put", "last"}
  /\ stored' = stored \union {copied[w]}
  /\ stage' = [stage EXCEPT ![w] = IF @ = "put" THEN "after" ELSE "idle"]
  /\ UNCHANGED <<kind, revision, copied, loose, search>>

-----------------------------------------------------------------------------
(* findLatestRevision *)

(* From the revision of a node that was read. *)
StartSearch(r) ==
  /\ phase \in {"idle", "done"}
  /\ phase' = "forward"
  /\ base' = r /\ lower' = r
  /\ stride' = 1
  /\ had' = stored
  /\ UNCHANGED <<upper, writers>>

(* A node is loaded from its key: the first revision leads to the latest. *)
FromBareNameFilter == 1 \in stored /\ StartSearch(1)

(* A node is read where a skeleton says it was. *)
GetRecurse(r) == r \in stored /\ StartSearch(r)

(* Exponential search forward. *)
Forward ==
  /\ phase = "forward"
  /\ IF base + stride \in stored
     THEN /\ lower' = base + stride
          /\ stride' = 2 * stride
          /\ UNCHANGED <<phase, upper>>
     ELSE /\ upper' = base + stride
          /\ phase' = "back"
          /\ UNCHANGED <<lower, stride>>
  /\ UNCHANGED <<base, had, writers>>

(* Mutants: the bisection stops one short; it does not stop. *)
NarrowedEarly == lower >= upper - 2
NarrowedNever == lower >= upper

(* Nothing is left between the bounds. *)
Narrowed == lower >= upper - 1

(* Binary search back. *)
Back ==
  LET midpoint == (upper + lower) \div 2 IN
  /\ phase = "back"
  /\ ~Narrowed
  /\ IF midpoint \in stored
     THEN lower' = midpoint /\ UNCHANGED upper
     ELSE upper' = midpoint /\ UNCHANGED lower
  /\ UNCHANGED <<phase, base, stride, had, writers>>

(* The latest revision, or the node that was known when there is no later. *)
Return ==
  /\ phase = "back"
  /\ Narrowed
  /\ phase' = "done"
  /\ UNCHANGED <<base, lower, upper, stride, had, writers>>

-----------------------------------------------------------------------------
Write ==
  \E w \in Writers :
    \/ PutChild(w) \/ LinkChild(w) \/ RemoveChild(w)
    \/ UpdateContent(w) \/ PutNode(w) \/ PutEnds(w)
    \/ \E n \in 1..MaxLinks : AssignLinks(w, n)

Step == Forward \/ Back \/ Return

Start == FromBareNameFilter \/ \E r \in Revisions : GetRecurse(r)

RevisionsNext == Write \/ Step \/ Start

RevisionsSpec == RevisionsInit /\ [][RevisionsNext]_revisionVars

(* The lookups of a search are answered. *)
FairRevisions == RevisionsSpec /\ WF_revisionVars(Step)

-----------------------------------------------------------------------------
(* PROPERTIES *)

(* Every variable has its type. *)
RevisionsTypeOK ==
  /\ kind \in {"directory", "file"}
  /\ revision \in Revisions
  /\ stored \subseteq Revisions
  /\ stage \in [Writers -> {"idle", "child", "put", "after", "last"}]
  /\ copied \in [Writers -> Revisions]
  /\ loose \in BOOLEAN
  /\ phase \in {"idle", "forward", "back", "done"}
  /\ base \in Revisions /\ lower \in Revisions
  /\ upper \in Nat \ {0} /\ stride \in Nat \ {0}
  /\ had \subseteq Revisions

(* findLatestRevision answers with a stored revision no older than any     *)
(* unbroken history that was there when it began, whatever is stored while *)
(* it searches (index.ts:115).                                             *)
SearchIsCurrent ==
  phase = "done" =>
    /\ lower \in stored
    /\ \A r \in Revisions : 1..r \subseteq had => r <= lower

(* When no mutation runs, every revision of the node up to the one in      *)
(* memory is stored, unless a link was changed without a put of its own    *)
(* (PrivateTree.ts:230, 241), or a file's content while an earlier one was *)
(* not put yet (PrivateFile.ts:201): with SearchIsCurrent, a search then   *)
(* finds the node as it is in memory.                                      *)
HistoryIsUnbroken ==
  (\A w \in Writers : stage[w] = "idle") /\ ~loose => stored = 1..revision

(* When no mutation runs, the node in memory is stored. *)
LastIsStored == (\A w \in Writers : stage[w] = "idle") => revision \in stored

(* Every search ends, while revisions are being added (index.ts:127, 142). *)
SearchEnds == phase = "forward" ~> phase = "done"
=============================================================================
