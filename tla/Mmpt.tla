-------------------------------- MODULE Mmpt --------------------------------
(***************************************************************************)
(* The Modified Merkle Patricia Tree (src/src/fs/protocol/private/mmpt.ts) *)
(* in which all private nodes of a file system are kept by name, while     *)
(* several calls of add run on it at once.                                 *)
(*                                                                         *)
(* A node of the tree is named by its path, the nibbles that lead to it.   *)
(* It keeps the names that go no further as leaves, and a link per child   *)
(* node.  A link is a CID: it stands for the whole content of the child as *)
(* it was put, here a set of entries <<path, name>> and <<path, Node>>, so *)
(* that two links are equal when their contents are.  Nodes are put from   *)
(* the deepest to the root, one await per node; children are read from the *)
(* depot when they are first needed, and stay in memory.                   *)
(*                                                                         *)
(* A name has Depth + 1 nibbles: the real ones are longer than any two of  *)
(* them agree, so the rest is not needed to tell them apart.               *)
(***************************************************************************)
EXTENDS Naturals, Sequences, SequencesExt, FiniteSets

CONSTANTS
  Nibbles,  \* the digits of names
  Depth,    \* bound: depth of the tree
  Initial,  \* names in the tree that was loaded
  Adds,     \* names that are added, one call of add for each
  Node      \* marks the entry of a node, as opposed to that of a name

Names == [1..(Depth + 1) -> Nibbles]
Paths == UNION {[1..n -> Nibbles] : n \in 0..Depth}
Root == << >>
Entries == Paths \X (Names \union {Node})

ASSUME MmptAssumption ==
  /\ Depth \in Nat
  /\ Initial \subseteq Names /\ Adds \subseteq Names
  /\ Node \notin Names

VARIABLES
  leaf,    \* names that each node in memory holds itself
  link,    \* content of the link that its parent has to a node; none: {}
  inMem,   \* nodes that are in their parent's `children'
  pc,      \* where each call of add stands
  at,      \* the node it is at
  before,  \* cidBefore, or the link that is being loaded
  putting  \* content of the node that is being put

vars == <<leaf, link, inMem, pc, at, before, putting>>

Parent(p) == Front(p)
Nibble(p, n) == n[Len(p) + 1]
Child(p, n) == Append(p, Nibble(p, n))
Children(p) == {q \in Paths : q # Root /\ Parent(q) = p}
Below(p, C) == {e \in C : IsPrefix(p, e[1])}

(* The content of a node as putDetailed finds it. *)
Content(p) ==
  {<<p, Node>>} \union ({p} \X leaf[p]) \union UNION {link[q] : q \in Children(p)}

(* Node p as it is when its content is read from the depot. *)
LeavesOf(p, C) == {n \in Names : <<p, n>> \in C}

(* The tree that holds the names S: a node where two of them go on, and     *)
(* there the names that do not go on to the next node.                      *)
IsNode(p, S) == p = Root \/ \E m, n \in S : m # n /\ IsPrefix(p, m) /\ IsPrefix(p, n)
Nodes(S) == {p \in Paths : IsNode(p, S)}
Ends(p, S) == {n \in S : IsPrefix(p, n) /\ Child(p, n) \notin Nodes(S)}
Tree(S) == UNION {{<<p, Node>>} \union ({p} \X Ends(p, S)) : p \in Nodes(S)}

(* MMPT.fromCID: the root is in memory and nothing below it. *)
Init ==
  /\ leaf = [p \in Paths |-> IF p = Root THEN LeavesOf(Root, Tree(Initial)) ELSE {}]
  /\ link = [p \in Paths |-> IF Len(p) = 1 THEN Below(p, Tree(Initial)) ELSE {}]
  /\ inMem = {Root}
  /\ pc = [w \in Adds |-> "add"]
  /\ at = [w \in Adds |-> Root]
  /\ before = [w \in Adds |-> {}]
  /\ putting = [w \in Adds |-> {}]

-----------------------------------------------------------------------------
(* What nextTreeOrSiblingName finds at the node where add(w) is: the child *)
(* node for its nibble, a leaf with the same nibble, or nothing.           *)
HasChild(p, n) ==
  Len(p) < Depth /\ (Child(p, n) \in inMem \/ link[Child(p, n)] # {})
Siblings(p, n) == {s \in leaf[p] : Nibble(p, s) = Nibble(p, n)}

(* Up from a node that was changed, or is to be put in any case: its       *)
(* parent awaits this add and then puts it; nobody does for the root.      *)
Ascend(w, p) ==
  /\ pc' = [pc EXCEPT ![w] = IF p = Root THEN "done" ELSE "put"]
  /\ at' = [at EXCEPT ![w] = p]
  /\ UNCHANGED <<before, putting>>

(* The name is there already: skip. *)
Skip(w) ==
  /\ pc[w] = "add" /\ ~HasChild(at[w], w)
  /\ w \in leaf[at[w]]
  /\ Ascend(w, at[w])
  /\ UNCHANGED <<leaf, link, inMem>>

(* Nothing starts with the nibble: a new leaf. *)
Insert(w) ==
  /\ pc[w] = "add" /\ ~HasChild(at[w], w)
  /\ Siblings(at[w], w) = {}
  /\ leaf' = [leaf EXCEPT ![at[w]] = @ \union {w}]
  /\ Ascend(w, at[w])
  /\ UNCHANGED <<link, inMem>>

(* Mutant: the new nodes are not kept in `children'. *)
SplitNotKept(w) ==
  \E s \in Siblings(at[w], w) \ {w} :
    LET q == LongestCommonPrefix({s, w}) IN
    /\ pc[w] = "add" /\ ~HasChild(at[w], w)
    /\ leaf' = [leaf EXCEPT ![at[w]] = @ \ {s}, ![q] = {s, w}]
    /\ Ascend(w, q)
    /\ UNCHANGED <<link, inMem>>

(* One other leaf starts with the nibble: both go into a new child, and    *)
(* further down as long as they agree.  All of it happens before the first *)
(* await; the new nodes are in memory, and no link leads to them yet.      *)
Split(w) ==
  \E s \in Siblings(at[w], w) \ {w} :
    LET q == LongestCommonPrefix({s, w})
        new == {p \in Paths : IsStrictPrefix(at[w], p) /\ IsPrefix(p, q)}
    IN
    /\ pc[w] = "add" /\ ~HasChild(at[w], w)
    /\ leaf' = [leaf EXCEPT ![at[w]] = @ \ {s}, ![q] = {s, w}]
    /\ inMem' = inMem \union new
    /\ Ascend(w, q)
    /\ UNCHANGED link

(* There is a child node for the nibble: go down to it, *)
Descend(w) ==
  LET q == Child(at[w], w) IN
  /\ pc[w] = "add" /\ q \in inMem
  /\ at' = [at EXCEPT ![w] = q]
  /\ UNCHANGED <<leaf, link, inMem, pc, before, putting>>

(* getDirectChild: or read it from the depot first. *)
BeginLoad(w) ==
  LET q == Child(at[w], w) IN
  /\ pc[w] = "add" /\ HasChild(at[w], w) /\ q \notin inMem
  /\ pc' = [pc EXCEPT ![w] = "load"]
  /\ at' = [at EXCEPT ![w] = q]
  /\ before' = [before EXCEPT ![w] = link[q]]
  /\ UNCHANGED <<leaf, link, inMem, putting>>

(* The node that was read takes its place in `children'. *)
Load(w) ==
  LET p == at[w] IN
  /\ leaf' = [leaf EXCEPT ![p] = LeavesOf(p, before[w])]
  /\ link' = [q \in Paths |-> IF q \in Children(p) THEN Below(q, before[w]) ELSE link[q]]
  /\ inMem' = inMem \union {p}

(* Mutant: no check that the child was not added while it was read. *)
EndLoadUnchecked(w) ==
  /\ pc[w] = "load"
  /\ Load(w)
  /\ pc' = [pc EXCEPT ![w] = "add"]
  /\ UNCHANGED <<at, before, putting>>

(* It was read; if another call has put it in `children' meanwhile, that   *)
(* one is taken.                                                           *)
EndLoad(w) ==
  /\ pc[w] = "load"
  /\ IF at[w] \in inMem THEN UNCHANGED <<leaf, link, inMem>> ELSE Load(w)
  /\ pc' = [pc EXCEPT ![w] = "add"]
  /\ UNCHANGED <<at, before, putting>>

(* putAndUpdateChildLink: remember the link, put the node as it is now. *)
BeginPut(w) ==
  /\ pc[w] = "put"
  /\ pc' = [pc EXCEPT ![w] = "putting"]
  /\ before' = [before EXCEPT ![w] = link[at[w]]]
  /\ putting' = [putting EXCEPT ![w] = Content(at[w])]
  /\ UNCHANGED <<leaf, link, inMem, at>>

(* Mutants: the link is not looked at again; it is compared with what was  *)
(* put.                                                                    *)
LinkIsUnchecked(w) == TRUE
LinkIsAsPut(w) == link[at[w]] = putting[w]

LinkIsAsBefore(w) == link[at[w]] = before[w]

(* The link was changed in-between: try again. *)
Retry(w) ==
  /\ pc[w] = "putting" /\ ~LinkIsAsBefore(w)
  /\ before' = [before EXCEPT ![w] = link[at[w]]]
  /\ putting' = [putting EXCEPT ![w] = Content(at[w])]
  /\ UNCHANGED <<leaf, link, inMem, pc, at>>

(* Otherwise update the link; the parent is next. *)
EndPut(w) ==
  /\ pc[w] = "putting" /\ LinkIsAsBefore(w)
  /\ link' = [link EXCEPT ![at[w]] = putting[w]]
  /\ Ascend(w, Parent(at[w]))
  /\ UNCHANGED <<leaf, inMem>>

Add(w) ==
  \/ Skip(w) \/ Insert(w) \/ Split(w) \/ Descend(w)
  \/ BeginLoad(w) \/ EndLoad(w) \/ BeginPut(w) \/ Retry(w) \/ EndPut(w)

Next == \E w \in Adds : Add(w)

Spec == Init /\ [][Next]_vars

(* The event loop does not stop while an await has ended; no call has to   *)
(* be resumed before another.                                              *)
FairSpec == Spec /\ WF_vars(Next)

-----------------------------------------------------------------------------
(* PROPERTIES *)

Done == {w \in Adds : pc[w] = "done"}

(* Every variable has its type; a node has leaves only while it is in      *)
(* memory, and what is under a path starts with it.                        *)
TypeOK ==
  /\ DOMAIN leaf = Paths /\ DOMAIN link = Paths
  /\ \A p \in Paths : \A n \in leaf[p] : n \in Names /\ IsPrefix(p, n) /\ p \in inMem
  /\ \A p \in Paths : \A e \in link[p] : e \in Entries /\ IsPrefix(p, e[1])
  /\ inMem \subseteq Paths
  /\ pc \in [Adds -> {"add", "load", "put", "putting", "done"}]
  /\ at \in [Adds -> Paths]
  /\ \A w \in Adds : before[w] \union putting[w] \subseteq Entries

(* get(n): where does the walk down from the root end?  In the nodes in    *)
(* memory, or in the content behind the link of the first that is not.     *)
Found(n) ==
  \E p \in {SubSeq(n, 1, d) : d \in 0..Depth} :
    /\ \A d \in 0..Len(p) : SubSeq(p, 1, d) \in inMem
    /\ IF HasChild(p, n)
       THEN /\ Child(p, n) \notin inMem
            /\ \E e \in link[Child(p, n)] : e[2] = n
       ELSE n \in leaf[p]

(* A name that was in the tree, or whose add has returned, is found by get *)
(* at any moment, whatever is being loaded, split or put around it         *)
(* (mmpt.ts:119).                                                          *)
NamesAreFound == \A n \in Initial \union Done : Found(n)

(* When no add is running, the root's links stand for every name, and for  *)
(* the one tree that these names have, in whatever order they came: no     *)
(* put has overwritten the link of a concurrent one (mmpt.ts:103).         *)
RootIsComplete == Done = Adds => Content(Root) = Tree(Initial \union Adds)

(* Every add returns: a retry is not repeated for ever (mmpt.ts:107).      *)
AddsReturn == <>(Done = Adds)

=============================================================================
