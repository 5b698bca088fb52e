------------------------------ MODULE UnixTree ------------------------------
(***************************************************************************)
(* What a file tree promises to a caller who waits for each call: the      *)
(* interface UnixTree (src/src/fs/types.ts) as one function from paths to  *)
(* what is there, changed by whole calls.  PublicTree implements it.       *)
(*                                                                         *)
(* There are two such functions: the tree that reads see, and the tree     *)
(* that the root of the file system links to, which is what is loaded      *)
(* again after the page was closed.  A call that fails is not saved.       *)
(***************************************************************************)
EXTENDS Naturals, Sequences, SequencesExt

CONSTANTS
  Names,     \* names of files and directories
  Contents,  \* contents of files
  MaxDepth,  \* bound: length of a path
  Ops,       \* the calls: records with fields kind, path, to
  Absent,    \* nothing is there
  Dir        \* a directory is there

VARIABLES
  files,  \* what reads see at each path: Absent, Dir or the content of a file
  stored  \* the same of the saved tree

Paths == UNION {[1..n -> Names] : n \in 1..MaxDepth}
Above(p) == {q \in Paths : IsStrictPrefix(q, p)}
Below(p) == {q \in Paths : IsPrefix(p, q)}

IsFileIn(f, p) == f[p] \notin {Absent, Dir}
WithDirs(f, D) == [q \in Paths |-> IF q \in D THEN Dir ELSE f[q]]
Without(f, p) == [q \in Paths |-> IF q \in Below(p) THEN Absent ELSE f[q]]

(* What is at p goes to q, with all that is below it. *)
Moved(f, p, q) ==
  LET origin(r) == p \o SubSeq(r, Len(q) + 1, Len(r))
  IN [r \in Paths |-> IF r \notin Below(q) THEN f[r]
                      ELSE IF origin(r) \in Paths THEN f[origin(r)] ELSE Absent]

(* A call that is made in full, saved. *)
Becomes(f) == files' = f /\ stored' = f

Add(p, content) ==
  /\ \A q \in Above(p) : ~IsFileIn(files, q)
  /\ files[p] # Dir
  /\ Becomes([WithDirs(files, Above(p)) EXCEPT ![p] = content])

Mkdir(p) ==
  /\ \A q \in Above(p) \union {p} : ~IsFileIn(files, q)
  /\ Becomes(WithDirs(files, Above(p) \union {p}))

Rm(p) ==
  /\ \A q \in Above(p) : files[q] = Dir
  /\ Becomes(Without(files, p))

Movable(p, q) ==
  /\ files[p] # Absent /\ files[q] = Absent
  /\ \A r \in Above(q) : ~IsFileIn(files, r)

Mv(p, q) ==
  /\ Movable(p, q) /\ p \notin Above(q)
  /\ LET made == WithDirs(files, Above(q))
         moved == Moved(made, p, q)
     IN Becomes([r \in Paths |-> IF r \in Below(p) THEN Absent ELSE moved[r]])

(* A directory moved to a path below itself: the call fails, when it has    *)
(* removed the directory already.                                           *)
MvBelowItself(p, q) ==
  /\ Movable(p, q) /\ p \in Above(q)
  /\ files' = Without(files, p)
  /\ UNCHANGED stored

Load == files' = stored /\ UNCHANGED stored

Init == stored \in [Paths -> {Absent, Dir} \union Contents] /\ files = stored

Next ==
  \/ Load
  \/ \E op \in Ops :
       \/ op.kind = "add" /\ \E content \in Contents : Add(op.path, content)
       \/ op.kind = "mkdir" /\ Mkdir(op.path)
       \/ op.kind = "rm" /\ Rm(op.path)
       \/ op.kind = "mv" /\ (Mv(op.path, op.to) \/ MvBelowItself(op.path, op.to))

Spec == Init /\ [][Next]_<<files, stored>>
=============================================================================
