----------------------------- MODULE Mmpt_proofs -----------------------------
(***************************************************************************)
(* Proofs about Mmpt: for any names, any depth, any loaded tree and any    *)
(* number of concurrent calls of add, every name is found at any moment,   *)
(* and the root's links stand for all of them once no call runs.           *)
(*                                                                         *)
(* Held is the set of names that are in some node.  The nodes in memory    *)
(* are those of the one tree that Held has, with its leaves; a link to a   *)
(* node that is not in memory is that node's part of the tree.  A link to  *)
(* a node in memory may be stale, but then some call owes it.              *)
(*                                                                         *)
(* putAndUpdateChildLink compares the link after the put with the one      *)
(* before it, so a link that was changed twice could be taken for one that *)
(* was not.  It cannot: a content names the names it has, so that a link   *)
(* which is up to date is never one that was up to date before.            *)
(*                                                                         *)
(* At the end, proofs about PrivateRevisions, whose nodes the tree keeps:  *)
(* for every number of concurrent mutations and every bound, the search    *)
(* finds the latest revision, and the history has no gaps.                 *)
(***************************************************************************)
EXTENDS Mmpt, PrivateRevisions, WellFoundedInduction, TLAPS

-----------------------------------------------------------------------------
(* WORDS: paths and names *)
Words == UNION {[1..n -> Nibbles] : n \in 0..(Depth + 1)}

(* Paths and names are words that differ in length. *)
LEMMA WordsAre ==
  /\ Names \subseteq Words /\ Paths \subseteq Words /\ Root \in Paths /\ Len(Root) = 0
  /\ \A s \in Words : /\ s \in Seq(Nibbles) /\ Len(s) \in 0..(Depth + 1) /\ DOMAIN s = 1..Len(s)
                      /\ s \in Paths <=> Len(s) <= Depth
                      /\ s \in Names <=> Len(s) = Depth + 1
<1>1. Depth \in Nat
  BY MmptAssumption
<1>2. ASSUME NEW n \in Nat, NEW s \in [1..n -> Nibbles]
      PROVE  s \in Seq(Nibbles) /\ Len(s) = n /\ DOMAIN s = 1..n
  BY <1>2
<1>3. Names \subseteq Words /\ Paths \subseteq Words
  BY <1>1 DEF Names, Paths, Words
<1>4. Root \in Paths /\ Len(Root) = 0
  <2>1. Root \in [1..0 -> Nibbles]
    BY DEF Root
  <2> QED
    BY <1>1, <2>1 DEF Paths, Root
<1>5. ASSUME NEW s \in Words
      PROVE  /\ s \in Seq(Nibbles) /\ Len(s) \in 0..(Depth + 1) /\ DOMAIN s = 1..Len(s)
             /\ s \in Paths <=> Len(s) <= Depth
             /\ s \in Names <=> Len(s) = Depth + 1
  <2>1. PICK n \in 0..(Depth + 1) : s \in [1..n -> Nibbles]
    BY DEF Words
  <2>2. n \in Nat
    BY <1>1
  <2>3. s \in Seq(Nibbles) /\ Len(s) = n /\ DOMAIN s = 1..n
    BY <1>2, <2>1, <2>2
  <2>4. s \in Paths <=> n <= Depth
    <3>1. ASSUME s \in Paths PROVE n <= Depth
      <4>1. PICK m \in 0..Depth : s \in [1..m -> Nibbles]
        BY <3>1 DEF Paths
      <4>2. m \in Nat /\ m <= Depth
        BY <1>1
      <4>3. Len(s) = m
        BY <1>2, <4>1, <4>2
      <4> QED
        BY <2>3, <4>2, <4>3
    <3>2. ASSUME n <= Depth PROVE s \in Paths
      BY <1>1, <2>1, <2>2, <3>2 DEF Paths
    <3> QED
      BY <3>1, <3>2
  <2>5. s \in Names <=> n = Depth + 1
    <3>1. ASSUME s \in Names PROVE n = Depth + 1
      BY <1>1, <1>2, <2>3, <3>1 DEF Names
    <3> QED
      BY <2>1, <3>1 DEF Names
  <2> QED
    BY <2>1, <2>3, <2>4, <2>5
<1> QED
  BY <1>3, <1>4, <1>5

(* Words of one length with the same digits are the same. *)
LEMMA SameWord ==
  ASSUME NEW s \in Words, NEW t \in Words, Len(s) = Len(t), \A i \in 1..Len(s) : s[i] = t[i]
  PROVE  s = t
BY WordsAre

(* A prefix agrees on every digit that it has. *)
LEMMA PrefixIs ==
  ASSUME NEW s \in Words, NEW t \in Words
  PROVE  IsPrefix(s, t) <=> Len(s) <= Len(t) /\ \A i \in 1..Len(s) : s[i] = t[i]
<1>1. /\ s \in Seq(Nibbles) /\ t \in Seq(Nibbles) /\ Len(s) \in Nat /\ Len(t) \in Nat
  BY WordsAre, MmptAssumption
<1>2. CASE Len(s) <= Len(t)
  <2>1. /\ SubSeq(s, 1, Len(s)) = [i \in 1..Len(s) |-> s[i]]
        /\ SubSeq(t, 1, Len(s)) = [i \in 1..Len(s) |-> t[i]]
    BY <1>1, <1>2
  <2> QED
    BY <1>2, <2>1 DEF IsPrefix
<1>3. CASE ~(Len(s) <= Len(t))
  BY <1>3 DEF IsPrefix
<1> QED
  BY <1>2, <1>3

(* Prefixes are an order, and those of one word a chain. *)
LEMMA PrefixOrder ==
  /\ \A s \in Words : IsPrefix(s, s)
  /\ \A s, t, u \in Words : IsPrefix(s, t) /\ IsPrefix(t, u) => IsPrefix(s, u)
  /\ \A s, t, u \in Words : IsPrefix(s, u) /\ IsPrefix(t, u) /\ Len(s) <= Len(t) => IsPrefix(s, t)
  /\ \A s, t \in Words : IsPrefix(s, t) => Len(s) <= Len(t) /\ (Len(s) >= Len(t) => s = t)
<1>0. \A s \in Words : Len(s) \in Nat
  BY WordsAre, MmptAssumption
<1>1. ASSUME NEW s \in Words PROVE IsPrefix(s, s)
  BY <1>0, PrefixIs
<1>2. ASSUME NEW s \in Words, NEW t \in Words, NEW u \in Words, IsPrefix(s, t), IsPrefix(t, u)
      PROVE  IsPrefix(s, u)
  <2>1. /\ Len(s) <= Len(t) /\ \A i \in 1..Len(s) : s[i] = t[i]
        /\ Len(t) <= Len(u) /\ \A i \in 1..Len(t) : t[i] = u[i]
    BY <1>2, PrefixIs
  <2>2. Len(s) <= Len(u) /\ \A i \in 1..Len(s) : s[i] = u[i]
    BY <1>0, <2>1
  <2> QED
    BY <2>2, PrefixIs
<1>3. ASSUME NEW s \in Words, NEW t \in Words, NEW u \in Words,
             IsPrefix(s, u), IsPrefix(t, u), Len(s) <= Len(t)
      PROVE  IsPrefix(s, t)
  <2>1. /\ \A i \in 1..Len(s) : s[i] = u[i]
        /\ \A i \in 1..Len(t) : t[i] = u[i]
    BY <1>3, PrefixIs
  <2>2. \A i \in 1..Len(s) : s[i] = t[i]
    BY <1>0, <1>3, <2>1
  <2> QED
    BY <1>3, <2>2, PrefixIs
<1>4. ASSUME NEW s \in Words, NEW t \in Words, IsPrefix(s, t)
      PROVE  Len(s) <= Len(t) /\ (Len(s) >= Len(t) => s = t)
  <2>1. Len(s) <= Len(t) /\ \A i \in 1..Len(s) : s[i] = t[i]
    BY <1>4, PrefixIs
  <2>2. ASSUME Len(s) >= Len(t) PROVE s = t
    <3>1. Len(s) = Len(t)
      BY <1>0, <2>1, <2>2
    <3> QED
      BY <2>1, <3>1, SameWord
  <2> QED
    BY <2>1, <2>2
<1> QED
  BY <1>1, <1>2, <1>3, <1>4

(* The start of a word. *)
LEMMA StartIs ==
  ASSUME NEW t \in Words, NEW k \in 0..Len(t)
  PROVE  /\ SubSeq(t, 1, k) \in Words /\ Len(SubSeq(t, 1, k)) = k /\ IsPrefix(SubSeq(t, 1, k), t)
         /\ \A s \in Words : IsPrefix(s, t) /\ Len(s) = k => s = SubSeq(t, 1, k)
<1> DEFINE a == SubSeq(t, 1, k)
<1>1. t \in Seq(Nibbles) /\ Len(t) \in 0..(Depth + 1) /\ Depth \in Nat
  BY WordsAre, MmptAssumption
<1>2. k \in Nat /\ k <= Len(t)
  BY <1>1
<1>3. a = [i \in 1..k |-> t[i]]
  BY <1>1, <1>2
<1>4. a \in [1..k -> Nibbles]
  <2>1. \A i \in 1..k : t[i] \in Nibbles
    <3>1. \A i \in 1..k : i \in 1..Len(t)
      BY <1>1, <1>2
    <3> QED
      BY <1>1, <3>1
  <2> QED
    BY <1>3, <2>1
<1>5. a \in Words /\ Len(a) = k
  <2>1. k \in 0..(Depth + 1)
    BY <1>1, <1>2
  <2>2. a \in Words
    BY <1>4, <2>1 DEF Words
  <2> QED
    BY <1>1, <1>2, <1>3, <2>2
<1>6. \A i \in 1..k : a[i] = t[i]
  BY <1>3
<1> HIDE DEF a
<1>7. IsPrefix(a, t)
  BY <1>2, <1>5, <1>6, PrefixIs
<1>8. ASSUME NEW s \in Words, IsPrefix(s, t), Len(s) = k PROVE s = a
  <2>1. \A i \in 1..k : s[i] = t[i]
    BY <1>8, PrefixIs
  <2> QED
    BY <1>5, <1>6, <1>8, <2>1, SameWord
<1> QED
  BY <1>5, <1>7, <1>8 DEF a

(* The node below p on the way to the name n. *)
LEMMA ChildIs ==
  ASSUME NEW p \in Paths, NEW n \in Words, IsPrefix(p, n), Len(p) < Len(n)
  PROVE  /\ Child(p, n) \in Words /\ Len(Child(p, n)) = Len(p) + 1
         /\ IsPrefix(Child(p, n), n) /\ IsPrefix(p, Child(p, n))
         /\ Child(p, n) # p /\ Child(p, n) # Root
         /\ Child(p, n) = SubSeq(n, 1, Len(p) + 1)
<1> DEFINE c == Child(p, n)
           k == Len(p) + 1
<1>1. /\ p \in Words /\ p \in Seq(Nibbles) /\ n \in Seq(Nibbles) /\ Len(p) \in Nat /\ Len(n) \in Nat
  BY WordsAre, MmptAssumption
<1>2. k \in 0..Len(n)
  BY <1>1
<1>3. \A i \in 1..Len(p) : p[i] = n[i]
  BY <1>1, PrefixIs
<1>4. c = [i \in 1..k |-> n[i]]
  <2>1. c = [i \in 1..k |-> IF i = k THEN n[k] ELSE p[i]]
    BY <1>1 DEF Child, Nibble
  <2> QED
    BY <1>1, <1>3, <2>1
<1>5. c = SubSeq(n, 1, k)
  BY <1>1, <1>2, <1>4
<1>6. c \in Words /\ Len(c) = k /\ IsPrefix(c, n)
  BY <1>2, <1>5, StartIs
<1> HIDE DEF c
<1>7. IsPrefix(p, c)
  BY <1>1, <1>6, PrefixOrder
<1>8. Len(c) # Len(p) /\ Len(c) # 0
  BY <1>1, <1>6
<1> QED
  BY <1>5, <1>6, <1>7, <1>8, WordsAre DEF c

(* The parent is the longest path above a path. *)
LEMMA ParentIs ==
  ASSUME NEW q \in Paths, q # Root
  PROVE  /\ Parent(q) \in Paths /\ Len(Parent(q)) = Len(q) - 1 /\ IsPrefix(Parent(q), q) /\ Parent(q) # q
         /\ \A s \in Words : IsPrefix(s, q) /\ s # q => IsPrefix(s, Parent(q))
<1>1. q \in Words /\ Len(q) \in Nat /\ Len(q) <= Depth /\ Depth \in Nat
  BY WordsAre, MmptAssumption
<1>2. Len(q) # 0
  <2>1. CASE Len(q) = 0
    <3>1. Root \in Words /\ Len(Root) = 0
      BY WordsAre
    <3> QED
      BY <1>1, <2>1, <3>1, SameWord
  <2> QED
    BY <2>1
<1> DEFINE k == Len(q) - 1
           a == Parent(q)
<1>3. k \in 0..Len(q) /\ k \in Nat
  BY <1>1, <1>2
<1>4. a = SubSeq(q, 1, k)
  BY DEF Parent, Front
<1> HIDE DEF a
<1>5. a \in Words /\ Len(a) = k /\ IsPrefix(a, q)
  BY <1>1, <1>3, <1>4, StartIs
<1>6. a \in Paths
  BY <1>1, <1>3, <1>5, WordsAre
<1>7. ASSUME NEW s \in Words, IsPrefix(s, q), s # q PROVE IsPrefix(s, a)
  <2>1. Len(s) \in Nat /\ Len(s) <= Len(q) /\ ~(Len(s) >= Len(q))
    BY <1>1, <1>7, PrefixOrder, WordsAre, MmptAssumption
  <2>2. Len(s) <= Len(a)
    BY <1>1, <1>5, <2>1
  <2> QED
    BY <1>1, <1>5, <1>7, <2>2, PrefixOrder
<1>8. a # q
  BY <1>1, <1>5
<1> QED
  BY <1>5, <1>6, <1>7, <1>8 DEF a

(* Which node is the child, seen from the parent and from the child. *)
LEMMA ChildOf ==
  /\ \A p \in Paths, n \in Words : IsPrefix(p, n) /\ Len(p) < Len(n) /\ Child(p, n) \in Paths =>
       Parent(Child(p, n)) = p
  /\ \A q \in Paths, n \in Words : q # Root /\ IsPrefix(q, n) => Child(Parent(q), n) = q
  /\ \A p \in Paths, n \in Words, s \in Words :
       IsPrefix(p, n) /\ IsPrefix(s, n) /\ Len(p) < Len(s) => IsPrefix(Child(p, n), s)
<1>0. \A s \in Words : Len(s) \in Nat
  BY WordsAre, MmptAssumption
<1>00. Paths \subseteq Words
  BY WordsAre
<1>1. ASSUME NEW p \in Paths, NEW n \in Words, IsPrefix(p, n), Len(p) < Len(n), Child(p, n) \in Paths
      PROVE  Parent(Child(p, n)) = p
  <2> DEFINE c == Child(p, n)
  <2>1. c \in Paths /\ c # Root /\ IsPrefix(p, c) /\ c # p /\ Len(c) = Len(p) + 1
    BY <1>1, ChildIs
  <2> HIDE DEF c
  <2>2. /\ IsPrefix(p, Parent(c)) /\ Parent(c) \in Words /\ Len(Parent(c)) = Len(c) - 1
    BY <1>00, <2>1, ParentIs
  <2>3. Len(p) >= Len(Parent(c))
    BY <1>0, <1>00, <2>1, <2>2
  <2>4. p = Parent(c)
    BY <1>00, <2>2, <2>3, PrefixOrder
  <2> QED
    BY <2>4 DEF c
<1>2. ASSUME NEW q \in Paths, NEW n \in Words, q # Root, IsPrefix(q, n)
      PROVE  Child(Parent(q), n) = q
  <2> DEFINE p == Parent(q)
  <2>1. p \in Paths /\ p \in Words /\ Len(p) = Len(q) - 1 /\ IsPrefix(p, q)
    BY <1>00, <1>2, ParentIs
  <2> HIDE DEF p
  <2>2. IsPrefix(p, n) /\ Len(p) < Len(n) /\ Len(q) = Len(p) + 1 /\ Len(q) \in 0..Len(n)
    BY <1>0, <1>00, <1>2, <2>1, PrefixOrder
  <2>3. Child(p, n) = SubSeq(n, 1, Len(p) + 1)
    BY <2>1, <2>2, ChildIs
  <2>4. q = SubSeq(n, 1, Len(q))
    BY <1>00, <1>2, <2>2, StartIs
  <2> QED
    BY <2>2, <2>3, <2>4 DEF p
<1>3. ASSUME NEW p \in Paths, NEW n \in Words, NEW s \in Words, IsPrefix(p, n), IsPrefix(s, n), Len(p) < Len(s)
      PROVE  IsPrefix(Child(p, n), s)
  <2>1. Len(p) < Len(n) /\ Len(p) \in Nat /\ Len(s) \in Nat
    BY <1>0, <1>00, <1>3, PrefixOrder
  <2>2. Child(p, n) \in Words /\ Len(Child(p, n)) = Len(p) + 1 /\ IsPrefix(Child(p, n), n)
    BY <1>3, <2>1, ChildIs
  <2>3. Len(Child(p, n)) <= Len(s)
    BY <1>3, <2>1, <2>2
  <2> QED
    BY <1>3, <2>2, <2>3, PrefixOrder
<1> QED
  BY <1>1, <1>2, <1>3

(* The child of p on the way to the path s below it. *)
LEMMA StepDown ==
  ASSUME NEW p \in Paths, NEW s \in Paths, IsPrefix(p, s), p # s
  PROVE  Child(p, s) \in Children(p) /\ IsPrefix(Child(p, s), s)
<1>1. p \in Words /\ s \in Words /\ Len(p) \in Nat /\ Len(s) \in Nat /\ Len(s) <= Depth
  BY WordsAre, MmptAssumption
<1>2. Len(p) < Len(s)
  BY <1>1, PrefixOrder
<1>3. /\ Child(p, s) \in Words /\ Len(Child(p, s)) = Len(p) + 1 /\ IsPrefix(Child(p, s), s)
      /\ Child(p, s) # Root
  BY <1>1, <1>2, ChildIs
<1>4. Child(p, s) \in Paths
  BY <1>1, <1>2, <1>3, WordsAre, MmptAssumption
<1>5. Parent(Child(p, s)) = p
  BY <1>1, <1>2, <1>4, ChildOf
<1> QED
  BY <1>3, <1>4, <1>5 DEF Children

(* A child is one digit longer, and not above its parent. *)
LEMMA ChildrenAre ==
  ASSUME NEW p \in Paths, NEW q \in Children(p)
  PROVE  /\ q \in Paths /\ q # Root /\ Parent(q) = p /\ IsPrefix(p, q) /\ q # p /\ Len(q) = Len(p) + 1
         /\ ~IsPrefix(q, p)
<1>1. q \in Paths /\ q # Root /\ Parent(q) = p
  BY DEF Children
<1>2. IsPrefix(p, q) /\ q # p /\ Len(p) = Len(q) - 1
  BY <1>1, ParentIs
<1>3. p \in Words /\ q \in Words /\ Len(p) \in Nat /\ Len(q) \in Nat
  BY <1>1, WordsAre, MmptAssumption
<1>4. Len(q) = Len(p) + 1
  BY <1>2, <1>3
<1>5. ~IsPrefix(q, p)
  BY <1>3, <1>4, PrefixOrder
<1> QED
  BY <1>1, <1>2, <1>4, <1>5

(* Of words of bounded length one is longest. *)
LEMMA LongestWord ==
  ASSUME NEW X, X \subseteq Words, X # {}
  PROVE  \E x \in X : \A y \in X : Len(y) <= Len(x)
<1> DEFINE short(x) == Depth + 1 - Len(x)
           N == {short(x) : x \in X}
<1>1. \A x \in X : Len(x) \in 0..(Depth + 1) /\ Depth \in Nat
  BY WordsAre, MmptAssumption
<1>2. N \subseteq Nat /\ N # {}
  BY <1>1
<1>3. \E m \in N : \A n \in N : ~(<<n, m>> \in OpToRel(<, Nat))
  <2> HIDE DEF N
  <2> QED
    BY <1>2, WFMin, NatLessThanWellFounded
<1>4. PICK m \in N : \A n \in N : ~(n < m)
  <2> HIDE DEF N
  <2> QED
    BY <1>2, <1>3 DEF OpToRel
<1>5. PICK x \in X : m = short(x)
  OBVIOUS
<1>6. ASSUME NEW y \in X PROVE Len(y) <= Len(x)
  <2>1. ~(short(y) < short(x))
    BY <1>4, <1>5
  <2> QED
    BY <1>1, <2>1
<1> QED
  BY <1>6

(* Where two names part. *)
LEMMA PartingIs ==
  ASSUME NEW s \in Names, NEW w \in Names, s # w, NEW q, q = LongestCommonPrefix({s, w})
  PROVE  /\ q \in Paths /\ IsPrefix(q, s) /\ IsPrefix(q, w)
         /\ \A x \in Words : IsPrefix(x, s) /\ IsPrefix(x, w) => IsPrefix(x, q)
<1> DEFINE C == CommonPrefixes({s, w})
<1>1. s \in Words /\ w \in Words /\ Len(s) = Depth + 1 /\ Len(w) = Depth + 1 /\ Depth \in Nat
  BY WordsAre, MmptAssumption
<1>2. \A x : x \in C <=> x \in Words /\ IsPrefix(x, s) /\ IsPrefix(x, w)
  <2>1. \A t \in Words : \A x : x \in Prefixes(t) <=> x \in Words /\ IsPrefix(x, t)
    <3> SUFFICES ASSUME NEW t \in Words, NEW x PROVE x \in Prefixes(t) <=> x \in Words /\ IsPrefix(x, t)
      OBVIOUS
    <3>1. ASSUME x \in Prefixes(t) PROVE x \in Words /\ IsPrefix(x, t)
      BY <3>1, StartIs DEF Prefixes
    <3>2. ASSUME x \in Words, IsPrefix(x, t) PROVE x \in Prefixes(t)
      <4>1. Len(x) \in 0..Len(t)
        BY <3>2, PrefixOrder, WordsAre, MmptAssumption
      <4> QED
        BY <3>2, <4>1, StartIs DEF Prefixes
    <3> QED
      BY <3>1, <3>2
  <2> QED
    BY <1>1, <2>1 DEF CommonPrefixes
<1> HIDE DEF C
<1>3. Root \in C
  <2>1. Root \in Words /\ Len(Root) = 0
    BY WordsAre
  <2>2. IsPrefix(Root, s) /\ IsPrefix(Root, w)
    BY <1>1, <2>1, PrefixIs
  <2> QED
    BY <1>2, <2>1, <2>2
<1>4. \E x \in C : \A y \in C : Len(y) <= Len(x)
  BY <1>2, <1>3, LongestWord
<1>5. q \in C /\ \A y \in C : Len(y) <= Len(q)
  BY <1>4 DEF LongestCommonPrefix, C
<1>6. q \in Words /\ IsPrefix(q, s) /\ IsPrefix(q, w)
  BY <1>2, <1>5
<1>7. Len(q) <= Depth
  <2>1. Len(q) \in Nat /\ Len(q) <= Depth + 1
    BY <1>1, <1>6, WordsAre, MmptAssumption
  <2>2. CASE Len(q) = Depth + 1
    <3>1. q = s /\ q = w
      BY <1>1, <1>6, <2>2, PrefixOrder
    <3> QED
      BY <3>1
  <2> QED
    BY <1>1, <2>1, <2>2
<1>8. ASSUME NEW x \in Words, IsPrefix(x, s), IsPrefix(x, w) PROVE IsPrefix(x, q)
  <2>1. Len(x) <= Len(q)
    BY <1>2, <1>5, <1>8
  <2> QED
    BY <1>1, <1>6, <1>8, <2>1, PrefixOrder
<1> QED
  BY <1>6, <1>7, <1>8, WordsAre

-----------------------------------------------------------------------------
(* TREES: the tree of a set of names *)

(* The entries of the tree, one by one. *)
LEMMA TreeIs ==
  ASSUME NEW S, S \subseteq Names
  PROVE  /\ \A p, x : <<p, x>> \in Tree(S) <=> p \in Nodes(S) /\ (x = Node \/ x \in Ends(p, S))
         /\ Tree(S) \subseteq Entries
         /\ \A e \in Tree(S) : e[1] \in Nodes(S) /\ e = <<e[1], e[2]>>
<1>1. \A e : e \in Tree(S) <=> \E p \in Nodes(S) : e = <<p, Node>> \/ \E n \in Ends(p, S) : e = <<p, n>>
  BY DEF Tree
<1>2. Nodes(S) \subseteq Paths /\ \A p : Ends(p, S) \subseteq Names
  BY DEF Nodes, Ends
<1>3. \A p, x : <<p, x>> \in Tree(S) <=> p \in Nodes(S) /\ (x = Node \/ x \in Ends(p, S))
  BY <1>1
<1>4. ASSUME NEW e \in Tree(S) PROVE e \in Entries /\ e[1] \in Nodes(S) /\ e = <<e[1], e[2]>>
  <2>1. PICK p \in Nodes(S) : e = <<p, Node>> \/ \E n \in Ends(p, S) : e = <<p, n>>
    BY <1>1
  <2>2. CASE e = <<p, Node>>
    BY <1>2, <2>2 DEF Entries
  <2>3. CASE \E n \in Ends(p, S) : e = <<p, n>>
    BY <1>2, <2>3 DEF Entries
  <2> QED
    BY <2>1, <2>2, <2>3
<1> QED
  BY <1>3, <1>4

(* With a node, all nodes above it are in the tree, the root in any case. *)
LEMMA NodesUp ==
  ASSUME NEW S, S \subseteq Names
  PROVE  /\ Root \in Nodes(S)
         /\ \A q \in Nodes(S), p \in Paths : IsPrefix(p, q) => p \in Nodes(S)
<1>1. Root \in Nodes(S)
  BY WordsAre DEF Nodes, IsNode
<1>2. ASSUME NEW q \in Nodes(S), NEW p \in Paths, IsPrefix(p, q) PROVE p \in Nodes(S)
  <2>1. q \in Paths /\ IsNode(q, S)
    BY DEF Nodes
  <2>2. p \in Words /\ q \in Words /\ S \subseteq Words
    BY <2>1, WordsAre
  <2>3. CASE q = Root
    <3>1. Len(p) >= 0 /\ Len(p) <= Len(q) /\ Len(q) = 0 /\ Len(p) \in Nat
      BY <1>2, <2>2, <2>3, WordsAre, PrefixOrder, MmptAssumption
    <3>2. p = Root
      BY <1>2, <2>2, <2>3, <3>1, PrefixOrder
    <3> QED
      BY <1>1, <3>2
  <2>4. CASE \E m, n \in S : m # n /\ IsPrefix(q, m) /\ IsPrefix(q, n)
    <3>1. PICK m \in S, n \in S : m # n /\ IsPrefix(q, m) /\ IsPrefix(q, n)
      BY <2>4
    <3>2. IsPrefix(p, m) /\ IsPrefix(p, n)
      BY <1>2, <2>2, <3>1, PrefixOrder
    <3> QED
      BY <3>1, <3>2 DEF Nodes, IsNode
  <2> QED
    BY <2>1, <2>3, <2>4 DEF IsNode
<1> QED
  BY <1>1, <1>2

(* Below every node on its way, a name ends at some node. *)
LEMMA Deepest ==
  ASSUME NEW S, S \subseteq Names, NEW n \in S, NEW p \in Nodes(S), IsPrefix(p, n)
  PROVE  \E x \in Nodes(S) : IsPrefix(p, x) /\ IsPrefix(x, n) /\ n \in Ends(x, S)
<1> DEFINE X == {x \in Nodes(S) : IsPrefix(p, x) /\ IsPrefix(x, n)}
<1>1. /\ n \in Names /\ n \in Words /\ Len(n) = Depth + 1 /\ Depth \in Nat
      /\ Nodes(S) \subseteq Paths /\ Paths \subseteq Words
  BY WordsAre, MmptAssumption DEF Nodes
<1>2. p \in X /\ X \subseteq Words
  BY <1>1, PrefixOrder
<1>3. PICK x \in X : \A y \in X : Len(y) <= Len(x)
  <2> HIDE DEF X
  <2> QED
    BY <1>2, LongestWord
<1>4. x \in Paths /\ x \in Words /\ Len(x) \in Nat /\ Len(x) < Len(n)
  BY <1>1, <1>3, WordsAre
<1>5. ASSUME Child(x, n) \in Nodes(S) PROVE FALSE
  <2>1. Child(x, n) \in Words /\ Len(Child(x, n)) = Len(x) + 1 /\ IsPrefix(Child(x, n), n) /\ IsPrefix(x, Child(x, n))
    BY <1>1, <1>3, <1>4, ChildIs
  <2>2. IsPrefix(p, Child(x, n))
    BY <1>1, <1>3, <1>4, <2>1, PrefixOrder
  <2>3. Child(x, n) \in X
    BY <1>5, <2>1, <2>2
  <2> QED
    BY <1>3, <1>4, <2>1, <2>3
<1>6. n \in Ends(x, S)
  BY <1>3, <1>5 DEF Ends
<1> QED
  BY <1>3, <1>6

(* What is below a node: itself with its leaves, and what is below its     *)
(* children; below another path there is nothing.                          *)
LEMMA TreeBelow ==
  ASSUME NEW S, S \subseteq Names, NEW p \in Paths
  PROVE  /\ p \notin Nodes(S) => Below(p, Tree(S)) = {}
         /\ p \in Nodes(S) =>
              /\ Below(p, Tree(S)) # {}
              /\ Below(p, Tree(S)) = {<<p, Node>>} \union ({p} \X Ends(p, S))
                                       \union UNION {Below(q, Tree(S)) : q \in Children(p)}
              /\ LeavesOf(p, Below(p, Tree(S))) = Ends(p, S)
         /\ \A q \in Paths : IsPrefix(p, q) => Below(q, Below(p, Tree(S))) = Below(q, Tree(S))
<1> DEFINE B(q) == Below(q, Tree(S))
<1>1. /\ Nodes(S) \subseteq Paths /\ Paths \subseteq Words /\ p \in Words
      /\ \A q : Ends(q, S) \subseteq Names
      /\ IsPrefix(p, p)
  BY WordsAre, PrefixOrder DEF Nodes, Ends
<1>2. \A q : \A e : e \in B(q) <=> e \in Tree(S) /\ IsPrefix(q, e[1])
  BY DEF Below
<1> HIDE DEF B
<1>3. ASSUME p \notin Nodes(S) PROVE B(p) = {}
  <2>1. ASSUME NEW e \in B(p) PROVE FALSE
    <3>1. e[1] \in Nodes(S) /\ IsPrefix(p, e[1])
      BY <1>2, TreeIs
    <3> QED
      BY <1>3, <3>1, NodesUp
  <2> QED
    BY <2>1
<1>4. ASSUME p \in Nodes(S)
      PROVE  /\ <<p, Node>> \in B(p)
             /\ \A n : <<p, n>> \in B(p) <=> n = Node \/ n \in Ends(p, S)
  <2>1. \A n : <<p, n>>[1] = p
    OBVIOUS
  <2>2. \A n : <<p, n>> \in B(p) <=> <<p, n>> \in Tree(S)
    BY <1>1, <1>2, <2>1
  <2> QED
    BY <1>4, <2>2, TreeIs
<1>5. ASSUME p \in Nodes(S), NEW e
      PROVE  e \in B(p) <=> \/ e = <<p, Node>>
                            \/ \E n \in Ends(p, S) : e = <<p, n>>
                            \/ \E q \in Children(p) : e \in B(q)
  <2>1. ASSUME e \in B(p), e[1] = p PROVE e = <<p, Node>> \/ \E n \in Ends(p, S) : e = <<p, n>>
    <3>1. e = <<p, e[2]>>
      BY <1>2, <2>1, TreeIs
    <3> QED
      BY <1>4, <1>5, <2>1, <3>1
  <2>2. ASSUME e \in B(p), e[1] # p PROVE \E q \in Children(p) : e \in B(q)
    <3>1. e \in Tree(S) /\ IsPrefix(p, e[1]) /\ e[1] \in Paths
      BY <1>1, <1>2, <2>2, TreeIs
    <3>2. Child(p, e[1]) \in Children(p) /\ IsPrefix(Child(p, e[1]), e[1])
      BY <2>2, <3>1, StepDown
    <3> QED
      BY <1>2, <3>1, <3>2
  <2>3. ASSUME NEW q \in Children(p), e \in B(q) PROVE e \in B(p)
    <3>1. q \in Paths /\ IsPrefix(p, q)
      BY ChildrenAre
    <3>2. e \in Tree(S) /\ IsPrefix(q, e[1]) /\ e[1] \in Paths
      BY <1>1, <1>2, <2>3, TreeIs
    <3>3. IsPrefix(p, e[1])
      BY <1>1, <3>1, <3>2, PrefixOrder
    <3> QED
      BY <1>2, <3>2, <3>3
  <2> QED
    BY <1>4, <1>5, <2>1, <2>2, <2>3
<1>6. ASSUME p \in Nodes(S)
      PROVE  /\ B(p) # {}
             /\ B(p) = {<<p, Node>>} \union ({p} \X Ends(p, S)) \union UNION {B(q) : q \in Children(p)}
             /\ LeavesOf(p, B(p)) = Ends(p, S)
  <2>1. B(p) # {}
    BY <1>4, <1>6
  <2>2. B(p) = {<<p, Node>>} \union ({p} \X Ends(p, S)) \union UNION {B(q) : q \in Children(p)}
    BY <1>5, <1>6
  <2>3. LeavesOf(p, B(p)) = Ends(p, S)
    BY <1>1, <1>4, <1>6, MmptAssumption DEF LeavesOf
  <2> QED
    BY <2>1, <2>2, <2>3
<1>7. ASSUME NEW q \in Paths, IsPrefix(p, q) PROVE Below(q, B(p)) = B(q)
  <2>1. \A e \in Tree(S) : IsPrefix(q, e[1]) => IsPrefix(p, e[1])
    BY <1>1, <1>7, TreeIs, PrefixOrder
  <2> QED
    BY <1>2, <2>1 DEF Below
<1> QED
  BY <1>3, <1>6, <1>7 DEF B

(* The names below a node are those that start with its path. *)
LEMMA TreeNames ==
  ASSUME NEW S, S \subseteq Names, NEW p \in Nodes(S), NEW n \in S, IsPrefix(p, n)
  PROVE  \E e \in Below(p, Tree(S)) : e[2] = n
<1>1. PICK x \in Nodes(S) : IsPrefix(p, x) /\ IsPrefix(x, n) /\ n \in Ends(x, S)
  BY Deepest
<1>2. <<x, n>> \in Tree(S)
  BY <1>1, TreeIs
<1>3. <<x, n>> \in Below(p, Tree(S))
  BY <1>1, <1>2 DEF Below
<1> QED
  BY <1>3

(* One more name: off its way the tree stays as it is. *)
LEMMA TreeGrows ==
  ASSUME NEW S, S \subseteq Names, NEW w \in Names, NEW p \in Paths, ~IsPrefix(p, w)
  PROVE  /\ p \in Nodes(S \union {w}) <=> p \in Nodes(S)
         /\ Ends(p, S \union {w}) = Ends(p, S)
         /\ Below(p, Tree(S \union {w})) = Below(p, Tree(S))
<1> DEFINE U == S \union {w}
<1>1. U \subseteq Names /\ Names \subseteq Words /\ Paths \subseteq Words /\ Root \in Paths
  BY WordsAre
<1>2. \A q \in Paths : IsPrefix(p, q) => ~IsPrefix(q, w)
  BY <1>1, PrefixOrder
<1>3. \A q \in Paths : IsPrefix(p, q) => (q \in Nodes(U) <=> q \in Nodes(S))
  BY <1>2 DEF Nodes, IsNode
<1>4. \A q \in Paths : IsPrefix(p, q) => Ends(q, U) = Ends(q, S)
  <2> SUFFICES ASSUME NEW q \in Paths, IsPrefix(p, q), NEW n \in S, IsPrefix(q, n)
               PROVE  Child(q, n) \in Nodes(U) <=> Child(q, n) \in Nodes(S)
    BY <1>2 DEF Ends
  <2>1. n \in Words /\ q \in Words /\ Len(q) < Len(n)
    BY <1>1, WordsAre, MmptAssumption
  <2>2. Child(q, n) \in Words /\ IsPrefix(q, Child(q, n))
    BY <2>1, ChildIs
  <2>3. IsPrefix(p, Child(q, n))
    BY <1>1, <2>1, <2>2, PrefixOrder
  <2> QED
    BY <1>3, <2>3 DEF Nodes
<1>5. ASSUME NEW e PROVE e \in Below(p, Tree(U)) <=> e \in Below(p, Tree(S))
  <2>1. ASSUME NEW V, V \subseteq Names
        PROVE  e \in Below(p, Tree(V)) <=> /\ e = <<e[1], e[2]>> /\ e[1] \in Paths /\ IsPrefix(p, e[1])
                                           /\ e[1] \in Nodes(V) /\ (e[2] = Node \/ e[2] \in Ends(e[1], V))
    <3>1. e \in Below(p, Tree(V)) <=> e \in Tree(V) /\ IsPrefix(p, e[1])
      BY DEF Below
    <3>2. e \in Tree(V) => e = <<e[1], e[2]>> /\ e[1] \in Nodes(V) /\ e[1] \in Paths
      BY <2>1, TreeIs DEF Nodes
    <3>3. <<e[1], e[2]>> \in Tree(V) <=> e[1] \in Nodes(V) /\ (e[2] = Node \/ e[2] \in Ends(e[1], V))
      BY <2>1, TreeIs
    <3> QED
      BY <3>1, <3>2, <3>3
  <2> HIDE DEF U
  <2> QED
    BY <1>1, <1>3, <1>4, <2>1
<1>6. IsPrefix(p, p)
  BY <1>1, PrefixOrder
<1> QED
  BY <1>3, <1>4, <1>5, <1>6

(* One more name w, of which the tree S has the way down to the node a: the *)
(* nodes on its way are those down to a, and the names that go further with *)
(* it than a are leaves of a with the same nibble, of which there is one at *)
(* most.                                                                    *)
LEMMA GrowthSite ==
  ASSUME NEW S, S \subseteq Names, NEW w \in Names, NEW a \in Nodes(S), IsPrefix(a, w),
         Child(a, w) \notin Nodes(S)
  PROVE  /\ \A p \in Paths : IsPrefix(p, w) => (p \in Nodes(S) <=> IsPrefix(p, a))
         /\ \A p \in Paths, m \in S : IsPrefix(p, w) /\ IsPrefix(p, m) /\ p \notin Nodes(S) =>
              IsPrefix(Child(a, w), m) /\ m \in Ends(a, S) /\ Nibble(a, m) = Nibble(a, w)
         /\ \A m \in S, n \in S \union {w} :
              /\ IsPrefix(Child(a, w), m) /\ IsPrefix(Child(a, w), n)
              /\ n = w => w \in S
              => m = n
         /\ \A p \in Nodes(S) : p # a => w \notin Ends(p, S \union {w})
<1> DEFINE c == Child(a, w)
<1>1. /\ a \in Paths /\ Paths \subseteq Words /\ Names \subseteq Words /\ Nodes(S) \subseteq Paths
      /\ Len(a) \in Nat /\ Len(a) <= Depth /\ Depth \in Nat /\ \A s \in Words : Len(s) \in Nat
      /\ \A n \in Names : Len(n) = Depth + 1
  BY WordsAre, MmptAssumption DEF Nodes
<1>2. c \in Words /\ Len(c) = Len(a) + 1 /\ IsPrefix(c, w) /\ IsPrefix(a, c)
  BY <1>1, ChildIs
<1>3. ASSUME NEW p \in Paths, IsPrefix(p, w) PROVE p \in Nodes(S) <=> IsPrefix(p, a)
  <2>1. ASSUME p \in Nodes(S) PROVE IsPrefix(p, a)
    <3>1. CASE Len(p) <= Len(a)
      BY <1>1, <1>3, <3>1, PrefixOrder
    <3>2. CASE ~(Len(p) <= Len(a))
      <4>1. IsPrefix(c, p)
        BY <1>1, <1>3, <3>2, ChildOf
      <4>2. c \in Paths
        BY <1>1, <1>2, <4>1, PrefixOrder, WordsAre
      <4> QED
        BY <2>1, <4>1, <4>2, NodesUp
    <3> QED
      BY <3>1, <3>2
  <2> QED
    BY <2>1, NodesUp
<1>4. ASSUME NEW p \in Paths, NEW m \in S, IsPrefix(p, w), IsPrefix(p, m), p \notin Nodes(S)
      PROVE  IsPrefix(c, m) /\ m \in Ends(a, S) /\ Nibble(a, m) = Nibble(a, w)
  <2>1. Len(a) < Len(p)
    <3>1. CASE Len(p) <= Len(a)
      BY <1>1, <1>3, <1>4, <3>1, PrefixOrder
    <3> QED
      BY <1>1, <3>1
  <2>2. IsPrefix(c, p)
    BY <1>1, <1>4, <2>1, ChildOf
  <2>3. m \in Words /\ IsPrefix(c, m)
    BY <1>1, <1>2, <1>4, <2>2, PrefixOrder
  <2>4. IsPrefix(a, m)
    BY <1>1, <1>2, <2>3, PrefixOrder
  <2>5. Child(a, m) \in Words /\ Len(Child(a, m)) = Len(a) + 1 /\ IsPrefix(Child(a, m), m)
    BY <1>1, <2>3, <2>4, ChildIs
  <2>6. Child(a, m) = c
    <3>1. IsPrefix(Child(a, m), c)
      BY <1>1, <1>2, <2>3, <2>5, PrefixOrder
    <3> QED
      BY <1>1, <1>2, <2>5, <3>1, PrefixOrder
  <2>7. Nibble(a, m) = Nibble(a, w)
    <3>1. c[Len(a) + 1] = w[Len(a) + 1] /\ c[Len(a) + 1] = m[Len(a) + 1]
      BY <1>1, <1>2, <2>3, PrefixIs
    <3> QED
      BY <3>1 DEF Nibble
  <2> QED
    BY <2>3, <2>4, <2>6, <2>7 DEF Ends
<1>5. ASSUME NEW m \in S, NEW n \in S \union {w}, IsPrefix(c, m), IsPrefix(c, n), n = w => w \in S
      PROVE  m = n
  <2>1. n \in S /\ n \in Names /\ m \in Names
    BY <1>5
  <2>2. CASE c \in Paths
    BY <1>5, <2>1, <2>2 DEF Nodes, IsNode
  <2>3. CASE c \notin Paths
    <3>1. Len(c) = Depth + 1
      BY <1>1, <1>2, <2>3, WordsAre
    <3>2. c = m /\ c = n
      BY <1>1, <1>2, <1>5, <2>1, <3>1, PrefixOrder
    <3> QED
      BY <3>2
  <2> QED
    BY <2>2, <2>3
<1>6. ASSUME NEW p \in Nodes(S), p # a, w \in Ends(p, S \union {w}) PROVE FALSE
  <2>1. IsPrefix(p, w) /\ Child(p, w) \notin Nodes(S \union {w}) /\ p \in Paths
    BY <1>1, <1>6 DEF Ends
  <2>2. IsPrefix(p, a)
    BY <1>3, <2>1
  <2>3. Len(p) < Len(a)
    BY <1>1, <1>6, <2>1, <2>2, PrefixOrder
  <2>4. IsPrefix(Child(p, w), a)
    BY <1>1, <2>1, <2>3, ChildOf
  <2>5. Child(p, w) \in Words /\ Len(Child(p, w)) <= Len(a)
    <3>1. Len(p) < Len(w)
      BY <1>1, <2>1, <2>3
    <3>2. Child(p, w) \in Words
      BY <1>1, <2>1, <3>1, ChildIs
    <3> QED
      BY <1>1, <2>4, <3>2, PrefixOrder
  <2>6. Child(p, w) \in Paths
    BY <1>1, <2>5, WordsAre
  <2>7. Child(p, w) \in Nodes(S)
    BY <2>4, <2>6, NodesUp
  <2>8. Child(p, w) \in Nodes(S \union {w})
    BY <2>7 DEF Nodes, IsNode
  <2> QED
    BY <2>1, <2>8
<1> HIDE DEF c
<1>7. /\ \A p \in Paths, m \in S : IsPrefix(p, w) /\ IsPrefix(p, m) /\ p \notin Nodes(S) =>
              IsPrefix(c, m) /\ m \in Ends(a, S) /\ Nibble(a, m) = Nibble(a, w)
      /\ \A m \in S, n \in S \union {w} :
              /\ IsPrefix(c, m) /\ IsPrefix(c, n)
              /\ n = w => w \in S
              => m = n
  BY <1>4, <1>5
<1> QED
  BY <1>3, <1>6, <1>7 DEF c

(* No leaf there starts with the nibble: only a has a leaf more. *)
LEMMA TreeInsert ==
  ASSUME NEW S, S \subseteq Names, NEW w \in Names, NEW a \in Nodes(S), IsPrefix(a, w),
         Child(a, w) \notin Nodes(S),
         \A s \in Ends(a, S) : Nibble(a, s) # Nibble(a, w)
  PROVE  /\ w \notin S
         /\ Nodes(S \union {w}) = Nodes(S)
         /\ Ends(a, S \union {w}) = Ends(a, S) \union {w}
         /\ \A p \in Nodes(S) : p # a => Ends(p, S \union {w}) = Ends(p, S)
<1> DEFINE U == S \union {w}
<1>1. w \notin S
  BY DEF Ends
<1>2. ASSUME NEW p \in Nodes(U), p \notin Nodes(S) PROVE FALSE
  <2>1. p \in Paths /\ p # Root
    BY <1>2, NodesUp DEF Nodes
  <2>2. PICK m \in U, n \in U : m # n /\ IsPrefix(p, m) /\ IsPrefix(p, n)
    BY <2>1 DEF Nodes, IsNode
  <2>3. ~(m \in S /\ n \in S)
    BY <1>2, <2>1, <2>2 DEF Nodes, IsNode
  <2>4. \E o \in S : IsPrefix(p, o) /\ IsPrefix(p, w)
    BY <2>2, <2>3
  <2>5. \E o \in Ends(a, S) : Nibble(a, o) = Nibble(a, w)
    <3>1. \A x \in Paths, o \in S : IsPrefix(x, w) /\ IsPrefix(x, o) /\ x \notin Nodes(S) =>
            IsPrefix(Child(a, w), o) /\ o \in Ends(a, S) /\ Nibble(a, o) = Nibble(a, w)
      BY GrowthSite
    <3> QED
      BY <1>2, <2>1, <2>4, <3>1
  <2> QED
    BY <2>5
<1>3. Nodes(U) = Nodes(S)
  <2>1. Nodes(S) \subseteq Nodes(U)
    BY DEF Nodes, IsNode
  <2> HIDE DEF U
  <2> QED
    BY <1>2, <2>1
<1>4. \A p : Ends(p, U) \ {w} = Ends(p, S)
  BY <1>1, <1>3 DEF Ends
<1>5. w \in Ends(a, U)
  BY <1>3 DEF Ends
<1>6. \A p \in Nodes(S) : p # a => w \notin Ends(p, U)
  BY GrowthSite
<1> HIDE DEF U
<1>7. Ends(a, U) = Ends(a, S) \union {w} /\ \A p \in Nodes(S) : p # a => Ends(p, U) = Ends(p, S)
  BY <1>1, <1>4, <1>5, <1>6
<1> QED
  BY <1>1, <1>3, <1>7 DEF U

(* The leaf s does: both go down to the node q where they part.            *)
Between(a, q) == {p \in Paths : IsStrictPrefix(a, p) /\ IsPrefix(p, q)}
SplitSite(S, w, a, s, q, new) ==
  /\ S \subseteq Names /\ w \in Names /\ a \in Nodes(S) /\ IsPrefix(a, w)
  /\ Child(a, w) \notin Nodes(S)
  /\ s \in Ends(a, S) /\ Nibble(a, s) = Nibble(a, w) /\ s # w
  /\ q = LongestCommonPrefix({s, w}) /\ new = Between(a, q)

SplitTree(S, w, a, s, q, new) ==
  /\ w \notin S /\ q \in new /\ q # a
  /\ \A p \in new : IsPrefix(p, w) /\ p \notin Nodes(S)
  /\ Nodes(S \union {w}) = Nodes(S) \union new
  /\ Ends(a, S \union {w}) = Ends(a, S) \ {s}
  /\ Ends(q, S \union {w}) = {s, w}
  /\ \A p \in new : p # q => Ends(p, S \union {w}) = {}
  /\ \A p \in Nodes(S) : p # a => Ends(p, S \union {w}) = Ends(p, S)

(* At such a site one name more makes such a tree. *)
LEMMA TreeSplit ==
  ASSUME NEW S, NEW w, NEW a, NEW s, NEW q, NEW new, SplitSite(S, w, a, s, q, new)
  PROVE  SplitTree(S, w, a, s, q, new)
<1> DEFINE U == S \union {w}
           c == Child(a, w)
<1>0. /\ S \subseteq Names /\ w \in Names /\ a \in Nodes(S) /\ IsPrefix(a, w)
      /\ Child(a, w) \notin Nodes(S)
      /\ s \in Ends(a, S) /\ Nibble(a, s) = Nibble(a, w) /\ s # w
      /\ q = LongestCommonPrefix({s, w})
      /\ \A p : p \in new <=> p \in Paths /\ IsStrictPrefix(a, p) /\ IsPrefix(p, q)
  BY DEF SplitSite, Between
<1>1. /\ a \in Paths /\ a \in Words /\ Paths \subseteq Words /\ Names \subseteq Words /\ Nodes(S) \subseteq Paths
      /\ Len(a) \in Nat /\ Len(a) <= Depth /\ Depth \in Nat /\ \A t \in Words : Len(t) \in Nat
      /\ \A n \in Names : Len(n) = Depth + 1
      /\ s \in S /\ s \in Names /\ w \in Names /\ IsPrefix(a, s)
      /\ U \subseteq Names
  BY <1>0, WordsAre, MmptAssumption DEF Nodes, Ends
<1>2. c \in Words /\ Len(c) = Len(a) + 1 /\ IsPrefix(c, w) /\ IsPrefix(a, c)
  BY <1>0, <1>1, ChildIs
<1>3. c = Child(a, s) /\ IsPrefix(c, s)
  <2>1. c = Child(a, s)
    BY <1>0 DEF Child
  <2>2. IsPrefix(Child(a, s), s)
    BY <1>0, <1>1, ChildIs
  <2> QED
    BY <1>0, <2>1, <2>2
<1>4. /\ q \in Paths /\ IsPrefix(q, s) /\ IsPrefix(q, w)
      /\ \A x \in Words : IsPrefix(x, s) /\ IsPrefix(x, w) => IsPrefix(x, q)
  BY <1>0, <1>1, PartingIs
<1>5. /\ \A p \in Paths : IsPrefix(p, w) => (p \in Nodes(S) <=> IsPrefix(p, a))
      /\ \A p \in Paths, m \in S : IsPrefix(p, w) /\ IsPrefix(p, m) /\ p \notin Nodes(S) => IsPrefix(c, m)
      /\ \A m \in S, n \in U : /\ IsPrefix(c, m) /\ IsPrefix(c, n)
                               /\ n = w => w \in S
                               => m = n
      /\ \A p \in Nodes(S) : p # a => w \notin Ends(p, U)
  <2>1. /\ \A p \in Paths : IsPrefix(p, w) => (p \in Nodes(S) <=> IsPrefix(p, a))
        /\ \A p \in Paths, m \in S : IsPrefix(p, w) /\ IsPrefix(p, m) /\ p \notin Nodes(S) =>
             IsPrefix(Child(a, w), m) /\ m \in Ends(a, S) /\ Nibble(a, m) = Nibble(a, w)
        /\ \A m \in S, n \in S \union {w} :
             /\ IsPrefix(Child(a, w), m) /\ IsPrefix(Child(a, w), n)
             /\ n = w => w \in S
             => m = n
        /\ \A p \in Nodes(S) : p # a => w \notin Ends(p, S \union {w})
    BY <1>0, GrowthSite
  <2> QED
    BY <1>0, <2>1
<1>6. c \notin Nodes(S)
  BY <1>0
<1> HIDE DEF c, U
<1>7. IsPrefix(c, q) /\ c \in Paths /\ Len(a) < Len(q)
  <2>1. IsPrefix(c, q)
    BY <1>0, <1>2, <1>3, <1>4
  <2>2. Len(c) <= Len(q) /\ Len(q) <= Depth
    BY <1>0, <1>1, <1>2, <1>4, <2>1, PrefixOrder, WordsAre
  <2>3. c \in Paths
    BY <1>0, <1>1, <1>2, <1>4, <2>2, WordsAre
  <2>4. Len(a) < Len(q)
    BY <1>0, <1>1, <1>2, <1>4, <2>2
  <2> QED
    BY <1>0, <2>1, <2>3, <2>4
<1>8. w \notin S
  BY <1>0, <1>1, <1>2, <1>3, <1>5 DEF U
<1>9. \A n \in U : IsPrefix(c, n) => n = s \/ n = w
  BY <1>0, <1>1, <1>3, <1>5 DEF U
<1>10. \A p \in Words : p \in new <=> p \in Paths /\ IsPrefix(p, q) /\ IsPrefix(c, p)
  <2> SUFFICES ASSUME NEW p \in Paths, IsPrefix(p, q) PROVE IsStrictPrefix(a, p) <=> IsPrefix(c, p)
    BY <1>0, <1>1
  <2>1. p \in Words /\ IsPrefix(p, w)
    BY <1>0, <1>1, <1>4, PrefixOrder
  <2>2. ASSUME IsStrictPrefix(a, p) PROVE IsPrefix(c, p)
    <3>1. Len(a) < Len(p)
      BY <1>0, <1>1, <2>1, <2>2, PrefixOrder DEF IsStrictPrefix
    <3> QED
      BY <1>0, <1>1, <2>1, <3>1, ChildOf DEF c
  <2>3. ASSUME IsPrefix(c, p) PROVE IsStrictPrefix(a, p)
    <3>1. IsPrefix(a, p) /\ Len(c) <= Len(p)
      BY <1>0, <1>1, <1>2, <2>1, <2>3, PrefixOrder
    <3>2. a # p
      BY <1>0, <1>1, <1>2, <3>1
    <3> QED
      BY <1>0, <3>1, <3>2 DEF IsStrictPrefix
  <2> QED
    BY <1>0, <2>2, <2>3
<1>11. ASSUME NEW p \in new
       PROVE  /\ p \in Paths /\ p \in Words /\ IsPrefix(p, q) /\ IsPrefix(p, w) /\ IsPrefix(p, s) /\ IsPrefix(c, p)
              /\ p \notin Nodes(S) /\ p \in Nodes(U)
  <2>1. p \in Paths /\ p \in Words
    BY <1>0, <1>1
  <2>2. IsPrefix(p, q) /\ IsPrefix(c, p)
    BY <1>0, <1>10, <2>1
  <2>3. IsPrefix(p, w) /\ IsPrefix(p, s)
    BY <1>0, <1>1, <1>4, <2>1, <2>2, PrefixOrder
  <2>4. p \notin Nodes(S)
    BY <1>0, <1>6, <1>7, <2>2, NodesUp
  <2>5. p \in Nodes(U)
    BY <1>0, <1>1, <2>1, <2>3 DEF Nodes, IsNode, U
  <2> QED
    BY <1>0, <2>1, <2>2, <2>3, <2>4, <2>5
<1>12. q \in new /\ c \in new /\ q # a
  <2>1. q \in Words /\ IsPrefix(q, q) /\ IsPrefix(c, c)
    BY <1>0, <1>1, <1>2, <1>4, PrefixOrder
  <2>2. q # a
    BY <1>0, <1>1, <1>7
  <2> QED
    BY <1>0, <1>2, <1>4, <1>7, <1>10, <2>1, <2>2
<1>13. ASSUME NEW p \in Nodes(U), p \notin Nodes(S) PROVE p \in new
  <2>1. p \in Paths /\ p # Root /\ p \in Words
    BY <1>0, <1>1, <1>13, NodesUp DEF Nodes
  <2>2. PICK m \in U, n \in U : m # n /\ IsPrefix(p, m) /\ IsPrefix(p, n)
    BY <1>0, <2>1 DEF Nodes, IsNode
  <2>3. ~(m \in S /\ n \in S)
    BY <1>0, <1>13, <2>1, <2>2 DEF Nodes, IsNode
  <2>4. PICK o \in S : IsPrefix(p, o) /\ IsPrefix(p, w)
    BY <1>0, <2>2, <2>3 DEF U
  <2>5. IsPrefix(c, o)
    BY <1>0, <1>5, <1>13, <2>1, <2>4
  <2>6. o = s
    BY <1>0, <1>8, <1>9, <2>5 DEF U
  <2>7. IsPrefix(p, q)
    BY <1>0, <1>4, <2>1, <2>4, <2>6
  <2>8. IsPrefix(c, p)
    <3>1. Len(a) < Len(p)
      <4>1. CASE Len(p) <= Len(a)
        <5>1. IsPrefix(p, a)
          BY <1>0, <1>1, <2>1, <2>4, <4>1, PrefixOrder
        <5> QED
          BY <1>0, <1>5, <1>13, <2>1, <2>4, <5>1
      <4> QED
        BY <1>0, <1>1, <2>1, <4>1
    <3> QED
      BY <1>0, <1>1, <2>1, <2>4, <3>1, ChildOf DEF c
  <2> QED
    BY <1>0, <1>10, <2>1, <2>7, <2>8
<1>14. Nodes(U) = Nodes(S) \union new
  <2>1. Nodes(S) \subseteq Nodes(U)
    BY <1>0 DEF Nodes, IsNode, U
  <2> QED
    BY <1>0, <1>11, <1>13, <2>1
<1>15. Ends(a, U) = Ends(a, S) \ {s}
  <2>1. \A n \in U : IsPrefix(a, n) => /\ Child(a, n) \in Words /\ IsPrefix(Child(a, n), n)
                                       /\ Len(Child(a, n)) = Len(c)
    BY <1>0, <1>1, <1>2, ChildIs
  <2>2. Child(a, w) \in Nodes(U) /\ Child(a, s) \in Nodes(U)
    BY <1>0, <1>3, <1>11, <1>12 DEF c
  <2>3. ASSUME NEW n \in S, IsPrefix(a, n), Child(a, n) \in new PROVE n = s
    <3>1. IsPrefix(c, Child(a, n)) /\ n \in U
      BY <1>0, <1>11, <2>3 DEF U
    <3>2. IsPrefix(c, n)
      BY <1>0, <1>1, <1>2, <2>1, <2>3, <3>1, PrefixOrder
    <3> QED
      BY <1>0, <1>8, <1>9, <3>1, <3>2
  <2> QED
    BY <1>0, <1>8, <1>14, <2>2, <2>3 DEF Ends, U
<1>16. Ends(q, U) = {s, w}
  <2>1. ASSUME NEW n \in Ends(q, U) PROVE n \in {s, w}
    <3>1. n \in U /\ IsPrefix(q, n) /\ n \in Words
      BY <1>0, <1>1 DEF Ends
    <3>2. IsPrefix(c, n)
      BY <1>0, <1>1, <1>2, <1>4, <1>7, <3>1, PrefixOrder
    <3> QED
      BY <1>0, <1>9, <3>1, <3>2
  <2>2. ASSUME NEW n \in {s, w} PROVE n \in Ends(q, U)
    <3>1. n \in U /\ n \in Words /\ IsPrefix(q, n) /\ q \in Words /\ Len(q) \in Nat /\ Len(q) < Len(n)
      <4>1. n \in U /\ n \in Words /\ IsPrefix(q, n) /\ q \in Words /\ Len(q) \in Nat /\ Len(n) = Depth + 1
        BY <1>0, <1>1, <1>4 DEF U
      <4>2. Len(q) <= Depth
        BY <1>0, <1>4, <4>1, WordsAre
      <4> QED
        BY <1>0, <1>1, <4>1, <4>2
    <3>2. /\ Child(q, n) \in Words /\ Len(Child(q, n)) = Len(q) + 1 /\ IsPrefix(q, Child(q, n))
      BY <1>0, <1>4, <3>1, ChildIs
    <3>3. Child(q, n) \notin new
      <4>1. ASSUME IsPrefix(Child(q, n), q) PROVE FALSE
        BY <1>0, <3>1, <3>2, <4>1, PrefixOrder
      <4> QED
        BY <1>0, <1>11, <4>1
    <3>4. Child(q, n) \notin Nodes(S)
      <4>1. IsPrefix(c, Child(q, n))
        BY <1>0, <1>1, <1>2, <1>7, <3>1, <3>2, PrefixOrder
      <4> QED
        BY <1>0, <1>6, <1>7, <4>1, NodesUp
    <3> QED
      BY <1>0, <1>14, <3>1, <3>3, <3>4 DEF Ends
  <2> QED
    BY <1>0, <2>1, <2>2
<1>17. ASSUME NEW p \in new, p # q PROVE Ends(p, U) = {}
  <2> SUFFICES ASSUME NEW n \in Ends(p, U) PROVE FALSE
    OBVIOUS
  <2>1. n \in U /\ IsPrefix(p, n) /\ Child(p, n) \notin Nodes(U) /\ n \in Words
    BY <1>0, <1>1 DEF Ends
  <2>2. p \in Paths /\ p \in Words /\ IsPrefix(p, q) /\ IsPrefix(c, p)
    BY <1>0, <1>11
  <2>3. n = s \/ n = w
    BY <1>0, <1>1, <1>2, <1>9, <2>1, <2>2, PrefixOrder
  <2>4. IsPrefix(q, n) /\ q \in Words
    BY <1>0, <1>1, <1>4, <2>3
  <2>5. Len(p) < Len(q)
    BY <1>0, <1>1, <1>17, <2>2, <2>4, PrefixOrder
  <2>6. IsPrefix(Child(p, n), q)
    BY <1>0, <2>1, <2>2, <2>4, <2>5, ChildOf
  <2>7. Child(p, n) \in Words /\ IsPrefix(p, Child(p, n))
    <3>1. Len(q) <= Len(n)
      BY <1>0, <2>1, <2>4, PrefixOrder
    <3>2. Len(p) < Len(n)
      BY <1>0, <1>1, <2>1, <2>2, <2>4, <2>5, <3>1
    <3> QED
      BY <1>0, <2>1, <2>2, <3>2, ChildIs
  <2>8. IsPrefix(c, Child(p, n)) /\ Len(Child(p, n)) <= Len(q) /\ Len(q) <= Depth
    BY <1>0, <1>1, <1>2, <1>4, <2>2, <2>4, <2>6, <2>7, PrefixOrder, WordsAre
  <2>9. Child(p, n) \in Paths
    BY <1>0, <1>1, <2>4, <2>7, <2>8, WordsAre
  <2>10. Child(p, n) \in new
    BY <1>0, <1>10, <2>6, <2>7, <2>8, <2>9
  <2> QED
    BY <1>0, <1>11, <2>1, <2>10
<1>18. ASSUME NEW p \in Nodes(S), p # a PROVE Ends(p, U) = Ends(p, S)
  <2>1. w \notin Ends(p, U)
    BY <1>0, <1>5, <1>18
  <2>2. ASSUME NEW n \in S, IsPrefix(p, n), Child(p, n) \in new PROVE FALSE
    <3>1. p \in Paths /\ p \in Words /\ n \in Words /\ Len(p) < Len(n)
      <4>1. p \in Paths /\ p \in Words /\ n \in Words /\ Len(n) = Depth + 1
        BY <1>0, <1>1
      <4> QED
        BY <1>0, <1>1, <4>1, WordsAre
    <3>2. IsPrefix(p, Child(p, n)) /\ Len(Child(p, n)) = Len(p) + 1 /\ Child(p, n) \in Words
      BY <1>0, <2>2, <3>1, ChildIs
    <3>3. IsPrefix(Child(p, n), w) /\ IsPrefix(c, Child(p, n))
      BY <1>0, <1>11, <2>2
    <3>4. IsPrefix(p, w)
      BY <1>0, <1>1, <3>1, <3>2, <3>3, PrefixOrder
    <3>5. IsPrefix(p, a)
      BY <1>0, <1>5, <3>1, <3>4
    <3>6. Len(p) < Len(a) /\ Len(c) <= Len(Child(p, n))
      BY <1>0, <1>1, <1>2, <1>18, <3>1, <3>2, <3>3, <3>5, PrefixOrder
    <3> QED
      BY <1>0, <1>1, <1>2, <3>1, <3>2, <3>6
  <2> QED
    BY <1>0, <1>14, <2>1, <2>2 DEF Ends, U
<1> QED
  BY <1>0, <1>8, <1>11, <1>12, <1>14, <1>15, <1>16, <1>17, <1>18 DEF SplitTree, U

-----------------------------------------------------------------------------
(* THE INVARIANT *)

(* The names that the tree holds: those that were loaded and those whose   *)
(* add has got so far that it has put them into a node.                    *)
Held == Initial \union {w \in Adds : pc[w] \in {"put", "putting", "done"}}

(* What has to be below the path p. *)
T(p) == Below(p, Tree(Held))

Typing ==
  /\ DOMAIN leaf = Paths /\ DOMAIN link = Paths
  /\ pc \in [Adds -> {"add", "load", "put", "putting", "done"}]
  /\ at \in [Adds -> Paths]
  /\ DOMAIN before = Adds /\ DOMAIN putting = Adds
  /\ \A w \in Adds : before[w] \union putting[w] \subseteq Entries

(* In memory are nodes of the tree, each with its parent. *)
MemInv ==
  /\ Root \in inMem /\ inMem \subseteq Nodes(Held)
  /\ \A p \in inMem, q \in Paths : IsPrefix(q, p) => q \in inMem

(* Their leaves are those that the tree has there; *)
LeafInv == \A p \in Paths : leaf[p] = IF p \in inMem THEN Ends(p, Held) ELSE {}

(* a link to a node that is not in memory is as good as the node.          *)
LinkInv == \A q \in Paths \ {Root} :
  q \notin inMem => link[q] = IF Parent(q) \in inMem THEN T(q) ELSE {}

(* Where a call of add stands. *)
Work(w) ==
  /\ IsPrefix(at[w], w)
  /\ pc[w] = "add" => at[w] \in inMem
  /\ pc[w] = "load" => /\ at[w] # Root /\ Parent(at[w]) \in inMem
                       /\ at[w] \notin inMem => before[w] = link[at[w]] /\ before[w] # {}
  /\ pc[w] \in {"put", "putting"} => at[w] \in inMem /\ at[w] # Root
WorkInv == \A w \in Adds : Work(w)

(* No link, put or remembered one has a name that the tree does not hold.  *)
Named(p, C) == \A e \in C : e \in Entries /\ IsPrefix(p, e[1]) /\ e[2] \in Held \union {Node}
NameInv ==
  /\ \A p \in Paths : Named(p, link[p])
  /\ \A w \in Adds : pc[w] = "putting" => Named(at[w], before[w] \union putting[w])

(* The link to p is up to date; those to its children are. *)
Full(p) == link[p] = T(p)
FullBelow(p) == \A q \in Children(p) : Full(q)

(* A link that is up to date has no stale one under it, and no put makes   *)
(* one that has; a put that would undo such a link fails the comparison.   *)
FullInv == \A p \in inMem \ {Root} : Full(p) => FullBelow(p)
PutOk(w) == pc[w] = "putting" =>
  /\ putting[w] = T(at[w]) => FullBelow(at[w])
  /\ before[w] = T(at[w]) => putting[w] = T(at[w])
PutInv == \A w \in Adds : PutOk(w)

(* A link that is not is owed by some call that is on its way up to it and *)
(* has yet to put the node, or is putting what it has to be.               *)
Owes(w, p) ==
  /\ IsPrefix(p, at[w])
  /\ \/ pc[w] = "put"
     \/ pc[w] = "putting" /\ (at[w] # p \/ putting[w] = T(p))
OwedInv == \A p \in inMem \ {Root} : Full(p) \/ \E w \in Adds : Owes(w, p)

IInv ==
  /\ Typing /\ MemInv /\ LeafInv /\ LinkInv /\ WorkInv
  /\ NameInv /\ FullInv /\ PutInv /\ OwedInv

(* The names that are held are names, and the tree of them is as above.    *)
LEMMA HeldTree ==
  /\ Held \subseteq Names
  /\ \A p \in Paths :
       /\ p \notin Nodes(Held) => T(p) = {}
       /\ p \in Nodes(Held) =>
            /\ T(p) # {}
            /\ T(p) = {<<p, Node>>} \union ({p} \X Ends(p, Held)) \union UNION {T(q) : q \in Children(p)}
            /\ LeavesOf(p, T(p)) = Ends(p, Held)
       /\ \A q \in Paths : IsPrefix(p, q) => Below(q, T(p)) = T(q)
       /\ Named(p, T(p))
<1>1. Held \subseteq Names
  BY MmptAssumption DEF Held
<1>2. ASSUME NEW p \in Paths PROVE Named(p, T(p))
  <2>1. \A e \in Tree(Held) : e \in Entries /\ e = <<e[1], e[2]>> /\ (e[2] = Node \/ e[2] \in Ends(e[1], Held))
    BY <1>1, TreeIs
  <2> QED
    BY <2>1 DEF Named, T, Below, Ends
<1>3. ASSUME NEW p \in Paths
      PROVE  /\ p \notin Nodes(Held) => T(p) = {}
             /\ p \in Nodes(Held) =>
                  /\ T(p) # {}
                  /\ T(p) = {<<p, Node>>} \union ({p} \X Ends(p, Held)) \union UNION {T(q) : q \in Children(p)}
                  /\ LeavesOf(p, T(p)) = Ends(p, Held)
             /\ \A q \in Paths : IsPrefix(p, q) => Below(q, T(p)) = T(q)
  BY <1>1, TreeBelow DEF T
<1> QED
  BY <1>1, <1>2, <1>3

(* What a put finds in memory is up to date when the links in it are.      *)
LEMMA ContentIs ==
  ASSUME IInv, NEW p \in inMem
  PROVE  /\ Content(p) = T(p) <=> FullBelow(p)
         /\ Named(p, Content(p))
         /\ \A q \in Children(p) : q \notin inMem => Full(q)
<1>1. p \in Nodes(Held) /\ p \in Paths /\ leaf[p] = Ends(p, Held)
  BY DEF IInv, MemInv, LeafInv, Nodes
<1>2. \A q \in Children(p) : Named(q, link[q])
  BY DEF IInv, NameInv, Children
<1>3. ASSUME FullBelow(p) PROVE Content(p) = T(p)
  <2>1. UNION {link[q] : q \in Children(p)} = UNION {T(q) : q \in Children(p)}
    BY <1>3 DEF FullBelow, Full
  <2> QED
    BY <1>1, <2>1, HeldTree DEF Content
<1>4. ASSUME Content(p) = T(p), NEW q \in Children(p) PROVE Full(q)
  <2>1. q \in Paths /\ q \in Words /\ IsPrefix(p, q) /\ ~IsPrefix(q, p) /\ Len(q) = Len(p) + 1 /\ Paths \subseteq Words
    BY <1>1, ChildrenAre, WordsAre
  <2>2. Below(q, Content(p)) = link[q]
    <3>1. ASSUME NEW e \in link[q] PROVE e \in Content(p) /\ IsPrefix(q, e[1])
      BY <1>2 DEF Content, Named
    <3>2. ASSUME NEW e \in Content(p), IsPrefix(q, e[1]) PROVE e \in link[q]
      <4>1. e[1] # p
        BY <2>1, <3>2
      <4>2. PICK r \in Children(p) : e \in link[r]
        BY <4>1 DEF Content
      <4>3. r \in Words /\ Len(r) = Len(q) /\ IsPrefix(r, e[1]) /\ e[1] \in Words
        BY <1>1, <1>2, <2>1, <4>2, ChildrenAre DEF Named, Entries
      <4>4. r = q
        <5>1. Len(r) \in Nat /\ Len(q) \in Nat
          BY <2>1, <4>3, WordsAre, MmptAssumption
        <5>2. IsPrefix(r, q)
          BY <2>1, <3>2, <4>3, <5>1, PrefixOrder
        <5> QED
          BY <2>1, <4>3, <5>1, <5>2, PrefixOrder
      <4> QED
        BY <4>2, <4>4
    <3> QED
      BY <3>1, <3>2 DEF Below
  <2>3. Below(q, T(p)) = T(q)
    BY <1>1, <2>1, HeldTree
  <2> QED
    BY <1>4, <2>2, <2>3 DEF Full
<1>5. Named(p, Content(p))
  <2>1. p \in Words /\ Paths \subseteq Words /\ IsPrefix(p, p)
    BY <1>1, WordsAre, PrefixOrder
  <2>2. ASSUME NEW e \in Content(p) PROVE e \in Entries /\ IsPrefix(p, e[1]) /\ e[2] \in Held \union {Node}
    <3>1. CASE e = <<p, Node>>
      BY <1>1, <2>1, <3>1 DEF Entries
    <3>2. CASE e \in {p} \X leaf[p]
      BY <1>1, <2>1, <3>2, HeldTree DEF Entries, Ends
    <3>3. CASE \E q \in Children(p) : e \in link[q]
      <4>1. PICK q \in Children(p) : e \in link[q]
        BY <3>3
      <4>2. e \in Entries /\ IsPrefix(q, e[1]) /\ e[2] \in Held \union {Node} /\ e[1] \in Paths
        BY <1>2, <4>1 DEF Named, Entries
      <4>3. IsPrefix(p, e[1])
        BY <1>1, <2>1, <4>2, ChildrenAre, PrefixOrder
      <4> QED
        BY <4>2, <4>3
    <3> QED
      BY <3>1, <3>2, <3>3 DEF Content
  <2> QED
    BY <2>2 DEF Named
<1>6. \A q \in Children(p) : q \notin inMem => Full(q)
  BY DEF IInv, LinkInv, Children, Full
<1> QED
  BY <1>3, <1>4, <1>5, <1>6 DEF FullBelow

(* At the start the tree is what was loaded. *)
LEMMA Initially == Init => IInv
<1> SUFFICES ASSUME Init PROVE IInv
  OBVIOUS
<1>1. Held = Initial
  BY DEF Init, Held
<1>2. Root \in Nodes(Held) /\ Root \in Paths /\ Root \in Words /\ Len(Root) = 0 /\ Paths \subseteq Words
      /\ Names \subseteq Words /\ \A s \in Words : Len(s) \in Nat /\ IsPrefix(Root, s)
  <2>1. Root \in Paths /\ Root \in Words /\ Len(Root) = 0 /\ Paths \subseteq Words
      /\ Names \subseteq Words /\ \A s \in Words : Len(s) \in Nat
    BY WordsAre, MmptAssumption
  <2>2. \A s \in Words : IsPrefix(Root, s)
    BY <2>1, PrefixIs
  <2> QED
    BY <2>1, <2>2, HeldTree, NodesUp
<1>3. Typing
  BY <1>2 DEF Init, Typing
<1>4. ASSUME NEW q \in Paths, IsPrefix(q, Root) PROVE q = Root
  BY <1>2, <1>4, PrefixOrder
<1>5. MemInv
  BY <1>2, <1>4 DEF Init, MemInv
<1>6. LeafInv
  <2>1. T(Root) = Tree(Initial)
    <3>1. \A e \in Tree(Held) : IsPrefix(Root, e[1])
      BY <1>2, HeldTree, TreeIs DEF Nodes
    <3> QED
      BY <1>1, <3>1 DEF T, Below
  <2>2. LeavesOf(Root, Tree(Initial)) = Ends(Root, Held)
    BY <1>2, <2>1, HeldTree
  <2> QED
    BY <2>2 DEF Init, LeafInv
<1>7. ASSUME NEW q \in Paths, q # Root PROVE Parent(q) \in inMem <=> Len(q) = 1
  <2>1. Parent(q) \in Words /\ Len(Parent(q)) = Len(q) - 1 /\ Len(q) \in Nat
    BY <1>2, <1>7, ParentIs
  <2>2. Parent(q) = Root <=> Len(q) = 1
    BY <1>2, <2>1, PrefixOrder
  <2> QED
    BY <2>2 DEF Init
<1>8. LinkInv
  BY <1>1, <1>7 DEF Init, LinkInv, T
<1>9. WorkInv
  <2>1. \A w \in Adds : IsPrefix(Root, w)
    BY <1>2, MmptAssumption
  <2> QED
    BY <2>1 DEF Init, WorkInv, Work
<1>10. NameInv
  <2>1. \A p \in Paths : Named(p, T(p)) /\ Named(p, {})
    BY HeldTree DEF Named
  <2>2. \A p \in Paths : link[p] = {} \/ link[p] = T(p)
    BY <1>1 DEF Init, T
  <2>3. \A w \in Adds : pc[w] # "putting"
    BY DEF Init
  <2> QED
    BY <2>1, <2>2, <2>3 DEF NameInv
<1>11. FullInv /\ PutInv /\ OwedInv
  BY DEF Init, FullInv, PutInv, PutOk, OwedInv
<1> QED
  BY <1>3, <1>5, <1>6, <1>8, <1>9, <1>10, <1>11 DEF IInv

(* While no name is added nothing changes in the tree to be. *)
LEMMA SameHeld ==
  ASSUME Held' = Held
  PROVE  \A p : T(p)' = T(p)
BY DEF T

(* ... nor, while the nodes stay as they are, what is said of them. *)
LEMMA SameNodes ==
  ASSUME IInv, Held' = Held, UNCHANGED <<leaf, link, inMem>>
  PROVE  /\ MemInv' /\ LeafInv' /\ LinkInv' /\ FullInv'
         /\ \A p : Full(p)' = Full(p) /\ FullBelow(p)' = FullBelow(p)
         /\ \A p \in Paths : Named(p, link[p])'
<1>1. \A p : T(p)' = T(p)
  BY SameHeld
<1>2. MemInv'
  BY DEF IInv, MemInv
<1>3. LeafInv'
  BY DEF IInv, LeafInv
<1>4. LinkInv'
  BY <1>1 DEF IInv, LinkInv
<1>5. \A p : Full(p)' = Full(p) /\ FullBelow(p)' = FullBelow(p)
  BY <1>1 DEF Full, FullBelow
<1>6. FullInv'
  BY <1>5 DEF IInv, FullInv
<1>7. \A p \in Paths : Named(p, link[p])'
  BY DEF IInv, NameInv, Named
<1> QED
  BY <1>2, <1>3, <1>4, <1>5, <1>6, <1>7

(* A node is put as it is now, for the first time or again. *)
LEMMA PutNow ==
  ASSUME IInv, NEW w \in Adds, pc[w] \in {"put", "putting"},
         pc' = [pc EXCEPT ![w] = "putting"],
         before' = [before EXCEPT ![w] = link[at[w]]],
         putting' = [putting EXCEPT ![w] = Content(at[w])],
         UNCHANGED <<leaf, link, inMem, at>>
  PROVE  IInv'
<1> DEFINE p == at[w]
<1>1. /\ p \in inMem /\ p # Root /\ p \in Paths
      /\ Typing
  BY DEF IInv, WorkInv, Work, Typing
<1>2. /\ pc'[w] = "putting" /\ before'[w] = link[p] /\ putting'[w] = Content(p)
      /\ \A v \in Adds : v # w => pc'[v] = pc[v] /\ before'[v] = before[v] /\ putting'[v] = putting[v]
  BY <1>1 DEF Typing
<1>3. Held' = Held
  BY <1>2 DEF Held
<1>4. /\ MemInv' /\ LeafInv' /\ LinkInv' /\ FullInv'
      /\ \A q : Full(q)' = Full(q) /\ FullBelow(q)' = FullBelow(q)
      /\ \A q \in Paths : Named(q, link[q])'
      /\ \A q : T(q)' = T(q)
  BY <1>3, SameNodes, SameHeld
<1>5. /\ Content(p) = T(p) <=> FullBelow(p)
      /\ Named(p, Content(p)) /\ Named(p, link[p])
      /\ \A q \in Children(p) : q \notin inMem => Full(q)
  BY <1>1, ContentIs DEF IInv, NameInv
<1> HIDE DEF p
<1>6. Typing'
  <2>1. Content(p) \subseteq Entries /\ link[p] \subseteq Entries
    BY <1>5 DEF Named
  <2> QED
    BY <1>1, <1>2, <2>1 DEF Typing, p
<1>7. WorkInv'
  BY <1>1, <1>2 DEF IInv, WorkInv, Work, p
<1>8. NameInv'
  <2>1. ASSUME NEW v \in Adds, pc'[v] = "putting" PROVE Named(at[v], before[v] \union putting[v])'
    <3>1. CASE v = w
      BY <1>2, <1>3, <1>5, <3>1 DEF Named, p
    <3>2. CASE v # w
      BY <1>2, <1>3, <2>1, <3>2 DEF IInv, NameInv, Named
    <3> QED
      BY <3>1, <3>2
  <2> QED
    BY <1>4, <2>1 DEF NameInv
<1>9. PutInv'
  <2>1. ASSUME NEW v \in Adds PROVE PutOk(v)'
    <3>1. CASE v = w
      <4>1. Full(p) => FullBelow(p)
        BY <1>1 DEF IInv, FullInv
      <4> QED
        BY <1>2, <1>4, <1>5, <3>1, <4>1 DEF PutOk, Full, p
    <3>2. CASE v # w
      BY <1>2, <1>4, <3>2 DEF IInv, PutInv, PutOk
    <3> QED
      BY <3>1, <3>2
  <2> QED
    BY <2>1 DEF PutInv
<1>10. \A v \in Adds : \A q : v # w => (Owes(v, q)' = Owes(v, q))
  BY <1>2, <1>4 DEF Owes
<1>11. ASSUME NEW q \in inMem \ {Root}, Owes(w, q) PROVE \E v \in Adds : Owes(v, q)'
  <2>1. IsPrefix(q, p)
    BY <1>11 DEF Owes, p
  <2>2. CASE q # p \/ Content(p) = T(p)
    BY <1>2, <1>4, <2>1, <2>2 DEF Owes, p
  <2>3. CASE q = p /\ Content(p) # T(p)
    <3>1. PICK r \in Children(p) : ~Full(r)
      BY <1>5, <2>3 DEF FullBelow
    <3>2. r \in inMem \ {Root} /\ r # p /\ ~IsPrefix(r, p) /\ IsPrefix(p, r) /\ r \in Words
      BY <1>1, <1>5, <3>1, ChildrenAre, WordsAre
    <3>3. PICK v \in Adds : Owes(v, r)
      BY <3>1, <3>2 DEF IInv, OwedInv
    <3>4. v # w /\ at[v] # p /\ IsPrefix(r, at[v])
      BY <3>2, <3>3 DEF Owes, p
    <3>5. IsPrefix(p, at[v])
      <4>1. p \in Words /\ at[v] \in Words
        BY <1>1, WordsAre DEF Typing
      <4> QED
        BY <3>2, <3>4, <4>1, PrefixOrder
    <3>6. Owes(v, p)
      BY <3>3, <3>4, <3>5 DEF Owes
    <3> QED
      BY <1>10, <2>3, <3>4, <3>6
  <2> QED
    BY <2>2, <2>3
<1>12. OwedInv'
  BY <1>4, <1>10, <1>11 DEF IInv, OwedInv
<1> QED
  BY <1>4, <1>6, <1>7, <1>8, <1>9, <1>12 DEF IInv

(* Both begin and repeat of a put are such a step. *)
LEMMA BeginPutKeeps ==
  ASSUME IInv, NEW w \in Adds, BeginPut(w)
  PROVE  IInv'
BY PutNow DEF BeginPut

LEMMA RetryKeeps ==
  ASSUME IInv, NEW w \in Adds, Retry(w)
  PROVE  IInv'
<1>1. pc' = [pc EXCEPT ![w] = "putting"]
  BY DEF Retry, IInv, Typing
<1> QED
  BY <1>1, PutNow DEF Retry

(* The link that was remembered is still there: the new one takes its      *)
(* place, and the call goes up.  No link that was up to date is made stale *)
(* by it.                                                                  *)
LEMMA EndPutKeeps ==
  ASSUME IInv, NEW w \in Adds, EndPut(w)
  PROVE  IInv'
<1> DEFINE p == at[w]
           u == Parent(p)
           C == putting[w]
<1>1. /\ p \in inMem /\ p # Root /\ p \in Paths /\ pc[w] = "putting" /\ link[p] = before[w]
      /\ Typing /\ Paths \subseteq Words /\ Names \subseteq Words
      /\ \A v \in Adds : at[v] \in Words
  BY WordsAre DEF EndPut, LinkIsAsBefore, IInv, WorkInv, Work, Typing
<1>2. u \in Paths /\ IsPrefix(u, p) /\ u \in inMem /\ \A s \in Words : IsPrefix(s, p) /\ s # p => IsPrefix(s, u)
  <2>1. u \in Paths /\ IsPrefix(u, p) /\ \A s \in Words : IsPrefix(s, p) /\ s # p => IsPrefix(s, u)
    BY <1>1, ParentIs
  <2> QED
    BY <1>1, <2>1 DEF IInv, MemInv
<1>3. /\ link'[p] = C /\ \A q \in Paths : q # p => link'[q] = link[q]
      /\ pc'[w] = (IF u = Root THEN "done" ELSE "put") /\ at'[w] = u
      /\ \A v \in Adds : v # w => pc'[v] = pc[v] /\ at'[v] = at[v]
      /\ UNCHANGED <<leaf, inMem, before, putting>>
  <2> HIDE DEF u
  <2>1. Ascend(w, u) /\ link' = [link EXCEPT ![p] = C] /\ UNCHANGED <<leaf, inMem>>
    BY DEF EndPut, u
  <2> QED
    BY <1>1, <2>1 DEF Ascend, Typing
<1> HIDE DEF p, u, C
<1>4. Held' = Held
  BY <1>1, <1>3 DEF Held
<1>5. \A q : T(q)' = T(q)
  BY <1>4, SameHeld
<1>6. Typing'
  <2>1. /\ DOMAIN leaf' = Paths /\ DOMAIN link' = Paths
        /\ pc' \in [Adds -> {"add", "load", "put", "putting", "done"}]
        /\ at' \in [Adds -> Paths]
    <3>1. /\ link' = [link EXCEPT ![p] = C] /\ at' = [at EXCEPT ![w] = u]
          /\ pc' = [pc EXCEPT ![w] = IF u = Root THEN "done" ELSE "put"]
      BY DEF EndPut, Ascend, p, u, C
    <3> QED
      BY <1>1, <1>2, <1>3, <3>1 DEF Typing
  <2> QED
    BY <1>1, <1>3, <2>1 DEF Typing
<1>7. MemInv' /\ LeafInv'
  BY <1>3, <1>4 DEF IInv, MemInv, LeafInv
<1>8. LinkInv'
  BY <1>1, <1>3, <1>5 DEF IInv, LinkInv
<1>9. WorkInv'
  <2>1. Work(w)'
    <3>1. IsPrefix(u, w)
      <4>1. IsPrefix(p, w) /\ w \in Words
        BY <1>1, MmptAssumption DEF IInv, WorkInv, Work, p
      <4> QED
        BY <1>1, <1>2, <4>1, PrefixOrder
    <3> QED
      BY <1>2, <1>3, <3>1 DEF Work
  <2>2. ASSUME NEW v \in Adds, v # w PROVE Work(v)'
    <3>1. Work(v) /\ at[v] \in Paths
      BY <1>1 DEF IInv, WorkInv, Typing
    <3> QED
      BY <1>1, <1>3, <2>2, <3>1 DEF Work
  <2> QED
    BY <2>1, <2>2 DEF WorkInv
<1>10. NameInv'
  <2>1. Named(p, C)
    BY <1>1 DEF IInv, NameInv, Named, p, C
  <2>2. ASSUME NEW q \in Paths PROVE Named(q, link[q])'
    BY <1>3, <1>4, <2>1 DEF IInv, NameInv, Named
  <2>3. ASSUME NEW v \in Adds, pc'[v] = "putting" PROVE Named(at[v], before[v] \union putting[v])'
    BY <1>3, <1>4, <2>3 DEF IInv, NameInv, Named
  <2> QED
    BY <2>2, <2>3 DEF NameInv
<1>11. C = T(p) => FullBelow(p)
  BY <1>1 DEF IInv, PutInv, PutOk, p, C
<1>12. \A q \in Paths : Full(q) => Full(q)'
  <2>1. Full(p) => C = T(p)
    BY <1>1 DEF Full, IInv, PutInv, PutOk, p, C
  <2> QED
    BY <1>3, <1>5, <2>1 DEF Full
<1>13. \A q \in Paths : FullBelow(q) => FullBelow(q)'
  BY <1>12 DEF FullBelow, Children
<1>14. FullInv'
  <2>1. ASSUME NEW q \in inMem \ {Root}, Full(q)' PROVE FullBelow(q)'
    <3>1. q \in Paths
      BY DEF IInv, MemInv, Nodes
    <3>2. CASE q = p
      BY <1>3, <1>5, <1>11, <1>13, <2>1, <3>1, <3>2 DEF Full
    <3>3. CASE q # p
      <4>1. Full(q)
        BY <1>3, <1>5, <2>1, <3>1, <3>3 DEF Full
      <4> QED
        BY <1>13, <3>1, <4>1 DEF IInv, FullInv
    <3> QED
      BY <3>2, <3>3
  <2> QED
    BY <1>3, <2>1 DEF FullInv
<1>15. PutInv'
  <2>1. ASSUME NEW v \in Adds PROVE PutOk(v)'
    <3>1. at[v] \in Paths /\ PutOk(v)
      BY <1>1 DEF Typing, IInv, PutInv
    <3> QED
      BY <1>3, <1>5, <1>13, <3>1 DEF PutOk
  <2> QED
    BY <2>1 DEF PutInv
<1>16. OwedInv'
  <2>1. ASSUME NEW q \in inMem \ {Root} PROVE Full(q)' \/ \E v \in Adds : Owes(v, q)'
    <3>1. q \in Paths /\ q \in Words /\ Root \in Words
      BY <1>1, WordsAre DEF IInv, MemInv, Nodes
    <3>2. CASE Full(q)
      BY <1>12, <3>1, <3>2
    <3>3. ASSUME NEW v \in Adds, Owes(v, q), v # w PROVE Owes(v, q)'
      BY <1>3, <1>5, <3>3 DEF Owes
    <3>4. CASE Owes(w, q)
      <4>1. IsPrefix(q, p) /\ (p # q \/ C = T(q))
        BY <1>1, <3>4 DEF Owes, p, C
      <4>2. CASE p = q
        BY <1>3, <1>5, <4>1, <4>2 DEF Full
      <4>3. CASE p # q
        <5>1. IsPrefix(q, u)
          BY <1>2, <3>1, <4>1, <4>3
        <5>2. u # Root
          <6>1. ASSUME IsPrefix(q, Root) PROVE q = Root
            <7>1. Len(q) >= 0 /\ Len(Root) = 0 /\ Len(q) \in Nat
              BY <3>1, WordsAre, MmptAssumption
            <7>2. Len(q) >= Len(Root)
              BY <7>1
            <7> QED
              BY <3>1, <6>1, <7>2, PrefixOrder
          <6> QED
            BY <5>1, <6>1
        <5> QED
          BY <1>3, <5>1, <5>2 DEF Owes
      <4> QED
        BY <4>2, <4>3
    <3>5. Full(q) \/ \E v \in Adds : Owes(v, q)
      BY DEF IInv, OwedInv
    <3> QED
      BY <3>2, <3>3, <3>4, <3>5
  <2> QED
    BY <1>3, <2>1 DEF OwedInv
<1> QED
  BY <1>6, <1>7, <1>8, <1>9, <1>10, <1>14, <1>15, <1>16 DEF IInv

(* A call that only looks for its place, or finds its name there.          *)
LEMMA QuietKeeps ==
  ASSUME IInv, NEW w \in Adds, pc[w] \in {"add", "load"}, pc'[w] # "putting",
         Held' = Held, Typing', Work(w)',
         \A v \in Adds : v # w => /\ pc'[v] = pc[v] /\ at'[v] = at[v]
                                  /\ before'[v] = before[v] /\ putting'[v] = putting[v],
         UNCHANGED <<leaf, link, inMem>>
  PROVE  IInv'
<1>1. /\ MemInv' /\ LeafInv' /\ LinkInv' /\ FullInv'
      /\ \A q : Full(q)' = Full(q) /\ FullBelow(q)' = FullBelow(q)
      /\ \A q \in Paths : Named(q, link[q])'
      /\ \A q : T(q)' = T(q)
  BY SameNodes, SameHeld
<1>2. WorkInv'
  <2>1. ASSUME NEW v \in Adds, v # w PROVE Work(v)'
    BY <2>1 DEF IInv, WorkInv, Work
  <2> QED
    BY <2>1 DEF WorkInv
<1>3. NameInv'
  <2>1. ASSUME NEW v \in Adds, pc'[v] = "putting" PROVE Named(at[v], before[v] \union putting[v])'
    BY <2>1 DEF IInv, NameInv, Named
  <2> QED
    BY <1>1, <2>1 DEF NameInv
<1>4. PutInv'
  <2>1. ASSUME NEW v \in Adds, pc'[v] = "putting" PROVE PutOk(v)'
    <3>1. PutOk(v) /\ v # w
      BY <2>1 DEF IInv, PutInv
    <3> QED
      BY <1>1, <3>1 DEF PutOk
  <2> QED
    BY <2>1 DEF PutInv, PutOk
<1>5. ASSUME NEW v \in Adds, NEW q, Owes(v, q) PROVE Owes(v, q)'
  <2>1. v # w
    BY <1>5 DEF Owes
  <2> QED
    BY <1>1, <1>5, <2>1 DEF Owes
<1>6. OwedInv'
  BY <1>1, <1>5 DEF IInv, OwedInv
<1> QED
  BY <1>1, <1>2, <1>3, <1>4, <1>6 DEF IInv

(* The three steps of a call that leave the nodes alone. *)
LEMMA SkipKeeps ==
  ASSUME IInv, NEW w \in Adds, Skip(w)
  PROVE  IInv'
<1> DEFINE p == at[w]
<1>1. /\ Typing /\ p \in inMem /\ p \in Paths /\ IsPrefix(p, w) /\ pc[w] = "add"
  BY DEF Skip, IInv, WorkInv, Work, Typing
<1>2. /\ pc' = [pc EXCEPT ![w] = IF p = Root THEN "done" ELSE "put"] /\ at' = at
      /\ UNCHANGED <<leaf, link, inMem, before, putting>>
  BY <1>1 DEF Skip, Ascend, Typing
<1>3. w \in Held
  BY <1>1 DEF Skip, IInv, LeafInv, Ends
<1> HIDE DEF p
<1>4. /\ pc'[w] = (IF p = Root THEN "done" ELSE "put")
      /\ \A v \in Adds : v # w => pc'[v] = pc[v]
  BY <1>1, <1>2 DEF Typing
<1>5. Held' = Held
  BY <1>1, <1>3, <1>4 DEF Held
<1>6. Typing'
  BY <1>1, <1>2 DEF Typing
<1>7. Work(w)'
  BY <1>1, <1>2, <1>4 DEF Work, p
<1> QED
  BY <1>1, <1>2, <1>4, <1>5, <1>6, <1>7, QuietKeeps

(* The way down from a node in memory. *)
LEMMA WayDown ==
  ASSUME IInv, NEW w \in Adds, pc[w] = "add", Child(at[w], w) \in Paths
  PROVE  /\ Child(at[w], w) # Root /\ IsPrefix(Child(at[w], w), w)
         /\ Parent(Child(at[w], w)) = at[w] /\ at[w] \in inMem
<1>1. /\ at[w] \in Paths /\ at[w] \in Words /\ IsPrefix(at[w], w) /\ at[w] \in inMem
      /\ w \in Words /\ Len(w) = Depth + 1
  BY WordsAre, MmptAssumption DEF IInv, Typing, WorkInv, Work
<1>2. Len(at[w]) < Len(w)
  BY <1>1, WordsAre, MmptAssumption
<1> QED
  BY <1>1, <1>2, ChildIs, ChildOf

LEMMA DescendKeeps ==
  ASSUME IInv, NEW w \in Adds, Descend(w)
  PROVE  IInv'
<1> DEFINE q == Child(at[w], w)
<1>1. /\ Typing /\ pc[w] = "add" /\ q \in inMem /\ q \in Paths
      /\ at' = [at EXCEPT ![w] = q] /\ UNCHANGED <<leaf, link, inMem, pc, before, putting>>
  BY DEF Descend, IInv, MemInv, Nodes
<1>2. IsPrefix(q, w)
  BY <1>1, WayDown
<1> HIDE DEF q
<1>3. Held' = Held
  BY <1>1 DEF Held
<1>4. Typing'
  BY <1>1 DEF Typing
<1>5. at'[w] = q /\ \A v \in Adds : v # w => at'[v] = at[v]
  BY <1>1 DEF Typing
<1>6. Work(w)'
  BY <1>1, <1>2, <1>5 DEF Work
<1> QED
  BY <1>1, <1>3, <1>4, <1>5, <1>6, QuietKeeps

LEMMA BeginLoadKeeps ==
  ASSUME IInv, NEW w \in Adds, BeginLoad(w)
  PROVE  IInv'
<1> DEFINE q == Child(at[w], w)
<1>1. /\ Typing /\ pc[w] = "add" /\ q \notin inMem /\ link[q] # {} /\ Len(at[w]) < Depth /\ at[w] \in Paths
      /\ pc' = [pc EXCEPT ![w] = "load"]
      /\ at' = [at EXCEPT ![w] = q]
      /\ before' = [before EXCEPT ![w] = link[q]]
      /\ UNCHANGED <<leaf, link, inMem, putting>>
  BY DEF BeginLoad, HasChild, IInv, Typing
<1>2. q \in Paths
  <2>1. /\ IsPrefix(at[w], w) /\ w \in Words /\ Len(w) = Depth + 1 /\ Len(at[w]) \in Nat /\ Depth \in Nat
    BY <1>1, WordsAre, MmptAssumption DEF IInv, WorkInv, Work
  <2>2. q \in Words /\ Len(q) = Len(at[w]) + 1
    BY <1>1, <2>1, ChildIs
  <2> QED
    BY <1>1, <2>1, <2>2, WordsAre
<1>3. q # Root /\ IsPrefix(q, w) /\ Parent(q) \in inMem
  BY <1>1, <1>2, WayDown
<1> HIDE DEF q
<1>4. /\ pc'[w] = "load" /\ at'[w] = q /\ before'[w] = link[q]
      /\ \A v \in Adds : v # w => /\ pc'[v] = pc[v] /\ at'[v] = at[v] /\ before'[v] = before[v]
  BY <1>1 DEF Typing
<1>5. Held' = Held
  BY <1>1, <1>4 DEF Held
<1>6. Typing'
  <2>1. link[q] \subseteq Entries
    BY <1>2 DEF IInv, NameInv, Named
  <2> QED
    BY <1>1, <1>2, <1>4, <2>1 DEF Typing
<1>7. Work(w)'
  BY <1>1, <1>3, <1>4 DEF Work
<1> QED
  BY <1>1, <1>4, <1>5, <1>6, <1>7, QuietKeeps

(* What was read is what its parent's link stood for all the time, or      *)
(* another call has read it.                                               *)
LEMMA EndLoadKeeps ==
  ASSUME IInv, NEW w \in Adds, EndLoad(w)
  PROVE  IInv'
<1> DEFINE p == at[w]
           B == before[w]
<1>1. /\ Typing /\ pc[w] = "load" /\ p \in Paths /\ p # Root /\ Parent(p) \in inMem /\ IsPrefix(p, w)
      /\ pc' = [pc EXCEPT ![w] = "add"] /\ UNCHANGED <<at, before, putting>>
      /\ Paths \subseteq Words /\ inMem \subseteq Paths
  BY WordsAre DEF EndLoad, IInv, WorkInv, Work, Typing, MemInv, Nodes
<1>2. pc'[w] = "add" /\ \A v \in Adds : v # w => pc'[v] = pc[v]
  BY <1>1 DEF Typing
<1>3. Held' = Held
  BY <1>1, <1>2 DEF Held
<1>4. CASE p \in inMem
  <2>1. UNCHANGED <<leaf, link, inMem>>
    BY <1>4 DEF EndLoad
  <2>2. Typing'
    BY <1>1, <2>1 DEF Typing
  <2>3. Work(w)'
    BY <1>1, <1>2, <1>4, <2>1 DEF Work
  <2> QED
    BY <1>1, <1>2, <1>3, <2>1, <2>2, <2>3, QuietKeeps
<1>5. CASE p \notin inMem
  <2>1. B = T(p) /\ link[p] = T(p) /\ p \in Nodes(Held)
    <3>1. B = link[p] /\ B # {}
      BY <1>1, <1>5 DEF IInv, WorkInv, Work
    <3>2. link[p] = T(p)
      BY <1>1, <1>5 DEF IInv, LinkInv
    <3> QED
      BY <1>1, <3>1, <3>2, HeldTree
  <2>2. /\ leaf' = [leaf EXCEPT ![p] = LeavesOf(p, B)]
        /\ link' = [q \in Paths |-> IF q \in Children(p) THEN Below(q, B) ELSE link[q]]
        /\ inMem' = inMem \union {p}
    BY <1>5 DEF EndLoad, Load
  <2> HIDE DEF p, B
  <2>3. /\ leaf'[p] = Ends(p, Held) /\ \A q \in Paths : q # p => leaf'[q] = leaf[q]
        /\ \A q \in Children(p) : link'[q] = T(q)
        /\ \A q \in Paths : q \notin Children(p) => link'[q] = link[q]
        /\ DOMAIN leaf' = Paths /\ DOMAIN link' = Paths
    <3>1. LeavesOf(p, B) = Ends(p, Held)
      BY <1>1, <2>1, HeldTree
    <3>2. \A q \in Children(p) : q \in Paths /\ Below(q, B) = T(q)
      BY <1>1, <2>1, HeldTree, ChildrenAre
    <3> QED
      BY <1>1, <2>2, <3>1, <3>2 DEF Typing
  <2>4. \A q \in Paths : IsPrefix(p, q) => q \notin inMem
    BY <1>1, <1>5 DEF IInv, MemInv
  <2>5. p \notin Children(p) /\ \A q \in Children(p) : q \notin inMem
    BY <1>1, <2>4, ChildrenAre
  <2>6. \A q : T(q)' = T(q)
    BY <1>3, SameHeld
  <2>7. \A q \in Paths : Full(q) => Full(q)'
    BY <2>3, <2>6 DEF Full
  <2>8. \A q \in Paths : q \notin Children(p) => (Full(q)' = Full(q))
    BY <2>3, <2>6 DEF Full
  <2>9. \A q \in Paths : FullBelow(q) => FullBelow(q)'
    BY <2>7 DEF FullBelow, Children
  <2>10. ASSUME NEW r, r = p PROVE Full(r)' /\ FullBelow(r)'
    <3>1. \A q \in Children(r) : Full(q)'
      BY <2>3, <2>6, <2>10 DEF Full
    <3>2. Full(r)'
      BY <1>1, <2>1, <2>7, <2>10 DEF Full
    <3> QED
      BY <3>1, <3>2 DEF FullBelow
  <2>11. Typing'
    BY <1>1, <2>3 DEF Typing
  <2>12. MemInv'
    <3>1. ASSUME NEW q \in Paths, IsPrefix(q, p) PROVE q \in inMem'
      <4>1. q = p \/ IsPrefix(q, Parent(p))
        BY <1>1, <3>1, ParentIs
      <4> QED
        BY <1>1, <2>2, <3>1, <4>1 DEF IInv, MemInv
    <3> QED
      BY <1>3, <2>1, <2>2, <3>1 DEF IInv, MemInv
  <2>13. LeafInv'
    BY <1>1, <1>3, <2>2, <2>3 DEF IInv, LeafInv
  <2>14. LinkInv'
    <3>1. ASSUME NEW q \in Paths \ {Root}, q \notin inMem'
          PROVE  link'[q] = IF Parent(q) \in inMem' THEN T(q)' ELSE {}
      <4>1. CASE q \in Children(p)
        <5>1. Parent(q) \in inMem'
          BY <2>2, <4>1 DEF Children
        <5> QED
          BY <2>3, <2>6, <4>1, <5>1
      <4>2. CASE q \notin Children(p)
        <5>1. Parent(q) # p
          BY <3>1, <4>2 DEF Children
        <5> QED
          BY <2>2, <2>3, <2>6, <3>1, <4>2, <5>1 DEF IInv, LinkInv
      <4> QED
        BY <4>1, <4>2
    <3> QED
      BY <3>1 DEF LinkInv
  <2>15. WorkInv'
    <3>1. ASSUME NEW v \in Adds, v # w PROVE Work(v)'
      <4>1. Work(v) /\ at[v] \in Paths
        BY <1>1 DEF IInv, WorkInv, Typing
      <4>2. ASSUME pc[v] = "load" PROVE at[v] \notin Children(p)
        <5>1. Parent(at[v]) \in inMem
          BY <4>1, <4>2 DEF Work
        <5> QED
          BY <1>5, <5>1 DEF Children, p
      <4> QED
        BY <1>1, <1>2, <2>2, <2>3, <3>1, <4>1, <4>2 DEF Work
    <3>2. Work(w)'
      BY <1>1, <1>2, <2>2 DEF Work, p
    <3> QED
      BY <3>1, <3>2 DEF WorkInv
  <2>16. NameInv'
    <3>1. ASSUME NEW q \in Paths PROVE Named(q, link[q])'
      <4>1. Named(q, T(q)) /\ Named(q, link[q])
        BY HeldTree DEF IInv, NameInv
      <4>2. link'[q] = T(q) \/ link'[q] = link[q]
        BY <2>3
      <4> QED
        BY <1>3, <4>1, <4>2 DEF Named
    <3>2. ASSUME NEW v \in Adds, pc'[v] = "putting" PROVE Named(at[v], before[v] \union putting[v])'
      <4>1. pc[v] = "putting"
        BY <1>2, <3>2
      <4> QED
        BY <1>1, <1>3, <4>1 DEF IInv, NameInv, Named
    <3> QED
      BY <3>1, <3>2 DEF NameInv
  <2>17. FullInv'
    <3>1. ASSUME NEW q \in inMem \ {Root}, Full(q)' PROVE FullBelow(q)'
      <4>1. q \in Paths /\ q \notin Children(p)
        BY <1>1, <2>5
      <4>2. Full(q)
        BY <2>8, <3>1, <4>1
      <4> QED
        BY <2>9, <4>1, <4>2 DEF IInv, FullInv
    <3> QED
      BY <2>2, <2>10, <3>1 DEF FullInv
  <2>18. PutInv'
    <3>1. ASSUME NEW v \in Adds, pc'[v] = "putting" PROVE PutOk(v)'
      <4>1. pc[v] = "putting" /\ PutOk(v) /\ at[v] \in Paths
        BY <1>1, <1>2, <3>1 DEF IInv, PutInv, Typing
      <4> QED
        BY <1>1, <2>6, <2>9, <4>1 DEF PutOk
    <3> QED
      BY <3>1 DEF PutInv, PutOk
  <2>19. OwedInv'
    <3>1. ASSUME NEW v \in Adds, NEW q, Owes(v, q) PROVE Owes(v, q)'
      <4>1. v # w
        BY <1>1, <3>1 DEF Owes
      <4> QED
        BY <1>1, <1>2, <2>6, <3>1, <4>1 DEF Owes
    <3>2. \A q \in inMem \ {Root} : q \in Paths /\ (Full(q) \/ \E v \in Adds : Owes(v, q))
      BY <1>1 DEF IInv, OwedInv
    <3> QED
      BY <2>2, <2>7, <2>10, <3>1, <3>2 DEF OwedInv
  <2> QED
    BY <2>11, <2>12, <2>13, <2>14, <2>15, <2>16, <2>17, <2>18, <2>19 DEF IInv
<1> QED
  BY <1>4, <1>5

(* A name is put into the nodes, down to the node q: all nodes on its way  *)
(* are in memory, and this call owes each of them, the root's excepted, a  *)
(* link that no one can have made yet.                                     *)
LEMMA GrownKeeps ==
  ASSUME IInv, NEW w \in Adds, pc[w] = "add", w \notin Held, Held' = Held \union {w},
         NEW q \in Paths, IsPrefix(q, w), q \in inMem',
         at' = [at EXCEPT ![w] = q],
         pc' = [pc EXCEPT ![w] = IF q = Root THEN "done" ELSE "put"],
         UNCHANGED <<link, before, putting>>,
         DOMAIN leaf' = Paths, MemInv', LeafInv', inMem \subseteq inMem',
         \A p \in inMem' \ inMem : p \notin Nodes(Held) /\ IsPrefix(p, w),
         \A p \in Nodes(Held') : IsPrefix(p, w) => p \in inMem' /\ IsPrefix(p, q)
  PROVE  IInv'
<1> DEFINE U == Held \union {w}
<1>1. /\ Typing /\ Held \subseteq Names /\ U \subseteq Names /\ w \in Names /\ w # Node /\ Held' = U
      /\ Paths \subseteq Words /\ Names \subseteq Words
      /\ inMem' \subseteq Nodes(U) /\ inMem' \subseteq Paths
  <2>1. inMem' \subseteq Nodes(Held')
    BY DEF MemInv
  <2>2. inMem' \subseteq Paths
    BY <2>1 DEF Nodes
  <2>3. Held \subseteq Names /\ w \in Names /\ w # Node
    BY HeldTree, MmptAssumption
  <2> QED
    BY <2>1, <2>2, <2>3, WordsAre DEF IInv
<1>2. /\ at'[w] = q /\ pc'[w] = (IF q = Root THEN "done" ELSE "put")
      /\ \A v \in Adds : v # w => at'[v] = at[v] /\ pc'[v] = pc[v]
  BY <1>1 DEF Typing
<1>3. \A p : T(p)' = Below(p, Tree(U))
  BY <1>1 DEF T
<1>4. \A p \in Paths : ~IsPrefix(p, w) => T(p)' = T(p) /\ (p \in Nodes(U) <=> p \in Nodes(Held))
  BY <1>1, <1>3, TreeGrows DEF T
<1>5. ASSUME NEW p \in Nodes(U), IsPrefix(p, w) PROVE \E e \in T(p)' : e[2] = w
  <2>1. w \in U
    OBVIOUS
  <2> HIDE DEF U
  <2>2. \E e \in Below(p, Tree(U)) : e[2] = w
    BY <1>1, <1>5, <2>1, TreeNames
  <2> QED
    BY <1>3, <2>2
<1>6. \A p \in Paths : p \notin Nodes(U) => T(p)' = {} /\ T(p) = {}
  <2>1. \A p \in Paths : p \notin Nodes(U) => p \notin Nodes(Held)
    BY DEF Nodes, IsNode
  <2>2. \A p \in Paths : p \notin Nodes(U) => Below(p, Tree(U)) = {}
    <3> HIDE DEF U
    <3> QED
      BY <1>1, TreeBelow
  <2> QED
    BY <1>3, <2>1, <2>2, HeldTree
<1>7. \A p, C : Named(p, C) => (\A e \in C : e[2] # w)
  BY <1>1 DEF Named
<1> HIDE DEF U
<1>8. \A p \in Nodes(U) : IsPrefix(p, w) => p \in inMem' /\ IsPrefix(p, q)
  BY <1>1
(* A link that is up to date now is not on the way of the name, nor are    *)
(* those below it.                                                         *)
<1>9. ASSUME NEW p \in Paths, p \in inMem', NEW C, Named(p, C), C = T(p)' PROVE ~IsPrefix(p, w) /\ C = T(p)
  <2>1. ~IsPrefix(p, w)
    BY <1>1, <1>5, <1>7, <1>9
  <2> QED
    BY <1>4, <1>9, <2>1
<1>10. ASSUME NEW p \in Paths, ~IsPrefix(p, w), FullBelow(p) PROVE FullBelow(p)'
  <2>1. ASSUME NEW r \in Children(p) PROVE Full(r)'
    <3>1. r \in Paths /\ IsPrefix(p, r) /\ Full(r)
      BY <1>10, ChildrenAre DEF FullBelow
    <3>2. ~IsPrefix(r, w)
      BY <1>1, <1>10, <3>1, PrefixOrder
    <3> QED
      BY <1>4, <3>1, <3>2 DEF Full
  <2> QED
    BY <2>1 DEF FullBelow
<1>11. Typing'
  BY <1>1, <1>2 DEF Typing
<1>12. LinkInv'
  <2>1. ASSUME NEW p \in Paths \ {Root}, p \notin inMem'
        PROVE  link[p] = IF Parent(p) \in inMem' THEN T(p)' ELSE {}
    <3>1. link[p] = IF Parent(p) \in inMem THEN T(p) ELSE {}
      BY <2>1 DEF IInv, LinkInv
    <3>2. T(p)' = T(p)
      BY <1>4, <1>6, <1>8, <2>1
    <3>3. ASSUME Parent(p) \in inMem' \ inMem PROVE T(p) = {}
      <4>1. Parent(p) \in Paths /\ IsPrefix(Parent(p), p) /\ Parent(p) \notin Nodes(Held)
        BY <2>1, <3>3, ParentIs
      <4>2. p \notin Nodes(Held)
        BY <1>1, <4>1, NodesUp
      <4> QED
        BY <4>2, HeldTree
    <3> QED
      BY <3>1, <3>2, <3>3
  <2> QED
    BY <2>1 DEF LinkInv
<1>13. WorkInv'
  <2>1. Work(w)'
    BY <1>2 DEF Work
  <2>2. ASSUME NEW v \in Adds, v # w PROVE Work(v)'
    BY <1>2, <2>2 DEF IInv, WorkInv, Work
  <2> QED
    BY <2>1, <2>2 DEF WorkInv
<1>14. NameInv'
  <2>1. ASSUME NEW p \in Paths PROVE Named(p, link[p])'
    BY DEF IInv, NameInv, Named
  <2>2. ASSUME NEW v \in Adds, pc'[v] = "putting" PROVE Named(at[v], before[v] \union putting[v])'
    <3>1. v # w
      BY <1>2, <2>2
    <3> QED
      BY <1>2, <2>2, <3>1 DEF IInv, NameInv, Named
  <2> QED
    BY <2>1, <2>2 DEF NameInv
<1>15. FullInv'
  <2>1. ASSUME NEW p \in inMem' \ {Root}, Full(p)' PROVE FullBelow(p)'
    <3>1. p \in Paths /\ Named(p, link[p]) /\ link[p] = T(p)'
      BY <1>1, <2>1 DEF IInv, NameInv, Full
    <3>2. ~IsPrefix(p, w) /\ link[p] = T(p)
      BY <1>9, <2>1, <3>1
    <3>3. p \in inMem
      BY <2>1, <3>2
    <3>4. FullBelow(p)
      BY <2>1, <3>2, <3>3 DEF IInv, FullInv, Full
    <3> QED
      BY <1>10, <3>1, <3>2, <3>4
  <2> QED
    BY <2>1 DEF FullInv
<1>16. PutInv'
  <2>1. ASSUME NEW v \in Adds, pc'[v] = "putting" PROVE PutOk(v)'
    <3>1. v # w /\ pc[v] = "putting" /\ at'[v] = at[v] /\ at[v] \in Paths /\ at[v] \in inMem'
      <4>1. v # w
        BY <1>2, <2>1
      <4>2. pc[v] = "putting" /\ at'[v] = at[v]
        BY <1>2, <2>1, <4>1
      <4> QED
        BY <1>1, <4>1, <4>2 DEF IInv, WorkInv, Work, Typing
    <3>2. PICK r \in Paths : r = at[v]
      BY <3>1
    <3>3. /\ Named(r, before[v]) /\ Named(r, putting[v])
          /\ putting[v] = T(r) => FullBelow(r)
          /\ before[v] = T(r) => putting[v] = T(r)
      BY <3>1, <3>2 DEF IInv, NameInv, Named, PutInv, PutOk
    <3>4. ASSUME putting[v] = T(r)' PROVE FullBelow(r)'
      <4>1. ~IsPrefix(r, w) /\ putting[v] = T(r)
        BY <1>9, <3>1, <3>2, <3>3, <3>4
      <4> QED
        BY <1>10, <3>3, <4>1
    <3>5. ASSUME before[v] = T(r)' PROVE putting[v] = T(r)'
      <4>1. ~IsPrefix(r, w) /\ before[v] = T(r)
        BY <1>9, <3>1, <3>2, <3>3, <3>5
      <4> QED
        BY <1>4, <3>3, <4>1
    <3> QED
      BY <3>1, <3>2, <3>4, <3>5 DEF PutOk
  <2> QED
    BY <2>1 DEF PutInv, PutOk
<1>17. OwedInv'
  <2>1. ASSUME NEW p \in inMem' \ {Root} PROVE Full(p)' \/ \E v \in Adds : Owes(v, p)'
    <3>1. CASE IsPrefix(p, w)
      <4>1. IsPrefix(p, q) /\ p \in Words /\ q \in Words /\ Root \in Words
        BY <1>1, <1>8, <2>1, <3>1, WordsAre
      <4>2. q # Root
        <5>1. ASSUME IsPrefix(p, Root) PROVE p = Root
          <6>1. Len(p) >= Len(Root)
            BY <4>1, WordsAre, MmptAssumption
          <6> QED
            BY <4>1, <5>1, <6>1, PrefixOrder
        <5> QED
          BY <2>1, <4>1, <5>1
      <4> QED
        BY <1>2, <4>1, <4>2 DEF Owes
    <3>2. CASE ~IsPrefix(p, w)
      <4>1. p \in inMem /\ p \in Paths /\ T(p)' = T(p)
        BY <1>1, <1>4, <2>1, <3>2
      <4>2. CASE Full(p)
        BY <4>1, <4>2 DEF Full
      <4>3. ASSUME NEW v \in Adds, Owes(v, p) PROVE Owes(v, p)'
        <5>1. v # w
          BY <4>3 DEF Owes
        <5> QED
          BY <1>2, <4>1, <4>3, <5>1 DEF Owes
      <4> QED
        BY <2>1, <4>1, <4>2, <4>3 DEF IInv, OwedInv
    <3> QED
      BY <3>1, <3>2
  <2> QED
    BY <2>1 DEF OwedInv
<1> QED
  BY <1>11, <1>12, <1>13, <1>14, <1>15, <1>16, <1>17 DEF IInv

(* What nextTreeOrSiblingName finds in memory is what the tree has there.  *)
LEMMA NoChild ==
  ASSUME IInv, NEW w \in Adds, pc[w] = "add", ~HasChild(at[w], w)
  PROVE  /\ at[w] \in inMem /\ at[w] \in Nodes(Held) /\ at[w] \in Paths /\ IsPrefix(at[w], w)
         /\ leaf[at[w]] = Ends(at[w], Held)
         /\ Child(at[w], w) \notin Nodes(Held)
<1>1. /\ at[w] \in inMem /\ at[w] \in Nodes(Held) /\ at[w] \in Paths /\ IsPrefix(at[w], w)
      /\ leaf[at[w]] = Ends(at[w], Held)
  BY DEF IInv, WorkInv, Work, MemInv, LeafInv, Nodes
<1>2. ASSUME Child(at[w], w) \in Nodes(Held) PROVE FALSE
  <2> DEFINE c == Child(at[w], w)
  <2>1. c \in Paths
    BY <1>2 DEF Nodes
  <2>2. c # Root /\ Parent(c) = at[w]
    BY <2>1, WayDown
  <2>3. Len(at[w]) < Depth
    <3>1. w \in Words /\ Len(w) = Depth + 1 /\ Len(at[w]) \in 0..Depth /\ Depth \in Nat
      BY <1>1, WordsAre, MmptAssumption
    <3>2. Len(c) = Len(at[w]) + 1
      BY <1>1, <3>1, ChildIs
    <3>3. Len(c) <= Depth
      BY <2>1, WordsAre
    <3> QED
      BY <3>1, <3>2, <3>3
  <2>4. c \notin inMem /\ link[c] = {}
    BY <2>3 DEF HasChild
  <2> HIDE DEF c
  <2>5. link[c] = T(c)
    BY <1>1, <2>1, <2>2, <2>4 DEF IInv, LinkInv
  <2> QED
    BY <1>2, <2>1, <2>4, <2>5, HeldTree DEF c
<1> QED
  BY <1>1, <1>2

(* A new leaf is a growth down to the node where the call is, *)
LEMMA InsertKeeps ==
  ASSUME IInv, NEW w \in Adds, Insert(w)
  PROVE  IInv'
<1>1. PICK a \in Paths : a = at[w]
  BY DEF IInv, Typing
<1>2. /\ pc[w] = "add" /\ a \in inMem /\ a \in Nodes(Held) /\ IsPrefix(a, w)
      /\ leaf[a] = Ends(a, Held) /\ Child(a, w) \notin Nodes(Held)
      /\ Held \subseteq Names /\ w \in Names /\ inMem \subseteq Nodes(Held) /\ inMem \subseteq Paths /\ Typing
  BY <1>1, NoChild, HeldTree, MmptAssumption DEF Insert, IInv, MemInv, Nodes
<1>3. \A s \in Ends(a, Held) : Nibble(a, s) # Nibble(a, w)
  BY <1>1, <1>2 DEF Insert, Siblings
<1>4. /\ w \notin Held
      /\ Nodes(Held \union {w}) = Nodes(Held)
      /\ Ends(a, Held \union {w}) = Ends(a, Held) \union {w}
      /\ \A p \in Nodes(Held) : p # a => Ends(p, Held \union {w}) = Ends(p, Held)
  BY <1>2, <1>3, TreeInsert
<1>5. /\ at' = [at EXCEPT ![w] = a]
      /\ pc' = [pc EXCEPT ![w] = IF a = Root THEN "done" ELSE "put"]
      /\ leaf' = [leaf EXCEPT ![a] = @ \union {w}]
      /\ UNCHANGED <<link, inMem, before, putting>>
  BY <1>1 DEF Insert, Ascend
<1>6. Held' = Held \union {w}
  BY <1>2, <1>5 DEF Held, Typing
<1>7. DOMAIN leaf' = Paths /\ leaf'[a] = leaf[a] \union {w} /\ \A p \in Paths : p # a => leaf'[p] = leaf[p]
  BY <1>5, <1>2 DEF Typing
<1>8. MemInv'
  BY <1>4, <1>5, <1>6 DEF IInv, MemInv
<1>9. LeafInv'
  <2>1. ASSUME NEW p \in Paths PROVE leaf'[p] = IF p \in inMem THEN Ends(p, Held') ELSE {}
    BY <1>2, <1>4, <1>6, <1>7 DEF IInv, LeafInv
  <2> QED
    BY <1>5, <2>1 DEF LeafInv
<1>10. ASSUME NEW p \in Nodes(Held'), IsPrefix(p, w) PROVE p \in inMem' /\ IsPrefix(p, a)
  <2>1. p \in Nodes(Held) /\ p \in Paths
    BY <1>4, <1>6 DEF Nodes
  <2>2. IsPrefix(p, a)
    BY <1>2, <1>10, <2>1, GrowthSite
  <2> QED
    BY <1>2, <1>5, <2>1, <2>2 DEF IInv, MemInv
<1> QED
  BY <1>2, <1>4, <1>5, <1>6, <1>7, <1>8, <1>9, <1>10, GrownKeeps

(* and a split one down to the node where the two names part. *)
LEMMA SplitKeeps ==
  ASSUME IInv, NEW w \in Adds, Split(w)
  PROVE  IInv'
<1>1. PICK a \in Paths : a = at[w]
  BY DEF IInv, Typing
<1>2. PICK s \in Siblings(a, w) \ {w} :
        LET q == LongestCommonPrefix({s, w})
            new == {p \in Paths : IsStrictPrefix(a, p) /\ IsPrefix(p, q)}
        IN
        /\ pc[w] = "add" /\ ~HasChild(a, w)
        /\ leaf' = [leaf EXCEPT ![a] = @ \ {s}, ![q] = {s, w}]
        /\ inMem' = inMem \union new
        /\ Ascend(w, q)
        /\ UNCHANGED link
  BY <1>1 DEF Split
<1>3. PICK q : q = LongestCommonPrefix({s, w})
  OBVIOUS
<1>4. PICK new : new = Between(a, q)
  OBVIOUS
<1>5. /\ pc[w] = "add" /\ ~HasChild(a, w)
      /\ leaf' = [leaf EXCEPT ![a] = @ \ {s}, ![q] = {s, w}]
      /\ inMem' = inMem \union new
      /\ Ascend(w, q)
      /\ UNCHANGED link
  BY <1>2, <1>3, <1>4 DEF Between
<1>6. /\ a \in inMem /\ a \in Nodes(Held) /\ IsPrefix(a, w)
      /\ leaf[a] = Ends(a, Held) /\ Child(a, w) \notin Nodes(Held)
      /\ Held \subseteq Names /\ w \in Names /\ inMem \subseteq Nodes(Held) /\ inMem \subseteq Paths /\ Typing
      /\ Paths \subseteq Words
  BY <1>1, <1>5, NoChild, HeldTree, WordsAre, MmptAssumption DEF IInv, MemInv, Nodes
<1>7. s \in Ends(a, Held) /\ Nibble(a, s) = Nibble(a, w) /\ s # w
  BY <1>2, <1>6 DEF Siblings
<1>8. /\ w \notin Held /\ q \in new /\ q # a
      /\ \A p \in new : IsPrefix(p, w) /\ p \notin Nodes(Held)
      /\ Nodes(Held \union {w}) = Nodes(Held) \union new
      /\ Ends(a, Held \union {w}) = Ends(a, Held) \ {s}
      /\ Ends(q, Held \union {w}) = {s, w}
      /\ \A p \in new : p # q => Ends(p, Held \union {w}) = {}
      /\ \A p \in Nodes(Held) : p # a => Ends(p, Held \union {w}) = Ends(p, Held)
  <2>1. SplitSite(Held, w, a, s, q, new)
    BY <1>3, <1>4, <1>6, <1>7 DEF SplitSite
  <2>2. SplitTree(Held, w, a, s, q, new)
    BY <2>1, TreeSplit
  <2> QED
    BY <2>2 DEF SplitTree
<1>9. \A p \in new : p \in Paths /\ IsPrefix(a, p) /\ IsPrefix(p, q) /\ a # p
  BY <1>4 DEF Between, IsStrictPrefix
<1>10. /\ at' = [at EXCEPT ![w] = q]
       /\ pc' = [pc EXCEPT ![w] = IF q = Root THEN "done" ELSE "put"]
       /\ UNCHANGED <<before, putting>>
  BY <1>5 DEF Ascend
<1>11. Held' = Held \union {w}
  BY <1>5, <1>6, <1>10 DEF Held, Typing
<1>12. /\ DOMAIN leaf' = Paths
       /\ leaf'[a] = leaf[a] \ {s} /\ leaf'[q] = {s, w}
       /\ \A p \in Paths : p # a /\ p # q => leaf'[p] = leaf[p]
  BY <1>5, <1>6, <1>8, <1>9 DEF Typing
<1>13. MemInv'
  <2>1. ASSUME NEW p \in new, NEW r \in Paths, IsPrefix(r, p) PROVE r \in inMem'
    <3>1. a \in Words /\ p \in Words /\ r \in Words /\ q \in Words /\ IsPrefix(a, p) /\ IsPrefix(p, q)
      BY <1>6, <1>8, <1>9
    <3>2. CASE Len(r) <= Len(a)
      <4>1. IsPrefix(r, a)
        BY <2>1, <3>1, <3>2, PrefixOrder
      <4> QED
        BY <1>5, <1>6, <4>1 DEF IInv, MemInv
    <3>3. CASE ~(Len(r) <= Len(a))
      <4>1. Len(a) <= Len(r) /\ a # r
        BY <3>1, <3>3, WordsAre, MmptAssumption
      <4>2. IsPrefix(a, r) /\ IsPrefix(r, q)
        BY <2>1, <3>1, <4>1, PrefixOrder
      <4> QED
        BY <1>4, <1>5, <4>1, <4>2 DEF Between, IsStrictPrefix
    <3> QED
      BY <3>2, <3>3
  <2> QED
    BY <1>5, <1>8, <1>11, <2>1 DEF IInv, MemInv
<1>14. LeafInv'
  <2>1. ASSUME NEW p \in Paths PROVE leaf'[p] = IF p \in inMem' THEN Ends(p, Held') ELSE {}
    <3>1. CASE p = a
      BY <1>5, <1>6, <1>8, <1>11, <1>12, <3>1
    <3>2. CASE p = q
      BY <1>5, <1>8, <1>11, <1>12, <3>2
    <3>3. CASE p # a /\ p # q
      <4>1. leaf'[p] = IF p \in inMem THEN Ends(p, Held) ELSE {}
        BY <1>12, <3>3 DEF IInv, LeafInv
      <4>2. p \in new => p \notin inMem
        BY <1>6, <1>8
      <4> QED
        BY <1>5, <1>6, <1>8, <1>11, <3>3, <4>1, <4>2
    <3> QED
      BY <3>1, <3>2, <3>3
  <2> QED
    BY <2>1 DEF LeafInv
<1>15. ASSUME NEW p \in Nodes(Held'), IsPrefix(p, w) PROVE p \in inMem' /\ IsPrefix(p, q)
  <2>1. p \in Paths /\ p \in Words /\ a \in Words /\ q \in Words
    BY <1>6, <1>8, <1>9 DEF Nodes
  <2>2. CASE p \in new
    BY <1>5, <1>9, <2>2
  <2>3. CASE p \in Nodes(Held)
    <3>1. IsPrefix(p, a)
      BY <1>6, <1>15, <2>1, <2>3, GrowthSite
    <3>2. IsPrefix(p, q)
      BY <1>8, <1>9, <2>1, <3>1, PrefixOrder
    <3> QED
      BY <1>5, <1>6, <2>1, <3>1, <3>2 DEF IInv, MemInv
  <2> QED
    BY <1>8, <1>11, <1>15, <2>2, <2>3
<1>16. q \in Paths /\ IsPrefix(q, w) /\ q \in inMem'
  BY <1>5, <1>8, <1>9
<1>17. \A p \in inMem' \ inMem : p \notin Nodes(Held) /\ IsPrefix(p, w)
  BY <1>5, <1>8
<1> QED
  BY <1>5, <1>8, <1>10, <1>11, <1>12, <1>13, <1>14, <1>15, <1>16, <1>17, GrownKeeps

-----------------------------------------------------------------------------
(* THEOREMS *)

(* Every step of every call keeps the invariant. *)
LEMMA Inductively == IInv /\ [Next]_vars => IInv'
<1> SUFFICES ASSUME IInv, [Next]_vars PROVE IInv'
  OBVIOUS
<1>1. ASSUME NEW w \in Adds, Add(w) PROVE IInv'
  BY <1>1, SkipKeeps, InsertKeeps, SplitKeeps, DescendKeeps, BeginLoadKeeps, EndLoadKeeps,
     BeginPutKeeps, RetryKeeps, EndPutKeeps DEF Add
<1>2. CASE UNCHANGED vars
  <2>1. UNCHANGED <<leaf, link, inMem, pc, at, before, putting>>
    BY <1>2 DEF vars
  <2>2. Held' = Held
    BY <2>1 DEF Held
  <2>3. /\ MemInv' /\ LeafInv' /\ LinkInv' /\ FullInv'
        /\ \A q : Full(q)' = Full(q) /\ FullBelow(q)' = FullBelow(q)
        /\ \A q \in Paths : Named(q, link[q])'
        /\ \A q : T(q)' = T(q)
    BY <2>1, <2>2, SameNodes, SameHeld
  <2>4. Typing' /\ WorkInv'
    BY <2>1 DEF IInv, Typing, WorkInv, Work
  <2>5. NameInv'
    BY <2>1, <2>2, <2>3 DEF IInv, NameInv, Named
  <2>6. PutInv' /\ OwedInv'
    BY <2>1, <2>3 DEF IInv, PutInv, PutOk, OwedInv, Owes
  <2> QED
    BY <2>3, <2>4, <2>5, <2>6 DEF IInv
<1> QED
  BY <1>1, <1>2 DEF Next

(* In every state the nodes in memory are those of the tree of the names   *)
(* that have been put into nodes, and a link that is not up to date is     *)
(* owed by a call of add that still has to put its node                    *)
(* (putAndUpdateChildLink, mmpt.ts:97).                                    *)
THEOREM Invariance == Spec => []IInv
BY Initially, Inductively, PTL DEF Spec

(* Every variable has its type, whatever the calls of add do at once       *)
(* (mmpt.ts).                                                              *)
THEOREM Types == Spec => []TypeOK
<1>1. IInv => TypeOK
  <2> SUFFICES ASSUME IInv PROVE TypeOK
    OBVIOUS
  <2>1. \A p \in Paths : \A n \in leaf[p] : n \in Names /\ IsPrefix(p, n) /\ p \in inMem
    BY HeldTree DEF IInv, LeafInv, Ends
  <2>2. \A p \in Paths : \A e \in link[p] : e \in Entries /\ IsPrefix(p, e[1])
    BY DEF IInv, NameInv, Named
  <2>3. inMem \subseteq Paths
    BY DEF IInv, MemInv, Nodes
  <2> QED
    BY <2>1, <2>2, <2>3 DEF IInv, Typing, TypeOK
<1> QED
  BY <1>1, Invariance, PTL

(* A name that was in the tree, or whose add has returned, is found by get *)
(* at any moment: by way of the nodes in memory, or behind the first link  *)
(* that leaves them (mmpt.ts:119).                                         *)
THEOREM NamesFound == Spec => []NamesAreFound
<1>1. ASSUME IInv, NEW n \in Initial \union Done PROVE Found(n)
  <2>1. /\ n \in Held /\ n \in Names /\ n \in Words /\ Held \subseteq Names /\ Names \subseteq Words
        /\ Root \in inMem /\ inMem \subseteq Nodes(Held) /\ Nodes(Held) \subseteq Paths /\ Paths \subseteq Words
        /\ Len(n) = Depth + 1 /\ Depth \in Nat /\ Root \in Words /\ Len(Root) = 0
    <3>1. n \in Held
      BY <1>1 DEF Done, Held
    <3> QED
      BY <1>1, <3>1, HeldTree, WordsAre, MmptAssumption DEF IInv, MemInv, Nodes
  <2> DEFINE X == {p \in inMem : IsPrefix(p, n)}
  <2>2. Root \in X /\ X \subseteq Words
    BY <2>1, PrefixIs
  <2>3. PICK p \in X : \A q \in X : Len(q) <= Len(p)
    <3> HIDE DEF X
    <3> QED
      BY <2>2, LongestWord
  <2>4. /\ p \in inMem /\ IsPrefix(p, n) /\ p \in Paths /\ p \in Words /\ p \in Nodes(Held)
        /\ Len(p) \in 0..Depth /\ Len(p) < Len(n)
    <3>1. p \in inMem /\ IsPrefix(p, n) /\ p \in Paths /\ p \in Words /\ p \in Nodes(Held)
      BY <2>1, <2>3
    <3>2. Len(p) \in 0..(Depth + 1) /\ Len(p) <= Depth
      BY <3>1, WordsAre
    <3> QED
      BY <2>1, <3>1, <3>2
  <2>5. p \in {SubSeq(n, 1, d) : d \in 0..Depth}
    <3>1. Len(p) \in 0..Len(n)
      BY <2>1, <2>4
    <3>2. p = SubSeq(n, 1, Len(p))
      BY <2>1, <2>4, <3>1, StartIs
    <3> QED
      BY <2>4, <3>2
  <2>6. \A d \in 0..Len(p) : SubSeq(p, 1, d) \in inMem
    <3> SUFFICES ASSUME NEW d \in 0..Len(p) PROVE SubSeq(p, 1, d) \in inMem
      OBVIOUS
    <3>1. SubSeq(p, 1, d) \in Words /\ Len(SubSeq(p, 1, d)) = d /\ IsPrefix(SubSeq(p, 1, d), p)
      BY <2>4, StartIs
    <3>2. SubSeq(p, 1, d) \in Paths
      <4>1. d <= Depth
        BY <2>1, <2>4
      <4> HIDE DEF X
      <4> QED
        BY <3>1, <4>1, WordsAre
    <3> QED
      BY <1>1, <2>4, <3>1, <3>2 DEF IInv, MemInv
  <2> DEFINE c == Child(p, n)
  <2>7. c \in Words /\ Len(c) = Len(p) + 1 /\ IsPrefix(c, n) /\ c # Root
    BY <2>1, <2>4, ChildIs
  <2>8. c \notin inMem
    BY <2>3, <2>4, <2>7
  <2>9. ASSUME c \in Paths PROVE link[c] = T(c)
    <3>1. Parent(c) = p
      BY <2>1, <2>4, <2>9, ChildOf
    <3> QED
      BY <1>1, <2>4, <2>7, <2>8, <2>9, <3>1 DEF IInv, LinkInv
  <2>10. CASE HasChild(p, n)
    <3>1. c \in Paths /\ link[c] # {}
      BY <2>1, <2>4, <2>7, <2>8, <2>10, WordsAre DEF HasChild
    <3>2. c \in Nodes(Held)
      BY <2>9, <3>1, HeldTree
    <3>3. \E e \in T(c) : e[2] = n
      BY <2>1, <2>7, <3>2, TreeNames DEF T
    <3>4. \E e \in link[c] : e[2] = n
      BY <2>9, <3>1, <3>3
    <3> QED
      BY <2>5, <2>6, <2>8, <2>10, <3>4 DEF Found
  <2>11. CASE ~HasChild(p, n)
    <3>1. c \notin Nodes(Held)
      <4>1. ASSUME c \in Nodes(Held) PROVE FALSE
        <5>1. c \in Paths
          BY <2>1, <4>1
        <5>2. Len(p) < Depth
          BY <2>1, <2>4, <2>7, <5>1, WordsAre
        <5>3. link[c] = {}
          BY <2>11, <5>2 DEF HasChild
        <5> QED
          BY <2>9, <4>1, <5>1, <5>3, HeldTree
      <4> QED
        BY <4>1
    <3>2. n \in leaf[p]
      BY <1>1, <2>1, <2>4, <3>1 DEF IInv, LeafInv, Ends
    <3> QED
      BY <2>5, <2>6, <2>11, <3>2 DEF Found
  <2> QED
    BY <2>10, <2>11
<1>2. IInv => NamesAreFound
  BY <1>1 DEF NamesAreFound
<1> QED
  BY <1>2, Invariance, PTL

(* When no add is running, the root's links stand for every name and for   *)
(* the one tree that these names have, in whatever order they came: no put *)
(* has overwritten the link of a concurrent one, not even where a link was *)
(* changed and changed back between two looks at it (mmpt.ts:103).         *)
THEOREM RootComplete == Spec => []RootIsComplete
<1>1. ASSUME IInv, Done = Adds PROVE Content(Root) = Tree(Initial \union Adds)
  <2>1. Held = Initial \union Adds
    BY <1>1 DEF Done, Held
  <2>2. \A p \in inMem \ {Root} : Full(p)
    BY <1>1 DEF IInv, OwedInv, Owes, Done
  <2>3. Root \in inMem /\ Root \in Paths /\ Root \in Words /\ Paths \subseteq Words
    BY <1>1, WordsAre DEF IInv, MemInv
  <2>4. FullBelow(Root)
    <3>1. ASSUME NEW q \in Children(Root) PROVE Full(q)
      <4>1. q # Root
        BY <2>3, ChildrenAre
      <4> QED
        BY <1>1, <2>2, <2>3, <4>1, ContentIs
    <3> QED
      BY <3>1 DEF FullBelow
  <2>5. Content(Root) = T(Root)
    BY <1>1, <2>3, <2>4, ContentIs
  <2>6. T(Root) = Tree(Held)
    <3>1. \A p \in Paths : IsPrefix(Root, p)
      <4>1. \A p \in Words : IsPrefix(Root, p)
        BY <2>3, WordsAre, PrefixIs, MmptAssumption
      <4> QED
        BY <2>3, <4>1
    <3>2. \A e \in Tree(Held) : e[1] \in Paths
      BY HeldTree, TreeIs DEF Nodes
    <3> QED
      BY <3>1, <3>2 DEF T, Below
  <2> QED
    BY <2>1, <2>5, <2>6
<1>2. IInv => RootIsComplete
  BY <1>1 DEF RootIsComplete
<1> QED
  BY <1>2, Invariance, PTL

-----------------------------------------------------------------------------
(* THE REVISIONS OF A PRIVATE NODE *)

(* The tree's names are those of revisions of private nodes: how these are  *)
(* counted, stored and searched for.                                        *)

-----------------------------------------------------------------------------
(* TYPES *)

LEMMA RevisionsTypeStep ==
  ASSUME RevisionsTypeOK, [RevisionsNext]_revisionVars PROVE RevisionsTypeOK'
<1> USE RevisionAssumption DEF RevisionsTypeOK, Revisions
<1>1. ASSUME NEW w \in Writers, PutChild(w) PROVE RevisionsTypeOK'
  BY <1>1 DEF PutChild, search
<1>2. ASSUME NEW w \in Writers, LinkChild(w) \/ RemoveChild(w) PROVE RevisionsTypeOK'
  <2>1. BumpAndPut(w)
    BY <1>2 DEF LinkChild, RemoveChild
  <2> QED
    BY <2>1 DEF BumpAndPut, search
<1>3. ASSUME NEW w \in Writers, PutNode(w) PROVE RevisionsTypeOK'
  BY <1>3 DEF PutNode, search
<1>4. ASSUME NEW w \in Writers, PutEnds(w) PROVE RevisionsTypeOK'
  BY <1>4 DEF PutEnds, search
<1>5. ASSUME NEW w \in Writers, NEW n \in 1..MaxLinks, AssignLinks(w, n)
      PROVE  RevisionsTypeOK'
  BY <1>5 DEF AssignLinks, search
<1>6. CASE Forward
  BY <1>6 DEF Forward, writers
<1>7. CASE Back
  <2>1. lower < upper - 1
    BY <1>7 DEF Back, Narrowed
  <2>2. (upper + lower) \div 2 \in Nat \ {0}
    BY <2>1
  <2> QED
    BY <1>7, <2>2 DEF Back, writers
<1>8. CASE Return
  BY <1>8 DEF Return, writers
<1>9. CASE Start
  <2>1. PICK r \in stored : StartSearch(r)
    BY <1>9 DEF Start, FromBareNameFilter, GetRecurse
  <2> QED
    BY <2>1 DEF StartSearch, writers
<1>10. ASSUME NEW w \in Writers, UpdateContent(w) PROVE RevisionsTypeOK'
  BY <1>10 DEF UpdateContent, search
<1>11. CASE UNCHANGED revisionVars
  BY <1>11 DEF revisionVars, writers, search
<1> HIDE DEF RevisionsTypeOK, Revisions
<1> QED
  BY <1>1, <1>2, <1>3, <1>4, <1>5, <1>6, <1>7, <1>8, <1>9, <1>10,
     <1>11
  DEF RevisionsNext, Write, Step

(* Every variable has its type in every reachable state. *)
THEOREM RevisionsTyped == RevisionsSpec => []RevisionsTypeOK
<1>1. RevisionsInit => RevisionsTypeOK
  <2> SUFFICES ASSUME RevisionsInit PROVE RevisionsTypeOK
    OBVIOUS
  <2>1. loose \in BOOLEAN
    BY DEF RevisionsInit
  <2> QED
    BY <2>1, RevisionAssumption DEF RevisionsInit, RevisionsTypeOK, Revisions
<1> QED
  BY <1>1, RevisionsTypeStep, PTL DEF RevisionsSpec

-----------------------------------------------------------------------------
(* THE SEARCH *)

(* The lower bound was found stored; the upper bound was found missing     *)
(* after the search began, so it was missing when it began; at the end the *)
(* bounds are next to each other.                                          *)
SearchInv ==
  phase # "idle" =>
    /\ had \subseteq stored
    /\ lower \in stored
    /\ phase = "forward" => base <= lower /\ lower < base + stride
    /\ phase \in {"back", "done"} => upper \notin had /\ lower < upper
    /\ phase = "done" => Narrowed

LEMMA SearchInvStep ==
  ASSUME RevisionsTypeOK, SearchInv, [RevisionsNext]_revisionVars PROVE SearchInv'
<1> USE RevisionAssumption DEF RevisionsTypeOK, Revisions, SearchInv, Narrowed
<1>1. ASSUME NEW w \in Writers, PutChild(w) PROVE SearchInv'
  BY <1>1 DEF PutChild, search
<1>2. ASSUME NEW w \in Writers, LinkChild(w) \/ RemoveChild(w) PROVE SearchInv'
  <2>1. BumpAndPut(w)
    BY <1>2 DEF LinkChild, RemoveChild
  <2> QED
    BY <2>1 DEF BumpAndPut, search
<1>3. ASSUME NEW w \in Writers, PutNode(w) PROVE SearchInv'
  BY <1>3 DEF PutNode, search
<1>4. ASSUME NEW w \in Writers, PutEnds(w) PROVE SearchInv'
  BY <1>4 DEF PutEnds, search
<1>5. ASSUME NEW w \in Writers, NEW n \in 1..MaxLinks, AssignLinks(w, n)
      PROVE  SearchInv'
  BY <1>5 DEF AssignLinks, search
<1>6. CASE Forward
  BY <1>6 DEF Forward, writers
<1>7. CASE Back
  <2>1. lower < upper - 1
    BY <1>7 DEF Back
  <2>2. /\ (upper + lower) \div 2 \in Nat
        /\ lower < (upper + lower) \div 2
        /\ (upper + lower) \div 2 < upper
    BY <2>1
  <2> QED
    BY <1>7, <2>2 DEF Back, writers
<1>8. CASE Return
  BY <1>8 DEF Return, writers
<1>9. CASE Start
  <2>1. PICK r \in stored : StartSearch(r)
    BY <1>9 DEF Start, FromBareNameFilter, GetRecurse
  <2> QED
    BY <2>1 DEF StartSearch, writers
<1>10. ASSUME NEW w \in Writers, UpdateContent(w) PROVE SearchInv'
  BY <1>10 DEF UpdateContent, search
<1>11. CASE UNCHANGED revisionVars
  BY <1>11 DEF revisionVars, writers, search
<1> HIDE DEF RevisionsTypeOK, Revisions, SearchInv, Narrowed
<1> QED
  BY <1>1, <1>2, <1>3, <1>4, <1>5, <1>6, <1>7, <1>8, <1>9, <1>10,
     <1>11
  DEF RevisionsNext, Write, Step

(* Whatever is stored while it runs, and even if the history has gaps, the *)
(* search never answers with a revision older than an unbroken history     *)
(* that was there when it began.                                           *)
THEOREM SearchIsCorrect == RevisionsSpec => []SearchIsCurrent
<1>1. RevisionsInit => SearchInv
  BY DEF RevisionsInit, SearchInv
<1>2. RevisionsTypeOK /\ SearchInv => SearchIsCurrent
  <2> SUFFICES ASSUME RevisionsTypeOK, SearchInv, phase = "done",
                      NEW r \in Revisions, 1..r \subseteq had
               PROVE  lower \in stored /\ r <= lower
    BY DEF SearchIsCurrent, SearchInv
  <2>1. upper \notin 1..r /\ lower >= upper - 1 /\ lower \in stored
    BY DEF SearchInv, Narrowed
  <2> QED
    BY <2>1 DEF RevisionsTypeOK, Revisions
<1> QED
  BY <1>1, <1>2, SearchInvStep, RevisionsTyped, PTL DEF RevisionsSpec

-----------------------------------------------------------------------------
(* THE HISTORY *)

(* What a mutation has promised to store. *)
Promised == {copied[w] : w \in {v \in Writers : stage[v] \in {"put", "last"}}}

(* The revision of a file that is counted and not put yet. *)
Counted == {r \in {revision} : kind = "file" /\ \E w \in Writers : stage[w] = "after"}

(* A revision that is counted is stored or about to be, and none is made   *)
(* up; a mutation that has not put its last copy will put a current one.   *)
HistoryInv ==
  /\ stored \union Promised \subseteq 1..revision
  /\ ~loose => 1..revision \subseteq stored \union Promised \union Counted
  /\ kind = "file" => \A w \in Writers : stage[w] \in {"idle", "after", "last"}
  /\ \/ revision \in stored \union Promised
     \/ \E w \in Writers : stage[w] \in {"child", "after"}

LEMMA HistoryInvStep ==
  ASSUME RevisionsTypeOK, HistoryInv, [RevisionsNext]_revisionVars PROVE HistoryInv'
<1> USE RevisionAssumption DEF RevisionsTypeOK, Revisions, HistoryInv, Promised, Counted
<1>1. ASSUME NEW w \in Writers, PutChild(w) PROVE HistoryInv'
  BY <1>1 DEF PutChild
<1>2. ASSUME NEW w \in Writers, LinkChild(w) \/ RemoveChild(w) PROVE HistoryInv'
  <2>1. BumpAndPut(w) /\ stage[w] \in {"idle", "child"} /\ kind = "directory"
    BY <1>2 DEF LinkChild, RemoveChild
  <2>2. Counted = {} /\ Counted' = {}
    BY <2>1 DEF BumpAndPut
  <2>3. Promised' = Promised \union {revision + 1}
    BY <2>1 DEF BumpAndPut
  <2>4. revision' = revision + 1 /\ stored' = stored /\ loose' = loose /\ kind' = kind
    BY <2>1 DEF BumpAndPut
  <2> HIDE DEF Promised, Counted
  <2> QED
    BY <2>1, <2>2, <2>3, <2>4
<1>3. ASSUME NEW w \in Writers, PutNode(w) PROVE HistoryInv'
  BY <1>3 DEF PutNode
<1>4. ASSUME NEW w \in Writers, PutEnds(w) PROVE HistoryInv'
  BY <1>4 DEF PutEnds
<1>5. ASSUME NEW w \in Writers, NEW n \in 1..MaxLinks, AssignLinks(w, n)
      PROVE  HistoryInv'
  BY <1>5 DEF AssignLinks
<1>6. CASE Step
  BY <1>6 DEF Step, Forward, Back, Return, writers
<1>7. CASE Start
  <2>1. PICK r \in stored : StartSearch(r)
    BY <1>7 DEF Start, FromBareNameFilter, GetRecurse
  <2> QED
    BY <2>1 DEF StartSearch, writers
<1>8. ASSUME NEW w \in Writers, UpdateContent(w) PROVE HistoryInv'
  <2>1. Promised' = Promised
    BY <1>8 DEF UpdateContent
  <2>2. ~loose' => ~loose /\ Counted = {}
    BY <1>8 DEF UpdateContent
  <2>3. Counted' = {revision + 1} /\ stage'[w] = "after"
    BY <1>8 DEF UpdateContent
  <2>4. kind' = "file" /\ \A v \in Writers : stage'[v] \in {"idle", "after", "last"}
    BY <1>8 DEF UpdateContent
  <2>5. revision' = revision + 1 /\ stored' = stored
    BY <1>8 DEF UpdateContent
  <2> HIDE DEF Promised, Counted
  <2> QED
    BY <2>1, <2>2, <2>3, <2>4, <2>5
<1>9. CASE UNCHANGED revisionVars
  BY <1>9 DEF revisionVars, writers
<1> HIDE DEF RevisionsTypeOK, Revisions, HistoryInv, Promised, Counted
<1> QED
  BY <1>1, <1>2, <1>3, <1>4, <1>5, <1>6, <1>7, <1>8, <1>9
  DEF RevisionsNext, Write

(* Between mutations the history has no gap, if every change of a link was *)
(* put, and the node in memory is stored in any case.                      *)
THEOREM HistoryIsKept == RevisionsSpec => [](HistoryIsUnbroken /\ LastIsStored)
<1>1. RevisionsInit => HistoryInv
  BY DEF RevisionsInit, HistoryInv, Promised, Counted
<1>2. HistoryInv => HistoryIsUnbroken /\ LastIsStored
  BY DEF HistoryInv, Promised, Counted, HistoryIsUnbroken, LastIsStored
<1> QED
  BY <1>1, <1>2, HistoryInvStep, RevisionsTyped, PTL DEF RevisionsSpec

=============================================================================
