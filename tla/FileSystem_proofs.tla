-------------------------- MODULE FileSystem_proofs --------------------------
(***************************************************************************)
(* Proofs about FileSystem: what a call had alone stays saved, for any      *)
(* number of callers, calls and reloads, and any calls.                    *)
(*                                                                         *)
(* The argument follows copies.  What UpdateLink assigns to a part was in  *)
(* memory when some call put it; a copy is what is in memory or has been   *)
(* put and not yet assigned.  A step makes each copy from one there was,   *)
(* with its own mark on it or none; so a mark that all copies have is in   *)
(* every later one.  A call that is alone in a part brings it about that   *)
(* all copies have its mark before its link is assigned.  A copy of the    *)
(* private tree that is torn may miss names: it is nobody's evidence, and  *)
(* no other copy is made from it before a reload.                          *)
(***************************************************************************)
EXTENDS FileSystem, FiniteSetTheorems, SequenceTheorems, TLAPS

(* The parts of the root that have a link. *)
LinkNames == {"public", "pretty", "private", "log", "shared", "counter"}

Runs(d) == call[d].pc # "rest"
Holds(d, p) == call[d].pc # "publish" /\ p \in DOMAIN call[d].snap

(* A put of the MMPT that misses no name. *)
Whole(names) == [names |-> names, torn |-> FALSE]

(* What is in memory of a part: of version 3 the last promise. *)
InMemory(p) ==
  CASE p = "public" -> IF wasm THEN promise[Len(promise)].value ELSE mem.public
    [] p = "pretty" -> mem.pretty
    [] p = "private" -> Whole(mem.mmpt)
    [] p = "log" -> mem.log
    [] p = "shared" -> mem.shares
    [] p = "counter" -> mem.counter

(* The copies of a part: what is in memory and what calls have taken from it. *)
Awaited == {promise[call[d].pin].value : d \in {e \in Callers : wasm /\ call[e].w # "off"}}
Counted == {call[d].count : d \in {e \in Callers : call[e].pc = "index"}}
Copies(p) ==
  {InMemory(p)}
    \union {call[d].snap[p] : d \in {e \in Callers : Holds(e, p)}}
    \union (IF p = "public" THEN Awaited ELSE {})
    \union (IF p = "counter" THEN Counted ELSE {})

(* Does a copy of a part have the mark of m, which is what Return keeps?  *)
(* For the counter it is that it has passed the count of m.                *)
ChunksOf(log, id) == {i \in 1..Len(log) : id \in Range(log[i])}
Marks(v, m, p) ==
  CASE p = "log" -> \E i \in 1..Len(v) : ChunksOf(v, m.id) = {i}
    [] p = "shared" -> LoadShare(v, m.with, m.count) = {m.id}
    [] p = "counter" -> v \in Nat /\ m.count \in 0..(v - 1)
    [] p = "private" -> v.torn \/ m.id \in v.names
    [] OTHER -> m.id \in v

Remembered(m, p) == \A v \in Copies(p) : Marks(v, m, p)

(* The parts that m is about, and the record that c would return. *)
Kept(m) ==
  (m.parts \ {"root"}) \union (IF "shared" \in m.parts THEN {"counter"} ELSE {})

Mark(c) ==
  [id |-> call[c].id, parts |-> Marked(call[c].op) \ call[c].clash,
   with |-> call[c].op.with, count |-> call[c].count]

-----------------------------------------------------------------------------
(* TYPES *)

(* Memory, the links, a call have their fields. *)
MemShape ==
  mem = [public |-> mem.public, pretty |-> mem.pretty, mmpt |-> mem.mmpt, log |-> mem.log,
         shares |-> mem.shares, counter |-> mem.counter]

IsLinks(l) == l = [p \in LinkNames |-> l[p]]

IsCall(cl) ==
  cl = [pc |-> cl.pc, op |-> cl.op, id |-> cl.id, w |-> cl.w, pin |-> cl.pin, snap |-> cl.snap,
        next |-> cl.next, took |-> cl.took, count |-> cl.count, clash |-> cl.clash]

CallShape ==
  /\ call = [c \in Callers |-> call[c]]
  /\ \A c \in Callers : IsCall(call[c])

IsPromise(q) == q = [state |-> q.state, value |-> q.value] /\ q.state \in {"pending", "ok", "failed"}

PromiseShape ==
  /\ Len(promise) \in Nat \ {0} /\ promise = [i \in 1..Len(promise) |-> promise[i]]
  /\ \A i \in 1..Len(promise) : IsPromise(promise[i])

TypeInv ==
  /\ wasm \in BOOLEAN /\ proofs \in BOOLEAN /\ held \in Held
  /\ calls \in 0..MaxCalls /\ reloads \in 0..MaxReloads
  /\ MemShape /\ IsLinks(links) /\ IsLinks(published) /\ CallShape
  /\ PromiseShape

-----------------------------------------------------------------------------
(* SHAPE *)

Body(op) == Parts(op) \ {"root"}
Owned(op) == Body(op) \union (IF "shared" \in Parts(op) THEN {"counter"} ELSE {})

(* What is still to be put and assigned. *)
Due(cl) ==
  DOMAIN cl.snap
    \union (IF cl.w = "off" THEN {} ELSE {"public"})
    \union (CASE cl.next = "log" -> {"log"}
              [] cl.next = "bump" -> {"counter", "private"}
              [] cl.next = "mmpt" -> {"private"}
              [] OTHER -> {})

(* The stages of a call. *)
Shape(cl) ==
  /\ cl.op \in Ops /\ cl.id \in 1..calls
  /\ cl.pc \in {"check", "query", "public", "pretty", "private", "share", "index", "step", "child",
                "puts", "publish"}
  /\ cl.pc \notin {"puts", "publish"} => cl.snap = << >>
  /\ cl.pc = "check" => cl.op.kind \notin {"historyStep", "inDirectory", "share"} \union Reads
  /\ cl.pc = "public" /\ wasm => cl.op.kind # "links"
  /\ cl.pc \in {"public", "pretty"} => Body(cl.op) = {"public", "pretty"}
  /\ cl.pc = "pretty" /\ wasm /\ cl.op.kind = "links" => "public" \notin Marked(cl.op)
  /\ cl.pc = "private" => Body(cl.op) = {"private", "log"}
  /\ cl.pc \in {"share", "index"} => Body(cl.op) = {"private", "shared"} /\ cl.op.publish
  /\ cl.pc \in {"step", "child"} => Body(cl.op) \subseteq {"public", "pretty"}
  /\ cl.pc \in {"step"} => Marked(cl.op) \subseteq {"root"}
  /\ cl.pc = "puts" => Due(cl) \subseteq Owned(cl.op)
  /\ cl.pc = "puts" =>
       CASE cl.next = "log" -> Body(cl.op) = {"private", "log"} /\ cl.w = "off" /\ DOMAIN cl.snap \subseteq {"private"}
         [] cl.next \in {"bump", "mmpt"} -> Body(cl.op) = {"private", "shared"} /\ cl.op.publish /\ cl.w = "off"
                 /\ DOMAIN cl.snap \subseteq IF cl.next = "bump" THEN {"shared"} ELSE {"counter"}
         [] cl.next = "publish" -> cl.op.publish
         [] OTHER -> cl.next = "return" /\ ~cl.op.publish
  /\ cl.pc = "publish" => IsLinks(cl.snap) /\ cl.op.publish /\ cl.w = "off"
  /\ cl.w \in {"off", "await", "pending", "stepped"}
  /\ cl.w # "off" => /\ "public" \in Parts(cl.op) /\ wasm
                     /\ cl.pc \in {"public", "child", "step", "puts"}
                     /\ cl.pin \in 1..Len(promise)
  /\ cl.w = "off" => cl.pc \notin {"child", "step"} /\ (wasm => cl.pc # "public")
  /\ cl.w # "off" => "public" \notin DOMAIN cl.snap
  /\ cl.w = "stepped" => cl.pc = "puts"

ShapeInv ==
  \A c \in Callers :
    IF Runs(c) THEN Shape(call[c]) ELSE call[c] = Rest

(* Calls that run at the same time know of the parts that both put; the     *)
(* promise that a call alone in the public tree awaits is the last.        *)
ClashInv ==
  /\ \A c, d \in Callers : c # d /\ Runs(c) /\ Runs(d) =>
       /\ call[c].id # call[d].id
       /\ Parts(call[c].op) \cap Parts(call[d].op) \subseteq call[c].clash
  /\ \A r \in done : r.id \in 1..calls
  /\ \A c \in Callers : Runs(c) => \A r \in done : r.id # call[c].id
  /\ \A c \in Callers : call[c].w # "off" /\ "public" \notin call[c].clash => call[c].pin = Len(promise)

(* A call that publishes alone has its proof. *)
ProofInv ==
  \A c \in Callers : Runs(c) /\ call[c].op.publish /\ "root" \notin call[c].clash =>
    /\ call[c].pc \in {"public", "pretty", "private", "share", "index"} => proofs
    /\ call[c].pc = "puts" => proofs
    /\ call[c].pc = "publish" => call[c].took

-----------------------------------------------------------------------------
(* The log: no call is in it before its step. *)
Logs == Seq(Seq(Nat))
Sized(chunk) == Len(chunk) >= 1 /\ HashSize * (Len(chunk) - 1) < ChunkSize
GoodChunk(chunk) == Sized(chunk) /\ Range(chunk) \subseteq 1..calls
GoodLog(log) ==
  /\ log \in Logs
  /\ \A i \in 1..Len(log) : GoodChunk(log[i])

IsLogged(cl) == cl.pc = "publish" \/ (cl.pc = "puts" /\ cl.next # "log")
LogInv ==
  /\ \A v \in Copies("log") :
       /\ GoodLog(v)
       /\ \A c \in Callers : Runs(c) /\ ~IsLogged(call[c]) => ChunksOf(v, call[c].id) = {}
  /\ GoodLog(links.log) /\ GoodLog(published.log)
  /\ \A c \in Callers : call[c].pc = "publish" => GoodLog(call[c].snap.log)

(* The counter only grows, but for reloads. *)
IsCount(v) == v = None \/ v \in Nat \ {0}
CountInv ==
  /\ \A v \in Copies("counter") : v \in Nat \ {0}
  /\ IsCount(links.counter) /\ IsCount(published.counter)
  /\ \A c \in Callers : call[c].pc = "publish" => IsCount(call[c].snap.counter)
  /\ \A c \in Callers : call[c].count \in Nat /\ call[c].count <= mem.counter

(* The counter counts calls: those that have not counted it up yet are     *)
(* left, and nothing that was put is ahead of it.                          *)
IsBumped(cl) == cl.pc = "publish" \/ (cl.pc = "puts" /\ cl.next # "bump")
Unbumped == {call[d].id : d \in {e \in Callers : Runs(e) /\ ~IsBumped(call[e])}}
AtMost(v, n) == v = None \/ v <= n
LimitInv ==
  /\ mem.counter + Cardinality(Unbumped) <= calls + 1
  /\ \A v \in Copies("counter") : v <= mem.counter
  /\ AtMost(links.counter, mem.counter) /\ AtMost(published.counter, mem.counter)
  /\ \A c \in Callers : call[c].pc = "publish" => AtMost(call[c].snap.counter, mem.counter)

-----------------------------------------------------------------------------
(* THE MARKS OF CALLS *)

(* c has changed the part in memory; its link has been assigned. *)
Reached(c, p) ==
  \/ call[c].pc = "pretty" /\ p = "public"
  \/ call[c].pc = "index" /\ p = "private"
  \/ /\ call[c].pc = "puts"
     /\ p = "log" => "log" \notin Due(call[c])
     /\ p = "counter" => call[c].next # "bump"
  \/ call[c].pc = "publish"

Assigned(c, p) == call[c].pc = "publish" \/ (call[c].pc = "puts" /\ p \notin Due(call[c]))

MarkInv ==
  \A c \in Callers : Runs(c) =>
    LET m == Mark(c) IN
    \A p \in Kept(m) :
      /\ Reached(c, p) => Remembered(m, p)
      /\ Assigned(c, p) => Marks(links[p], m, p)
      /\ p \in DOMAIN call[c].snap => Marks(call[c].snap[p], m, p)

(* What a call that returned had alone is in all copies, and published. *)
Safe(r, p) ==
  /\ Remembered(r, p) /\ Marks(links[p], r, p)
  /\ "root" \in r.parts =>
       /\ Marks(published[p], r, p)
       /\ \A c \in Callers : call[c].pc = "publish" => Marks(call[c].snap[p], r, p)

IsDone(r) == r = [id |-> r.id, parts |-> r.parts, with |-> r.with, count |-> r.count]
HasLinks(r) == IsDone(r) /\ "counter" \notin r.parts /\ Kept(r) \subseteq LinkNames

DoneInv ==
  \A r \in done : HasLinks(r) /\ \A p \in Kept(r) : Safe(r, p)

-----------------------------------------------------------------------------
(* What a step does to the calls. *)
Only(c) == call' = [d \in Callers |-> call'[d]] /\ \A d \in Callers \ {c} : call'[d] = call[d]

LEMMA Becomes ==
  ASSUME CallShape, NEW c \in Callers, NEW cl, Become(c, cl)
  PROVE  call'[c] = cl /\ Only(c)
BY DEF CallShape, Become, Only

LEMMA ShapeKept ==
  ASSUME CallShape, NEW c \in Callers, Only(c), IsCall(call'[c])
  PROVE  CallShape'
BY DEF CallShape, Only, IsCall

LEMMA RestIsCall == IsCall(Rest)
BY DEF IsCall, Rest

LEMMA PutCall ==
  ASSUME NEW cl, IsCall(cl), NEW snap, NEW next, NEW q, q = Putting(cl, snap, next)
  PROVE  /\ IsCall(q) /\ q.pc = "puts" /\ q.snap = snap /\ q.next = next
         /\ q.op = cl.op /\ q.id = cl.id /\ q.w = cl.w /\ q.pin = cl.pin /\ q.took = cl.took
         /\ q.count = cl.count /\ q.clash = cl.clash
BY DEF IsCall, Putting

LEMMA PuttingIs ==
  ASSUME NEW cl, IsCall(cl), NEW snap, NEW next
  PROVE  LET q == Putting(cl, snap, next)
         IN /\ IsCall(q) /\ q.pc = "puts" /\ q.snap = snap /\ q.next = next
            /\ q.op = cl.op /\ q.id = cl.id /\ q.w = cl.w /\ q.pin = cl.pin /\ q.took = cl.took
            /\ q.count = cl.count /\ q.clash = cl.clash
BY PutCall

LEMMA GrabCall ==
  ASSUME NEW cl, IsCall(cl), NEW q, q = Grabbing(cl)
  PROVE  /\ IsCall(q) /\ q.w = "await" /\ q.pin = Len(promise)
         /\ q.pc = cl.pc /\ q.snap = cl.snap /\ q.next = cl.next
         /\ q.op = cl.op /\ q.id = cl.id /\ q.took = cl.took
         /\ q.count = cl.count /\ q.clash = cl.clash
BY DEF IsCall, Grabbing

LEMMA GrabbingIs ==
  ASSUME NEW cl, IsCall(cl)
  PROVE  LET q == Grabbing(cl)
         IN /\ IsCall(q) /\ q.w = "await" /\ q.pin = Len(promise)
            /\ q.pc = cl.pc /\ q.snap = cl.snap /\ q.next = cl.next
            /\ q.op = cl.op /\ q.id = cl.id /\ q.took = cl.took
            /\ q.count = cl.count /\ q.clash = cl.clash
BY GrabCall

LEMMA AtPc ==
  ASSUME NEW cl, IsCall(cl), NEW pc, NEW q, q = [cl EXCEPT !.pc = pc]
  PROVE  /\ IsCall(q) /\ q.pc = pc /\ q.w = cl.w /\ q.pin = cl.pin
         /\ q.snap = cl.snap /\ q.next = cl.next
         /\ q.op = cl.op /\ q.id = cl.id /\ q.took = cl.took
         /\ q.count = cl.count /\ q.clash = cl.clash
BY DEF IsCall

LEMMA Thrown ==
  ASSUME CallShape, NEW c \in Callers, Throw(c)
  PROVE  CallShape' /\ Only(c) /\ call'[c] = Rest
BY Becomes, ShapeKept, RestIsCall DEF Throw

(* A call that goes on: what stays the same in all of the actions. *)
Goes(c) ==
  /\ CallShape' /\ Only(c)
  /\ call'[c].op = call[c].op /\ call'[c].id = call[c].id /\ call'[c].clash = call[c].clash
Ends(c) == CallShape' /\ Only(c) /\ call'[c] = Rest
SameSnap(c) == call'[c].snap = call[c].snap
SameWait(c) == call'[c].w = call[c].w /\ call'[c].pin = call[c].pin
SameRest(c) ==
  call'[c].next = call[c].next /\ call'[c].count = call[c].count /\ call'[c].took = call[c].took

Stays(c) ==
  /\ call'[c].pc = call[c].pc /\ call'[c].op = call[c].op /\ call'[c].id = call[c].id
  /\ SameSnap(c) /\ SameWait(c) /\ SameRest(c)

Overlaps(c, op) == UNION {Clashing(op, d) : d \in Callers \ {c}}
Meets(d, op) == call'[d].clash = call[d].clash \union Clashing(op, d)

LEMMA QueryEffect ==
  ASSUME CallShape, NEW c \in Callers, Query(c)
  PROVE  /\ call[c].pc = "query"
         /\ \/ Ends(c)
            \/ /\ Goes(c) /\ SameSnap(c) /\ SameWait(c) /\ SameRest(c)
               /\ \/ call[c].op.kind = "mv" /\ call'[c].pc = "check"
                  \/ call[c].op.kind = "share" /\ call'[c].pc = "share"
<1> USE DEF Goes, Ends, SameSnap, SameWait, SameRest
<1>1. CASE call[c].op.kind = "mv"
  <2>1. call'[c] = [call[c] EXCEPT !.pc = "check"] /\ Only(c) /\ call[c].pc = "query"
    BY <1>1, Becomes DEF Query
  <2> QED
    BY <1>1, <2>1, AtPc, ShapeKept DEF CallShape
<1>2. CASE call[c].op.kind = "share"
  <2>1. call'[c] = [call[c] EXCEPT !.pc = "share"] /\ Only(c) /\ call[c].pc = "query"
    BY <1>2, Becomes DEF Query
  <2> QED
    BY <1>2, <2>1, AtPc, ShapeKept DEF CallShape
<1>3. CASE call[c].op.kind \notin {"mv", "share"}
  <2>1. call'[c] = Rest /\ Only(c) /\ call[c].pc = "query"
    BY <1>3, Becomes DEF Query
  <2> QED
    BY <2>1, ShapeKept, RestIsCall
<1> QED
  BY <1>1, <1>2, <1>3

LEMMA CheckEffect ==
  ASSUME CallShape, NEW c \in Callers, Check(c)
  PROVE  /\ call[c].pc = "check" /\ Goes(c) /\ SameSnap(c) /\ SameRest(c)
         /\ \/ /\ call[c].op.path.part = "private" /\ SameWait(c) /\ call'[c].pc = "private"
            \/ /\ call[c].op.path.part = "public"
               /\ \/ /\ call'[c].pc = "child" /\ LinksFail(call[c].op)
                     /\ call'[c].w = "await" /\ call'[c].pin = Len(promise)
                  \/ /\ call'[c].pc = "pretty" /\ wasm /\ call[c].op.kind = "links" /\ SameWait(c)
                  \/ /\ call'[c].pc = "public" /\ wasm /\ call[c].op.kind # "links"
                     /\ call'[c].w = "await" /\ call'[c].pin = Len(promise)
                  \/ /\ call'[c].pc = "public" /\ ~wasm /\ SameWait(c)
<1> USE DEF Goes, SameSnap, SameWait, SameRest
<1>0. IsCall(call[c])
  BY DEF CallShape
<1>1. CASE call[c].op.path.part = "private"
  <2>1. call'[c] = [call[c] EXCEPT !.pc = "private"] /\ Only(c) /\ call[c].pc = "check"
    BY <1>1, Becomes DEF Check
  <2> QED
    BY <1>0, <1>1, <2>1, AtPc, ShapeKept
<1>2. CASE call[c].op.path.part = "public"
  <2>0. call[c].pc = "check"
    BY DEF Check
  <2>1. CASE LinksFail(call[c].op)
    <3>0. Become(c, Grabbing([call[c] EXCEPT !.pc = "child"]))
      BY <1>2, <2>1 DEF Check
    <3>1. call'[c] = Grabbing([call[c] EXCEPT !.pc = "child"]) /\ Only(c)
      BY <3>0, Becomes
    <3> QED
      BY <1>0, <1>2, <2>0, <2>1, <3>1, AtPc, GrabCall, ShapeKept
  <2>2. CASE ~LinksFail(call[c].op) /\ wasm /\ call[c].op.kind = "links"
    <3>0. Become(c, [call[c] EXCEPT !.pc = "pretty"])
      BY <1>2, <2>2 DEF Check
    <3>1. call'[c] = [call[c] EXCEPT !.pc = "pretty"] /\ Only(c)
      BY <3>0, Becomes
    <3> QED
      BY <1>0, <1>2, <2>0, <2>2, <3>1, AtPc, ShapeKept
  <2>3. CASE ~LinksFail(call[c].op) /\ wasm /\ call[c].op.kind # "links"
    <3>1. call'[c] = Grabbing([call[c] EXCEPT !.pc = "public"]) /\ Only(c)
      BY <1>2, <2>3, Becomes DEF Check
    <3> QED
      BY <1>0, <1>2, <2>0, <2>3, <3>1, AtPc, GrabCall, ShapeKept
  <2>4. CASE ~LinksFail(call[c].op) /\ ~wasm
    <3>1. call'[c] = [call[c] EXCEPT !.pc = "public"] /\ Only(c)
      BY <1>2, <2>4, Becomes DEF Check
    <3> QED
      BY <1>0, <1>2, <2>0, <2>4, <3>1, AtPc, ShapeKept
  <2> QED
    BY <2>1, <2>2, <2>3, <2>4
<1>3. CASE call[c].op.path.part \notin {"private", "public"}
  BY <1>3 DEF Check
<1> QED
  BY <1>1, <1>2, <1>3

LEMMA AtomicallyEffect ==
  ASSUME CallShape, NEW c \in Callers, Atomically(c)
  PROVE  /\ call[c].w = "await"
         /\ \/ Ends(c) /\ promise' = promise
            \/ /\ Goes(c) /\ SameSnap(c) /\ SameRest(c) /\ call'[c].pc = call[c].pc
               /\ call'[c].w = "pending" /\ call'[c].pin = Len(promise')
               /\ promise' = Append(promise, [state |-> "pending", value |-> AwaitedRoot(c)])
<1> USE DEF Goes, Ends, SameSnap, SameRest
<1>1. CASE promise[call[c].pin].state = "failed"
  BY <1>1, Thrown DEF Atomically
<1>2. CASE promise[call[c].pin].state # "failed"
  <2>1. /\ call'[c] = [call[c] EXCEPT !.w = "pending", !.pin = Len(promise')] /\ Only(c)
        /\ promise' = Append(promise, [state |-> "pending", value |-> AwaitedRoot(c)])
        /\ call[c].w = "await"
    BY <1>2, Becomes DEF Atomically
  <2> DEFINE n == Len(promise')
  <2> HIDE DEF n
  <2>2. call'[c] = [call[c] EXCEPT !.w = "pending", !.pin = n]
    BY <2>1 DEF n
  <2>3. IsCall(call'[c]) /\ call'[c].w = "pending" /\ call'[c].pin = n /\ call'[c].pc = call[c].pc
        /\ call'[c].op = call[c].op /\ call'[c].id = call[c].id /\ call'[c].clash = call[c].clash
        /\ SameSnap(c) /\ SameRest(c)
    BY <2>2 DEF IsCall, CallShape
  <2> QED
    BY <2>1, <2>3, ShapeKept DEF n
<1> QED
  BY <1>1, <1>2

LEMMA FulfilEffect ==
  ASSUME CallShape, NEW c \in Callers, Fulfil(c)
  PROVE  /\ call[c].pc = "public" /\ call[c].w = "pending"
         /\ Goes(c) /\ SameSnap(c) /\ SameRest(c)
         /\ call'[c].pc = "pretty" /\ call'[c].w = "off" /\ call'[c].pin = call[c].pin
<1>1. /\ call'[c] = [call[c] EXCEPT !.pc = "pretty", !.w = "off"] /\ Only(c)
      /\ call[c].pc = "public" /\ call[c].w = "pending"
  BY Becomes DEF Fulfil, Changed
<1>2. /\ IsCall(call'[c]) /\ call'[c].op = call[c].op /\ call'[c].id = call[c].id
      /\ call'[c].clash = call[c].clash /\ SameSnap(c) /\ SameRest(c)
      /\ call'[c].pc = "pretty" /\ call'[c].w = "off" /\ call'[c].pin = call[c].pin
  BY <1>1 DEF IsCall, CallShape, SameSnap, SameRest
<1> QED
  BY <1>1, <1>2, ShapeKept DEF Goes

LEMMA HistoryStepEffect ==
  ASSUME CallShape, NEW c \in Callers, HistoryStep(c)
  PROVE  /\ call[c].w = "pending" /\ call[c].pc \in {"puts", "step"}
         /\ \/ call[c].pc = "step" /\ Ends(c) /\ Return(c)
            \/ /\ call[c].pc = "puts" /\ Goes(c) /\ SameSnap(c) /\ SameRest(c) /\ call'[c].pc = "puts"
               /\ call'[c].w = "stepped" /\ call'[c].pin = Len(promise) /\ done' = done
<1>1. CASE call[c].pc = "step"
  <2>1. Return(c) /\ call[c].w = "pending"
    BY <1>1 DEF HistoryStep
  <2>2. call'[c] = Rest /\ Only(c)
    BY <2>1, Becomes DEF Return
  <2> QED
    BY <1>1, <2>1, <2>2, ShapeKept, RestIsCall DEF Ends
<1>2. CASE call[c].pc # "step"
  <2>1. /\ call'[c] = [call[c] EXCEPT !.w = "stepped", !.pin = Len(promise)] /\ Only(c)
        /\ call[c].w = "pending" /\ call[c].pc = "puts" /\ done' = done
    BY <1>2, Becomes DEF HistoryStep
  <2>2. /\ IsCall(call'[c]) /\ call'[c].op = call[c].op /\ call'[c].id = call[c].id
        /\ call'[c].clash = call[c].clash /\ SameSnap(c) /\ SameRest(c)
        /\ call'[c].pc = "puts" /\ call'[c].w = "stepped" /\ call'[c].pin = Len(promise)
    BY <2>1 DEF IsCall, CallShape, SameSnap, SameRest
  <2> QED
    BY <2>1, <2>2, ShapeKept DEF Goes
<1> QED
  BY <1>1, <1>2

LEMMA StoreRootEffect ==
  ASSUME CallShape, NEW c \in Callers, StoreRoot(c)
  PROVE  /\ call[c].w = "stepped"
         /\ \/ Ends(c)
            \/ /\ Goes(c) /\ SameRest(c) /\ call'[c].pc = call[c].pc
               /\ call'[c].w = "off" /\ call'[c].pin = call[c].pin
               /\ DOMAIN call'[c].snap = DOMAIN call[c].snap \union {"public"}
               /\ call'[c].snap["public"] = AwaitedRoot(c)
               /\ \A p \in DOMAIN call[c].snap \ {"public"} : call'[c].snap[p] = call[c].snap[p]
<1> DEFINE old == call[c].snap
           snap == [p \in DOMAIN old \union {"public"} |-> IF p = "public" THEN AwaitedRoot(c) ELSE old[p]]
<1>1. CASE promise[call[c].pin].state = "failed"
  BY <1>1, Thrown DEF StoreRoot, Ends
<1>2. CASE promise[call[c].pin].state # "failed"
  <2>1. /\ call'[c] = [call[c] EXCEPT !.w = "off", !.snap = snap] /\ Only(c)
        /\ call[c].w = "stepped"
    BY <1>2, Becomes DEF StoreRoot
  <2>2. /\ DOMAIN snap = DOMAIN call[c].snap \union {"public"} /\ snap["public"] = AwaitedRoot(c)
        /\ \A p \in DOMAIN call[c].snap \ {"public"} : snap[p] = call[c].snap[p]
    OBVIOUS
  <2> HIDE DEF snap
  <2>3. /\ IsCall(call'[c]) /\ call'[c].op = call[c].op /\ call'[c].id = call[c].id
        /\ call'[c].clash = call[c].clash /\ call'[c].snap = snap /\ SameRest(c)
        /\ call'[c].pc = call[c].pc /\ call'[c].w = "off" /\ call'[c].pin = call[c].pin
    BY <2>1 DEF IsCall, CallShape, SameRest
  <2> QED
    BY <2>1, <2>2, <2>3, ShapeKept DEF Goes
<1> QED
  BY <1>1, <1>2

LEMMA ChangePublicEffect ==
  ASSUME CallShape, MemShape, NEW c \in Callers, ChangePublic(c)
  PROVE  /\ call[c].pc = "public" /\ ~wasm
         /\ Goes(c) /\ SameSnap(c) /\ SameWait(c) /\ SameRest(c) /\ call'[c].pc = "pretty"
         /\ MemShape' /\ mem'.public = mem.public \union {call[c].id}
         /\ mem'.pretty = mem.pretty /\ mem'.mmpt = mem.mmpt /\ mem'.log = mem.log
         /\ mem'.shares = mem.shares /\ mem'.counter = mem.counter
<1>1. call'[c] = [call[c] EXCEPT !.pc = "pretty"] /\ Only(c)
  BY Becomes DEF ChangePublic
<1>2. /\ Goes(c) /\ SameSnap(c) /\ SameWait(c) /\ SameRest(c) /\ call'[c].pc = "pretty"
  BY <1>1, AtPc, ShapeKept DEF CallShape, Goes, SameSnap, SameWait, SameRest
<1>3. /\ MemShape' /\ mem'.public = mem.public \union {call[c].id}
      /\ mem'.pretty = mem.pretty /\ mem'.mmpt = mem.mmpt /\ mem'.log = mem.log
      /\ mem'.shares = mem.shares /\ mem'.counter = mem.counter
  BY DEF ChangePublic, MemShape
<1> QED
  BY <1>2, <1>3 DEF ChangePublic

LEMMA ChangePrettyEffect ==
  ASSUME CallShape, MemShape, NEW c \in Callers, ChangePretty(c)
  PROVE  /\ call[c].pc = "pretty"
         /\ Goes(c) /\ call'[c].pc = "puts"
         /\ call'[c].next = IF call[c].op.publish THEN "publish" ELSE "return"
         /\ call'[c].count = call[c].count /\ call'[c].took = call[c].took
         /\ IF wasm THEN /\ call'[c].w = "await" /\ call'[c].pin = Len(promise)
                         /\ DOMAIN call'[c].snap = {"pretty"}
            ELSE /\ SameWait(c) /\ DOMAIN call'[c].snap = {"public", "pretty"}
                 /\ call'[c].snap["public"] = mem.public
         /\ call'[c].snap["pretty"] = mem'.pretty
         /\ MemShape'
         /\ mem'.pretty = IF IsPretty(call[c].op) THEN mem.pretty \union {call[c].id} ELSE mem.pretty
         /\ mem'.public = mem.public /\ mem'.mmpt = mem.mmpt /\ mem'.log = mem.log
         /\ mem'.shares = mem.shares /\ mem'.counter = mem.counter
<1> DEFINE both == [public |-> mem.public, pretty |-> mem'.pretty]
           one == [p \in {"pretty"} |-> both[p]]
           next == IF call[c].op.publish THEN "publish" ELSE "return"
<1>1. /\ MemShape'
      /\ mem'.pretty = IF IsPretty(call[c].op) THEN mem.pretty \union {call[c].id} ELSE mem.pretty
      /\ mem'.public = mem.public /\ mem'.mmpt = mem.mmpt /\ mem'.log = mem.log
      /\ mem'.shares = mem.shares /\ mem'.counter = mem.counter
  BY DEF ChangePretty, MemShape
<1>2. IsCall(call[c]) /\ call[c].pc = "pretty"
  BY DEF CallShape, ChangePretty
<1>3. /\ DOMAIN both = {"public", "pretty"} /\ both["public"] = mem.public
      /\ both["pretty"] = mem'.pretty
  OBVIOUS
<1>4. DOMAIN one = {"pretty"} /\ one["pretty"] = mem'.pretty
  OBVIOUS
<1>5. CASE wasm
  <2>1. Become(c, Grabbing(Putting(call[c], one, next)))
    BY <1>5 DEF ChangePretty
  <2>2. call'[c] = Grabbing(Putting(call[c], one, next)) /\ Only(c)
    BY <2>1, Becomes
  <2> HIDE DEF one, both, next
  <2>3. /\ IsCall(call'[c]) /\ call'[c].op = call[c].op /\ call'[c].id = call[c].id
        /\ call'[c].clash = call[c].clash /\ call'[c].snap = one /\ call'[c].next = next
        /\ call'[c].pc = "puts" /\ call'[c].w = "await" /\ call'[c].pin = Len(promise)
        /\ call'[c].count = call[c].count /\ call'[c].took = call[c].took
    BY <1>2, <2>2, PuttingIs, GrabbingIs
  <2> QED
    BY <1>1, <1>2, <1>4, <1>5, <2>2, <2>3, ShapeKept DEF Goes, next
<1>6. CASE ~wasm
  <2>1. Become(c, Putting(call[c], both, next))
    BY <1>6 DEF ChangePretty
  <2>2. call'[c] = Putting(call[c], both, next) /\ Only(c)
    BY <2>1, Becomes
  <2> HIDE DEF one, both, next
  <2>3. /\ IsCall(call'[c]) /\ call'[c].op = call[c].op /\ call'[c].id = call[c].id
        /\ call'[c].clash = call[c].clash /\ call'[c].snap = both /\ call'[c].next = next
        /\ call'[c].pc = "puts" /\ SameWait(c)
        /\ call'[c].count = call[c].count /\ call'[c].took = call[c].took
    BY <1>2, <2>2, PuttingIs DEF SameWait
  <2> QED
    BY <1>1, <1>2, <1>3, <1>6, <2>2, <2>3, ShapeKept DEF Goes, next
<1> QED
  BY <1>5, <1>6

(* What a put of the MMPT has: all names, unless a call was adding one. *)
IsPut(v, names) == v.torn \/ v = Whole(names)

LEMMA PutsAre ==
  ASSUME NEW c, NEW names, NEW put \in Puts(c, names)
  PROVE  IsPut(put, names)
<1>1. PICK taken \in [Adding(c) -> names \union {None}] :
        put = [names |-> names \ Range(taken), torn |-> Adding(c) # {}]
  BY DEF Puts
<1>2. CASE Adding(c) = {}
  <2>1. Range(taken) = {}
    BY <1>2 DEF Range
  <2> QED
    BY <1>1, <1>2, <2>1 DEF IsPut, Whole
<1>3. CASE Adding(c) # {}
  BY <1>1, <1>3 DEF IsPut
<1> QED
  BY <1>2, <1>3

LEMMA ChangePrivateEffect ==
  ASSUME CallShape, MemShape, NEW c \in Callers, ChangePrivate(c)
  PROVE  /\ call[c].pc = "private" /\ Goes(c) /\ SameWait(c)
         /\ call'[c].pc = "puts" /\ call'[c].next = "log"
         /\ call'[c].count = call[c].count /\ call'[c].took = call[c].took
         /\ DOMAIN call'[c].snap = {"private"} /\ IsPut(call'[c].snap["private"], mem'.mmpt)
         /\ MemShape' /\ mem'.mmpt = mem.mmpt \union {call[c].id}
         /\ mem'.public = mem.public /\ mem'.pretty = mem.pretty /\ mem'.log = mem.log
         /\ mem'.shares = mem.shares /\ mem'.counter = mem.counter
<1>0. PICK put \in Puts(c, mem'.mmpt) : Become(c, Putting(call[c], [p \in {"private"} |-> put], "log"))
  BY DEF ChangePrivate
<1> DEFINE snap == [p \in {"private"} |-> put]
<1>1. call'[c] = Putting(call[c], snap, "log") /\ Only(c) /\ call[c].pc = "private" /\ IsCall(call[c])
  BY <1>0, Becomes DEF ChangePrivate, CallShape
<1>2. DOMAIN snap = {"private"} /\ IsPut(snap["private"], mem'.mmpt)
  BY PutsAre
<1> HIDE DEF snap
<1>3. /\ Goes(c) /\ SameWait(c) /\ call'[c].snap = snap
      /\ call'[c].pc = "puts" /\ call'[c].next = "log"
      /\ call'[c].count = call[c].count /\ call'[c].took = call[c].took
  BY <1>1, PuttingIs, ShapeKept DEF Goes, SameWait
<1>4. /\ MemShape' /\ mem'.mmpt = mem.mmpt \union {call[c].id}
      /\ mem'.public = mem.public /\ mem'.pretty = mem.pretty /\ mem'.log = mem.log
      /\ mem'.shares = mem.shares /\ mem'.counter = mem.counter
  BY DEF ChangePrivate, MemShape
<1> QED
  BY <1>1, <1>2, <1>3, <1>4

LEMMA UpdateLinkEffect ==
  ASSUME CallShape, MemShape, IsLinks(links), NEW c \in Callers, NEW part \in LinkNames, UpdateLink(c, part)
  PROVE  /\ call[c].pc = "puts" /\ part \in DOMAIN call[c].snap
         /\ Goes(c) /\ SameWait(c) /\ SameRest(c) /\ call'[c].pc = "puts"
         /\ DOMAIN call'[c].snap = DOMAIN call[c].snap \ {part}
         /\ \A p \in DOMAIN call'[c].snap : call'[c].snap[p] = call[c].snap[p]
         /\ IsLinks(links') /\ links'[part] = call[c].snap[part]
         /\ \A p \in LinkNames \ {part} : links'[p] = links[p]
         /\ MemShape' /\ mem'.log = IF part = "log" THEN call[c].snap["log"] ELSE mem.log
         /\ mem'.public = mem.public /\ mem'.pretty = mem.pretty /\ mem'.mmpt = mem.mmpt
         /\ mem'.shares = mem.shares /\ mem'.counter = mem.counter
<1> DEFINE old == call[c].snap
           snap == [p \in DOMAIN old \ {part} |-> old[p]]
<1>1. call'[c] = [call[c] EXCEPT !.snap = snap] /\ Only(c) /\ call[c].pc = "puts" /\ IsCall(call[c])
  BY Becomes DEF UpdateLink, CallShape
<1>2. DOMAIN snap = DOMAIN call[c].snap \ {part} /\ \A p \in DOMAIN snap : snap[p] = call[c].snap[p]
  OBVIOUS
<1> HIDE DEF snap
<1>3. /\ IsCall(call'[c]) /\ call'[c].op = call[c].op /\ call'[c].id = call[c].id
      /\ call'[c].clash = call[c].clash /\ call'[c].snap = snap /\ SameRest(c) /\ SameWait(c)
      /\ call'[c].pc = "puts"
  BY <1>1 DEF IsCall, SameRest, SameWait
<1>4. /\ MemShape' /\ mem'.log = IF part = "log" THEN call[c].snap["log"] ELSE mem.log
      /\ mem'.public = mem.public /\ mem'.pretty = mem.pretty /\ mem'.mmpt = mem.mmpt
      /\ mem'.shares = mem.shares /\ mem'.counter = mem.counter
  BY DEF UpdateLink, MemShape
<1>5. /\ IsLinks(links') /\ links'[part] = call[c].snap[part]
      /\ \A p \in LinkNames \ {part} : links'[p] = links[p]
  BY DEF UpdateLink, IsLinks
<1>6. part \in DOMAIN call[c].snap
  BY DEF UpdateLink
<1> QED
  BY <1>1, <1>2, <1>3, <1>4, <1>5, <1>6, ShapeKept DEF Goes

LEMMA AddPrivateLogEntryEffect ==
  ASSUME CallShape, NEW c \in Callers, AddPrivateLogEntry(c)
  PROVE  /\ call[c].pc = "puts" /\ call[c].next = "log" /\ DOMAIN call[c].snap = {}
         /\ Goes(c) /\ SameWait(c) /\ call'[c].pc = "puts"
         /\ call'[c].next = IF call[c].op.publish THEN "publish" ELSE "return"
         /\ call'[c].count = call[c].count /\ call'[c].took = call[c].took
         /\ DOMAIN call'[c].snap = {"log"}
         /\ call'[c].snap["log"] = WithEntry(mem.log, call[c].id)
<1> DEFINE snap == [p \in {"log"} |-> WithEntry(mem.log, call[c].id)]
           next == IF call[c].op.publish THEN "publish" ELSE "return"
<1>1. /\ call'[c] = Putting(call[c], snap, next) /\ Only(c) /\ IsCall(call[c])
      /\ call[c].pc = "puts" /\ call[c].next = "log" /\ call[c].snap = << >>
  BY Becomes DEF AddPrivateLogEntry, CallShape
<1>2. DOMAIN snap = {"log"} /\ snap["log"] = WithEntry(mem.log, call[c].id)
  OBVIOUS
<1> HIDE DEF snap, next
<1>3. /\ Goes(c) /\ SameWait(c) /\ call'[c].snap = snap
      /\ call'[c].pc = "puts" /\ call'[c].next = next
      /\ call'[c].count = call[c].count /\ call'[c].took = call[c].took
  BY <1>1, PuttingIs, ShapeKept DEF Goes, SameWait
<1> QED
  BY <1>1, <1>2, <1>3 DEF next

LEMMA Returned ==
  ASSUME CallShape, NEW c \in Callers, Return(c)
  PROVE  Ends(c) /\ done' = done \union {Mark(c)}
BY Becomes, ShapeKept, RestIsCall DEF Return, Mark, Ends

LEMMA AddIndexEffect ==
  ASSUME CallShape, MemShape, NEW c \in Callers, AddIndex(c)
  PROVE  /\ call[c].pc = "share" /\ Goes(c) /\ SameSnap(c) /\ SameWait(c)
         /\ call'[c].pc = "index" /\ call'[c].count = mem.counter
         /\ call'[c].next = call[c].next /\ call'[c].took = call[c].took
         /\ MemShape' /\ mem'.mmpt = mem.mmpt \union {call[c].id}
         /\ mem'.public = mem.public /\ mem'.pretty = mem.pretty /\ mem'.log = mem.log
         /\ mem'.shares = mem.shares /\ mem'.counter = mem.counter
<1>1. /\ call'[c] = [call[c] EXCEPT !.pc = "index", !.count = mem.counter] /\ Only(c)
      /\ IsCall(call[c]) /\ call[c].pc = "share"
  BY Becomes DEF AddIndex, CallShape
<1> DEFINE count == mem.counter
<1> HIDE DEF count
<1>2. call'[c] = [call[c] EXCEPT !.pc = "index", !.count = count]
  BY <1>1 DEF count
<1>3. /\ IsCall(call'[c]) /\ call'[c].op = call[c].op /\ call'[c].id = call[c].id
      /\ call'[c].clash = call[c].clash /\ SameSnap(c) /\ SameWait(c)
      /\ call'[c].pc = "index" /\ call'[c].count = count
      /\ call'[c].next = call[c].next /\ call'[c].took = call[c].took
  BY <1>1, <1>2 DEF IsCall, SameSnap, SameWait
<1>4. /\ MemShape' /\ mem'.mmpt = mem.mmpt \union {call[c].id}
      /\ mem'.public = mem.public /\ mem'.pretty = mem.pretty /\ mem'.log = mem.log
      /\ mem'.shares = mem.shares /\ mem'.counter = mem.counter
  BY DEF AddIndex, MemShape
<1> QED
  BY <1>1, <1>3, <1>4, ShapeKept DEF Goes, count

(* The share that a call makes. *)
ShareOf(c) == [with |-> call[c].op.with, count |-> call[c].count, item |-> call[c].id]

LEMMA AddSharesEffect ==
  ASSUME CallShape, MemShape, NEW c \in Callers, AddShares(c)
  PROVE  /\ call[c].pc = "index" /\ Goes(c) /\ SameWait(c)
         /\ call'[c].pc = "puts" /\ call'[c].next = "bump"
         /\ call'[c].count = call[c].count /\ call'[c].took = call[c].took
         /\ DOMAIN call'[c].snap = {"shared"} /\ call'[c].snap["shared"] = mem'.shares
         /\ MemShape' /\ mem'.shares = WithShare(mem.shares, ShareOf(c))
         /\ mem'.public = mem.public /\ mem'.pretty = mem.pretty /\ mem'.mmpt = mem.mmpt
         /\ mem'.log = mem.log /\ mem'.counter = mem.counter
<1> DEFINE snap == [p \in {"shared"} |-> mem'.shares]
<1>1. call'[c] = Putting(call[c], snap, "bump") /\ Only(c) /\ call[c].pc = "index" /\ IsCall(call[c])
  BY Becomes DEF AddShares, CallShape
<1>2. DOMAIN snap = {"shared"} /\ snap["shared"] = mem'.shares
  OBVIOUS
<1> HIDE DEF snap
<1>3. /\ Goes(c) /\ SameWait(c) /\ call'[c].snap = snap
      /\ call'[c].pc = "puts" /\ call'[c].next = "bump"
      /\ call'[c].count = call[c].count /\ call'[c].took = call[c].took
  BY <1>1, PuttingIs, ShapeKept DEF Goes, SameWait
<1> DEFINE shares == WithShare(mem.shares, ShareOf(c))
<1>4. mem' = [mem EXCEPT !.shares = shares]
  BY DEF AddShares, ShareOf
<1> HIDE DEF shares
<1>5. /\ MemShape' /\ mem'.shares = shares
      /\ mem'.public = mem.public /\ mem'.pretty = mem.pretty /\ mem'.mmpt = mem.mmpt
      /\ mem'.log = mem.log /\ mem'.counter = mem.counter
  BY <1>4 DEF MemShape
<1> QED
  BY <1>1, <1>2, <1>3, <1>5 DEF shares

LEMMA BumpEffect ==
  ASSUME CallShape, MemShape, NEW c \in Callers, BumpSharedCounter(c)
  PROVE  /\ call[c].pc = "puts" /\ call[c].next = "bump" /\ DOMAIN call[c].snap = {}
         /\ Goes(c) /\ SameWait(c) /\ call'[c].pc = "puts" /\ call'[c].next = "mmpt"
         /\ call'[c].count = call[c].count /\ call'[c].took = call[c].took
         /\ DOMAIN call'[c].snap = {"counter"} /\ call'[c].snap["counter"] = mem'.counter
         /\ MemShape' /\ mem'.counter = mem.counter + 1
         /\ mem'.public = mem.public /\ mem'.pretty = mem.pretty /\ mem'.mmpt = mem.mmpt
         /\ mem'.log = mem.log /\ mem'.shares = mem.shares
<1> DEFINE snap == [p \in {"counter"} |-> mem.counter + 1]
<1>1. /\ call'[c] = Putting(call[c], snap, "mmpt") /\ Only(c) /\ IsCall(call[c])
      /\ call[c].pc = "puts" /\ call[c].next = "bump" /\ call[c].snap = << >>
  BY Becomes DEF BumpSharedCounter, SetSharedCounter, CallShape
<1>2. DOMAIN snap = {"counter"} /\ snap["counter"] = mem.counter + 1
  OBVIOUS
<1> HIDE DEF snap
<1>3. /\ Goes(c) /\ SameWait(c) /\ call'[c].snap = snap
      /\ call'[c].pc = "puts" /\ call'[c].next = "mmpt"
      /\ call'[c].count = call[c].count /\ call'[c].took = call[c].took
  BY <1>1, PuttingIs, ShapeKept DEF Goes, SameWait
<1>4. /\ MemShape' /\ mem'.counter = mem.counter + 1
      /\ mem'.public = mem.public /\ mem'.pretty = mem.pretty /\ mem'.mmpt = mem.mmpt
      /\ mem'.log = mem.log /\ mem'.shares = mem.shares
  BY DEF BumpSharedCounter, MemShape
<1> QED
  BY <1>1, <1>2, <1>3, <1>4

LEMMA PutSharedEffect ==
  ASSUME CallShape, NEW c \in Callers, PutShared(c)
  PROVE  /\ call[c].pc = "puts" /\ call[c].next = "mmpt" /\ DOMAIN call[c].snap = {}
         /\ Goes(c) /\ SameWait(c) /\ call'[c].pc = "puts" /\ call'[c].next = "publish"
         /\ call'[c].count = call[c].count /\ call'[c].took = call[c].took
         /\ DOMAIN call'[c].snap = {"private"} /\ IsPut(call'[c].snap["private"], mem.mmpt)
<1>0. PICK put \in Puts(c, mem.mmpt) : Become(c, Putting(call[c], [p \in {"private"} |-> put], "publish"))
  BY DEF PutShared
<1> DEFINE snap == [p \in {"private"} |-> put]
<1>1. /\ call'[c] = Putting(call[c], snap, "publish") /\ Only(c) /\ IsCall(call[c])
      /\ call[c].pc = "puts" /\ call[c].next = "mmpt" /\ call[c].snap = << >>
  BY <1>0, Becomes DEF PutShared, CallShape
<1>2. DOMAIN snap = {"private"} /\ IsPut(snap["private"], mem.mmpt)
  BY PutsAre
<1> HIDE DEF snap
<1>3. /\ Goes(c) /\ SameWait(c) /\ call'[c].snap = snap
      /\ call'[c].pc = "puts" /\ call'[c].next = "publish"
      /\ call'[c].count = call[c].count /\ call'[c].took = call[c].took
  BY <1>1, PuttingIs, ShapeKept DEF Goes, SameWait
<1> QED
  BY <1>1, <1>2, <1>3

LEMMA BeginPublishEffect ==
  ASSUME CallShape, NEW c \in Callers, BeginPublish(c)
  PROVE  /\ call[c].pc = "puts" /\ call[c].w = "off" /\ call[c].next = "publish"
         /\ DOMAIN call[c].snap = {} /\ Goes(c) /\ SameWait(c)
         /\ call'[c].pc = "publish" /\ call'[c].snap = links /\ call'[c].took = proofs
         /\ call'[c].count = call[c].count /\ call'[c].next = call[c].next
<1>1. /\ call'[c] = [call[c] EXCEPT !.pc = "publish", !.took = proofs, !.snap = links] /\ Only(c)
      /\ IsCall(call[c]) /\ call[c].pc = "puts" /\ call[c].w = "off" /\ call[c].next = "publish"
      /\ call[c].snap = << >>
  BY Becomes DEF BeginPublish, CallShape
<1>2. /\ IsCall(call'[c]) /\ call'[c].op = call[c].op /\ call'[c].id = call[c].id
      /\ call'[c].clash = call[c].clash /\ SameWait(c)
      /\ call'[c].pc = "publish" /\ call'[c].snap = links /\ call'[c].took = proofs
      /\ call'[c].count = call[c].count /\ call'[c].next = call[c].next
  BY <1>1 DEF IsCall, SameWait
<1> QED
  BY <1>1, <1>2, ShapeKept DEF Goes

LEMMA BeginEffect ==
  ASSUME CallShape, NEW c \in Callers, NEW op \in Ops, Begin(c, op)
  PROVE  /\ CallShape' /\ call[c].pc = "rest" /\ calls < MaxCalls /\ calls' = calls + 1
         /\ \A d \in Callers : d # c => Stays(d) /\ Meets(d, op)
         /\ call'[c].op = op /\ call'[c].id = calls + 1 /\ call'[c].snap = << >>
         /\ call'[c].next = None /\ call'[c].count = 0 /\ call'[c].took = FALSE
         /\ call'[c].clash = Overlaps(c, op)
         /\ \/ /\ \/ call'[c].pc = "step" /\ op.kind = "historyStep"
                  \/ call'[c].pc = "child" /\ op.kind = "inDirectory"
               /\ wasm /\ call'[c].w = "await" /\ call'[c].pin = Len(promise)
            \/ /\ \/ call'[c].pc = "query" /\ op.kind \in {"mv", "share"} \union Reads
                  \/ /\ call'[c].pc = "check"
                     /\ op.kind \notin {"historyStep", "inDirectory", "share"} \union Reads
               /\ call'[c].w = "off" /\ call'[c].pin = 0
<1> DEFINE clash == UNION {Clashing(op, d) : d \in Callers \ {c}}
           begun == [Rest EXCEPT !.op = op, !.id = calls', !.clash = clash]
           new ==
             CASE op.kind = "historyStep" -> Grabbing([begun EXCEPT !.pc = "step"])
               [] op.kind = "inDirectory" -> Grabbing([begun EXCEPT !.pc = "child"])
               [] op.kind \in {"mv", "share"} \union Reads -> [begun EXCEPT !.pc = "query"]
               [] OTHER -> [begun EXCEPT !.pc = "check"]
           grown(d) == [call[d] EXCEPT !.clash = @ \union Clashing(op, d)]
<1>1. /\ call' = [d \in Callers |-> IF d # c THEN grown(d) ELSE new]
      /\ call[c].pc = "rest" /\ calls < MaxCalls /\ calls' = calls + 1
      /\ op.kind \in {"historyStep", "inDirectory"} => wasm
  BY DEF Begin
<1> DEFINE id == calls'
<1> HIDE DEF clash, id
<1>0. begun = [pc |-> "rest", op |-> op, id |-> id, w |-> "off", pin |-> 0, snap |-> << >>,
               next |-> None, took |-> FALSE, count |-> 0, clash |-> clash]
  <2>1. begun = [Rest EXCEPT !.op = op, !.id = id, !.clash = clash]
    BY DEF id
  <2> HIDE DEF begun
  <2> QED
    BY <2>1 DEF Rest
<1> HIDE DEF begun
<1>2. /\ IsCall(begun) /\ begun.op = op /\ begun.id = id /\ begun.clash = clash /\ begun.w = "off"
      /\ begun.pin = 0 /\ begun.snap = << >> /\ begun.next = None /\ begun.took = FALSE
      /\ begun.count = 0
  BY <1>0 DEF IsCall
<1>new. /\ op.kind = "historyStep" => new = Grabbing([begun EXCEPT !.pc = "step"])
        /\ op.kind = "inDirectory" => new = Grabbing([begun EXCEPT !.pc = "child"])
        /\ op.kind \in {"mv", "share"} \union Reads => new = [begun EXCEPT !.pc = "query"]
        /\ op.kind \notin {"historyStep", "inDirectory", "mv", "share"} \union Reads =>
             new = [begun EXCEPT !.pc = "check"]
  BY DEF Reads
<1> HIDE DEF new
<1>3. /\ IsCall(new) /\ new.op = op /\ new.id = id /\ new.clash = clash /\ new.snap = << >>
      /\ new.next = None /\ new.took = FALSE /\ new.count = 0
      /\ \/ /\ \/ new.pc = "step" /\ op.kind = "historyStep"
               \/ new.pc = "child" /\ op.kind = "inDirectory"
            /\ new.w = "await" /\ new.pin = Len(promise) /\ wasm
         \/ /\ \/ new.pc = "query" /\ op.kind \in {"mv", "share"} \union Reads
               \/ new.pc = "check" /\ op.kind \notin {"historyStep", "inDirectory", "share"} \union Reads
            /\ new.w = "off" /\ new.pin = 0
  <2>1. CASE op.kind = "historyStep"
    <3>1. new = Grabbing([begun EXCEPT !.pc = "step"])
      BY <1>new, <2>1
    <3>2. /\ IsCall(new) /\ new.pc = "step" /\ new.w = "await" /\ new.pin = Len(promise)
          /\ new.snap = begun.snap /\ new.next = begun.next /\ new.op = begun.op
          /\ new.id = begun.id /\ new.took = begun.took /\ new.count = begun.count
          /\ new.clash = begun.clash
      BY <1>2, <3>1 DEF IsCall, Grabbing
    <3> QED
      BY <1>1, <1>2, <2>1, <3>2
  <2>2. CASE op.kind = "inDirectory"
    <3>1. new = Grabbing([begun EXCEPT !.pc = "child"])
      BY <1>new, <2>2
    <3>2. /\ IsCall(new) /\ new.pc = "child" /\ new.w = "await" /\ new.pin = Len(promise)
          /\ new.snap = begun.snap /\ new.next = begun.next /\ new.op = begun.op
          /\ new.id = begun.id /\ new.took = begun.took /\ new.count = begun.count
          /\ new.clash = begun.clash
      BY <1>2, <3>1 DEF IsCall, Grabbing
    <3> QED
      BY <1>1, <1>2, <2>2, <3>2
  <2>3. CASE op.kind \in {"mv", "share"} \union Reads
    <3>1. new = [begun EXCEPT !.pc = "query"]
      BY <1>new, <2>3
    <3>2. /\ IsCall(new) /\ new.pc = "query" /\ new.w = begun.w /\ new.pin = begun.pin
          /\ new.snap = begun.snap /\ new.next = begun.next /\ new.op = begun.op
          /\ new.id = begun.id /\ new.took = begun.took /\ new.count = begun.count
          /\ new.clash = begun.clash
      BY <1>2, <3>1 DEF IsCall
    <3> QED
      BY <1>2, <2>3, <3>2
  <2>4. CASE op.kind \notin {"historyStep", "inDirectory", "mv", "share"} \union Reads
    <3>1. new = [begun EXCEPT !.pc = "check"]
      BY <1>new, <2>4
    <3>2. /\ IsCall(new) /\ new.pc = "check" /\ new.w = begun.w /\ new.pin = begun.pin
          /\ new.snap = begun.snap /\ new.next = begun.next /\ new.op = begun.op
          /\ new.id = begun.id /\ new.took = begun.took /\ new.count = begun.count
          /\ new.clash = begun.clash
      BY <1>2, <3>1 DEF IsCall
    <3> QED
      BY <1>2, <2>4, <3>2
  <2> QED
    BY <2>1, <2>2, <2>3, <2>4
<1>4. \A d \in Callers :
        LET q == grown(d)
        IN /\ IsCall(q) /\ q.clash = call[d].clash \union Clashing(op, d)
           /\ q.pc = call[d].pc /\ q.op = call[d].op /\ q.id = call[d].id
           /\ q.w = call[d].w /\ q.pin = call[d].pin /\ q.snap = call[d].snap
           /\ q.next = call[d].next /\ q.took = call[d].took /\ q.count = call[d].count
  <2> TAKE d \in Callers
  <2> DEFINE more == call[d].clash \union Clashing(op, d)
             q == [call[d] EXCEPT !.clash = more]
  <2>1. grown(d) = q /\ IsCall(call[d])
    BY DEF CallShape
  <2> HIDE DEF more
  <2>2. /\ IsCall(q) /\ q.clash = more
        /\ q.pc = call[d].pc /\ q.op = call[d].op /\ q.id = call[d].id
        /\ q.w = call[d].w /\ q.pin = call[d].pin /\ q.snap = call[d].snap
        /\ q.next = call[d].next /\ q.took = call[d].took /\ q.count = call[d].count
    BY <2>1 DEF IsCall
  <2> HIDE DEF q
  <2> QED
    BY <2>1, <2>2 DEF more
<1> HIDE DEF grown
<1>5. /\ call'[c] = new /\ \A d \in Callers \ {c} : call'[d] = grown(d)
      /\ call' = [d \in Callers |-> call'[d]]
  BY <1>1
<1>6. CallShape'
  BY <1>3, <1>4, <1>5 DEF CallShape
<1> QED
  BY <1>1, <1>3, <1>4, <1>5, <1>6 DEF clash, id, Overlaps, Meets, Stays, SameSnap, SameWait, SameRest

-----------------------------------------------------------------------------
(* Promises. *)
LEMMA Promised ==
  ASSUME NEW s, NEW n \in Nat, s = [i \in 1..n |-> s[i]], NEW e
  PROVE  /\ Len(s) = n /\ Len(Append(s, e)) = n + 1
         /\ Append(s, e) = [i \in 1..(n + 1) |-> IF i = n + 1 THEN e ELSE s[i]]
<1> DEFINE S == {s[i] : i \in 1..n} \union {e}
<1>1. s \in [1..n -> S]
  OBVIOUS
<1>2. s \in Seq(S) /\ e \in S
  BY <1>1
<1> HIDE DEF S
<1>3. Len(s) = n
  BY <1>1, <1>2
<1> QED
  BY <1>2, <1>3

(* What steps do to the promises. *)
Settle(i, v) ==
  /\ Len(promise') = Len(promise) /\ promise'[i].value = v
  /\ \A j \in 1..Len(promise) : j # i => promise'[j] = promise[j]

LEMMA SetPromise ==
  ASSUME PromiseShape, NEW i \in 1..Len(promise), NEW q, IsPromise(q), promise' = [promise EXCEPT ![i] = q]
  PROVE  PromiseShape' /\ Settle(i, q.value)
<1> DEFINE n == Len(promise)
<1>1. n \in Nat \ {0} /\ promise = [j \in 1..n |-> promise[j]] /\ \A j \in 1..n : IsPromise(promise[j])
  BY DEF PromiseShape
<1>2. i \in 1..n
  OBVIOUS
<1> HIDE DEF n
<1>3. promise' = [j \in 1..n |-> promise'[j]] /\ promise'[i] = q /\ \A j \in 1..n : j # i => promise'[j] = promise[j]
  BY <1>1, <1>2
<1>4. Len(promise') = n
  BY <1>1, <1>3, Promised
<1> QED
  BY <1>1, <1>3, <1>4 DEF PromiseShape, Settle, n, IsPromise

LEMMA ChangedPromise ==
  ASSUME PromiseShape, NEW c \in Callers, call[c].pin \in 1..Len(promise), Changed(c)
  PROVE  PromiseShape' /\ Settle(call[c].pin, promise[call[c].pin].value \union {call[c].id})
<1> DEFINE q == [state |-> "ok", value |-> promise[call[c].pin].value \union {call[c].id}]
<1>1. IsPromise(q) /\ q.value = promise[call[c].pin].value \union {call[c].id}
  BY DEF IsPromise
<1>2. promise' = [promise EXCEPT ![call[c].pin] = q]
  BY DEF Changed
<1> HIDE DEF q
<1> QED
  BY <1>1, <1>2, SetPromise

LEMMA StatePromise ==
  ASSUME PromiseShape, NEW i \in 1..Len(promise), NEW st \in {"ok", "failed"},
         promise' = [promise EXCEPT ![i].state = st]
  PROVE  PromiseShape' /\ Settle(i, promise[i].value)
<1> DEFINE q == [promise[i] EXCEPT !.state = st]
<1>1. IsPromise(q) /\ q.value = promise[i].value
  BY DEF IsPromise, PromiseShape
<1>2. promise' = [promise EXCEPT ![i] = q]
  OBVIOUS
<1> HIDE DEF q
<1> QED
  BY <1>1, <1>2, SetPromise

LEMMA AddedPromise ==
  ASSUME PromiseShape, NEW v, promise' = Append(promise, [state |-> "pending", value |-> v])
  PROVE  /\ PromiseShape' /\ Len(promise') = Len(promise) + 1 /\ promise'[Len(promise')].value = v
         /\ \A i \in 1..Len(promise) : promise'[i] = promise[i]
<1> DEFINE n == Len(promise)
           q == [state |-> "pending", value |-> v]
<1>1. n \in Nat \ {0} /\ promise = [j \in 1..n |-> promise[j]] /\ \A j \in 1..n : IsPromise(promise[j])
  BY DEF PromiseShape
<1>2. IsPromise(q) /\ q.value = v
  BY DEF IsPromise
<1>3. promise' = Append(promise, q)
  OBVIOUS
<1> HIDE DEF n, q
<1>4. Len(promise') = n + 1 /\ promise' = [i \in 1..(n + 1) |-> IF i = n + 1 THEN q ELSE promise[i]]
  BY <1>1, <1>3, Promised
<1> QED
  BY <1>1, <1>2, <1>4 DEF PromiseShape, n

(* Steps other than these leave the promises as they are. *)
LEMMA PromiseStep ==
  ASSUME TypeInv, ShapeInv, NEW c \in Callers, Step(c)
  PROVE  PromiseShape' /\ Len(promise') \in Nat /\ Len(promise') >= Len(promise)
<1> USE DEF TypeInv
<1>0. Len(promise) \in Nat /\ PromiseShape
  BY DEF PromiseShape
<1>1. call[c].w # "off" => call[c].pin \in 1..Len(promise)
  BY DEF ShapeInv, Shape, Runs, Rest
<1>2. CASE promise' = promise
  BY <1>0, <1>2 DEF PromiseShape, IsPromise
<1>3. CASE Fail(c) /\ promise' # promise
  <2>1. call[c].w # "off" /\ promise' = [promise EXCEPT ![call[c].pin].state = "failed"]
    BY <1>3 DEF Fail
  <2>2. call[c].pin \in 1..Len(promise) /\ "failed" \in {"ok", "failed"}
    BY <1>1, <2>1
  <2>3. PromiseShape' /\ Settle(call[c].pin, promise[call[c].pin].value)
    BY <1>0, <2>1, <2>2, StatePromise
  <2> QED
    BY <1>0, <2>3 DEF Settle
<1>4. CASE Atomically(c) /\ promise' # promise
  <2>1. promise' = Append(promise, [state |-> "pending", value |-> AwaitedRoot(c)])
    BY <1>4 DEF Atomically
  <2> QED
    BY <1>0, <2>1, AddedPromise
<1>5. CASE Fulfil(c) \/ FulfilInDirectory(c)
  <2>1. Changed(c) /\ call[c].w # "off"
    BY <1>5 DEF Fulfil, FulfilInDirectory, Changed
  <2> QED
    BY <1>0, <1>1, <2>1, ChangedPromise DEF Settle
<1>6. CASE HistoryStep(c)
  <2>1. call[c].w # "off" /\ promise' = [promise EXCEPT ![call[c].pin].state = "ok"]
    BY <1>6 DEF HistoryStep
  <2>2. call[c].pin \in 1..Len(promise) /\ "ok" \in {"ok", "failed"}
    BY <1>1, <2>1
  <2>3. PromiseShape' /\ Settle(call[c].pin, promise[call[c].pin].value)
    BY <1>0, <2>1, <2>2, StatePromise
  <2> QED
    BY <1>0, <2>3 DEF Settle
<1> QED
  BY <1>2, <1>3, <1>4, <1>5, <1>6
  DEF Step, Deny, Query, Check, Inside, StoreRoot, ChangePublic, ChangePretty, ChangePrivate, UpdateLink,
      AddPrivateLogEntry, EndCall, AddIndex, AddShares, BumpSharedCounter, PutShared, BeginPublish, EndPublish

-----------------------------------------------------------------------------
(* The stages of calls. *)
LEMMA ShapeOfOthers ==
  ASSUME TypeInv, ShapeInv, NEW c \in Callers, Only(c), wasm' = wasm, calls' = calls, PromiseShape',
         Len(promise') >= Len(promise), Shape(call[c])' \/ call'[c] = Rest
  PROVE  ShapeInv'
<1> SUFFICES ASSUME NEW d \in Callers
             PROVE  IF Runs(d)' THEN Shape(call[d])' ELSE call'[d] = Rest
  BY DEF ShapeInv
<1>1. CASE d = c
  BY <1>1 DEF Shape, Runs, Rest
<1>2. CASE d # c
  <2>1. call'[d] = call[d] /\ (IF Runs(d) THEN Shape(call[d]) ELSE call[d] = Rest)
    BY <1>2 DEF Only, ShapeInv
  <2>2. Len(promise) \in Nat /\ Len(promise') \in Nat
    BY DEF TypeInv, PromiseShape
  <2>3. CASE Runs(d)
    <3> DEFINE cl == call[d]
    <3>1. Shape(call[d])
      BY <2>1, <2>3
    <3>2. call'[d].pin \in 1..Len(promise) => call'[d].pin \in 1..Len(promise')
      BY <2>2
    <3>3. /\ Due(call[d])' = Due(call[d]) /\ Owned(call[d].op)' = Owned(call[d].op)
          /\ Body(call[d].op)' = Body(call[d].op) /\ Parts(call[d].op)' = Parts(call[d].op)
          /\ Marked(call[d].op)' = Marked(call[d].op)
      BY <2>1 DEF Due, Owned, Body, Parts, Marked, Unmarked
    <3>4. Shape(call[d])'
      BY <2>1, <3>1, <3>2, <3>3 DEF Shape, IsLinks
    <3> QED
      BY <2>1, <2>3, <3>4 DEF Runs
  <2>4. CASE ~Runs(d)
    BY <2>1, <2>4 DEF Runs
  <2> QED
    BY <2>3, <2>4
<1> QED
  BY <1>1, <1>2

LEMMA StepRuns ==
  ASSUME ShapeInv, NEW c \in Callers, Step(c)
  PROVE  Runs(c) /\ Shape(call[c])
<1>0. call[c].pc = "rest" => call[c].w = "off"
  BY DEF ShapeInv, Runs, Rest
<1>1. call[c].pc # "rest"
  BY <1>0
  DEF Step, Deny, Query, Check, Fail, Atomically, Fulfil, FulfilInDirectory, HistoryStep, StoreRoot,
      ChangePublic, ChangePretty, ChangePrivate, UpdateLink, AddPrivateLogEntry, EndCall, AddIndex,
      AddShares, BumpSharedCounter, PutShared, BeginPublish, EndPublish, Changed
<1> QED
  BY <1>1 DEF ShapeInv, Runs

LEMMA SameOp ==
  ASSUME NEW c \in Callers, call'[c].op = call[c].op, wasm' = wasm
  PROVE  /\ Owned(call[c].op)' = Owned(call[c].op) /\ Body(call[c].op)' = Body(call[c].op)
         /\ Parts(call[c].op)' = Parts(call[c].op) /\ Marked(call[c].op)' = Marked(call[c].op)
BY DEF Owned, Body, Parts, Marked, Unmarked

LEMMA StepFrame ==
  ASSUME NEW c \in Callers, Step(c)
  PROVE  wasm' = wasm /\ held' = held /\ calls' = calls /\ reloads' = reloads
BY DEF Step, Deny, Query, Check, Fail, Atomically, Fulfil, FulfilInDirectory, HistoryStep, StoreRoot,
       ChangePublic, ChangePretty, ChangePrivate, UpdateLink, AddPrivateLogEntry, EndCall, AddIndex,
       AddShares, BumpSharedCounter, PutShared, BeginPublish, EndPublish, Changed, Inside, Constant

(* The parts of operations. *)
LEMMA PartsOf ==
  ASSUME NEW op \in Ops
  PROVE  /\ Parts(op) = Body(op) \union (IF op.publish THEN {"root"} ELSE {})
         /\ Body(op) \in {{}, {"public"}, {"private", "shared"}, {"public", "pretty"}, {"private", "log"}}
         /\ op.kind \in Reads <=> Body(op) = {}
         /\ op.kind \in {"historyStep", "inDirectory"} => Body(op) = {"public"}
         /\ op.kind = "share" => Body(op) = {"private", "shared"} /\ op.publish
         /\ op.kind \notin {"historyStep", "inDirectory", "share"} \union Reads =>
              Body(op) = IF op.path.part = "public" THEN {"public", "pretty"} ELSE {"private", "log"}
         /\ Owned(op) = Body(op) \union IF "shared" \in Body(op) THEN {"counter"} ELSE {}
         /\ Body(op) = {"public", "pretty"} => op.path.part = "public"
         /\ Marked(op) \subseteq Parts(op)
         /\ op.kind = "historyStep" => Marked(op) \subseteq {"root"}
         /\ wasm /\ op.kind = "links" /\ op.path.part = "public" => "public" \notin Marked(op)
         /\ "pretty" \in Marked(op) => IsPretty(op)
BY FileSystemAssumption, SMTT(60) DEF Parts, Body, Reads, Marked, Unmarked, Owned, IsPretty

(* After a step the call rests or is at another stage. *)
LEMMA StageStep ==
  ASSUME TypeInv, ShapeInv, NEW c \in Callers, Step(c)
  PROVE  CallShape' /\ Only(c) /\ (call'[c] = Rest \/ (Goes(c) /\ Shape(call[c])'))
<1>1. /\ CallShape /\ MemShape /\ IsLinks(links) /\ DOMAIN links = LinkNames /\ Len(promise) \in Nat \ {0}
  BY DEF TypeInv, PromiseShape, IsLinks
<1>2. Shape(call[c]) /\ wasm' = wasm /\ calls' = calls /\ call[c].op \in Ops
  BY StepRuns, StepFrame DEF Shape
<1>3. Len(promise') \in Nat /\ Len(promise') >= Len(promise)
  BY PromiseStep
<1>4. call[c].w # "off" => call[c].pin \in 1..Len(promise')
  BY <1>1, <1>2, <1>3 DEF Shape
<1>5. Ends(c) => CallShape' /\ Only(c) /\ call'[c] = Rest
  BY DEF Ends
<1>6. Goes(c) => /\ CallShape' /\ Only(c) /\ call'[c].op = call[c].op /\ call'[c].id = call[c].id
                 /\ Owned(call[c].op)' = Owned(call[c].op) /\ Body(call[c].op)' = Body(call[c].op)
                 /\ Parts(call[c].op)' = Parts(call[c].op) /\ Marked(call[c].op)' = Marked(call[c].op)
  BY <1>2, SameOp DEF Goes
<1>7. DOMAIN << >> = {}
  OBVIOUS
<1>8. "public" \in Owned(call[c].op) => "public" \in Parts(call[c].op)
  BY <1>2, PartsOf
<1> USE DEF SameSnap, SameWait, SameRest
<1>a. ASSUME Deny(c) \/ Fail(c) \/ FulfilInDirectory(c) \/ EndCall(c) \/ EndPublish(c) PROVE Ends(c)
  BY <1>1, <1>a, Thrown, Returned DEF Deny, Fail, FulfilInDirectory, EndCall, EndPublish, Ends
<1>b. ASSUME Query(c) PROVE Ends(c) \/ (Goes(c) /\ Shape(call[c])')
  BY <1>1, <1>2, <1>3, <1>6, <1>b, QueryEffect, PartsOf DEF Shape, Reads
<1>c. ASSUME Check(c) PROVE Goes(c) /\ Shape(call[c])'
  BY <1>1, <1>2, <1>3, <1>6, <1>c, CheckEffect, PartsOf DEF Shape, LinksFail
<1>d. ASSUME Atomically(c) PROVE Ends(c) \/ (Goes(c) /\ Shape(call[c])')
  <2>1. CASE Ends(c)
    BY <2>1
  <2>2. CASE ~Ends(c)
    <3>1. /\ call[c].w = "await" /\ Goes(c) /\ SameSnap(c) /\ SameRest(c) /\ call'[c].pc = call[c].pc
          /\ call'[c].w = "pending" /\ call'[c].pin = Len(promise')
      BY <1>1, <1>d, <2>2, AtomicallyEffect
    <3>2. call'[c].pin \in 1..Len(promise')
      BY <1>1, <1>3, <3>1
    <3>3. Due(call[c])' = Due(call[c])
      BY <3>1 DEF Due
    <3> QED
      BY <1>2, <1>6, <3>1, <3>2, <3>3 DEF Shape
  <2> QED
    BY <2>1, <2>2
<1>e. ASSUME Fulfil(c) PROVE Goes(c) /\ Shape(call[c])'
  BY <1>1, <1>2, <1>3, <1>6, <1>e, FulfilEffect DEF Shape, Due
<1>f. ASSUME HistoryStep(c) PROVE Ends(c) \/ (Goes(c) /\ Shape(call[c])')
  BY <1>1, <1>2, <1>3, <1>6, <1>f, HistoryStepEffect DEF Shape, Due
<1>g. ASSUME StoreRoot(c) PROVE Ends(c) \/ (Goes(c) /\ Shape(call[c])')
  BY <1>1, <1>2, <1>3, <1>6, <1>g, StoreRootEffect DEF Shape, Due
<1>h. ASSUME ChangePublic(c) PROVE Goes(c) /\ Shape(call[c])'
  BY <1>1, <1>2, <1>3, <1>6, <1>h, ChangePublicEffect DEF Shape, Due
<1>i. ASSUME ChangePretty(c) PROVE Goes(c) /\ Shape(call[c])'
  <2>1. /\ call[c].pc = "pretty" /\ Goes(c) /\ call'[c].pc = "puts"
        /\ call'[c].next = IF call[c].op.publish THEN "publish" ELSE "return"
        /\ IF wasm THEN /\ call'[c].w = "await" /\ call'[c].pin = Len(promise)
                        /\ DOMAIN call'[c].snap = {"pretty"}
           ELSE /\ SameWait(c) /\ DOMAIN call'[c].snap = {"public", "pretty"}
    BY <1>1, <1>i, ChangePrettyEffect
  <2>2. /\ Body(call[c].op) = {"public", "pretty"} /\ "public" \in Parts(call[c].op)
        /\ Owned(call[c].op) = {"public", "pretty"} /\ (~wasm => call[c].w = "off")
    BY <1>2, <2>1, PartsOf DEF Shape
  <2>3. CASE wasm
    <3>1. Due(call[c])' = {"public", "pretty"} /\ call'[c].pin \in 1..Len(promise')
      BY <1>1, <1>3, <2>1, <2>3 DEF Due
    <3> QED
      BY <1>2, <1>6, <2>1, <2>2, <2>3, <3>1 DEF Shape
  <2>4. CASE ~wasm
    <3>1. Due(call[c])' = {"public", "pretty"} /\ call'[c].w = "off"
      BY <2>1, <2>2, <2>4 DEF Due
    <3> QED
      BY <1>2, <1>6, <2>1, <2>2, <2>4, <3>1 DEF Shape
  <2> QED
    BY <2>1, <2>3, <2>4
<1>j. ASSUME ChangePrivate(c) PROVE Goes(c) /\ Shape(call[c])'
  BY <1>1, <1>2, <1>3, <1>6, <1>j, ChangePrivateEffect, PartsOf DEF Shape, Due
<1>k. ASSUME NEW part \in LinkNames, UpdateLink(c, part) PROVE Goes(c) /\ Shape(call[c])'
  BY <1>1, <1>2, <1>3, <1>4, <1>6, <1>k, UpdateLinkEffect DEF Shape, Due
<1>l. ASSUME AddPrivateLogEntry(c) PROVE Goes(c) /\ Shape(call[c])'
  BY <1>1, <1>2, <1>3, <1>6, <1>l, AddPrivateLogEntryEffect, PartsOf DEF Shape, Due
<1>m. ASSUME AddIndex(c) PROVE Goes(c) /\ Shape(call[c])'
  BY <1>1, <1>2, <1>3, <1>6, <1>m, AddIndexEffect DEF Shape, Due
<1>n. ASSUME AddShares(c) PROVE Goes(c) /\ Shape(call[c])'
  BY <1>1, <1>2, <1>3, <1>6, <1>n, AddSharesEffect, PartsOf DEF Shape, Due
<1>o. ASSUME BumpSharedCounter(c) PROVE Goes(c) /\ Shape(call[c])'
  BY <1>1, <1>2, <1>3, <1>6, <1>o, BumpEffect, PartsOf DEF Shape, Due
<1>p. ASSUME PutShared(c) PROVE Goes(c) /\ Shape(call[c])'
  BY <1>1, <1>2, <1>3, <1>6, <1>p, PutSharedEffect, PartsOf DEF Shape, Due
<1>q. ASSUME BeginPublish(c) PROVE Goes(c) /\ Shape(call[c])'
  BY <1>1, <1>2, <1>3, <1>6, <1>q, BeginPublishEffect DEF Shape, Due, IsLinks
<1> QED
  BY <1>1, <1>5, <1>6, <1>a, <1>b, <1>c, <1>d, <1>e, <1>f, <1>g, <1>h, <1>i, <1>j, <1>k, <1>l, <1>m, <1>n,
     <1>o, <1>p, <1>q DEF Step

LEMMA TypeStep ==
  ASSUME TypeInv, ShapeInv, NEW c \in Callers, Step(c)
  PROVE  TypeInv'
<1>1. /\ CallShape /\ MemShape /\ IsLinks(links) /\ IsLinks(published) /\ DOMAIN links = LinkNames
      /\ proofs \in BOOLEAN
  BY DEF TypeInv, IsLinks
<1>2. CallShape' /\ PromiseShape' /\ wasm' = wasm /\ held' = held /\ calls' = calls /\ reloads' = reloads
  BY StageStep, PromiseStep, StepFrame
<1>3. MemShape'
  <2>1. CASE mem' = mem
    BY <1>1, <2>1 DEF MemShape
  <2>2. CASE ChangePublic(c) \/ ChangePretty(c) \/ ChangePrivate(c)
    BY <1>1, <2>2, ChangePublicEffect, ChangePrettyEffect, ChangePrivateEffect
  <2>3. ASSUME NEW part \in LinkNames, UpdateLink(c, part) PROVE MemShape'
    BY <1>1, <2>3, UpdateLinkEffect
  <2>4. CASE AddIndex(c) \/ AddShares(c) \/ BumpSharedCounter(c)
    BY <1>1, <2>4, AddIndexEffect, AddSharesEffect, BumpEffect
  <2> QED
    BY <1>1, <2>1, <2>2, <2>3, <2>4
    DEF Step, Deny, Query, Check, Fail, Atomically, Fulfil, FulfilInDirectory, HistoryStep, StoreRoot,
        AddPrivateLogEntry, EndCall, PutShared, BeginPublish, EndPublish, Changed, Inside
<1>4. IsLinks(links')
  <2>1. CASE links' = links
    BY <1>1, <2>1
  <2>2. ASSUME NEW part \in LinkNames, UpdateLink(c, part) PROVE IsLinks(links')
    BY <1>1, <2>2, UpdateLinkEffect
  <2> QED
    BY <1>1, <2>1, <2>2
    DEF Step, Deny, Query, Check, Fail, Atomically, Fulfil, FulfilInDirectory, HistoryStep, StoreRoot,
        ChangePublic, ChangePretty, ChangePrivate, AddPrivateLogEntry, EndCall, AddIndex,
        AddShares, BumpSharedCounter, PutShared, BeginPublish, EndPublish, Changed, Inside
<1>5. IsLinks(published') /\ proofs' \in BOOLEAN
  <2>1. CASE EndPublish(c)
    BY <1>1, <2>1, StepRuns DEF EndPublish, Shape
  <2>2. CASE ~EndPublish(c)
    BY <1>1, <2>2
    DEF Step, Deny, Query, Check, Fail, Atomically, Fulfil, FulfilInDirectory, HistoryStep, StoreRoot,
        ChangePublic, ChangePretty, ChangePrivate, UpdateLink, AddPrivateLogEntry, EndCall, AddIndex,
        AddShares, BumpSharedCounter, PutShared, BeginPublish, Changed, Inside, AddProof
  <2> QED
    BY <2>1, <2>2
<1> QED
  BY <1>2, <1>3, <1>4, <1>5 DEF TypeInv, IsLinks

LEMMA ShapeStep ==
  ASSUME TypeInv, ShapeInv, NEW c \in Callers, Step(c)
  PROVE  ShapeInv'
BY StageStep, PromiseStep, StepFrame, ShapeOfOthers DEF Goes

LEMMA BeginShape ==
  ASSUME TypeInv, ShapeInv, NEW c \in Callers, NEW op \in Ops, Begin(c, op)
  PROVE  TypeInv' /\ ShapeInv'
<1>0. CallShape /\ MaxCalls \in Nat /\ calls \in Nat /\ Len(promise) \in Nat \ {0}
  BY FileSystemAssumption DEF TypeInv, PromiseShape
<1>1. /\ CallShape' /\ calls < MaxCalls /\ calls' = calls + 1 /\ CallShape
      /\ MaxCalls \in Nat /\ calls \in Nat /\ Len(promise) \in Nat \ {0}
  BY <1>0, BeginEffect
<1>2. /\ wasm' = wasm /\ held' = held /\ mem' = mem /\ promise' = promise /\ links' = links
      /\ proofs' = proofs /\ published' = published /\ reloads' = reloads
  BY DEF Begin
<1>3. TypeInv'
  BY <1>1, <1>2 DEF TypeInv, MemShape, IsLinks, PromiseShape, IsPromise
<1>4. ASSUME NEW d \in Callers, d # c
      PROVE  IF Runs(d)' THEN Shape(call[d])' ELSE call'[d] = Rest
  <2>1. /\ call'[d].pc = call[d].pc /\ call'[d].op = call[d].op /\ call'[d].id = call[d].id
        /\ call'[d].w = call[d].w /\ call'[d].pin = call[d].pin /\ call'[d].snap = call[d].snap
        /\ call'[d].next = call[d].next /\ call'[d].took = call[d].took /\ call'[d].count = call[d].count
        /\ call'[d].clash = call[d].clash \union Clashing(op, d)
    <3>1. Stays(d) /\ Meets(d, op)
      BY <1>1, <1>4, BeginEffect
    <3> QED
      BY <3>1 DEF Meets, Stays, SameSnap, SameWait, SameRest
  <2>2. CASE Runs(d)
    <3>1. Shape(call[d])
      BY <2>2 DEF ShapeInv
    <3>2. /\ Due(call[d])' = Due(call[d]) /\ Owned(call[d].op)' = Owned(call[d].op)
          /\ Body(call[d].op)' = Body(call[d].op) /\ Parts(call[d].op)' = Parts(call[d].op)
          /\ Marked(call[d].op)' = Marked(call[d].op)
      BY <1>2, <2>1 DEF Due, Owned, Body, Parts, Marked, Unmarked
    <3>3. Shape(call[d])'
      BY <1>1, <1>2, <2>1, <3>1, <3>2 DEF Shape, IsLinks
    <3> QED
      BY <2>1, <2>2, <3>3 DEF Runs
  <2>3. CASE ~Runs(d)
    <3>1. call[d] = Rest /\ Clashing(op, d) = {}
      BY <2>3 DEF ShapeInv, Runs, Clashing
    <3>2. call'[d].clash = call[d].clash
      BY <2>1, <3>1 DEF Rest
    <3>3. IsCall(call'[d]) /\ IsCall(call[d])
      BY <1>1 DEF CallShape
    <3>4. call'[d] = call[d]
      BY <2>1, <3>2, <3>3 DEF IsCall
    <3> QED
      BY <2>3, <3>1, <3>4 DEF Runs
  <2> QED
    BY <2>2, <2>3
<1>5. Runs(c)' /\ Shape(call[c])'
  <2>1. /\ call'[c].op = op /\ call'[c].id = calls + 1 /\ call'[c].snap = << >>
        /\ call'[c].next = None
        /\ \/ /\ \/ call'[c].pc = "step" /\ op.kind = "historyStep"
                 \/ call'[c].pc = "child" /\ op.kind = "inDirectory"
              /\ wasm /\ call'[c].w = "await" /\ call'[c].pin = Len(promise)
           \/ /\ \/ call'[c].pc = "query" /\ op.kind \in {"mv", "share"} \union Reads
                 \/ /\ call'[c].pc = "check"
                    /\ op.kind \notin {"historyStep", "inDirectory", "share"} \union Reads
              /\ call'[c].w = "off" /\ call'[c].pin = 0
    BY <1>1, BeginEffect
  <2>2. /\ Body(call[c].op)' = Body(op) /\ Parts(call[c].op)' = Parts(op)
        /\ Marked(call[c].op)' = Marked(op)
    BY <1>2, <2>1 DEF Body, Parts, Marked, Unmarked
  <2>3. calls + 1 \in 1..calls'
    BY <1>1
  <2> QED
    BY <1>1, <1>2, <2>1, <2>2, <2>3, PartsOf DEF Shape, Runs
<1> QED
  BY <1>3, <1>4, <1>5 DEF ShapeInv

LEMMA ReloadShape ==
  ASSUME TypeInv, Reload
  PROVE  TypeInv' /\ ShapeInv'
<1>1. call' = [c \in Callers |-> Rest]
  BY DEF Reload
<1>2. ShapeInv' /\ CallShape'
  BY <1>1, RestIsCall DEF ShapeInv, Runs, Rest, CallShape
<1>3. PromiseShape'
  <2> DEFINE q == [state |-> "ok", value |-> published.public]
  <2>1. promise' = <<q>> /\ IsPromise(q)
    BY DEF Reload, RootPromise, IsPromise
  <2> HIDE DEF q
  <2> QED
    BY <2>1 DEF PromiseShape, IsPromise
<1>4. MemShape'
  BY DEF Reload, Loaded, MemShape
<1>5. IsLinks(links') /\ IsLinks(published')
  BY DEF Reload, TypeInv, IsLinks
<1> QED
  <2>1. (calls \in 0..MaxCalls)' /\ (reloads \in 0..MaxReloads)'
    BY FileSystemAssumption DEF Reload, TypeInv
  <2>2. (wasm \in BOOLEAN)' /\ (proofs \in BOOLEAN)' /\ (held \in Held)'
    BY DEF Reload, TypeInv
  <2> QED
    BY <1>2, <1>3, <1>4, <1>5, <2>1, <2>2 DEF TypeInv

LEMMA InitShape ==
  ASSUME Init
  PROVE  TypeInv /\ ShapeInv
<1>1. call = [c \in Callers |-> Rest]
  BY DEF Init
<1>2. ShapeInv /\ CallShape
  BY <1>1, RestIsCall DEF ShapeInv, Runs, Rest, CallShape
<1>3. PromiseShape
  <2> DEFINE q == [state |-> "ok", value |-> {}]
  <2>1. promise = <<q>> /\ IsPromise(q)
    BY DEF Init, RootPromise, IsPromise
  <2> HIDE DEF q
  <2> QED
    BY <2>1 DEF PromiseShape, IsPromise
<1>4. MemShape
  BY DEF Init, Loaded, MemShape
<1>5. IsLinks(links) /\ IsLinks(published)
  BY DEF Init, EmptyLinks, IsLinks, LinkNames
<1> QED
  <2>1. calls \in 0..MaxCalls /\ reloads \in 0..MaxReloads
    BY FileSystemAssumption DEF Init
  <2>2. wasm \in BOOLEAN /\ proofs \in BOOLEAN /\ held \in Held
    BY DEF Init
  <2> QED
    BY <1>2, <1>3, <1>4, <1>5, <2>1, <2>2 DEF TypeInv

-----------------------------------------------------------------------------
(* Calls at the same time. *)
LEMMA DoneStep ==
  ASSUME TypeInv, NEW c \in Callers, Step(c)
  PROVE  done' = done \/ (done' = done \union {Mark(c)} /\ Ends(c))
<1>1. CASE EndCall(c) \/ EndPublish(c)
  BY <1>1, Returned DEF EndCall, EndPublish, TypeInv
<1>2. CASE HistoryStep(c)
  BY <1>2, HistoryStepEffect, Returned DEF TypeInv
<1>3. CASE ~(EndCall(c) \/ EndPublish(c) \/ HistoryStep(c))
  BY <1>3
  DEF Step, Deny, Query, Check, Fail, Atomically, Fulfil, FulfilInDirectory, StoreRoot,
      ChangePublic, ChangePretty, ChangePrivate, UpdateLink, AddPrivateLogEntry, AddIndex,
      AddShares, BumpSharedCounter, PutShared, BeginPublish, Changed, Inside
<1> QED
  BY <1>1, <1>2, <1>3

(* A call awaits the promise that `root' has just become, or the same as before. *)
LEMMA WaitStep ==
  ASSUME TypeInv, ShapeInv, NEW c \in Callers, Step(c)
  PROVE  /\ Len(promise') = Len(promise) \/ call[c].w # "off"
         /\ call'[c].w # "off" =>
              \/ call'[c].pin = Len(promise')
              \/ call[c].w # "off" /\ call'[c].pin = call[c].pin /\ Len(promise') = Len(promise)
<1>1. /\ CallShape /\ MemShape /\ IsLinks(links) /\ DOMAIN links = LinkNames /\ PromiseShape
      /\ call[c].w # "off" => call[c].pin \in 1..Len(promise)
  BY StepRuns DEF TypeInv, IsLinks, Shape
<1>2. Ends(c) => call'[c].w = "off"
  BY DEF Ends, Rest
<1> USE DEF SameWait
<1>a. CASE Deny(c) \/ EndCall(c) \/ EndPublish(c)
  BY <1>1, <1>2, <1>a, Thrown, Returned DEF Deny, EndCall, EndPublish, Ends
<1>b. CASE Query(c) \/ Check(c)
  BY <1>1, <1>2, <1>b, QueryEffect, CheckEffect DEF Query, Check
<1>c. CASE Fail(c) \/ FulfilInDirectory(c)
  <2>1. call'[c] = Rest
    BY <1>1, <1>c, Thrown DEF Fail, FulfilInDirectory
  <2>2. promise' = promise \/ call[c].w # "off"
    BY <1>c DEF Fail, FulfilInDirectory, Changed
  <2> QED
    BY <2>1, <2>2 DEF Rest
<1>d. CASE Atomically(c)
  BY <1>1, <1>2, <1>d, AtomicallyEffect
<1>e. CASE Fulfil(c)
  BY <1>1, <1>e, FulfilEffect
<1>f. CASE HistoryStep(c)
  <2>1. call[c].w # "off" /\ promise' = [promise EXCEPT ![call[c].pin].state = "ok"]
    BY <1>f DEF HistoryStep
  <2>2. call[c].pin \in 1..Len(promise) /\ "ok" \in {"ok", "failed"}
    BY <1>1, <2>1
  <2>3. Len(promise') = Len(promise)
    BY <1>1, <2>1, <2>2, StatePromise DEF Settle
  <2> QED
    BY <1>1, <1>2, <1>f, <2>3, HistoryStepEffect
<1>g. CASE StoreRoot(c)
  BY <1>1, <1>2, <1>g, StoreRootEffect DEF StoreRoot, Inside
<1>h. CASE ChangePublic(c) \/ ChangePretty(c) \/ ChangePrivate(c)
  <2>1. promise' = promise
    BY <1>h DEF ChangePublic, ChangePretty, ChangePrivate
  <2>2. SameWait(c) \/ call'[c].pin = Len(promise)
    <3>1. CASE ChangePublic(c)
      BY <1>1, <3>1, ChangePublicEffect
    <3>2. CASE ChangePretty(c)
      BY <1>1, <3>2, ChangePrettyEffect
    <3>3. CASE ChangePrivate(c)
      BY <1>1, <3>3, ChangePrivateEffect
    <3> QED
      BY <1>h, <3>1, <3>2, <3>3
  <2> QED
    BY <2>1, <2>2
<1>i. ASSUME NEW part \in LinkNames, UpdateLink(c, part)
      PROVE  promise' = promise /\ SameWait(c)
  <2>1. promise' = promise
    BY <1>i DEF UpdateLink
  <2>2. SameWait(c)
    BY <1>1, <1>i, UpdateLinkEffect
  <2> QED
    BY <2>1, <2>2
<1>j. CASE AddPrivateLogEntry(c) \/ AddIndex(c) \/ AddShares(c) \/ BumpSharedCounter(c) \/ PutShared(c) \/ BeginPublish(c)
  <2>1. promise' = promise
    BY <1>j DEF AddPrivateLogEntry, AddIndex, AddShares, BumpSharedCounter, PutShared, BeginPublish
  <2>2. SameWait(c)
    <3>1. CASE AddPrivateLogEntry(c) \/ AddIndex(c) \/ AddShares(c)
      BY <1>1, <3>1, AddPrivateLogEntryEffect, AddIndexEffect, AddSharesEffect
    <3>2. CASE BumpSharedCounter(c) \/ PutShared(c) \/ BeginPublish(c)
      BY <1>1, <3>2, BumpEffect, PutSharedEffect, BeginPublishEffect
    <3> QED
      BY <1>j, <3>1, <3>2
  <2> QED
    BY <2>1, <2>2
<1> QED
  BY <1>1, <1>a, <1>b, <1>c, <1>d, <1>e, <1>f, <1>g, <1>h, <1>i, <1>j DEF Step

LEMMA ClashStep ==
  ASSUME TypeInv, ShapeInv, ClashInv, NEW c \in Callers, Step(c)
  PROVE  ClashInv'
<1>1. /\ Only(c) /\ calls' = calls /\ Runs(c) /\ Shape(call[c])
      /\ call'[c] = Rest \/ (/\ call'[c].op = call[c].op /\ call'[c].id = call[c].id
                              /\ call'[c].clash = call[c].clash)
  BY StepRuns, StepFrame, StageStep DEF Goes
<1>2. \A d \in Callers : d # c => call'[d] = call[d]
  BY <1>1 DEF Only
<1>3. ASSUME NEW a \in Callers, NEW b \in Callers, a # b, Runs(a)', Runs(b)'
      PROVE  (call[a].id # call[b].id /\ Parts(call[a].op) \cap Parts(call[b].op) \subseteq call[a].clash)'
  <2>1. Runs(a) /\ Runs(b)
    BY <1>1, <1>2, <1>3 DEF Runs
  <2>2. /\ call'[a].op = call[a].op /\ call'[a].id = call[a].id /\ call'[a].clash = call[a].clash
        /\ call'[b].op = call[b].op /\ call'[b].id = call[b].id
    BY <1>1, <1>2, <1>3 DEF Runs, Rest
  <2>3. Parts(call[a].op)' = Parts(call[a].op) /\ Parts(call[b].op)' = Parts(call[b].op)
    BY <2>2 DEF Parts
  <2> QED
    BY <1>3, <2>1, <2>2, <2>3 DEF ClashInv
<1>4. \A r \in done' : r.id \in 1..calls'
  BY <1>1, DoneStep DEF ClashInv, Mark, Shape
<1>5. ASSUME NEW a \in Callers, Runs(a)', NEW r \in done' PROVE r.id # call'[a].id
  <2>1. Runs(a) /\ call'[a].id = call[a].id
    BY <1>1, <1>2, <1>5 DEF Runs, Rest
  <2>2. CASE r \in done
    BY <2>1, <2>2 DEF ClashInv
  <2>3. CASE r = Mark(c) /\ Ends(c)
    <3>1. a # c
      BY <1>5, <2>3 DEF Ends, Runs, Rest
    <3> QED
      BY <1>1, <2>1, <2>3, <3>1 DEF ClashInv, Mark
  <2> QED
    BY <2>2, <2>3, DoneStep
<1>6. ASSUME NEW a \in Callers, call'[a].w # "off", "public" \notin call'[a].clash
      PROVE  call'[a].pin = Len(promise')
  <2>1. CASE a = c
    BY <1>1, <1>6, <2>1, WaitStep DEF ClashInv, Rest
  <2>2. CASE a # c
    <3>1. call'[a] = call[a]
      BY <1>2, <2>2
    <3>2. Runs(a) /\ Shape(call[a])
      BY <1>6, <3>1 DEF ShapeInv, Runs, Rest
    <3>3. call[a].pin = Len(promise)
      BY <1>6, <3>1 DEF ClashInv
    <3>4. call[c].w = "off"
      BY <1>1, <1>6, <2>2, <3>1, <3>2 DEF Shape, ClashInv
    <3> QED
      BY <3>1, <3>3, <3>4, WaitStep
  <2> QED
    BY <2>1, <2>2
<1> QED
  BY <1>3, <1>4, <1>5, <1>6 DEF ClashInv

LEMMA BeginClash ==
  ASSUME TypeInv, ShapeInv, ClashInv, NEW c \in Callers, NEW op \in Ops, Begin(c, op)
  PROVE  ClashInv'
<1>0. CallShape /\ calls \in Nat
  BY FileSystemAssumption DEF TypeInv
<1>1. /\ calls' = calls + 1 /\ calls \in Nat /\ call[c].pc = "rest" /\ call'[c].op = op /\ call'[c].id = calls + 1
      /\ call'[c].clash = Overlaps(c, op)
      /\ call'[c].w # "off" => call'[c].pin = Len(promise)
  BY <1>0, BeginEffect
<1>2. \A d \in Callers : d # c => Stays(d) /\ Meets(d, op)
  BY BeginEffect DEF TypeInv
<1>3. promise' = promise /\ done' = done
  BY DEF Begin
<1>4. ASSUME NEW a \in Callers, NEW b \in Callers, a # b, Runs(a)', Runs(b)'
      PROVE  (call[a].id # call[b].id /\ Parts(call[a].op) \cap Parts(call[b].op) \subseteq call[a].clash)'
  <2>1. \A d \in {a, b} : d # c => Runs(d) /\ call[d].id \in 1..calls
    BY <1>2, <1>4 DEF Stays, Runs, ShapeInv, Shape
  <2>2. \A d \in {a, b} : Parts(call[d].op)' = IF d = c THEN Parts(op) ELSE Parts(call[d].op)
    BY <1>1, <1>2, <1>4 DEF Stays, Parts
  <2>3. CASE a # c /\ b # c
    BY <1>2, <1>4, <2>1, <2>2, <2>3 DEF ClashInv, Stays, Meets
  <2>4. CASE a = c
    <3>1. call'[a].id # call'[b].id
      BY <1>1, <1>2, <1>4, <2>1, <2>4 DEF Stays
    <3>2. Clashing(op, b) \subseteq call'[a].clash
      BY <1>1, <1>4, <2>4 DEF Overlaps
    <3>3. Clashing(op, b) = Parts(op) \cap Parts(call[b].op)
      BY <1>4, <2>1, <2>4 DEF Clashing, Runs
    <3> QED
      BY <1>4, <2>2, <2>4, <3>1, <3>2, <3>3
  <2>5. CASE b = c
    <3>1. call'[a].id # call'[b].id
      BY <1>1, <1>2, <1>4, <2>1, <2>5 DEF Stays
    <3>2. Clashing(op, a) = Parts(op) \cap Parts(call[a].op)
      BY <1>4, <2>1, <2>5 DEF Clashing, Runs
    <3>3. Clashing(op, a) \subseteq call'[a].clash
      BY <1>2, <1>4, <2>5 DEF Meets
    <3> QED
      BY <1>4, <2>2, <2>5, <3>1, <3>2, <3>3
  <2> QED
    BY <2>3, <2>4, <2>5
<1>5. \A r \in done' : r.id \in 1..calls'
  BY <1>1, <1>3 DEF ClashInv
<1>6. \A a \in Callers : Runs(a)' => \A r \in done' : r.id # call'[a].id
  BY <1>1, <1>2, <1>3 DEF ClashInv, Stays, Runs
<1>7. \A a \in Callers : call'[a].w # "off" /\ "public" \notin call'[a].clash => call'[a].pin = Len(promise')
  BY <1>1, <1>2, <1>3 DEF ClashInv, Stays, Meets, SameWait
<1> QED
  BY <1>4, <1>5, <1>6, <1>7 DEF ClashInv

-----------------------------------------------------------------------------
(* The proof of a call that publishes alone. *)
HasProof(cl, pr) ==
  /\ cl.pc \in {"public", "pretty", "private", "share", "index", "puts"} => pr
  /\ cl.pc = "publish" => cl.took

LEMMA ProofOfCall ==
  ASSUME TypeInv, ShapeInv, NEW c \in Callers, Step(c), HasProof(call[c], proofs)
  PROVE  HasProof(call'[c], proofs')
<1>1. CallShape /\ MemShape /\ IsLinks(links) /\ DOMAIN links = LinkNames /\ Shape(call[c])
  BY StepRuns DEF TypeInv, IsLinks
<1>2. Ends(c) => call'[c].pc = "rest"
  BY DEF Ends, Rest
<1> USE DEF HasProof
<1>a. CASE Deny(c) \/ Fail(c) \/ FulfilInDirectory(c) \/ EndCall(c) \/ EndPublish(c)
  BY <1>1, <1>2, <1>a, Thrown, Returned DEF Deny, Fail, FulfilInDirectory, EndCall, EndPublish, Ends
<1>b. CASE Query(c) \/ Check(c)
  BY <1>1, <1>2, <1>b, QueryEffect, CheckEffect DEF Query, Check, AddProof
<1>c. CASE Atomically(c) \/ Fulfil(c) \/ HistoryStep(c) \/ StoreRoot(c)
  BY <1>1, <1>2, <1>c, AtomicallyEffect, FulfilEffect, HistoryStepEffect, StoreRootEffect
  DEF Atomically, Fulfil, Changed, HistoryStep, StoreRoot, Inside, SameRest, Shape
<1>d. CASE ChangePublic(c) \/ ChangePretty(c) \/ ChangePrivate(c)
  BY <1>1, <1>d, ChangePublicEffect, ChangePrettyEffect, ChangePrivateEffect
  DEF ChangePublic, ChangePretty, ChangePrivate, Inside, SameRest
<1>e. ASSUME NEW part \in LinkNames, UpdateLink(c, part) PROVE HasProof(call'[c], proofs')
  BY <1>1, <1>e, UpdateLinkEffect DEF UpdateLink, Inside, SameRest
<1>f. CASE AddPrivateLogEntry(c) \/ AddIndex(c) \/ AddShares(c) \/ BumpSharedCounter(c) \/ PutShared(c) \/ BeginPublish(c)
  BY <1>1, <1>f, AddPrivateLogEntryEffect, AddIndexEffect, AddSharesEffect, BumpEffect, PutSharedEffect, BeginPublishEffect
  DEF AddPrivateLogEntry, AddIndex, AddShares, BumpSharedCounter, PutShared, BeginPublish, Inside
<1> QED
  BY <1>1, <1>a, <1>b, <1>c, <1>d, <1>e, <1>f DEF Step

(* Only the publish of another call takes a proof away. *)
LEMMA ProofsStep ==
  ASSUME NEW c \in Callers, Step(c), ~BeginPublish(c)
  PROVE  proofs' = proofs \/ proofs'
<1>1. CASE Deny(c)
  <2>1. PICK added \in {proofs, TRUE} : proofs' = added
    BY <1>1 DEF Deny
  <2>2. CASE added = proofs
    BY <2>1, <2>2
  <2>3. CASE added = TRUE
    BY <2>1, <2>3
  <2> QED
    BY <2>2, <2>3
<1>2. CASE Query(c) \/ Check(c)
  BY <1>2, Zenon DEF Query, Check, AddProof
<1>3. CASE ~(Deny(c) \/ Query(c) \/ Check(c))
  BY <1>3
  DEF Step, Fail, Atomically, Fulfil, FulfilInDirectory, HistoryStep, StoreRoot,
      ChangePublic, ChangePretty, ChangePrivate, UpdateLink, AddPrivateLogEntry, EndCall, AddIndex,
      AddShares, BumpSharedCounter, PutShared, EndPublish, Changed, Inside
<1> QED
  BY <1>1, <1>2, <1>3

LEMMA ProofStep ==
  ASSUME TypeInv, ShapeInv, ClashInv, ProofInv, NEW c \in Callers, Step(c)
  PROVE  ProofInv'
<1>1. /\ Only(c) /\ Runs(c) /\ Shape(call[c])
      /\ call'[c] = Rest \/ (/\ call'[c].op = call[c].op /\ call'[c].id = call[c].id
                              /\ call'[c].clash = call[c].clash)
  BY StepRuns, StageStep DEF Goes
<1> SUFFICES ASSUME NEW d \in Callers, Runs(d)', call'[d].op.publish, "root" \notin call'[d].clash
             PROVE  HasProof(call'[d], proofs')
  BY DEF ProofInv, HasProof
<1>2. CASE d = c
  <2>1. call'[c].op = call[c].op /\ call'[c].clash = call[c].clash
    BY <1>1, <1>2 DEF Runs, Rest
  <2>2. HasProof(call[c], proofs)
    BY <1>1, <1>2, <2>1 DEF ProofInv, HasProof
  <2> QED
    BY <1>2, <2>2, ProofOfCall
<1>3. CASE d # c
  <2>1. call'[d] = call[d] /\ Runs(d)
    BY <1>1, <1>3 DEF Only, Runs
  <2>2. HasProof(call[d], proofs)
    BY <2>1 DEF ProofInv, HasProof
  <2>3. ~BeginPublish(c)
    <3>1. SUFFICES ASSUME BeginPublish(c) PROVE FALSE
      OBVIOUS
    <3>2. call[c].op.publish
      BY <1>1, <3>1 DEF BeginPublish, Shape
    <3>3. "root" \in Parts(call[c].op) /\ "root" \in Parts(call[d].op)
      BY <2>1, <3>2 DEF Parts
    <3> QED
      BY <1>1, <1>3, <2>1, <3>3 DEF ClashInv
  <2> QED
    BY <2>1, <2>2, <2>3, ProofsStep DEF HasProof
<1> QED
  BY <1>2, <1>3

LEMMA BeginProof ==
  ASSUME TypeInv, ShapeInv, ProofInv, NEW c \in Callers, NEW op \in Ops, Begin(c, op)
  PROVE  ProofInv'
<1>1. /\ call'[c].pc \in {"step", "child", "query", "check"} /\ proofs' = proofs
      /\ \A d \in Callers : d # c => Stays(d) /\ Meets(d, op)
  BY BeginEffect DEF TypeInv, Begin
<1> SUFFICES ASSUME NEW d \in Callers, Runs(d)', call'[d].op.publish, "root" \notin call'[d].clash
             PROVE  HasProof(call'[d], proofs')
  BY DEF ProofInv, HasProof
<1>2. CASE d = c
  BY <1>1, <1>2 DEF HasProof
<1>3. CASE d # c
  BY <1>1, <1>3 DEF ProofInv, HasProof, Stays, Meets, SameRest, Runs
<1> QED
  BY <1>2, <1>3

-----------------------------------------------------------------------------
(* THE FLOW OF COPIES *)

LEMMA IsCopy ==
  ASSUME NEW p, NEW v
  PROVE  v \in Copies(p) <=>
           \/ v = InMemory(p)
           \/ \E d \in Callers : Holds(d, p) /\ v = call[d].snap[p]
           \/ p = "public" /\ \E d \in Callers : wasm /\ call[d].w # "off" /\ v = promise[call[d].pin].value
           \/ p = "counter" /\ \E d \in Callers : call[d].pc = "index" /\ v = call[d].count
BY DEF Copies, Awaited, Counted

LEMMA IsCopyThen ==
  ASSUME NEW p, NEW v \in Copies(p)'
  PROVE  \/ v = InMemory(p)'
         \/ \E d \in Callers : Holds(d, p)' /\ v = call'[d].snap[p]
         \/ p = "public" /\ \E d \in Callers : wasm' /\ call'[d].w # "off" /\ v = promise'[call'[d].pin].value
         \/ p = "counter" /\ \E d \in Callers : call'[d].pc = "index" /\ v = call'[d].count
BY DEF Copies, Awaited, Counted

(* A step of c makes v from a copy, or from a copy and its own mark ... *)
Adds(c, p, u, v) ==
  \/ p \in {"public", "pretty"} /\ v = u \union {call[c].id}
  \/ p = "private" /\ v = [names |-> u.names \union {call[c].id}, torn |-> u.torn]
  \/ p = "log" /\ AddPrivateLogEntry(c) /\ v = WithEntry(u, call[c].id)
  \/ p = "shared" /\ AddShares(c) /\ v = WithShare(u, ShareOf(c))
  \/ p = "counter" /\ BumpSharedCounter(c) /\ v = u + 1

(* ... or v is a put of the private tree that may miss names. *)
IsTorn(p, v) == p = "private" /\ v.torn
From(c, p, v) == IsTorn(p, v) \/ \E u \in Copies(p) : v = u \/ Adds(c, p, u, v)

LEMMA Grows ==
  ASSUME NEW c \in Callers, NEW p, Only(c), wasm' = wasm,
         From(c, p, InMemory(p)'),
         Holds(c, p)' => From(c, p, call'[c].snap[p]),
         p = "public" => \A d \in Callers : wasm /\ call'[d].w # "off" => From(c, p, promise'[call'[d].pin].value),
         p = "counter" /\ call'[c].pc = "index" => From(c, p, call'[c].count)
  PROVE  \A v \in Copies(p)' : From(c, p, v)
<1> SUFFICES ASSUME NEW v \in Copies(p)'
             PROVE  From(c, p, v)
  OBVIOUS
<1>1. ASSUME NEW d \in Callers, Holds(d, p)', v = call'[d].snap[p]
      PROVE  From(c, p, v)
  <2>1. CASE d = c
    BY <1>1, <2>1
  <2>2. CASE d # c
    <3>1. Holds(d, p) /\ v = call[d].snap[p]
      BY <1>1, <2>2 DEF Only, Holds
    <3>2. v \in Copies(p)
      BY <3>1, IsCopy
    <3> QED
      BY <3>2 DEF From
  <2> QED
    BY <2>1, <2>2
<1>2. ASSUME NEW d \in Callers, p = "counter", call'[d].pc = "index", v = call'[d].count
      PROVE  From(c, p, v)
  <2>1. CASE d = c
    BY <1>2, <2>1
  <2>2. CASE d # c
    <3>1. call[d].pc = "index" /\ v = call[d].count
      BY <1>2, <2>2 DEF Only
    <3>2. v \in Copies(p)
      BY <1>2, <3>1, IsCopy
    <3> QED
      BY <3>2 DEF From
  <2> QED
    BY <2>1, <2>2
<1> QED
  BY <1>1, <1>2, IsCopyThen

LEMMA Copied ==
  ASSUME NEW c \in Callers, NEW p
  PROVE  /\ InMemory(p) \in Copies(p)
         /\ \A d \in Callers : Holds(d, p) => call[d].snap[p] \in Copies(p)
         /\ \A d \in Callers : wasm /\ call[d].w # "off" => promise[call[d].pin].value \in Copies("public")
         /\ \A d \in Callers : call[d].pc = "index" => call[d].count \in Copies("counter")
         /\ \A v \in Copies(p) : From(c, p, v)
BY IsCopy DEF From

(* The values of promises. *)
LEMMA ValueStep ==
  ASSUME TypeInv, ShapeInv, NEW c \in Callers, Step(c)
  PROVE  /\ \A i \in 1..Len(promise) :
              promise'[i].value \in {promise[i].value, promise[i].value \union {call[c].id}}
         /\ \/ Len(promise') = Len(promise)
            \/ /\ call[c].w # "off" /\ Len(promise') = Len(promise) + 1
               /\ promise'[Len(promise')].value = AwaitedRoot(c)
<1>1. /\ PromiseShape /\ Len(promise) \in Nat
      /\ call[c].w # "off" => call[c].pin \in 1..Len(promise)
  BY StepRuns DEF TypeInv, PromiseShape, Shape
<1>2. CASE promise' = promise
  BY <1>2
<1>3. ASSUME NEW st \in {"ok", "failed"}, call[c].w # "off", promise' = [promise EXCEPT ![call[c].pin].state = st]
      PROVE  /\ Len(promise') = Len(promise)
             /\ \A i \in 1..Len(promise) : promise'[i].value = promise[i].value
  <2>1. Settle(call[c].pin, promise[call[c].pin].value)
    BY <1>1, <1>3, StatePromise
  <2> QED
    BY <2>1 DEF Settle
<1>4. CASE Fail(c) \/ HistoryStep(c)
  <2>1. \/ promise' = promise
        \/ call[c].w # "off" /\ promise' = [promise EXCEPT ![call[c].pin].state = "failed"]
        \/ call[c].w # "off" /\ promise' = [promise EXCEPT ![call[c].pin].state = "ok"]
    BY <1>4 DEF Fail, HistoryStep
  <2>2. "failed" \in {"ok", "failed"} /\ "ok" \in {"ok", "failed"}
    OBVIOUS
  <2> QED
    BY <1>2, <1>3, <2>1, <2>2
<1>5. CASE Atomically(c) /\ promise' # promise
  <2>1. promise' = Append(promise, [state |-> "pending", value |-> AwaitedRoot(c)]) /\ call[c].w # "off"
    BY <1>5 DEF Atomically
  <2> QED
    BY <1>1, <2>1, AddedPromise
<1>6. CASE Fulfil(c) \/ FulfilInDirectory(c)
  <2>1. Changed(c) /\ call[c].w # "off"
    BY <1>6 DEF Fulfil, FulfilInDirectory, Changed
  <2>2. Settle(call[c].pin, promise[call[c].pin].value \union {call[c].id})
    BY <1>1, <2>1, ChangedPromise
  <2> QED
    BY <2>2 DEF Settle
<1> QED
  BY <1>2, <1>4, <1>5, <1>6
  DEF Step, Deny, Query, Check, Inside, StoreRoot, ChangePublic, ChangePretty, ChangePrivate, UpdateLink,
      AddPrivateLogEntry, EndCall, AddIndex, AddShares, BumpSharedCounter, PutShared, BeginPublish, EndPublish

LEMMA PublicFlow ==
  ASSUME TypeInv, ShapeInv, NEW c \in Callers, Step(c)
  PROVE  /\ From(c, "public", InMemory("public")')
         /\ \A d \in Callers : wasm /\ call'[d].w # "off" => From(c, "public", promise'[call'[d].pin].value)
<1>1. Only(c) /\ wasm' = wasm /\ Len(promise) \in Nat \ {0}
  BY StageStep, StepFrame DEF TypeInv, PromiseShape
<1>2. \A i \in 1..Len(promise) : promise[i].value \in Copies("public") => From(c, "public", promise'[i].value)
  BY ValueStep DEF From, Adds
<1>3. wasm => promise[Len(promise)].value \in Copies("public")
  BY Copied DEF InMemory
<1>4. wasm => From(c, "public", promise'[Len(promise')].value)
  <2>1. SUFFICES ASSUME wasm PROVE From(c, "public", promise'[Len(promise')].value)
    OBVIOUS
  <2>2. CASE Len(promise') = Len(promise)
    BY <1>1, <1>2, <1>3, <2>1, <2>2
  <2>3. CASE Len(promise') # Len(promise)
    <3>1. call[c].w # "off" /\ promise'[Len(promise')].value = AwaitedRoot(c)
      BY <2>3, ValueStep
    <3>2. AwaitedRoot(c) \in Copies("public")
      BY <2>1, <3>1, Copied DEF AwaitedRoot
    <3> QED
      BY <3>1, <3>2, Copied
  <2> QED
    BY <2>2, <2>3
<1>5. From(c, "public", InMemory("public")')
  <2>1. CASE wasm
    BY <1>1, <1>4, <2>1 DEF InMemory
  <2>2. CASE ~wasm
    <3>1. InMemory("public")' = mem'.public /\ mem.public \in Copies("public")
      BY <1>1, <2>2, Copied DEF InMemory
    <3>2. mem'.public \in {mem.public, mem.public \union {call[c].id}}
      BY ChangePublicEffect, ChangePrettyEffect, ChangePrivateEffect, UpdateLinkEffect,
         AddIndexEffect, AddSharesEffect, BumpEffect
      DEF TypeInv, IsLinks, Step, Deny, Query, Check, Fail, Atomically, Fulfil, FulfilInDirectory, HistoryStep, StoreRoot,
          AddPrivateLogEntry, EndCall, PutShared, BeginPublish, EndPublish, Changed, Inside
    <3> QED
      BY <3>1, <3>2 DEF From, Adds
  <2> QED
    BY <2>1, <2>2
<1>6. ASSUME NEW d \in Callers, wasm, call'[d].w # "off" PROVE From(c, "public", promise'[call'[d].pin].value)
  <2>1. ASSUME call[d].w # "off", call'[d].pin = call[d].pin
        PROVE  From(c, "public", promise'[call'[d].pin].value)
    <3>1. promise[call[d].pin].value \in Copies("public") /\ call[d].pin \in 1..Len(promise)
      BY <1>6, <2>1, Copied DEF ShapeInv, Shape, Runs, Rest
    <3> QED
      BY <1>2, <2>1, <3>1
  <2>2. CASE d # c
    BY <1>1, <1>6, <2>1, <2>2 DEF Only
  <2>3. CASE d = c
    BY <1>4, <1>6, <2>1, <2>3, WaitStep
  <2> QED
    BY <2>2, <2>3
<1> QED
  BY <1>5, <1>6

LEMMA MemFlow ==
  ASSUME TypeInv, ShapeInv, NEW c \in Callers, Step(c), NEW p \in LinkNames \ {"public"}
  PROVE  From(c, p, InMemory(p)')
<1>0. CallShape /\ MemShape /\ IsLinks(links) /\ DOMAIN links = LinkNames
  BY DEF TypeInv, IsLinks
<1>1. /\ InMemory(p) \in Copies(p)
      /\ \A v : v = InMemory(p) \/ Adds(c, p, InMemory(p), v) => From(c, p, v)
  BY Copied DEF From
<1>2. SUFFICES \/ InMemory(p)' = InMemory(p) \/ Adds(c, p, InMemory(p), InMemory(p)')
               \/ From(c, p, InMemory(p)')
  BY <1>1
<1>3. CASE mem' = mem
  BY <1>3 DEF InMemory, LinkNames
<1>4. CASE ChangePublic(c) \/ ChangePretty(c) \/ ChangePrivate(c)
  BY <1>0, <1>4, ChangePublicEffect, ChangePrettyEffect, ChangePrivateEffect DEF InMemory, LinkNames, Adds, Whole
<1>5. ASSUME NEW part \in LinkNames, UpdateLink(c, part)
      PROVE  InMemory(p)' = InMemory(p) \/ From(c, p, InMemory(p)')
  <2>1. /\ mem'.log = IF part = "log" THEN call[c].snap["log"] ELSE mem.log
        /\ mem'.pretty = mem.pretty /\ mem'.mmpt = mem.mmpt
        /\ mem'.shares = mem.shares /\ mem'.counter = mem.counter
        /\ Holds(c, part)
    BY <1>0, <1>5, UpdateLinkEffect DEF Holds
  <2>2. CASE p = "log" /\ part = "log"
    BY <2>1, <2>2, Copied DEF InMemory
  <2>3. CASE ~(p = "log" /\ part = "log")
    BY <2>1, <2>3 DEF InMemory, LinkNames
  <2> QED
    BY <2>2, <2>3
<1>6. CASE AddIndex(c)
  BY <1>0, <1>6, AddIndexEffect DEF InMemory, LinkNames, Adds, Whole
<1>7. CASE AddShares(c)
  BY <1>0, <1>7, AddSharesEffect DEF InMemory, LinkNames, Adds
<1>8. CASE BumpSharedCounter(c)
  BY <1>0, <1>8, BumpEffect DEF InMemory, LinkNames, Adds
<1> QED
  BY <1>0, <1>3, <1>4, <1>5, <1>6, <1>7, <1>8
  DEF Step, Deny, Query, Check, Fail, Atomically, Fulfil, FulfilInDirectory, HistoryStep, StoreRoot,
      AddPrivateLogEntry, EndCall, PutShared, BeginPublish, EndPublish, Changed, Inside

LEMMA SnapFlow ==
  ASSUME TypeInv, ShapeInv, NEW c \in Callers, Step(c), NEW p \in LinkNames, Holds(c, p)'
  PROVE  From(c, p, call'[c].snap[p])
<1>0. /\ CallShape /\ MemShape /\ IsLinks(links) /\ DOMAIN links = LinkNames /\ Shape(call[c])
      /\ wasm' = wasm
  BY StepRuns, StepFrame DEF TypeInv, IsLinks
<1>1. /\ p \in DOMAIN call'[c].snap /\ call'[c].pc # "publish" /\ ~Ends(c)
  BY DEF Holds, Ends, Rest
<1>2. ASSUME p \in DOMAIN call[c].snap, call'[c].snap[p] = call[c].snap[p], call[c].pc # "publish"
      PROVE  From(c, p, call'[c].snap[p])
  BY <1>2, Copied DEF Holds
<1>3. InMemory(p)' = call'[c].snap[p] => From(c, p, call'[c].snap[p])
  BY MemFlow, PublicFlow
<1>4. call[c].pc \notin {"puts", "publish"} => DOMAIN call[c].snap = {}
  BY <1>0 DEF Shape
<1>5. p = "private" /\ IsPut(call'[c].snap[p], mem'.mmpt) => From(c, p, call'[c].snap[p])
  BY <1>3 DEF IsPut, InMemory, From, IsTorn
<1> USE DEF SameSnap
<1>a. CASE Deny(c) \/ Fail(c) \/ FulfilInDirectory(c) \/ EndCall(c) \/ EndPublish(c)
  BY <1>0, <1>1, <1>a, Thrown, Returned DEF Deny, Fail, FulfilInDirectory, EndCall, EndPublish, Ends
<1>b. CASE Query(c) \/ Check(c) \/ Fulfil(c) \/ ChangePublic(c) \/ AddIndex(c)
  BY <1>0, <1>1, <1>4, <1>b, QueryEffect, CheckEffect, FulfilEffect, ChangePublicEffect, AddIndexEffect
<1>c. CASE Atomically(c) \/ HistoryStep(c)
  BY <1>0, <1>1, <1>2, <1>c, AtomicallyEffect, HistoryStepEffect
<1>d. CASE StoreRoot(c)
  <2>1. /\ call[c].w = "stepped" /\ call'[c].pc = call[c].pc
        /\ DOMAIN call'[c].snap = DOMAIN call[c].snap \union {"public"}
        /\ call'[c].snap["public"] = AwaitedRoot(c)
        /\ \A q \in DOMAIN call[c].snap \ {"public"} : call'[c].snap[q] = call[c].snap[q]
    BY <1>0, <1>1, <1>d, StoreRootEffect
  <2>2. CASE p = "public"
    <3>1. wasm /\ call[c].w # "off"
      BY <1>0, <2>1 DEF Shape
    <3> QED
      BY <2>1, <2>2, <3>1, Copied DEF AwaitedRoot
  <2>3. CASE p # "public"
    BY <1>1, <1>2, <2>1, <2>3
  <2> QED
    BY <2>2, <2>3
<1>e. CASE ChangePretty(c)
  <2>1. /\ call'[c].snap["pretty"] = mem'.pretty /\ mem'.public = mem.public
        /\ IF wasm THEN DOMAIN call'[c].snap = {"pretty"}
           ELSE DOMAIN call'[c].snap = {"public", "pretty"} /\ call'[c].snap["public"] = mem.public
    BY <1>0, <1>e, ChangePrettyEffect
  <2> QED
    BY <1>0, <1>1, <1>3, <2>1 DEF InMemory
<1>f. CASE ChangePrivate(c)
  BY <1>0, <1>1, <1>3, <1>5, <1>f, ChangePrivateEffect
<1>g. ASSUME NEW part \in LinkNames, UpdateLink(c, part) PROVE From(c, p, call'[c].snap[p])
  BY <1>0, <1>1, <1>2, <1>g, UpdateLinkEffect
<1>h. CASE AddPrivateLogEntry(c)
  <2>1. /\ call[c].pc = "puts" /\ call[c].next = "log" /\ p = "log"
        /\ call'[c].snap["log"] = WithEntry(mem.log, call[c].id)
    BY <1>0, <1>1, <1>h, AddPrivateLogEntryEffect
  <2>2. mem.log \in Copies("log")
    BY Copied DEF InMemory
  <2> QED
    BY <1>h, <2>1, <2>2 DEF From, Adds
<1>i. CASE AddShares(c)
  BY <1>0, <1>1, <1>3, <1>i, AddSharesEffect DEF InMemory
<1>j. CASE BumpSharedCounter(c)
  BY <1>0, <1>1, <1>3, <1>j, BumpEffect DEF InMemory
<1>k. CASE PutShared(c)
  <2>1. mem' = mem
    BY <1>k DEF PutShared
  <2> QED
    BY <1>0, <1>1, <1>3, <1>5, <1>k, <2>1, PutSharedEffect
<1>l. CASE BeginPublish(c)
  BY <1>0, <1>1, <1>l, BeginPublishEffect
<1> QED
  BY <1>0, <1>a, <1>b, <1>c, <1>d, <1>e, <1>f, <1>g, <1>h, <1>i, <1>j, <1>k, <1>l DEF Step

(* The counter is read when the index is put. *)
LEMMA CountFlow ==
  ASSUME TypeInv, ShapeInv, NEW c \in Callers, Step(c)
  PROVE  /\ call'[c].pc = "index" => call'[c].count = mem.counter
         /\ call'[c] = Rest \/ call'[c].pc = "index" \/ call'[c].count = call[c].count
<1>0. CallShape /\ MemShape /\ IsLinks(links) /\ DOMAIN links = LinkNames /\ Shape(call[c])
  BY StepRuns DEF TypeInv, IsLinks
<1>1. Ends(c) => call'[c] = Rest /\ call'[c].pc # "index"
  BY DEF Ends, Rest
<1> USE DEF SameRest
<1>a. CASE Deny(c) \/ Fail(c) \/ FulfilInDirectory(c) \/ EndCall(c) \/ EndPublish(c)
  BY <1>0, <1>1, <1>a, Thrown, Returned DEF Deny, Fail, FulfilInDirectory, EndCall, EndPublish, Ends
<1>b. CASE Query(c) \/ Check(c) \/ Fulfil(c) \/ ChangePublic(c) \/ AddIndex(c)
  BY <1>0, <1>1, <1>b, QueryEffect, CheckEffect, FulfilEffect, ChangePublicEffect, AddIndexEffect
<1>c. CASE Atomically(c) \/ HistoryStep(c) \/ StoreRoot(c)
  <2>1. call[c].w # "off" => call[c].pc # "index"
    BY <1>0 DEF Shape
  <2> QED
    BY <1>0, <1>1, <1>c, <2>1, AtomicallyEffect, HistoryStepEffect, StoreRootEffect
<1>d. CASE ChangePretty(c) \/ ChangePrivate(c) \/ AddPrivateLogEntry(c) \/ AddShares(c)
  BY <1>0, <1>d, ChangePrettyEffect, ChangePrivateEffect, AddPrivateLogEntryEffect, AddSharesEffect
<1>e. ASSUME NEW part \in LinkNames, UpdateLink(c, part) PROVE call'[c].pc = "puts" /\ call'[c].count = call[c].count
  BY <1>0, <1>e, UpdateLinkEffect
<1>f. CASE BumpSharedCounter(c) \/ PutShared(c) \/ BeginPublish(c)
  BY <1>0, <1>f, BumpEffect, PutSharedEffect, BeginPublishEffect
<1> QED
  BY <1>0, <1>a, <1>b, <1>c, <1>d, <1>e, <1>f DEF Step

(* A step makes all copies from those there were. *)
LEMMA CopiesFlow ==
  ASSUME TypeInv, ShapeInv, NEW c \in Callers, Step(c), NEW p \in LinkNames
  PROVE  \A v \in Copies(p)' : From(c, p, v)
<1>1. Only(c) /\ wasm' = wasm
  BY StageStep, StepFrame
<1>2. From(c, p, InMemory(p)')
  BY MemFlow, PublicFlow
<1>3. Holds(c, p)' => From(c, p, call'[c].snap[p])
  BY SnapFlow
<1>4. p = "public" => \A d \in Callers : wasm /\ call'[d].w # "off" => From(c, p, promise'[call'[d].pin].value)
  BY PublicFlow
<1>5. p = "counter" /\ call'[c].pc = "index" => From(c, p, call'[c].count)
  BY CountFlow, Copied DEF InMemory
<1> QED
  BY <1>1, <1>2, <1>3, <1>4, <1>5, Grows

(* A link is assigned what a call has put. *)
LEMMA LinkFlow ==
  ASSUME TypeInv, ShapeInv, NEW c \in Callers, Step(c), NEW p \in LinkNames
  PROVE  links'[p] = links[p] \/ (call[c].pc = "puts" /\ Holds(c, p) /\ links'[p] = call[c].snap[p])
<1>0. CallShape /\ MemShape /\ IsLinks(links) /\ DOMAIN links = LinkNames
  BY DEF TypeInv, IsLinks
<1>1. CASE links' = links
  BY <1>1
<1>2. ASSUME NEW part \in LinkNames, UpdateLink(c, part)
      PROVE links'[p] = links[p] \/ (call[c].pc = "puts" /\ Holds(c, p) /\ links'[p] = call[c].snap[p])
  BY <1>0, <1>2, UpdateLinkEffect DEF Holds
<1> QED
  BY <1>0, <1>1, <1>2
  DEF Step, Deny, Query, Check, Fail, Atomically, Fulfil, FulfilInDirectory, HistoryStep, StoreRoot,
      ChangePublic, ChangePretty, ChangePrivate, AddPrivateLogEntry, EndCall, AddIndex, AddShares,
      BumpSharedCounter, PutShared, BeginPublish, EndPublish, Changed, Inside

(* What is published and what will be. *)
LEMMA PublishFlow ==
  ASSUME TypeInv, ShapeInv, NEW c \in Callers, Step(c)
  PROVE  /\ \A d \in Callers : call'[d].pc = "publish" =>
              \/ call[d].pc = "publish" /\ call'[d].snap = call[d].snap
              \/ d = c /\ BeginPublish(c) /\ call'[d].snap = links
         /\ \/ published' = published
            \/ EndPublish(c) /\ call[c].pc = "publish" /\ published' = call[c].snap
<1>0. /\ CallShape /\ MemShape /\ IsLinks(links) /\ DOMAIN links = LinkNames /\ Shape(call[c]) /\ Only(c)
  BY StepRuns, StageStep DEF TypeInv, IsLinks
<1>1. call'[c].pc = "publish" =>
        \/ BeginPublish(c) /\ call'[c].snap = links
        \/ call[c].pc = "publish" /\ call'[c].snap = call[c].snap
  <2>1. Ends(c) => call'[c].pc # "publish"
    BY DEF Ends, Rest
  <2> USE DEF SameSnap
  <2>a. CASE Deny(c) \/ Fail(c) \/ FulfilInDirectory(c) \/ EndCall(c) \/ EndPublish(c)
    BY <1>0, <2>1, <2>a, Thrown, Returned DEF Deny, Fail, FulfilInDirectory, EndCall, EndPublish, Ends
  <2>b. CASE Query(c) \/ Check(c) \/ Fulfil(c) \/ ChangePublic(c) \/ AddIndex(c)
    BY <1>0, <2>1, <2>b, QueryEffect, CheckEffect, FulfilEffect, ChangePublicEffect, AddIndexEffect
  <2>c. CASE Atomically(c) \/ HistoryStep(c) \/ StoreRoot(c)
    <3>1. call[c].w # "off" => call[c].pc # "publish"
      BY <1>0 DEF Shape
    <3> QED
      BY <1>0, <2>1, <2>c, <3>1, AtomicallyEffect, HistoryStepEffect, StoreRootEffect
  <2>d. CASE ChangePretty(c) \/ ChangePrivate(c) \/ AddPrivateLogEntry(c) \/ AddShares(c)
    BY <1>0, <2>d, ChangePrettyEffect, ChangePrivateEffect, AddPrivateLogEntryEffect, AddSharesEffect
  <2>e. ASSUME NEW part \in LinkNames, UpdateLink(c, part) PROVE call'[c].pc = "puts"
    BY <1>0, <2>e, UpdateLinkEffect
  <2>f. CASE BumpSharedCounter(c) \/ PutShared(c)
    BY <1>0, <2>f, BumpEffect, PutSharedEffect
  <2>g. CASE BeginPublish(c)
    BY <1>0, <2>g, BeginPublishEffect
  <2> QED
    BY <1>0, <2>a, <2>b, <2>c, <2>d, <2>e, <2>f, <2>g DEF Step
<1>2. \/ published' = published
      \/ EndPublish(c) /\ call[c].pc = "publish" /\ published' = call[c].snap
  BY DEF Step, Deny, Query, Check, Fail, Atomically, Fulfil, FulfilInDirectory, HistoryStep, StoreRoot,
      ChangePublic, ChangePretty, ChangePrivate, UpdateLink, AddPrivateLogEntry, EndCall, AddIndex, AddShares,
      BumpSharedCounter, PutShared, BeginPublish, EndPublish, Changed, Inside
<1> QED
  BY <1>0, <1>1, <1>2 DEF Only

LEMMA BeginCopies ==
  ASSUME TypeInv, NEW c \in Callers, NEW op \in Ops, Begin(c, op), NEW p
  PROVE  \A v \in Copies(p)' : v \in Copies(p)
<1>0. CallShape /\ DOMAIN << >> = {}
  BY DEF TypeInv
<1>1. /\ call[c].pc = "rest" /\ DOMAIN call'[c].snap = {} /\ call'[c].pc # "index"
      /\ call'[c].w # "off" => wasm /\ call'[c].pin = Len(promise)
      /\ \A d \in Callers : d # c => Stays(d)
  BY <1>0, BeginEffect
<1>2. wasm' = wasm /\ mem' = mem /\ promise' = promise
  BY DEF Begin
<1>3. InMemory(p)' = InMemory(p)
  BY <1>2 DEF InMemory
<1>4. wasm => promise[Len(promise)].value = InMemory("public")
  BY DEF InMemory
<1> SUFFICES ASSUME NEW v \in Copies(p)' PROVE v \in Copies(p)
  OBVIOUS
<1>5. ASSUME NEW d \in Callers, Holds(d, p)', v = call'[d].snap[p] PROVE v \in Copies(p)
  <2>1. d # c
    BY <1>1, <1>5 DEF Holds
  <2>2. Holds(d, p) /\ v = call[d].snap[p]
    BY <1>1, <1>5, <2>1 DEF Holds, Stays, SameSnap
  <2> QED
    BY <2>2, IsCopy
<1>6. ASSUME NEW d \in Callers, p = "public", wasm', call'[d].w # "off", v = promise'[call'[d].pin].value
      PROVE  v \in Copies(p)
  <2>1. CASE d = c
    BY <1>1, <1>2, <1>4, <1>6, <2>1, IsCopy
  <2>2. CASE d # c
    BY <1>1, <1>2, <1>6, <2>2, IsCopy DEF Stays, SameWait
  <2> QED
    BY <2>1, <2>2
<1>7. ASSUME NEW d \in Callers, p = "counter", call'[d].pc = "index", v = call'[d].count
      PROVE  v \in Copies(p)
  BY <1>1, <1>7, IsCopy DEF Stays, SameRest
<1> QED
  BY <1>3, <1>5, <1>6, <1>7, IsCopyThen, IsCopy

LEMMA ReloadCopies ==
  ASSUME TypeInv, Reload, NEW p \in LinkNames
  PROVE  \A v \in Copies(p)' : v = IF p = "counter" /\ published[p] = None THEN 1
                                    ELSE IF p = "private" THEN Whole(published.private.names)
                                    ELSE published[p]
<1>1. \A d \in Callers : call'[d] = Rest
  BY DEF Reload
<1>2. Rest.w = "off" /\ DOMAIN Rest.snap = {} /\ Rest.pc = "rest"
  BY DEF Rest
<1>3. \A v \in Copies(p)' : v = InMemory(p)'
  BY <1>1, <1>2, IsCopyThen DEF Holds
<1>4. Len(promise') = 1 /\ promise'[1].value = published.public
  BY DEF Reload, RootPromise
<1>5. /\ mem'.public = published.public /\ mem'.pretty = published.pretty /\ mem'.mmpt = published.private.names
      /\ mem'.log = published.log /\ mem'.shares = published.shared
      /\ mem'.counter = IF published.counter = None THEN 1 ELSE published.counter
  BY DEF Reload, Loaded
<1>6. InMemory(p)' = IF p = "counter" /\ published[p] = None THEN 1
                     ELSE IF p = "private" THEN Whole(published.private.names)
                     ELSE published[p]
  BY <1>4, <1>5 DEF InMemory, LinkNames
<1> QED
  BY <1>3, <1>6

-----------------------------------------------------------------------------
(* The log. *)
LEMMA RangeOfAppend ==
  ASSUME NEW s \in Seq(Nat), NEW e \in Nat
  PROVE  Range(Append(s, e)) = Range(s) \union {e}
<1> DEFINE n == Len(s)
           t == Append(s, e)
<1>1. n \in Nat /\ DOMAIN s = 1..n /\ DOMAIN t = 1..(n + 1) /\ t[n + 1] = e /\ \A i \in 1..n : t[i] = s[i]
  OBVIOUS
<1> HIDE DEF n, t
<1>2. \A x : x \in Range(t) <=> \E i \in 1..(n + 1) : x = t[i]
  BY <1>1 DEF Range
<1>3. \A x : x \in Range(s) <=> \E i \in 1..n : x = s[i]
  BY <1>1 DEF Range
<1>4. \A i \in 1..(n + 1) : i \in 1..n \/ i = n + 1
  BY <1>1
<1>5. n + 1 \in 1..(n + 1) /\ \A i \in 1..n : i \in 1..(n + 1)
  BY <1>1
<1>6. Range(t) = Range(s) \union {e}
  BY <1>1, <1>2, <1>3, <1>4, <1>5
<1> QED
  BY <1>6 DEF t

(* The entry goes to one chunk; the others keep theirs. *)
LEMMA EntryAdded ==
  ASSUME NEW u, GoodLog(u), NEW id \in 1..calls, calls \in Nat, NEW v, v = WithEntry(u, id)
  PROVE  /\ GoodLog(v)
         /\ \A k : k # id => ChunksOf(v, k) = ChunksOf(u, k)
         /\ ChunksOf(u, id) = {} => \E i \in 1..Len(v) : ChunksOf(v, id) = {i}
<1> DEFINE n == Len(u)
<1>0. /\ u \in Seq(Seq(Nat)) /\ n \in Nat /\ ChunkSize \in Nat \ {0} /\ id \in Nat
      /\ \A i \in 1..n : u[i] \in Seq(Nat) /\ GoodChunk(u[i])
      /\ HashSize \in Nat \ {0}
  BY FileSystemAssumption DEF GoodLog, Logs
<1>1. CASE u = << >> \/ HashSize * Len(Last(u)) + 1 > ChunkSize
  <2> DEFINE chunk == <<id>>
  <2>1. v = Append(u, chunk)
    BY <1>1 DEF WithEntry
  <2>2. chunk \in Seq(Nat) /\ Len(chunk) = 1 /\ Range(chunk) = {id}
    BY <1>0 DEF Range
  <2> HIDE DEF chunk
  <2>3. /\ v \in Seq(Seq(Nat)) /\ Len(v) = n + 1 /\ v[n + 1] = chunk
        /\ \A i \in 1..n : v[i] = u[i]
    BY <1>0, <2>1, <2>2
  <2>4. GoodLog(v)
    <3>1. \A i \in 1..(n + 1) : i \in 1..n \/ i = n + 1
      BY <1>0
    <3>2. \A i \in 1..n : GoodChunk(v[i])
      BY <1>0, <2>3
    <3>3. GoodChunk(v[n + 1])
      <4>1. v[n + 1] = chunk
        BY <2>3
      <4>2. Sized(chunk)
        <5>1. Len(chunk) - 1 = 0
          BY <2>2
        <5>2. HashSize * 0 = 0
          BY <1>0
        <5> QED
          BY <1>0, <2>2, <5>1, <5>2 DEF Sized
      <4>3. Range(chunk) \subseteq 1..calls
        BY <2>2
      <4> QED
        BY <4>1, <4>2, <4>3 DEF GoodChunk
    <3>4. \A i \in 1..Len(v) : GoodChunk(v[i])
      BY <2>3, <3>1, <3>2, <3>3
    <3> QED
      BY <2>3, <3>4 DEF GoodLog, Logs
  <2>5. \A k : ChunksOf(v, k) = ChunksOf(u, k) \union (IF k = id THEN {n + 1} ELSE {})
    <3>1. \A k : /\ \A i \in 1..n : k \in Range(v[i]) <=> k \in Range(u[i])
                 /\ k \in Range(v[n + 1]) <=> k = id
      BY <2>2, <2>3
    <3>2. 1..Len(v) = 1..n \union {n + 1}
      BY <1>0, <2>3
    <3> QED
      BY <3>1, <3>2 DEF ChunksOf
  <2>6. n + 1 \in 1..Len(v)
    BY <1>0, <2>3
  <2> QED
    BY <2>4, <2>5, <2>6
<1>2. CASE ~(u = << >> \/ HashSize * Len(Last(u)) + 1 > ChunkSize)
  <2> DEFINE chunk == Append(u[n], id)
  <2>1. v = [u EXCEPT ![n] = chunk]
    BY <1>2 DEF WithEntry
  <2>2. n \in 1..n /\ ~(HashSize * Len(u[n]) + 1 > ChunkSize) /\ Len(u[n]) \in Nat
    BY <1>0, <1>2 DEF Last
  <2>3. /\ chunk \in Seq(Nat) /\ Len(chunk) = Len(u[n]) + 1 /\ Range(chunk) = Range(u[n]) \union {id}
    BY <1>0, <2>2, RangeOfAppend
  <2> HIDE DEF chunk
  <2>4. /\ v \in Seq(Seq(Nat)) /\ Len(v) = n /\ v[n] = chunk
        /\ \A i \in 1..n : i # n => v[i] = u[i]
    BY <1>0, <2>1, <2>2, <2>3
  <2>5. GoodChunk(chunk)
    <3>1. Len(chunk) - 1 = Len(u[n]) /\ Len(chunk) >= 1
      BY <2>2, <2>3
    <3>2. HashSize * Len(u[n]) < ChunkSize
      <4> DEFINE size == HashSize * Len(u[n])
      <4>1. size \in Nat /\ ~(size + 1 > ChunkSize)
        BY <1>0, <2>2
      <4> HIDE DEF size
      <4>2. size < ChunkSize
        BY <1>0, <4>1
      <4> QED
        BY <4>2 DEF size
    <3>3. Range(chunk) \subseteq 1..calls
      BY <1>0, <2>2, <2>3 DEF GoodChunk
    <3> QED
      BY <3>1, <3>2, <3>3 DEF GoodChunk, Sized
  <2>6. GoodLog(v)
    <3>1. \A i \in 1..n : GoodChunk(v[i])
      BY <1>0, <2>2, <2>4, <2>5
    <3> QED
      BY <2>4, <3>1 DEF GoodLog, Logs
  <2>7. \A k : ChunksOf(v, k) = ChunksOf(u, k) \union (IF k = id THEN {n} ELSE {})
    BY <1>0, <2>2, <2>3, <2>4 DEF ChunksOf
  <2> QED
    BY <2>2, <2>4, <2>6, <2>7
<1> QED
  BY <1>1, <1>2

LEMMA StaysLogged ==
  ASSUME TypeInv, ShapeInv, NEW c \in Callers, Step(c), IsLogged(call[c])
  PROVE  call'[c] = Rest \/ IsLogged(call'[c])
<1>0. CallShape /\ MemShape /\ IsLinks(links) /\ DOMAIN links = LinkNames /\ Shape(call[c])
  BY StepRuns DEF TypeInv, IsLinks
<1>1. Ends(c) => call'[c] = Rest
  BY DEF Ends
<1>2. call[c].pc \in {"puts", "publish"} /\ (call[c].pc = "puts" => call[c].next # "log")
  BY DEF IsLogged
<1> USE DEF SameRest
<1>a. CASE Deny(c) \/ Fail(c) \/ FulfilInDirectory(c) \/ EndCall(c) \/ EndPublish(c)
  BY <1>0, <1>1, <1>a, Thrown, Returned DEF Deny, Fail, FulfilInDirectory, EndCall, EndPublish, Ends
<1>b. CASE Query(c) \/ Check(c) \/ Fulfil(c) \/ ChangePublic(c) \/ AddIndex(c)
  BY <1>0, <1>1, <1>2, <1>b, QueryEffect, CheckEffect, FulfilEffect, ChangePublicEffect, AddIndexEffect
<1>c. CASE Atomically(c) \/ HistoryStep(c) \/ StoreRoot(c)
  BY <1>0, <1>1, <1>2, <1>c, AtomicallyEffect, HistoryStepEffect, StoreRootEffect DEF IsLogged
<1>d. CASE ChangePretty(c) \/ ChangePrivate(c) \/ AddPrivateLogEntry(c) \/ AddShares(c)
  BY <1>0, <1>2, <1>d, ChangePrettyEffect, ChangePrivateEffect, AddPrivateLogEntryEffect, AddSharesEffect
  DEF IsLogged
<1>e. ASSUME NEW part \in LinkNames, UpdateLink(c, part) PROVE IsLogged(call'[c])
  BY <1>0, <1>2, <1>e, UpdateLinkEffect DEF IsLogged
<1>f. CASE BumpSharedCounter(c) \/ PutShared(c)
  BY <1>0, <1>f, BumpEffect, PutSharedEffect DEF IsLogged
<1>g. CASE BeginPublish(c)
  BY <1>0, <1>g, BeginPublishEffect DEF IsLogged
<1> QED
  BY <1>0, <1>a, <1>b, <1>c, <1>d, <1>e, <1>f, <1>g DEF Step

LEMMA LogStep ==
  ASSUME TypeInv, ShapeInv, ClashInv, LogInv, NEW c \in Callers, Step(c)
  PROVE  LogInv'
<1>0. /\ CallShape /\ Only(c) /\ calls' = calls /\ calls \in Nat /\ Runs(c) /\ Shape(call[c])
      /\ "log" \in LinkNames
      /\ call'[c] = Rest \/ (Goes(c) /\ call'[c].id = call[c].id)
  BY StepRuns, StepFrame, StageStep, FileSystemAssumption DEF TypeInv, Goes, LinkNames
<1>1. \A v : GoodLog(v)' = GoodLog(v)
  BY <1>0 DEF GoodLog, GoodChunk, Sized
<1>2. ASSUME NEW d \in Callers, d # c, Runs(d)', ~IsLogged(call'[d])
      PROVE  Runs(d) /\ ~IsLogged(call[d]) /\ call'[d].id = call[d].id /\ call[d].id # call[c].id
  BY <1>0, <1>2 DEF Only, ClashInv, Runs
<1>3. ASSUME Runs(c)', ~IsLogged(call'[c])
      PROVE  ~IsLogged(call[c]) /\ call'[c].id = call[c].id /\ ~AddPrivateLogEntry(c)
  BY <1>0, <1>3, StaysLogged, AddPrivateLogEntryEffect DEF Runs, Rest, IsLogged
<1>4. ASSUME NEW v \in Copies("log")'
      PROVE  /\ GoodLog(v)
             /\ \A d \in Callers : Runs(d)' /\ ~IsLogged(call'[d]) => ChunksOf(v, call'[d].id) = {}
  <2>1. PICK u \in Copies("log") : v = u \/ Adds(c, "log", u, v)
    BY <1>0, <1>4, CopiesFlow DEF From, IsTorn
  <2>2. GoodLog(u) /\ \A d \in Callers : Runs(d) /\ ~IsLogged(call[d]) => ChunksOf(u, call[d].id) = {}
    BY DEF LogInv
  <2>3. CASE v = u
    BY <1>0, <1>2, <1>3, <2>2, <2>3
  <2>4. CASE v # u
    <3>1. AddPrivateLogEntry(c) /\ v = WithEntry(u, call[c].id) /\ call[c].id \in 1..calls
      BY <1>0, <2>1, <2>4 DEF Adds, Shape
    <3>2. GoodLog(v) /\ \A k : k # call[c].id => ChunksOf(v, k) = ChunksOf(u, k)
      BY <1>0, <2>2, <3>1, EntryAdded
    <3> QED
      BY <1>0, <1>2, <1>3, <2>2, <3>1, <3>2
  <2> QED
    BY <2>3, <2>4
<1>5. GoodLog(links'.log)
  BY <1>0, LinkFlow, Copied DEF LogInv
<1>6. GoodLog(published'.log) /\ \A d \in Callers : call'[d].pc = "publish" => GoodLog(call'[d].snap.log)
  BY PublishFlow DEF LogInv
<1> QED
  BY <1>1, <1>4, <1>5, <1>6 DEF LogInv

LEMMA BeginLog ==
  ASSUME TypeInv, ShapeInv, LogInv, NEW c \in Callers, NEW op \in Ops, Begin(c, op)
  PROVE  LogInv'
<1>0. CallShape /\ calls \in Nat
  BY FileSystemAssumption DEF TypeInv
<1>1. /\ calls' = calls + 1 /\ call'[c].id = calls + 1 /\ call'[c].pc # "publish"
      /\ \A d \in Callers : d # c => Stays(d)
  BY <1>0, BeginEffect
<1>a. 1..calls \subseteq 1..calls' /\ calls + 1 \notin 1..calls
  BY <1>0, <1>1
<1>2. \A v : GoodLog(v) => GoodLog(v)' /\ ChunksOf(v, calls + 1) = {}
  <2>1. \A v : GoodLog(v) => GoodLog(v)'
    BY <1>a DEF GoodLog, GoodChunk, Sized
  <2>2. \A v : GoodLog(v) => ChunksOf(v, calls + 1) = {}
    BY <1>a DEF GoodLog, GoodChunk, ChunksOf
  <2> QED
    BY <2>1, <2>2
<1>3. links' = links /\ published' = published
  BY DEF Begin
<1>4. ASSUME NEW v \in Copies("log")', NEW d \in Callers, Runs(d)', ~IsLogged(call'[d])
      PROVE  ChunksOf(v, call'[d].id) = {}
  <2>1. v \in Copies("log") /\ GoodLog(v)
    BY <1>4, BeginCopies DEF LogInv
  <2>2. CASE d = c
    BY <1>1, <1>2, <2>1, <2>2
  <2>3. CASE d # c
    BY <1>1, <1>4, <2>1, <2>3 DEF LogInv, Stays, SameRest, IsLogged, Runs
  <2> QED
    BY <2>2, <2>3
<1>5. \A v \in Copies("log")' : GoodLog(v)'
  BY <1>2, BeginCopies DEF LogInv
<1>6. GoodLog(links.log)' /\ GoodLog(published.log)'
  <2>1. GoodLog(links.log) /\ GoodLog(published.log)
    BY DEF LogInv
  <2>2. GoodLog(links'.log) /\ GoodLog(published'.log)
    BY <1>3, <2>1
  <2> QED
    BY <1>a, <2>2 DEF GoodLog, GoodChunk, Sized
<1>7. ASSUME NEW d \in Callers, call'[d].pc = "publish" PROVE GoodLog(call[d].snap.log)'
  <2>1. d # c
    BY <1>1, <1>7
  <2>2. GoodLog(call[d].snap.log) /\ call'[d].snap = call[d].snap
    BY <1>1, <1>7, <2>1 DEF LogInv, Stays, SameSnap
  <2>3. GoodLog(call'[d].snap.log)
    BY <2>2
  <2> QED
    BY <1>a, <2>3 DEF GoodLog, GoodChunk, Sized
<1> QED
  BY <1>4, <1>5, <1>6, <1>7 DEF LogInv

LEMMA ReloadLog ==
  ASSUME TypeInv, LogInv, Reload
  PROVE  LogInv'
<1>1. /\ links' = published /\ published' = published /\ calls' = calls
      /\ \A d \in Callers : call'[d].pc = "rest"
  BY DEF Reload, Rest
<1>2. \A v : GoodLog(v)' = GoodLog(v)
  BY <1>1 DEF GoodLog, GoodChunk, Sized
<1>3. \A v \in Copies("log")' : GoodLog(v)
  BY ReloadCopies DEF LogInv, LinkNames
<1> QED
  BY <1>1, <1>2, <1>3 DEF LogInv, Runs

LEMMA EmptyLog ==
  GoodLog(<< >>) /\ \A k : ChunksOf(<< >>, k) = {}
<1>1. Len(<< >>) = 0 /\ << >> \in Seq(Seq(Nat))
  OBVIOUS
<1> QED
  BY <1>1 DEF GoodLog, Logs, ChunksOf

LEMMA InitCopies ==
  ASSUME Init, NEW p \in LinkNames
  PROVE  /\ links = EmptyLinks /\ published = EmptyLinks /\ \A d \in Callers : call[d] = Rest
         /\ \A v \in Copies(p) : v = IF p = "log" THEN << >> ELSE IF p = "counter" THEN 1
                                        ELSE IF p = "private" THEN Whole({}) ELSE {}
<1>1. links = EmptyLinks /\ published = EmptyLinks /\ \A d \in Callers : call[d] = Rest
  BY DEF Init
<1>2. Rest.w = "off" /\ DOMAIN Rest.snap = {} /\ Rest.pc = "rest"
  BY DEF Rest
<1>3. \A v \in Copies(p) : v = InMemory(p)
  BY <1>1, <1>2, IsCopy DEF Holds
<1>4. Len(promise) = 1 /\ promise[1].value = {}
  BY DEF Init, RootPromise
<1>5. /\ mem.public = {} /\ mem.pretty = {} /\ mem.mmpt = {} /\ mem.log = << >> /\ mem.shares = {}
      /\ mem.counter = 1
  BY <1>1 DEF Init, Loaded, EmptyLinks, NoNames
<1>6. InMemory(p) = IF p = "log" THEN << >> ELSE IF p = "counter" THEN 1
                    ELSE IF p = "private" THEN Whole({}) ELSE {}
  BY <1>4, <1>5 DEF InMemory, LinkNames
<1> QED
  BY <1>1, <1>3, <1>6

LEMMA InitLog ==
  ASSUME Init
  PROVE  LogInv
<1>1. \A v \in Copies("log") : v = << >>
  BY InitCopies DEF LinkNames
<1>2. links.log = << >> /\ published.log = << >> /\ \A d \in Callers : call[d].pc = "rest"
  BY DEF Init, EmptyLinks, Rest
<1> QED
  BY <1>1, <1>2, EmptyLog DEF LogInv

-----------------------------------------------------------------------------
(* The counter. *)
LEMMA CounterStep ==
  ASSUME TypeInv, NEW c \in Callers, Step(c)
  PROVE  mem'.counter = mem.counter \/ (BumpSharedCounter(c) /\ mem'.counter = mem.counter + 1)
<1>0. CallShape /\ MemShape /\ IsLinks(links) /\ DOMAIN links = LinkNames
  BY DEF TypeInv, IsLinks
<1>1. CASE mem' = mem
  BY <1>1
<1>2. CASE ChangePublic(c) \/ ChangePretty(c) \/ ChangePrivate(c) \/ AddIndex(c) \/ AddShares(c) \/ BumpSharedCounter(c)
  BY <1>0, <1>2, ChangePublicEffect, ChangePrettyEffect, ChangePrivateEffect, AddIndexEffect, AddSharesEffect, BumpEffect
<1>3. ASSUME NEW part \in LinkNames, UpdateLink(c, part) PROVE mem'.counter = mem.counter
  BY <1>0, <1>3, UpdateLinkEffect
<1> QED
  BY <1>0, <1>1, <1>2, <1>3
  DEF Step, Deny, Query, Check, Fail, Atomically, Fulfil, FulfilInDirectory, HistoryStep, StoreRoot,
      AddPrivateLogEntry, EndCall, PutShared, BeginPublish, EndPublish, Changed, Inside

LEMMA CountStep ==
  ASSUME TypeInv, ShapeInv, CountInv, NEW c \in Callers, Step(c)
  PROVE  CountInv'
<1>0. Only(c) /\ "counter" \in LinkNames
  BY StageStep DEF LinkNames
<1>1. \A v \in Copies("counter")' : v \in Nat \ {0}
  BY <1>0, CopiesFlow DEF CountInv, From, IsTorn, Adds
<1>2. IsCount(links'.counter)
  BY <1>0, LinkFlow, Copied DEF CountInv, IsCount
<1>3. IsCount(published'.counter) /\ \A d \in Callers : call'[d].pc = "publish" => IsCount(call'[d].snap.counter)
  BY PublishFlow DEF CountInv
<1>4. mem.counter \in Nat
  BY <1>0, Copied DEF CountInv, InMemory
<1>5. mem'.counter \in Nat /\ mem'.counter >= mem.counter
  BY <1>4, CounterStep
<1>6. \A d \in Callers : call'[d].count \in Nat /\ call'[d].count <= mem'.counter
  <2>1. TAKE d \in Callers
  <2>2. call[d].count \in Nat /\ call[d].count <= mem.counter
    BY DEF CountInv
  <2>3. call'[d].count \in {call[d].count, mem.counter, 0}
    BY <1>0, CountFlow DEF Only, Rest
  <2> QED
    BY <1>4, <1>5, <2>2, <2>3
<1> QED
  BY <1>1, <1>2, <1>3, <1>6 DEF CountInv, IsCount

LEMMA BeginCount ==
  ASSUME TypeInv, CountInv, NEW c \in Callers, NEW op \in Ops, Begin(c, op)
  PROVE  CountInv'
<1>0. CallShape
  BY DEF TypeInv
<1>1. /\ call'[c].count = 0 /\ call'[c].pc # "publish"
      /\ \A d \in Callers : d # c => Stays(d)
  BY <1>0, BeginEffect
<1>2. links' = links /\ published' = published /\ mem' = mem
  BY DEF Begin
<1>3. mem.counter \in Nat
  BY Copied DEF CountInv, InMemory
<1>4. \A d \in Callers : call'[d].count \in Nat /\ call'[d].count <= mem'.counter
  BY <1>1, <1>2, <1>3 DEF CountInv, Stays, SameRest
<1>5. \A d \in Callers : call'[d].pc = "publish" => IsCount(call'[d].snap.counter)
  BY <1>1 DEF CountInv, Stays, SameSnap
<1>6. \A v \in Copies("counter")' : v \in Nat \ {0}
  BY BeginCopies DEF CountInv
<1> QED
  BY <1>2, <1>4, <1>5, <1>6 DEF CountInv, IsCount

LEMMA ReloadCount ==
  ASSUME TypeInv, CountInv, Reload
  PROVE  CountInv'
<1>1. /\ links' = published /\ published' = published
      /\ \A d \in Callers : call'[d].pc = "rest" /\ call'[d].count = 0
  BY DEF Reload, Rest
<1>2. \A v \in Copies("counter")' : v \in Nat \ {0}
  <2>1. "counter" \in LinkNames /\ 1 \in Nat \ {0}
    BY DEF LinkNames
  <2> QED
    BY <2>1, ReloadCopies DEF CountInv, IsCount
<1>3. mem'.counter \in Copies("counter")'
  BY DEF Copies, InMemory
<1> QED
  BY <1>1, <1>2, <1>3 DEF CountInv, IsCount

LEMMA InitCount ==
  ASSUME Init
  PROVE  CountInv
<1>1. \A v \in Copies("counter") : v = 1
  BY InitCopies DEF LinkNames
<1>2. /\ links.counter = None /\ published.counter = None /\ mem.counter = 1
      /\ \A d \in Callers : call[d].pc = "rest" /\ call[d].count = 0
  BY DEF Init, EmptyLinks, Loaded, Rest
<1> QED
  BY <1>1, <1>2 DEF CountInv, IsCount

-----------------------------------------------------------------------------
(* MARKS *)

(* A mark is that of a call, not of the parts it had alone. *)
LEMMA SameMark ==
  ASSUME NEW m, NEW n, m.id = n.id, m.with = n.with, m.count = n.count, NEW v, NEW p
  PROVE  Marks(v, m, p) <=> Marks(v, n, p)
BY DEF Marks

LEMMA ShareAdded ==
  ASSUME NEW shares, NEW share
  PROVE  /\ LoadShare(WithShare(shares, share), share.with, share.count) = {share.item}
         /\ \A with, count : with # share.with \/ count # share.count =>
              LoadShare(WithShare(shares, share), with, count) = LoadShare(shares, with, count)
BY DEF LoadShare, WithShare, Key

(* A step keeps the marks of other calls on what it makes of a copy. *)
LEMMA MarkKept ==
  ASSUME TypeInv, ShapeInv, LogInv, NEW c \in Callers, Step(c), NEW p \in LinkNames, NEW m,
         m.id # call[c].id,
         p = "shared" /\ AddShares(c) => m.with # call[c].op.with \/ m.count # call[c].count,
         NEW u \in Copies(p), Marks(u, m, p), NEW v, v = u \/ Adds(c, p, u, v)
  PROVE  Marks(v, m, p)
<1>1. CASE v = u
  BY <1>1
<1>2. CASE p \in {"public", "pretty"}
  BY <1>2 DEF Marks, Adds
<1>6. CASE p = "private" /\ v # u
  <2>1. v = [names |-> u.names \union {call[c].id}, torn |-> u.torn] /\ (u.torn \/ m.id \in u.names)
    BY <1>6 DEF Marks, Adds
  <2>2. v.names = u.names \union {call[c].id} /\ v.torn = u.torn
    BY <2>1
  <2> QED
    BY <1>6, <2>1, <2>2 DEF Marks
<1>3. CASE p = "log" /\ v # u
  <2>1. GoodLog(u) /\ v = WithEntry(u, call[c].id) /\ call[c].id \in 1..calls /\ calls \in Nat
    BY <1>3, StepRuns, FileSystemAssumption DEF LogInv, Adds, Shape, TypeInv
  <2>2. GoodLog(v) /\ ChunksOf(v, m.id) = ChunksOf(u, m.id)
    BY <2>1, EntryAdded
  <2>3. PICK i \in 1..Len(u) : ChunksOf(u, m.id) = {i}
    BY <1>3 DEF Marks
  <2>4. i \in 1..Len(v)
    BY <2>2, <2>3 DEF ChunksOf
  <2> QED
    BY <1>3, <2>2, <2>3, <2>4 DEF Marks
<1>4. CASE p = "shared" /\ v # u
  <2>1. AddShares(c) /\ v = WithShare(u, ShareOf(c))
    BY <1>4 DEF Adds
  <2>2. ShareOf(c).with = call[c].op.with /\ ShareOf(c).count = call[c].count
    BY DEF ShareOf
  <2>3. LoadShare(v, m.with, m.count) = LoadShare(u, m.with, m.count)
    BY <1>4, <2>1, <2>2, ShareAdded
  <2> QED
    BY <1>4, <2>3 DEF Marks
<1>5. CASE p = "counter" /\ v # u
  <2>1. v = u + 1 /\ u \in Nat /\ m.count \in 0..(u - 1)
    BY <1>5 DEF Adds, Marks
  <2> QED
    BY <1>5, <2>1 DEF Marks
<1> QED
  BY <1>1, <1>2, <1>3, <1>4, <1>5, <1>6 DEF LinkNames

LEMMA RememberedStep ==
  ASSUME TypeInv, ShapeInv, LogInv, NEW c \in Callers, Step(c), NEW p \in LinkNames, NEW m,
         m.id # call[c].id,
         p = "shared" /\ AddShares(c) => m.with # call[c].op.with \/ m.count # call[c].count,
         Remembered(m, p)
  PROVE  /\ \A v \in Copies(p)' : Marks(v, m, p)
         /\ Marks(links[p], m, p) => Marks(links'[p], m, p)
<1>1. \A v \in Copies(p)' : Marks(v, m, p)
  <2> SUFFICES ASSUME NEW v \in Copies(p)' PROVE Marks(v, m, p)
    OBVIOUS
  <2>1. CASE IsTorn(p, v)
    BY <2>1 DEF IsTorn, Marks
  <2>2. CASE ~IsTorn(p, v)
    <3>1. PICK u \in Copies(p) : v = u \/ Adds(c, p, u, v)
      BY <2>2, CopiesFlow DEF From
    <3>2. Marks(u, m, p)
      BY DEF Remembered
    <3> QED
      BY <3>1, <3>2, MarkKept
  <2> QED
    BY <2>1, <2>2
<1>2. Marks(links[p], m, p) => Marks(links'[p], m, p)
  BY LinkFlow, Copied DEF Remembered
<1> QED
  BY <1>1, <1>2

(* What m is about. *)
LEMMA KeptIs ==
  ASSUME ShapeInv, NEW c \in Callers, Runs(c), NEW p \in Kept(Mark(c))
  PROVE  /\ p \in LinkNames /\ p \in Owned(call[c].op)
         /\ IF p = "counter" THEN "shared" \in Kept(Mark(c))
            ELSE p \in Marked(call[c].op) /\ p \notin call[c].clash /\ p \in Parts(call[c].op)
<1>1. call[c].op \in Ops
  BY DEF ShapeInv, Shape
<1>2. /\ Parts(call[c].op) \subseteq LinkNames \union {"root"} /\ "counter" \notin Parts(call[c].op)
      /\ Marked(call[c].op) \subseteq Parts(call[c].op)
      /\ Body(call[c].op) = Parts(call[c].op) \ {"root"} /\ "root" \notin Body(call[c].op)
  BY <1>1, PartsOf DEF LinkNames, Body
<1> QED
  BY <1>1, <1>2 DEF Kept, Mark, Owned, LinkNames

(* No other call has a copy of a part that a call has alone. *)
LEMMA AloneIn ==
  ASSUME ShapeInv, ClashInv, NEW c \in Callers, Runs(c), NEW p \in Kept(Mark(c)),
         NEW d \in Callers, d # c
  PROVE  ~Holds(d, p) /\ (p = "public" => call[d].w = "off") /\ (p = "counter" => call[d].pc # "index")
<1>1. CASE ~Runs(d)
  BY <1>1 DEF ShapeInv, Runs, Rest, Holds
<1>2. CASE Runs(d)
  <2> DEFINE q == IF p = "counter" THEN "shared" ELSE p
  <2>1. q \notin Parts(call[d].op)
    <3>1. q \in Kept(Mark(c)) /\ q # "counter"
      BY KeptIs
    <3>2. q \notin call[c].clash /\ q \in Parts(call[c].op)
      BY <3>1, KeptIs
    <3> QED
      BY <1>2, <3>2 DEF ClashInv
  <2>2. Shape(call[d]) /\ call[d].op \in Ops
    BY <1>2 DEF ShapeInv, Shape
  <2>3. Owned(call[d].op) = Body(call[d].op) \union (IF "shared" \in Body(call[d].op) THEN {"counter"} ELSE {})
    BY <2>2, PartsOf
  <2>4. p \notin Owned(call[d].op)
    <3>1. "counter" \notin Body(call[d].op) /\ Body(call[d].op) \subseteq Parts(call[d].op)
      BY <2>2, PartsOf
    <3> QED
      BY <2>1, <2>3, <3>1
  <2>5. ~Holds(d, p)
    BY <2>2, <2>4 DEF Holds, Shape, Due
  <2> QED
    BY <2>1, <2>2, <2>4, <2>5 DEF Shape, Body
<1> QED
  BY <1>1, <1>2

LEMMA OwnCopies ==
  ASSUME TypeInv, ShapeInv, ClashInv, NEW c \in Callers, Step(c), NEW p \in Kept(Mark(c)),
         NEW v \in Copies(p)', call'[c] # Rest
  PROVE  \/ v = InMemory(p)'
         \/ p \in DOMAIN call'[c].snap /\ v = call'[c].snap[p]
         \/ p = "counter" /\ call'[c].pc = "index"
<1>1. Runs(c) /\ Only(c) /\ Goes(c) /\ wasm' = wasm
  BY StepRuns, StageStep, StepFrame
<1>2. \A d \in Callers : d # c =>
        ~Holds(d, p)' /\ (p = "public" => call'[d].w = "off") /\ (p = "counter" => call'[d].pc # "index")
  BY <1>1, AloneIn DEF Only, Holds
<1>3. p = "public" /\ wasm /\ call'[c].w # "off" => promise'[call'[c].pin].value = InMemory(p)'
  <2>1. SUFFICES ASSUME p = "public", wasm, call'[c].w # "off" PROVE call'[c].pin = Len(promise')
    BY <1>1 DEF InMemory
  <2>2. "public" \notin call'[c].clash
    BY <1>1, <2>1, KeptIs DEF Goes
  <2> QED
    BY <2>1, <2>2, ClashStep DEF ClashInv
<1> QED
  BY <1>1, <1>2, <1>3, IsCopyThen DEF Holds

(* What a call has changed keeps its mark. *)
LEMMA OwnRemembered ==
  ASSUME TypeInv, ShapeInv, NEW c \in Callers, Step(c), NEW p \in Kept(Mark(c)),
         Reached(c, p), Remembered(Mark(c), p)
  PROVE  \A v \in Copies(p)' : Marks(v, Mark(c), p)
<1>1. Runs(c) /\ p \in LinkNames
  BY StepRuns, KeptIs
<1> SUFFICES ASSUME NEW v \in Copies(p)' PROVE Marks(v, Mark(c), p)
  OBVIOUS
<1>0. CASE IsTorn(p, v)
  BY <1>0 DEF IsTorn, Marks
<1> SUFFICES ASSUME ~IsTorn(p, v) PROVE Marks(v, Mark(c), p)
  BY <1>0
<1>2. PICK u \in Copies(p) : v = u \/ Adds(c, p, u, v)
  BY <1>1, CopiesFlow DEF From
<1>3. Marks(u, Mark(c), p)
  BY DEF Remembered
<1>4. CASE v = u
  BY <1>3, <1>4
<1>5. CASE Adds(c, p, u, v)
  <2>1. ~AddPrivateLogEntry(c) \/ p # "log"
    BY DEF Reached, AddPrivateLogEntry, Due
  <2>2. ~AddShares(c) \/ p # "shared"
    BY DEF Reached, AddShares
  <2>3. ~BumpSharedCounter(c) \/ p # "counter"
    BY DEF Reached, BumpSharedCounter
  <2>4. \/ p \in {"public", "pretty"} /\ v = u \union {call[c].id}
        \/ p = "private" /\ v = [names |-> u.names \union {call[c].id}, torn |-> u.torn]
    BY <1>5, <2>1, <2>2, <2>3 DEF Adds
  <2>5. Mark(c).id = call[c].id
    BY DEF Mark
  <2>6. p = "private" => call[c].id \in v.names
    BY <2>4
  <2> QED
    BY <2>4, <2>5, <2>6 DEF Marks
<1> QED
  BY <1>2, <1>4, <1>5

(* A link is assigned when nothing more is to be put. *)
LEMMA NewlyAssigned ==
  ASSUME TypeInv, ShapeInv, NEW c \in Callers, Step(c), NEW p \in Kept(Mark(c)),
         call'[c] # Rest, Assigned(c, p)', ~Assigned(c, p)
  PROVE  p \in DOMAIN call[c].snap /\ links'[p] = call[c].snap[p]
<1>0. /\ CallShape /\ MemShape /\ IsLinks(links) /\ DOMAIN links = LinkNames /\ Shape(call[c])
      /\ p \in LinkNames /\ p \in Owned(call[c].op) /\ call[c].op \in Ops /\ ~Ends(c)
  BY StepRuns, KeptIs DEF TypeInv, IsLinks, Shape, Ends
<1>1. call[c].pc # "publish" /\ (call[c].pc = "puts" => p \in Due(call[c]))
  BY DEF Assigned
<1>2. call'[c].pc = "publish" \/ (call'[c].pc = "puts" /\ p \notin Due(call'[c]))
  BY DEF Assigned, Due
<1>3. /\ Body(call[c].op) = {"public", "pretty"} => Owned(call[c].op) = {"public", "pretty"}
      /\ Body(call[c].op) = {"private", "log"} => Owned(call[c].op) = {"private", "log"}
      /\ Body(call[c].op) = {"private", "shared"} => Owned(call[c].op) = {"private", "shared", "counter"}
  BY <1>0, PartsOf
<1> USE DEF SameSnap, SameWait, SameRest
<1>a. CASE Deny(c) \/ Fail(c) \/ FulfilInDirectory(c) \/ EndCall(c) \/ EndPublish(c)
  BY <1>0, <1>a, Thrown, Returned DEF Deny, Fail, FulfilInDirectory, EndCall, EndPublish, Ends
<1>b. CASE Query(c) \/ Check(c) \/ Fulfil(c) \/ ChangePublic(c) \/ AddIndex(c)
  BY <1>0, <1>2, <1>b, QueryEffect, CheckEffect, FulfilEffect, ChangePublicEffect, AddIndexEffect
<1>c. CASE Atomically(c)
  BY <1>0, <1>1, <1>2, <1>c, AtomicallyEffect DEF Due
<1>d. CASE HistoryStep(c)
  BY <1>0, <1>1, <1>2, <1>d, HistoryStepEffect DEF Due
<1>e. CASE StoreRoot(c)
  <2>1. /\ call[c].w = "stepped" /\ SameRest(c) /\ call'[c].pc = call[c].pc
        /\ call'[c].w = "off" /\ DOMAIN call'[c].snap = DOMAIN call[c].snap \union {"public"}
    BY <1>0, <1>e, StoreRootEffect
  <2>2. Due(call'[c]) = Due(call[c])
    BY <2>1 DEF Due
  <2> QED
    BY <1>1, <1>2, <2>1, <2>2
<1>f. CASE ChangePretty(c)
  <2>1. /\ call[c].pc = "pretty" /\ call'[c].pc = "puts"
        /\ IF wasm THEN call'[c].w = "await" /\ DOMAIN call'[c].snap = {"pretty"}
           ELSE DOMAIN call'[c].snap = {"public", "pretty"}
    BY <1>0, <1>f, ChangePrettyEffect
  <2>2. "public" \in Due(call'[c]) /\ "pretty" \in Due(call'[c])
    BY <2>1 DEF Due
  <2> QED
    BY <1>0, <1>2, <1>3, <2>1, <2>2 DEF Shape
<1>g. CASE ChangePrivate(c)
  <2>1. call[c].pc = "private" /\ call'[c].pc = "puts" /\ DOMAIN call'[c].snap = {"private"} /\ call'[c].next = "log"
    BY <1>0, <1>g, ChangePrivateEffect
  <2>2. "private" \in Due(call'[c]) /\ "log" \in Due(call'[c])
    BY <2>1 DEF Due
  <2> QED
    BY <1>0, <1>2, <1>3, <2>1, <2>2 DEF Shape
<1>h. ASSUME NEW part \in LinkNames, UpdateLink(c, part)
      PROVE  p \in DOMAIN call[c].snap /\ links'[p] = call[c].snap[p]
  <2>1. /\ call[c].pc = "puts" /\ part \in DOMAIN call[c].snap
        /\ SameWait(c) /\ SameRest(c) /\ call'[c].pc = "puts"
        /\ DOMAIN call'[c].snap = DOMAIN call[c].snap \ {part} /\ links'[part] = call[c].snap[part]
    BY <1>0, <1>h, UpdateLinkEffect
  <2>2. p = part
    BY <1>1, <1>2, <2>1 DEF Due
  <2> QED
    BY <2>1, <2>2
<1>i. CASE AddPrivateLogEntry(c)
  <2>1. /\ call[c].pc = "puts" /\ call[c].next = "log" /\ DOMAIN call[c].snap = {} /\ SameWait(c)
        /\ call'[c].pc = "puts" /\ DOMAIN call'[c].snap = {"log"}
    BY <1>0, <1>i, AddPrivateLogEntryEffect
  <2>2. call[c].w = "off"
    BY <1>0, <2>1 DEF Shape
  <2>3. Due(call[c]) = {"log"} /\ "log" \in Due(call'[c])
    BY <2>1, <2>2 DEF Due
  <2> QED
    BY <1>1, <1>2, <2>1, <2>3
<1>j. CASE AddShares(c)
  <2>1. call[c].pc = "index" /\ call'[c].pc = "puts" /\ DOMAIN call'[c].snap = {"shared"} /\ call'[c].next = "bump"
    BY <1>0, <1>j, AddSharesEffect
  <2>2. {"private", "shared", "counter"} \subseteq Due(call'[c])
    BY <2>1 DEF Due
  <2> QED
    BY <1>0, <1>2, <1>3, <2>1, <2>2 DEF Shape
<1>k. CASE BumpSharedCounter(c)
  <2>1. /\ call[c].pc = "puts" /\ call[c].next = "bump" /\ DOMAIN call[c].snap = {}
        /\ call'[c].pc = "puts" /\ DOMAIN call'[c].snap = {"counter"} /\ call'[c].next = "mmpt"
    BY <1>0, <1>k, BumpEffect
  <2>2. call[c].w = "off"
    BY <1>0, <2>1 DEF Shape
  <2>3. Due(call[c]) = {"counter", "private"} /\ {"counter", "private"} \subseteq Due(call'[c])
    BY <2>1, <2>2 DEF Due
  <2> QED
    BY <1>1, <1>2, <2>1, <2>3
<1>l. CASE PutShared(c)
  <2>1. /\ call[c].pc = "puts" /\ call[c].next = "mmpt" /\ DOMAIN call[c].snap = {}
        /\ call'[c].pc = "puts" /\ DOMAIN call'[c].snap = {"private"}
    BY <1>0, <1>l, PutSharedEffect
  <2>2. call[c].w = "off"
    BY <1>0, <2>1 DEF Shape
  <2>3. Due(call[c]) = {"private"} /\ "private" \in Due(call'[c])
    BY <2>1, <2>2 DEF Due
  <2> QED
    BY <1>1, <1>2, <2>1, <2>3
<1>m. CASE BeginPublish(c)
  <2>1. call[c].pc = "puts" /\ call[c].next = "publish" /\ DOMAIN call[c].snap = {} /\ call[c].w = "off"
    BY <1>0, <1>m, BeginPublishEffect
  <2>2. Due(call[c]) = {}
    BY <2>1 DEF Due
  <2> QED
    BY <1>1, <2>1, <2>2
<1> QED
  BY <1>0, <1>a, <1>b, <1>c, <1>d, <1>e, <1>f, <1>g, <1>h, <1>i, <1>j, <1>k, <1>l, <1>m DEF Step

(* When a call has changed a part it had alone, memory has its mark. *)
LEMMA NewlyReached ==
  ASSUME TypeInv, ShapeInv, ClashInv, CountInv, MarkInv, NEW c \in Callers, Step(c), NEW p \in Kept(Mark(c)),
         call'[c] # Rest, Reached(c, p)', ~Reached(c, p)
  PROVE  /\ Marks(InMemory(p)', Mark(c)', p)
         /\ p \in DOMAIN call'[c].snap => call'[c].snap[p] = InMemory(p)' \/ IsTorn(p, call'[c].snap[p])
<1>0. /\ CallShape /\ MemShape /\ IsLinks(links) /\ DOMAIN links = LinkNames /\ Shape(call[c]) /\ Runs(c)
      /\ p \in LinkNames /\ p \in Owned(call[c].op) /\ call[c].op \in Ops /\ ~Ends(c) /\ wasm' = wasm
  BY StepRuns, StepFrame, KeptIs DEF TypeInv, IsLinks, Shape, Ends
<1>1. p # "counter" => p \in Marked(call[c].op) /\ p \notin call[c].clash
  BY <1>0, KeptIs
<1>2. /\ Mark(c)'.id = call[c].id /\ Mark(c)'.with = call[c].op.with /\ Mark(c)'.count = call'[c].count
      /\ call'[c].id = call[c].id /\ call'[c].op = call[c].op
  BY StageStep DEF Goes, Mark
<1>3. /\ Body(call[c].op) = {"public", "pretty"} => Owned(call[c].op) = {"public", "pretty"}
      /\ Body(call[c].op) = {"private", "log"} => Owned(call[c].op) = {"private", "log"}
      /\ Body(call[c].op) = {"private", "shared"} => Owned(call[c].op) = {"private", "shared", "counter"}
  BY <1>0, PartsOf
<1>4. \A v : p \in {"public", "pretty"} /\ call[c].id \in v => Marks(v, Mark(c)', p)
  BY <1>2 DEF Marks
<1>5. \A names : p = "private" /\ call[c].id \in names => Marks(Whole(names), Mark(c)', p)
  BY <1>2 DEF Marks, Whole
<1> USE DEF SameSnap, SameWait, SameRest
<1>a. CASE Deny(c) \/ Fail(c) \/ FulfilInDirectory(c) \/ EndCall(c) \/ EndPublish(c)
  BY <1>0, <1>a, Thrown, Returned DEF Deny, Fail, FulfilInDirectory, EndCall, EndPublish, Ends
<1>b. CASE Query(c)
  BY <1>0, <1>b, QueryEffect DEF Reached
<1>c. CASE Check(c)
  <2>1. p = "public" /\ wasm /\ call[c].op.kind = "links" /\ call[c].op.path.part = "public"
    BY <1>0, <1>c, CheckEffect DEF Reached
  <2> QED
    BY <1>0, <1>1, <2>1, PartsOf
<1>d. CASE Fulfil(c)
  <2>1. call'[c].pc = "pretty" /\ call[c].pc = "public" /\ call[c].w = "pending" /\ DOMAIN call'[c].snap = {}
    BY <1>0, <1>d, FulfilEffect DEF Shape
  <2>2. p = "public" /\ wasm /\ call[c].pin = Len(promise) /\ call[c].pin \in 1..Len(promise)
    BY <1>0, <1>1, <2>1 DEF Reached, Shape, ClashInv
  <2>3. Settle(call[c].pin, promise[call[c].pin].value \union {call[c].id})
    BY <1>d, <2>2, ChangedPromise DEF Fulfil, TypeInv
  <2>4. InMemory(p)' = promise[call[c].pin].value \union {call[c].id}
    BY <1>0, <2>2, <2>3 DEF Settle, InMemory
  <2> QED
    BY <1>4, <2>1, <2>2, <2>4
<1>e. CASE ChangePublic(c)
  <2>1. /\ call'[c].pc = "pretty" /\ DOMAIN call'[c].snap = {} /\ ~wasm
        /\ mem'.public = mem.public \union {call[c].id}
    BY <1>0, <1>e, ChangePublicEffect DEF Shape
  <2>2. p = "public"
    BY <2>1 DEF Reached
  <2> QED
    BY <1>0, <1>4, <2>1, <2>2 DEF InMemory
<1>f. CASE AddIndex(c)
  <2>1. call'[c].pc = "index" /\ DOMAIN call'[c].snap = {} /\ mem'.mmpt = mem.mmpt \union {call[c].id}
    BY <1>0, <1>f, AddIndexEffect DEF Shape
  <2>2. p = "private"
    BY <2>1 DEF Reached
  <2>3. Marks(Whole(mem'.mmpt), Mark(c)', p)
    BY <1>5, <2>1, <2>2
  <2> QED
    BY <2>1, <2>2, <2>3 DEF InMemory
<1>g. CASE Atomically(c)
  <2>1. /\ call[c].w = "await" /\ SameSnap(c) /\ SameRest(c) /\ call'[c].pc = call[c].pc
        /\ call'[c].w = "pending"
    BY <1>0, <1>g, AtomicallyEffect
  <2> QED
    BY <2>1 DEF Due, Reached
<1>h. CASE HistoryStep(c)
  <2>1. /\ call[c].w = "pending" /\ SameSnap(c) /\ SameRest(c) /\ call[c].pc = "puts" /\ call'[c].pc = "puts"
        /\ call'[c].w = "stepped"
    BY <1>0, <1>h, HistoryStepEffect
  <2> QED
    BY <2>1 DEF Due, Reached
<1>i. CASE StoreRoot(c)
  <2>1. /\ call[c].w = "stepped" /\ SameRest(c) /\ call'[c].pc = call[c].pc
        /\ call'[c].w = "off" /\ DOMAIN call'[c].snap = DOMAIN call[c].snap \union {"public"}
    BY <1>0, <1>i, StoreRootEffect
  <2> QED
    BY <2>1 DEF Due, Reached
<1>j. CASE ChangePretty(c)
  <2>1. /\ call[c].pc = "pretty" /\ call'[c].pc = "puts" /\ call'[c].snap["pretty"] = mem'.pretty
        /\ mem'.pretty = IF IsPretty(call[c].op) THEN mem.pretty \union {call[c].id} ELSE mem.pretty
    BY <1>0, <1>j, ChangePrettyEffect
  <2>2. p = "pretty"
    BY <1>0, <1>3, <2>1 DEF Reached, Shape
  <2>3. IsPretty(call[c].op)
    BY <1>0, <1>1, <2>2, PartsOf
  <2> QED
    BY <1>4, <2>1, <2>2, <2>3 DEF InMemory
<1>k. CASE ChangePrivate(c)
  <2>1. /\ call[c].pc = "private" /\ call'[c].pc = "puts" /\ call'[c].next = "log"
        /\ IsPut(call'[c].snap["private"], mem'.mmpt) /\ mem'.mmpt = mem.mmpt \union {call[c].id}
    BY <1>0, <1>k, ChangePrivateEffect
  <2>2. p = "private"
    BY <1>0, <1>3, <2>1 DEF Reached, Shape, Due
  <2>3. Marks(Whole(mem'.mmpt), Mark(c)', p)
    BY <1>5, <2>1, <2>2
  <2> QED
    BY <2>1, <2>2, <2>3 DEF InMemory, IsPut, IsTorn
<1>l. ASSUME NEW part \in LinkNames, UpdateLink(c, part)
      PROVE  /\ Marks(InMemory(p)', Mark(c)', p)
             /\ p \in DOMAIN call'[c].snap => call'[c].snap[p] = InMemory(p)' \/ IsTorn(p, call'[c].snap[p])
  <2>1. /\ call[c].pc = "puts" /\ part \in DOMAIN call[c].snap
        /\ SameWait(c) /\ SameRest(c) /\ call'[c].pc = "puts"
        /\ DOMAIN call'[c].snap = DOMAIN call[c].snap \ {part}
        /\ mem'.log = IF part = "log" THEN call[c].snap["log"] ELSE mem.log
    BY <1>0, <1>l, UpdateLinkEffect
  <2>2. p = "log" /\ part = "log"
    BY <2>1 DEF Reached, Due
  <2>3. Marks(call[c].snap[p], Mark(c), p)
    BY <1>0, <2>1, <2>2 DEF MarkInv
  <2>4. Marks(call[c].snap[p], Mark(c)', p)
    BY <1>2, <2>2, <2>3 DEF Marks, Mark
  <2> QED
    BY <2>1, <2>2, <2>4 DEF InMemory
<1>m. CASE AddPrivateLogEntry(c)
  <2>1. /\ call[c].pc = "puts" /\ call[c].next = "log"
        /\ call'[c].pc = "puts" /\ DOMAIN call'[c].snap = {"log"}
    BY <1>0, <1>m, AddPrivateLogEntryEffect
  <2> QED
    BY <2>1 DEF Reached, Due
<1>n. CASE AddShares(c)
  <2>1. /\ call[c].pc = "index" /\ call'[c].pc = "puts" /\ call'[c].next = "bump"
        /\ call'[c].snap["shared"] = mem'.shares /\ call'[c].count = call[c].count
        /\ mem'.shares = WithShare(mem.shares, ShareOf(c))
    BY <1>0, <1>n, AddSharesEffect
  <2>2. p = "shared"
    BY <1>0, <1>3, <2>1 DEF Reached, Shape
  <2>3. ShareOf(c).with = call[c].op.with /\ ShareOf(c).count = call[c].count /\ ShareOf(c).item = call[c].id
    BY DEF ShareOf
  <2>4. LoadShare(mem'.shares, call[c].op.with, call[c].count) = {call[c].id}
    BY <2>1, <2>3, ShareAdded
  <2> QED
    BY <1>2, <2>1, <2>2, <2>4 DEF InMemory, Marks
<1>o. CASE BumpSharedCounter(c)
  <2>1. /\ call[c].pc = "puts" /\ call[c].next = "bump" /\ call[c].count = call'[c].count
        /\ call'[c].pc = "puts" /\ call'[c].next = "mmpt"
        /\ DOMAIN call[c].snap = {} /\ call'[c].snap["counter"] = mem'.counter /\ mem'.counter = mem.counter + 1
    BY <1>0, <1>o, BumpEffect
  <2>2. p = "counter"
    BY <1>0, <2>1 DEF Reached, Shape, Due
  <2>3. mem.counter \in Nat /\ call[c].count \in Nat /\ call[c].count <= mem.counter
    BY Copied DEF CountInv, InMemory
  <2>4. call[c].count \in 0..(mem'.counter - 1) /\ mem'.counter \in Nat
    BY <2>1, <2>3
  <2> QED
    BY <1>2, <2>1, <2>2, <2>4 DEF InMemory, Marks
<1>p. CASE PutShared(c)
  <2>1. /\ call[c].pc = "puts" /\ call[c].next = "mmpt" /\ DOMAIN call[c].snap = {}
        /\ call'[c].pc = "puts" /\ DOMAIN call'[c].snap = {"private"} /\ call[c].w = "off"
    BY <1>0, <1>p, PutSharedEffect DEF Shape
  <2> QED
    BY <2>1 DEF Reached, Due
<1>q. CASE BeginPublish(c)
  <2>1. call[c].pc = "puts" /\ call[c].next = "publish" /\ DOMAIN call[c].snap = {} /\ call[c].w = "off"
    BY <1>0, <1>q, BeginPublishEffect
  <2> QED
    BY <2>1 DEF Reached, Due
<1> QED
  BY <1>0, <1>a, <1>b, <1>c, <1>d, <1>e, <1>f, <1>g, <1>h, <1>i, <1>j, <1>k, <1>l, <1>m, <1>n, <1>o, <1>p, <1>q
  DEF Step

(* A log that is put stays as it was when addPrivateLogEntry made it. *)
LEMMA LogPut ==
  ASSUME TypeInv, ShapeInv, NEW c \in Callers, Step(c), "log" \in DOMAIN call'[c].snap,
         call'[c].pc = "puts", ~AddPrivateLogEntry(c)
  PROVE  "log" \in DOMAIN call[c].snap /\ call'[c].snap["log"] = call[c].snap["log"]
<1>0. /\ CallShape /\ MemShape /\ IsLinks(links) /\ DOMAIN links = LinkNames /\ Shape(call[c])
      /\ ~Ends(c)
  BY StepRuns DEF TypeInv, IsLinks, Ends, Rest
<1> USE DEF SameSnap
<1>a. CASE Deny(c) \/ Fail(c) \/ FulfilInDirectory(c) \/ EndCall(c) \/ EndPublish(c)
  BY <1>0, <1>a, Thrown, Returned DEF Deny, Fail, FulfilInDirectory, EndCall, EndPublish, Ends
<1>b. CASE Query(c) \/ Check(c) \/ Fulfil(c) \/ ChangePublic(c) \/ AddIndex(c)
  BY <1>0, <1>b, QueryEffect, CheckEffect, FulfilEffect, ChangePublicEffect, AddIndexEffect
<1>c. CASE Atomically(c) \/ HistoryStep(c)
  BY <1>0, <1>c, AtomicallyEffect, HistoryStepEffect
<1>g. CASE StoreRoot(c)
  <2>1. /\ DOMAIN call'[c].snap = DOMAIN call[c].snap \union {"public"}
        /\ \A q \in DOMAIN call[c].snap \ {"public"} : call'[c].snap[q] = call[c].snap[q]
    BY <1>0, <1>g, StoreRootEffect
  <2> QED
    BY <2>1
<1>d. CASE ChangePretty(c) \/ ChangePrivate(c) \/ AddShares(c)
  <2>1. DOMAIN call'[c].snap \in {{"pretty"}, {"public", "pretty"}, {"private"}, {"shared"}}
    BY <1>0, <1>d, ChangePrettyEffect, ChangePrivateEffect, AddSharesEffect
  <2> QED
    BY <2>1
<1>e. ASSUME NEW part \in LinkNames, UpdateLink(c, part)
      PROVE  "log" \in DOMAIN call[c].snap /\ call'[c].snap["log"] = call[c].snap["log"]
  BY <1>0, <1>e, UpdateLinkEffect
<1>f. CASE BumpSharedCounter(c) \/ PutShared(c) \/ BeginPublish(c)
  BY <1>0, <1>f, BumpEffect, PutSharedEffect, BeginPublishEffect
<1> QED
  BY <1>0, <1>a, <1>b, <1>c, <1>d, <1>e, <1>f, <1>g DEF Step

(* What a call has put is marked. *)
LEMMA PutsMarked ==
  ASSUME TypeInv, ShapeInv, LogInv, MarkInv, NEW c \in Callers, Step(c), NEW p \in Kept(Mark(c)),
         p \in DOMAIN call'[c].snap, call'[c] # Rest, ~Reached(c, p)'
  PROVE  Marks(call'[c].snap[p], Mark(c), p)
<1>0. /\ CallShape /\ Runs(c) /\ Shape(call[c]) /\ Shape(call[c])' /\ p \in LinkNames
      /\ calls \in Nat /\ Mark(c).id = call[c].id
  BY StepRuns, StageStep, KeptIs, FileSystemAssumption DEF TypeInv, Mark
<1>1. call'[c].pc = "puts" /\ p = "log"
  BY <1>0 DEF Shape, Reached
<1>2. CASE AddPrivateLogEntry(c)
  <2>1. /\ call[c].pc = "puts" /\ call[c].next = "log"
        /\ call'[c].snap["log"] = WithEntry(mem.log, call[c].id)
    BY <1>0, <1>2, AddPrivateLogEntryEffect
  <2>2. mem.log \in Copies("log")
    BY Copied DEF InMemory
  <2>3. GoodLog(mem.log) /\ ChunksOf(mem.log, call[c].id) = {}
    BY <1>0, <2>1, <2>2 DEF LogInv, IsLogged
  <2>4. call[c].id \in 1..calls
    BY <1>0 DEF Shape
  <2>5. \E i \in 1..Len(call'[c].snap["log"]) : ChunksOf(call'[c].snap["log"], call[c].id) = {i}
    BY <1>0, <2>1, <2>3, <2>4, EntryAdded
  <2> QED
    BY <1>0, <1>1, <2>5 DEF Marks
<1>3. CASE ~AddPrivateLogEntry(c)
  BY <1>0, <1>1, <1>3, LogPut DEF MarkInv
<1> QED
  BY <1>2, <1>3

(* The marks of the call that steps. *)
LEMMA OwnMark ==
  ASSUME TypeInv, ShapeInv, ClashInv, LogInv, CountInv, MarkInv, NEW c \in Callers, Step(c),
         NEW p \in Kept(Mark(c)), call'[c] # Rest
  PROVE  /\ Reached(c, p)' => \A v \in Copies(p)' : Marks(v, Mark(c)', p)
         /\ Assigned(c, p)' => Marks(links'[p], Mark(c)', p)
         /\ p \in DOMAIN call'[c].snap => Marks(call'[c].snap[p], Mark(c)', p)
<1>0. /\ Runs(c) /\ Shape(call[c]) /\ Shape(call[c])' /\ p \in LinkNames /\ Goes(c)
      /\ call'[c].op = call[c].op /\ call'[c].id = call[c].id
  BY StepRuns, StageStep, KeptIs DEF Goes
<1>1. ASSUME NEW v, Marks(v, Mark(c), p), call'[c].pc = "index" => p = "private"
      PROVE  Marks(v, Mark(c)', p)
  <2>1. /\ Mark(c)'.id = Mark(c).id /\ Mark(c)'.with = Mark(c).with
        /\ call'[c].count = call[c].count => Mark(c)'.count = Mark(c).count
    BY <1>0 DEF Mark
  <2>2. CASE call'[c].pc = "index"
    BY <1>1, <2>1, <2>2 DEF Marks
  <2>3. CASE call'[c].pc # "index"
    BY <1>1, <2>1, <2>3, CountFlow, SameMark
  <2> QED
    BY <2>2, <2>3
<1>2. Reached(c, p)' => \A v \in Copies(p)' : Marks(v, Mark(c)', p)
  <2>1. CASE Reached(c, p)' /\ Reached(c, p)
    <3>1. \A v \in Copies(p)' : Marks(v, Mark(c), p)
      BY <1>0, <2>1, OwnRemembered DEF MarkInv
    <3> QED
      BY <1>1, <2>1, <3>1 DEF Reached
  <2>2. CASE Reached(c, p)' /\ ~Reached(c, p)
    <3>1. /\ Marks(InMemory(p)', Mark(c)', p)
          /\ p \in DOMAIN call'[c].snap => call'[c].snap[p] = InMemory(p)' \/ IsTorn(p, call'[c].snap[p])
      BY <2>2, NewlyReached
    <3>2. ~(p = "counter" /\ call'[c].pc = "index")
      BY <2>2 DEF Reached
    <3>3. \A v : IsTorn(p, v) => Marks(v, Mark(c)', p)
      BY DEF IsTorn, Marks
    <3> QED
      BY <3>1, <3>2, <3>3, OwnCopies
  <2> QED
    BY <2>1, <2>2
<1>3. Assigned(c, p)' => Marks(links'[p], Mark(c)', p)
  <2>1. p \in DOMAIN call[c].snap => Marks(call[c].snap[p], Mark(c), p)
    BY <1>0 DEF MarkInv
  <2>2. Assigned(c, p) => Marks(links[p], Mark(c), p)
    BY <1>0 DEF MarkInv
  <2>3. Assigned(c, p)' => Marks(links'[p], Mark(c), p)
    BY <1>0, <2>1, <2>2, LinkFlow, NewlyAssigned DEF Holds
  <2> QED
    BY <1>1, <2>3 DEF Assigned
<1>4. ASSUME p \in DOMAIN call'[c].snap PROVE Marks(call'[c].snap[p], Mark(c)', p)
  <2>1. call'[c].pc # "index"
    BY <1>0, <1>4 DEF Shape
  <2>2. CASE call'[c].pc = "publish"
    <3>1. CASE BeginPublish(c)
      <4>1. call[c].pc = "puts" /\ call[c].next = "publish" /\ DOMAIN call[c].snap = {} /\ call[c].w = "off"
        BY <1>0, <3>1, BeginPublishEffect DEF TypeInv
      <4>2. Due(call[c]) = {}
        BY <4>1 DEF Due
      <4>3. Marks(links[p], Mark(c), p)
        BY <1>0, <4>1, <4>2 DEF MarkInv, Assigned
      <4>4. call'[c].snap = links
        BY <2>2, <4>1, PublishFlow
      <4> QED
        BY <1>1, <2>1, <4>3, <4>4
    <3>2. CASE ~BeginPublish(c)
      <4>1. call'[c].snap = call[c].snap
        BY <2>2, <3>2, PublishFlow
      <4>2. Marks(call[c].snap[p], Mark(c), p)
        BY <1>0, <1>4, <4>1 DEF MarkInv
      <4> QED
        BY <1>1, <2>1, <4>1, <4>2
    <3> QED
      BY <3>1, <3>2
  <2>3. CASE call'[c].pc # "publish"
    <3>1. CASE Reached(c, p)'
      <4>1. Holds(c, p)'
        BY <1>4, <2>3 DEF Holds
      <4>2. call'[c].snap[p] \in Copies(p)'
        BY <4>1 DEF Copies
      <4> QED
        BY <1>2, <3>1, <4>2
    <3>2. CASE ~Reached(c, p)'
      BY <1>1, <1>4, <2>1, <3>2, PutsMarked
    <3> QED
      BY <3>1, <3>2
  <2> QED
    BY <2>2, <2>3
<1> QED
  BY <1>2, <1>3, <1>4

LEMMA AssignedReached ==
  ASSUME NEW c, NEW p, Assigned(c, p)
  PROVE  Reached(c, p)
BY DEF Assigned, Reached, Due

(* A call that does not step has the mark it had. *)
LEMMA MarkOfOthers ==
  ASSUME NEW d \in Callers, call'[d] = call[d], wasm' = wasm
  PROVE  /\ Mark(d)' = Mark(d) /\ Kept(Mark(d))' = Kept(Mark(d))
         /\ \A p : (Reached(d, p)' <=> Reached(d, p)) /\ (Assigned(d, p)' <=> Assigned(d, p))
<1>1. Mark(d)' = Mark(d)
  BY DEF Mark, Marked, Parts, Unmarked
<1>2. Kept(Mark(d))' = Kept(Mark(d))
  BY <1>1 DEF Kept
<1>3. Due(call[d])' = Due(call[d])
  BY DEF Due
<1>4. \A p : (Reached(d, p)' <=> Reached(d, p)) /\ (Assigned(d, p)' <=> Assigned(d, p))
  BY <1>3 DEF Reached, Assigned
<1> QED
  BY <1>1, <1>2, <1>4

(* A call that makes a share at the same time as another knows of it. *)
LEMMA ShareAlone ==
  ASSUME TypeInv, ShapeInv, ClashInv, NEW c \in Callers, AddShares(c), NEW d \in Callers, d # c, Runs(d)
  PROVE  "shared" \notin Kept(Mark(d))
<1>1. Step(c)
  BY DEF Step
<1>2. call[c].pc = "index" /\ Runs(c) /\ Shape(call[c])
  BY <1>1, StepRuns DEF AddShares
<1>3. "shared" \in Parts(call[c].op)
  BY <1>2 DEF Shape, Body
<1>4. "shared" \in Kept(Mark(d)) => "shared" \in Parts(call[d].op) /\ "shared" \notin call[d].clash
  BY KeptIs
<1> QED
  BY <1>2, <1>3, <1>4 DEF ClashInv

LEMMA OtherMark ==
  ASSUME TypeInv, ShapeInv, ClashInv, LogInv, MarkInv, NEW c \in Callers, Step(c),
         NEW d \in Callers, d # c, Runs(d), NEW p \in Kept(Mark(d))
  PROVE  /\ Reached(d, p) => \A v \in Copies(p)' : Marks(v, Mark(d), p)
         /\ Assigned(d, p) => Marks(links'[p], Mark(d), p)
<1>1. SUFFICES ASSUME Reached(d, p)
      PROVE  /\ \A v \in Copies(p)' : Marks(v, Mark(d), p)
             /\ Assigned(d, p) => Marks(links'[p], Mark(d), p)
  BY AssignedReached
<1>2. /\ Remembered(Mark(d), p)
      /\ Assigned(d, p) => Marks(links[p], Mark(d), p)
  BY <1>1 DEF MarkInv
<1>3. Mark(d).id # call[c].id /\ p \in LinkNames
  BY StepRuns, KeptIs DEF ClashInv, Mark
<1>4. p = "shared" => ~AddShares(c)
  BY ShareAlone
<1> QED
  BY <1>2, <1>3, <1>4, RememberedStep

LEMMA MarkStep ==
  ASSUME TypeInv, ShapeInv, ClashInv, LogInv, CountInv, MarkInv, NEW c \in Callers, Step(c)
  PROVE  MarkInv'
<1>0. Only(c) /\ wasm' = wasm
  BY StageStep, StepFrame
<1>1. ASSUME NEW d \in Callers, d # c, Runs(d)', NEW p \in Kept(Mark(d))'
      PROVE  /\ Reached(d, p)' => Remembered(Mark(d), p)'
             /\ Assigned(d, p)' => Marks(links[p], Mark(d), p)'
             /\ p \in DOMAIN call'[d].snap => Marks(call[d].snap[p], Mark(d), p)'
  <2>1. call'[d] = call[d] /\ Runs(d)
    BY <1>0, <1>1 DEF Only, Runs
  <2>2. /\ Mark(d)' = Mark(d) /\ p \in Kept(Mark(d))
        /\ Reached(d, p)' <=> Reached(d, p)
        /\ Assigned(d, p)' <=> Assigned(d, p)
    BY <1>0, <1>1, <2>1, MarkOfOthers
  <2>3. /\ Reached(d, p) => \A v \in Copies(p)' : Marks(v, Mark(d), p)
        /\ Assigned(d, p) => Marks(links'[p], Mark(d), p)
    BY <1>1, <2>1, <2>2, OtherMark
  <2>4. p \in DOMAIN call[d].snap => Marks(call[d].snap[p], Mark(d), p)
    BY <2>1, <2>2 DEF MarkInv
  <2>5. Remembered(Mark(d), p)' <=> \A v \in Copies(p)' : Marks(v, Mark(d), p)
    BY <2>2 DEF Remembered, Marks
  <2>6. \A v : Marks(v, Mark(d), p)' <=> Marks(v, Mark(d), p)
    BY <2>2 DEF Marks
  <2> QED
    BY <2>1, <2>2, <2>3, <2>4, <2>5, <2>6
<1>2. ASSUME Runs(c)', NEW p \in Kept(Mark(c))'
      PROVE  /\ Reached(c, p)' => Remembered(Mark(c), p)'
             /\ Assigned(c, p)' => Marks(links[p], Mark(c), p)'
             /\ p \in DOMAIN call'[c].snap => Marks(call[c].snap[p], Mark(c), p)'
  <2>1. call'[c] # Rest /\ Goes(c)
    BY <1>2, StageStep DEF Runs, Rest
  <2>2. p \in Kept(Mark(c))
    <3>1. Marked(call[c].op)' = Marked(call[c].op) /\ call'[c].clash = call[c].clash
      BY <1>0, <2>1, SameOp DEF Goes
    <3>2. Mark(c)'.parts = Mark(c).parts
      BY <3>1 DEF Mark
    <3> QED
      BY <1>2, <3>2 DEF Kept
  <2>3. /\ Reached(c, p)' => \A v \in Copies(p)' : Marks(v, Mark(c)', p)
        /\ Assigned(c, p)' => Marks(links'[p], Mark(c)', p)
        /\ p \in DOMAIN call'[c].snap => Marks(call'[c].snap[p], Mark(c)', p)
    BY <2>1, <2>2, OwnMark
  <2> QED
    BY <2>3 DEF Remembered
<1> QED
  BY <1>1, <1>2 DEF MarkInv

(* A call that begins takes parts from others, and has changed none. *)
LEMMA BeginMark ==
  ASSUME TypeInv, ShapeInv, MarkInv, NEW c \in Callers, NEW op \in Ops, Begin(c, op)
  PROVE  MarkInv'
<1>0. CallShape /\ wasm' = wasm /\ links' = links
  BY DEF TypeInv, Begin
<1>a. /\ call'[c].snap = << >> /\ \A d \in Callers : d # c => Stays(d) /\ Meets(d, op)
      /\ call'[c].pc = "step" \/ call'[c].pc = "child" \/ call'[c].pc = "query" \/ call'[c].pc = "check"
  BY <1>0, BeginEffect
<1>1. /\ DOMAIN call'[c].snap = {} /\ call'[c].pc \in {"step", "child", "query", "check"}
      /\ \A d \in Callers : d # c => Stays(d) /\ Meets(d, op)
  BY <1>a
<1>2. ASSUME NEW d \in Callers, d # c, Runs(d)', NEW p \in Kept(Mark(d))'
      PROVE  /\ Reached(d, p)' => Remembered(Mark(d), p)'
             /\ Assigned(d, p)' => Marks(links[p], Mark(d), p)'
             /\ p \in DOMAIN call'[d].snap => Marks(call[d].snap[p], Mark(d), p)'
  <2>1. /\ Runs(d) /\ call'[d].op = call[d].op /\ call'[d].pc = call[d].pc /\ call'[d].snap = call[d].snap
        /\ call'[d].next = call[d].next /\ call'[d].w = call[d].w
        /\ call'[d].id = call[d].id /\ call'[d].count = call[d].count
        /\ call[d].clash \subseteq call'[d].clash
    BY <1>1, <1>2 DEF Stays, SameSnap, SameWait, SameRest, Meets, Runs
  <2>2. p \in Kept(Mark(d))
    <3>1. Marked(call[d].op)' = Marked(call[d].op)
      BY <1>0, <2>1 DEF Marked, Parts, Unmarked
    <3>2. Mark(d)'.parts \subseteq Mark(d).parts
      BY <2>1, <3>1 DEF Mark
    <3> QED
      BY <1>2, <3>2 DEF Kept
  <2>3. Mark(d)'.id = Mark(d).id /\ Mark(d)'.with = Mark(d).with /\ Mark(d)'.count = Mark(d).count
    BY <2>1 DEF Mark
  <2>4. (Reached(d, p)' <=> Reached(d, p)) /\ (Assigned(d, p)' <=> Assigned(d, p))
    <3>1. Due(call[d])' = Due(call[d])
      BY <2>1 DEF Due
    <3> QED
      BY <2>1, <3>1 DEF Reached, Assigned
  <2>5. \A v : Marks(v, Mark(d), p) => Marks(v, Mark(d), p)'
    <3>1. \A v : Marks(v, Mark(d), p) => Marks(v, Mark(d)', p)
      BY <2>3 DEF Marks
    <3> QED
      BY <3>1 DEF Marks
  <2>6. Remembered(Mark(d), p) => Remembered(Mark(d), p)'
    <3>1. \A v \in Copies(p)' : v \in Copies(p)
      BY BeginCopies
    <3>2. Remembered(Mark(d), p) => \A v \in Copies(p)' : Marks(v, Mark(d), p)'
      BY <2>5, <3>1 DEF Remembered
    <3> QED
      BY <3>2 DEF Remembered, Marks
  <2>7. /\ Reached(d, p) => Remembered(Mark(d), p)
        /\ Assigned(d, p) => Marks(links[p], Mark(d), p)
        /\ p \in DOMAIN call[d].snap => Marks(call[d].snap[p], Mark(d), p)
    BY <2>1, <2>2 DEF MarkInv
  <2>8. /\ Assigned(d, p)' => Marks(links[p], Mark(d), p)'
    <3>1. Assigned(d, p) => Marks(links'[p], Mark(d), p)
      BY <1>0, <2>7
    <3> QED
      BY <2>3, <2>4, <3>1 DEF Marks
  <2>9. p \in DOMAIN call'[d].snap => Marks(call[d].snap[p], Mark(d), p)'
    BY <2>1, <2>3, <2>7 DEF Marks
  <2> QED
    BY <2>4, <2>6, <2>7, <2>8, <2>9
<1>3. \A p : ~Reached(c, p)' /\ ~Assigned(c, p)'
  BY <1>1 DEF Reached, Assigned
<1> QED
  BY <1>1, <1>2, <1>3 DEF MarkInv

LEMMA ReloadMark ==
  ASSUME Reload
  PROVE  MarkInv'
BY DEF Reload, MarkInv, Runs, Rest

LEMMA InitMark ==
  ASSUME Init
  PROVE  MarkInv
BY DEF Init, MarkInv, Runs, Rest

-----------------------------------------------------------------------------
(* WHAT RETURNED *)

LEMMA SafeThen ==
  ASSUME NEW r, NEW p,
         \A v \in Copies(p)' : Marks(v, r, p),
         Marks(links'[p], r, p),
         "root" \in r.parts =>
           /\ Marks(published'[p], r, p)
           /\ \A d \in Callers : call'[d].pc = "publish" => Marks(call'[d].snap[p], r, p)
  PROVE  Safe(r, p)'
BY DEF Safe, Remembered, Marks

(* A share that is being made has another key than those that were made. *)
LEMMA NewKey ==
  ASSUME DoneInv, NEW c \in Callers, AddShares(c), NEW r \in done, "shared" \in r.parts
  PROVE  r.count # call[c].count
<1>1. "counter" \in Kept(r)
  BY DEF Kept
<1>2. Remembered(r, "counter")
  BY <1>1 DEF DoneInv, Safe
<1>3. call[c].count \in Copies("counter")
  BY Copied DEF AddShares
<1>4. call[c].count \in Nat /\ r.count \in 0..(call[c].count - 1)
  BY <1>2, <1>3 DEF Remembered, Marks
<1> QED
  BY <1>4

(* What returned before the step. *)
LEMMA SafeStep ==
  ASSUME TypeInv, ShapeInv, ClashInv, LogInv, DoneInv, NEW c \in Callers, Step(c),
         NEW r \in done, NEW p \in Kept(r)
  PROVE  Safe(r, p)'
<1>0. r.id # call[c].id /\ p \in LinkNames /\ Safe(r, p)
  BY StepRuns DEF ClashInv, DoneInv, HasLinks
<1>1. p = "shared" /\ AddShares(c) => r.with # call[c].op.with \/ r.count # call[c].count
  BY NewKey DEF Kept
<1>2. (\A v \in Copies(p)' : Marks(v, r, p)) /\ Marks(links'[p], r, p)
  BY <1>0, <1>1, RememberedStep DEF Safe
<1>3. ASSUME "root" \in r.parts
      PROVE  /\ Marks(published'[p], r, p)
             /\ \A d \in Callers : call'[d].pc = "publish" => Marks(call'[d].snap[p], r, p)
  <2>1. /\ Marks(links[p], r, p) /\ Marks(published[p], r, p)
        /\ \A d \in Callers : call[d].pc = "publish" => Marks(call[d].snap[p], r, p)
    BY <1>0, <1>3 DEF Safe
  <2> QED
    BY <2>1, PublishFlow
<1> QED
  BY <1>2, <1>3, SafeThen

(* The steps at which a call returns. *)
LEMMA ReturnStep ==
  ASSUME TypeInv, NEW c \in Callers, Step(c), done' # done
  PROVE  EndCall(c) \/ EndPublish(c) \/ (HistoryStep(c) /\ call[c].pc = "step")
BY DEF Step, Deny, Query, Check, Fail, Atomically, Fulfil, FulfilInDirectory, HistoryStep, StoreRoot,
      ChangePublic, ChangePretty, ChangePrivate, UpdateLink, AddPrivateLogEntry, AddIndex,
      AddShares, BumpSharedCounter, PutShared, BeginPublish, Changed, Inside

(* By then all its links have been assigned, and published if it publishes alone. *)
LEMMA SafeReturn ==
  ASSUME TypeInv, ShapeInv, ClashInv, ProofInv, MarkInv, NEW c \in Callers, Step(c), done' # done,
         NEW p \in Kept(Mark(c)), NEW m, m = Mark(c)
  PROVE  Safe(m, p)'
<1>0. /\ Runs(c) /\ Shape(call[c]) /\ p \in LinkNames /\ CallShape
      /\ p # "counter" => p \in Marked(call[c].op)
      /\ p = "counter" => "shared" \in Kept(Mark(c))
      /\ "root" \in Mark(c).parts => "root" \in Parts(call[c].op) /\ "root" \notin call[c].clash
      /\ call[c].op \in Ops
  <2>1. Runs(c) /\ Shape(call[c]) /\ call[c].op \in Ops
    BY StepRuns DEF Shape
  <2>2. Marked(call[c].op) \subseteq Parts(call[c].op)
    BY <2>1, PartsOf
  <2> QED
    BY <2>1, <2>2, KeptIs DEF TypeInv, Mark
<1>1. ~(HistoryStep(c) /\ call[c].pc = "step")
  <2>1. call[c].pc = "step" => Marked(call[c].op) \subseteq {"root"}
    BY <1>0 DEF Shape
  <2>2. call[c].pc = "step" => Kept(Mark(c)) = {}
    BY <2>1 DEF Kept, Mark
  <2> QED
    BY <2>2
<1>2. (EndCall(c) \/ EndPublish(c)) /\ links' = links
  BY <1>1, ReturnStep DEF EndCall, EndPublish
<1>3. Assigned(c, p)
  <2>1. CASE EndCall(c)
    <3>1. /\ call[c].pc = "puts" /\ call[c].w = "off" /\ call[c].next = "return"
          /\ DOMAIN call[c].snap = {}
      BY <2>1 DEF EndCall
    <3> QED
      BY <3>1 DEF Assigned, Due
  <2>2. CASE EndPublish(c)
    BY <2>2 DEF EndPublish, Assigned
  <2> QED
    BY <1>2, <2>1, <2>2
<1>4. Reached(c, p)
  BY <1>3, AssignedReached
<1>5. /\ \A v \in Copies(p)' : Marks(v, Mark(c), p)
      /\ Marks(links'[p], Mark(c), p)
  BY <1>0, <1>2, <1>3, <1>4, OwnRemembered DEF MarkInv
<1>6. ASSUME "root" \in Mark(c).parts
      PROVE  /\ Marks(published'[p], Mark(c), p)
             /\ \A d \in Callers : call'[d].pc = "publish" => Marks(call'[d].snap[p], Mark(c), p)
  <2>1. call[c].op.publish
    BY <1>0, <1>6, PartsOf DEF Body
  <2>2. EndPublish(c) /\ call[c].pc = "publish"
    BY <1>0, <1>2, <2>1 DEF EndCall, EndPublish, Shape
  <2>3. call[c].took
    BY <1>0, <1>6, <2>1, <2>2 DEF ProofInv
  <2>4. published' = call[c].snap
    BY <2>2, <2>3 DEF EndPublish
  <2>5. DOMAIN call[c].snap = LinkNames
    BY <1>0, <2>2 DEF Shape, IsLinks
  <2>6. Marks(call[c].snap[p], Mark(c), p)
    BY <1>0, <2>5 DEF MarkInv
  <2>7. ASSUME NEW d \in Callers, call'[d].pc = "publish"
        PROVE  FALSE
    <3>1. call'[c].pc # "publish"
      BY <1>0, <2>2, Returned DEF EndPublish, Ends, Rest
    <3>2. d # c /\ call[d].pc = "publish"
      BY <2>7, <3>1, PublishFlow
    <3>3. Shape(call[d]) /\ Runs(d)
      BY <3>2 DEF ShapeInv, Runs
    <3>4. call[d].op.publish /\ call[d].op \in Ops
      BY <3>2, <3>3 DEF Shape
    <3>5. "root" \in Parts(call[d].op)
      BY <3>4 DEF Parts
    <3> QED
      BY <1>0, <1>6, <3>2, <3>3, <3>5 DEF ClashInv
  <2> QED
    BY <2>4, <2>6, <2>7
<1> QED
  <2>1. /\ \A v \in Copies(p)' : Marks(v, m, p)
        /\ Marks(links'[p], m, p)
    BY <1>5
  <2>2. ASSUME "root" \in m.parts
        PROVE  /\ Marks(published'[p], m, p)
               /\ \A d \in Callers : call'[d].pc = "publish" => Marks(call'[d].snap[p], m, p)
    BY <1>6, <2>2
  <2> QED
    BY <2>1, <2>2, SafeThen

LEMMA DoneInvStep ==
  ASSUME TypeInv, ShapeInv, ClashInv, ProofInv, LogInv, MarkInv, DoneInv, NEW c \in Callers, Step(c)
  PROVE  DoneInv'
<1> SUFFICES ASSUME NEW r \in done'
             PROVE  HasLinks(r) /\ \A p \in Kept(r) : Safe(r, p)'
  BY DEF DoneInv, HasLinks, Kept
<1>1. CASE r \in done
  BY <1>1, SafeStep DEF DoneInv
<1>2. CASE r \notin done
  <2>1. done' # done /\ r = Mark(c)
    BY <1>2, DoneStep
  <2>2. Runs(c)
    BY StepRuns
  <2>3. \A p \in Kept(r) : p \in LinkNames /\ Safe(r, p)'
    BY <2>1, <2>2, KeptIs, SafeReturn
  <2>4. call[c].op \in Ops
    BY StepRuns DEF Shape
  <2>5. "counter" \notin Marked(call[c].op)
    BY <2>4, PartsOf
  <2>6. "counter" \notin r.parts
    BY <2>1, <2>5 DEF Mark
  <2>7. IsDone(r)
    BY <2>1 DEF Mark, IsDone
  <2> QED
    BY <2>3, <2>6, <2>7 DEF HasLinks
<1> QED
  BY <1>1, <1>2

LEMMA BeginDone ==
  ASSUME TypeInv, DoneInv, NEW c \in Callers, NEW op \in Ops, Begin(c, op)
  PROVE  DoneInv'
<1>0. CallShape /\ done' = done /\ links' = links /\ published' = published
  BY DEF TypeInv, Begin
<1>1. call'[c].pc # "publish" /\ \A d \in Callers : d # c => Stays(d)
  BY <1>0, BeginEffect
<1> SUFFICES ASSUME NEW r \in done
             PROVE  HasLinks(r) /\ \A p \in Kept(r) : Safe(r, p)'
  BY <1>0 DEF DoneInv, HasLinks, Kept
<1>2. ASSUME NEW p \in Kept(r) PROVE Safe(r, p)'
  <2>1. Safe(r, p)
    BY <1>2 DEF DoneInv
  <2>2. (\A v \in Copies(p)' : Marks(v, r, p)) /\ Marks(links'[p], r, p)
    BY <1>0, <2>1, BeginCopies DEF Safe, Remembered
  <2>3. ASSUME "root" \in r.parts
        PROVE  /\ Marks(published'[p], r, p)
               /\ \A d \in Callers : call'[d].pc = "publish" => Marks(call'[d].snap[p], r, p)
    BY <1>0, <1>1, <2>1, <2>3 DEF Safe, Stays, SameSnap
  <2> QED
    BY <2>2, <2>3, SafeThen
<1> QED
  BY <1>2 DEF DoneInv

LEMMA LeftIs ==
  ASSUME NEW s, IsDone(s), NEW r, r = Left(s)
  PROVE  /\ IsDone(r) /\ r.id = s.id /\ r.with = s.with /\ r.count = s.count
         /\ r.parts = s.parts \ IF published.private.torn THEN {"private"} ELSE {}
<1> DEFINE parts == s.parts \ IF published.private.torn THEN {"private"} ELSE {}
<1>1. r = [s EXCEPT !.parts = parts]
  BY DEF Left
<1> HIDE DEF parts
<1>2. r = [id |-> s.id, parts |-> parts, with |-> s.with, count |-> s.count]
  BY <1>1 DEF IsDone
<1> QED
  BY <1>2 DEF IsDone, parts

(* After a reload memory and links are what was published. *)
LEMMA ReloadDone ==
  ASSUME TypeInv, DoneInv, Reload
  PROVE  DoneInv'
<1>0. /\ links' = published /\ published' = published /\ \A d \in Callers : call'[d].pc = "rest"
      /\ done' = {Left(s) : s \in {t \in done : "root" \in t.parts}}
  BY DEF Reload, Rest
<1> SUFFICES ASSUME NEW r \in done'
             PROVE  HasLinks(r) /\ \A p \in Kept(r) : Safe(r, p)'
  BY DEF DoneInv, HasLinks, Kept
<1>a. PICK s \in done : "root" \in s.parts /\ r = Left(s)
  BY <1>0
<1>b. HasLinks(s) /\ \A p \in Kept(s) : Safe(s, p)
  BY DEF DoneInv
<1>c. /\ IsDone(r) /\ r.id = s.id /\ r.with = s.with /\ r.count = s.count
      /\ r.parts = s.parts \ IF published.private.torn THEN {"private"} ELSE {}
  BY <1>a, <1>b, LeftIs DEF HasLinks
<1>1. HasLinks(r) /\ Kept(r) \subseteq Kept(s) /\ ("private" \in Kept(r) => ~published.private.torn)
  BY <1>b, <1>c DEF HasLinks, Kept
<1>2. ASSUME NEW p \in Kept(r) PROVE Safe(r, p)'
  <2>0. p \in Kept(s) /\ p \in LinkNames
    BY <1>1, <1>2 DEF HasLinks
  <2>1. Marks(published[p], r, p)
    <3>1. Marks(published[p], s, p)
      BY <1>a, <1>b, <2>0 DEF Safe
    <3> QED
      BY <1>c, <3>1, SameMark
  <2>2. p = "counter" => published[p] # None
    BY <2>1, FileSystemAssumption DEF Marks
  <2>3. \A v \in Copies(p)' : Marks(v, r, p)
    <3>1. CASE p = "private"
      <4>1. \A v \in Copies(p)' : v = Whole(published.private.names)
        BY <2>0, <3>1, ReloadCopies
      <4>2. r.id \in published.private.names
        BY <1>1, <1>2, <2>1, <3>1 DEF Marks
      <4> QED
        BY <3>1, <4>1, <4>2 DEF Marks, Whole
    <3>2. CASE p # "private"
      <4>1. \A v \in Copies(p)' : v = published[p]
        BY <2>0, <2>2, <3>2, ReloadCopies
      <4> QED
        BY <2>1, <4>1
    <3> QED
      BY <3>1, <3>2
  <2> QED
    BY <1>0, <2>1, <2>3, SafeThen
<1> QED
  BY <1>1, <1>2

LEMMA InitDone ==
  ASSUME Init
  PROVE  DoneInv
BY DEF Init, DoneInv

-----------------------------------------------------------------------------
(* THE BOUND OF THE COUNTER *)

LEMMA StaysBumped ==
  ASSUME TypeInv, ShapeInv, NEW c \in Callers, Step(c), IsBumped(call[c]) \/ BumpSharedCounter(c)
  PROVE  call'[c] = Rest \/ IsBumped(call'[c])
<1>0. CallShape /\ MemShape /\ IsLinks(links) /\ DOMAIN links = LinkNames /\ Shape(call[c])
  BY StepRuns DEF TypeInv, IsLinks
<1>1. Ends(c) => call'[c] = Rest
  BY DEF Ends
<1> USE DEF SameRest
<1>f. CASE BumpSharedCounter(c) \/ PutShared(c)
  BY <1>0, <1>f, BumpEffect, PutSharedEffect DEF IsBumped
<1>2. CASE ~BumpSharedCounter(c)
  <2>0. call[c].pc \in {"puts", "publish"} /\ (call[c].pc = "puts" => call[c].next # "bump")
    BY <1>2 DEF IsBumped
  <2>a. CASE Deny(c) \/ Fail(c) \/ FulfilInDirectory(c) \/ EndCall(c) \/ EndPublish(c)
    BY <1>0, <1>1, <2>a, Thrown, Returned DEF Deny, Fail, FulfilInDirectory, EndCall, EndPublish, Ends
  <2>b. CASE Query(c) \/ Check(c) \/ Fulfil(c) \/ ChangePublic(c) \/ AddIndex(c)
    BY <1>0, <1>1, <2>0, <2>b, QueryEffect, CheckEffect, FulfilEffect, ChangePublicEffect, AddIndexEffect
  <2>c. CASE Atomically(c) \/ HistoryStep(c) \/ StoreRoot(c)
    BY <1>0, <1>1, <2>0, <2>c, AtomicallyEffect, HistoryStepEffect, StoreRootEffect DEF IsBumped
  <2>d. CASE ChangePretty(c) \/ ChangePrivate(c) \/ AddPrivateLogEntry(c) \/ AddShares(c)
    BY <1>0, <2>0, <2>d, ChangePrettyEffect, ChangePrivateEffect, AddPrivateLogEntryEffect, AddSharesEffect
    DEF IsBumped
  <2>e. ASSUME NEW part \in LinkNames, UpdateLink(c, part) PROVE IsBumped(call'[c])
    BY <1>0, <2>0, <2>e, UpdateLinkEffect DEF IsBumped
  <2>g. CASE BeginPublish(c)
    BY <1>0, <2>g, BeginPublishEffect DEF IsBumped
  <2> QED
    BY <1>0, <1>2, <1>f, <2>a, <2>b, <2>c, <2>d, <2>e, <2>g DEF Step
<1> QED
  BY <1>2, <1>f

LEMMA UnbumpedIs ==
  ASSUME ShapeInv, calls \in Nat
  PROVE  Unbumped \subseteq 1..calls /\ IsFiniteSet(Unbumped) /\ Cardinality(Unbumped) \in Nat
<1>1. Unbumped \subseteq 1..calls
  BY DEF Unbumped, ShapeInv, Shape
<1>2. IsFiniteSet(1..calls)
  BY FS_Interval
<1>3. IsFiniteSet(Unbumped)
  BY <1>1, <1>2, FS_Subset
<1> QED
  BY <1>1, <1>3, FS_CardinalityType

(* A call that counts up leaves those that have not. *)
LEMMA UnbumpedStep ==
  ASSUME TypeInv, ShapeInv, ClashInv, NEW c \in Callers, Step(c)
  PROVE  Unbumped' \subseteq (IF BumpSharedCounter(c) THEN Unbumped \ {call[c].id} ELSE Unbumped)
<1>0. Only(c) /\ Runs(c) /\ (call'[c] = Rest \/ Goes(c)) /\ calls' = calls
  BY StepRuns, StageStep, StepFrame
<1>1. ASSUME NEW d \in Callers, Runs(d)', ~IsBumped(call'[d])
      PROVE  /\ call'[d].id = call[d].id /\ Runs(d) /\ ~IsBumped(call[d])
             /\ BumpSharedCounter(c) => call[d].id # call[c].id
  <2>1. CASE d = c
    BY <1>0, <1>1, <2>1, StaysBumped DEF Runs, Rest, Goes
  <2>2. CASE d # c
    BY <1>0, <1>1, <2>2 DEF Only, Runs, ClashInv
  <2> QED
    BY <2>1, <2>2
<1>2. \A i \in Unbumped' : \E d \in Callers : Runs(d)' /\ ~IsBumped(call'[d]) /\ i = call'[d].id
  BY DEF Unbumped, IsBumped
<1>3. \A d \in Callers : Runs(d) /\ ~IsBumped(call[d]) => call[d].id \in Unbumped
  BY DEF Unbumped
<1> QED
  BY <1>1, <1>2, <1>3

LEMMA LimitStep ==
  ASSUME TypeInv, ShapeInv, ClashInv, CountInv, LimitInv, NEW c \in Callers, Step(c)
  PROVE  LimitInv'
<1>0. /\ "counter" \in LinkNames /\ calls' = calls /\ calls \in Nat /\ mem.counter \in Nat
      /\ IsFiniteSet(Unbumped) /\ Cardinality(Unbumped) \in Nat
      /\ mem.counter + Cardinality(Unbumped) <= calls + 1
  <2>1. mem.counter \in Nat /\ calls \in Nat
    BY Copied, FileSystemAssumption DEF CountInv, InMemory, TypeInv
  <2> QED
    BY <2>1, StepFrame, UnbumpedIs DEF LimitInv, LinkNames
<1>1. mem'.counter + Cardinality(Unbumped)' <= calls' + 1
  <2> DEFINE left == Unbumped'
  <2>1. CASE BumpSharedCounter(c)
    <3>1. left \subseteq Unbumped \ {call[c].id} /\ mem'.counter = mem.counter + 1
      BY <2>1, UnbumpedStep, BumpEffect DEF TypeInv
    <3>2. call[c].id \in Unbumped
      BY <2>1, StepRuns DEF Unbumped, IsBumped, BumpSharedCounter
    <3>3. /\ IsFiniteSet(Unbumped \ {call[c].id})
          /\ Cardinality(Unbumped \ {call[c].id}) = Cardinality(Unbumped) - 1
      BY <1>0, <3>2, FS_RemoveElement
    <3>4. Cardinality(left) <= Cardinality(Unbumped) - 1 /\ Cardinality(left) \in Nat
      <4> HIDE DEF left
      <4> QED
        BY <3>1, <3>3, FS_Subset, FS_CardinalityType
    <3> QED
      BY <1>0, <3>1, <3>4
  <2>2. CASE ~BumpSharedCounter(c)
    <3>1. left \subseteq Unbumped /\ mem'.counter = mem.counter
      BY <2>2, UnbumpedStep, CounterStep
    <3>2. Cardinality(left) <= Cardinality(Unbumped) /\ Cardinality(left) \in Nat
      <4> HIDE DEF left
      <4> QED
        BY <1>0, <3>1, FS_Subset, FS_CardinalityType
    <3> QED
      BY <1>0, <3>1, <3>2
  <2> QED
    BY <2>1, <2>2
<1>2. mem'.counter \in Nat /\ mem.counter <= mem'.counter
      /\ (BumpSharedCounter(c) => mem'.counter = mem.counter + 1)
  BY <1>0, CounterStep, BumpEffect DEF TypeInv
<1>3. \A v \in Copies("counter") : v \in Nat /\ v <= mem.counter
  BY DEF CountInv, LimitInv
<1>4. \A v \in Copies("counter")' : v <= mem'.counter
  <2> SUFFICES ASSUME NEW v \in Copies("counter")' PROVE v <= mem'.counter
    OBVIOUS
  <2>1. PICK u \in Copies("counter") : v = u \/ Adds(c, "counter", u, v)
    BY <1>0, CopiesFlow DEF From, IsTorn
  <2>2. v = u \/ (BumpSharedCounter(c) /\ v = u + 1)
    BY <2>1 DEF Adds
  <2> QED
    BY <1>0, <1>2, <1>3, <2>2
<1>5. \A v : IsCount(v) /\ AtMost(v, mem.counter) => AtMost(v, mem'.counter)
  BY <1>0, <1>2 DEF IsCount, AtMost
<1>6. AtMost(links'.counter, mem'.counter)
  <2>1. links'.counter = links.counter \/ links'.counter \in Copies("counter")
    BY <1>0, LinkFlow, Copied
  <2>2. AtMost(links.counter, mem'.counter)
    BY <1>5 DEF LimitInv, CountInv
  <2> QED
    BY <1>0, <1>2, <1>3, <2>1, <2>2 DEF AtMost
<1>7. /\ AtMost(published'.counter, mem'.counter)
      /\ \A d \in Callers : call'[d].pc = "publish" => AtMost(call'[d].snap.counter, mem'.counter)
  <2>1. /\ AtMost(links.counter, mem'.counter) /\ AtMost(published.counter, mem'.counter)
        /\ \A d \in Callers : call[d].pc = "publish" => AtMost(call[d].snap.counter, mem'.counter)
    BY <1>5 DEF LimitInv, CountInv
  <2> QED
    BY <2>1, PublishFlow
<1> QED
  BY <1>1, <1>4, <1>6, <1>7 DEF LimitInv, AtMost

LEMMA BeginLimit ==
  ASSUME TypeInv, ShapeInv, CountInv, LimitInv, NEW c \in Callers, NEW op \in Ops, Begin(c, op)
  PROVE  LimitInv'
<1>0. /\ CallShape /\ calls \in Nat /\ mem.counter \in Nat
      /\ IsFiniteSet(Unbumped) /\ Cardinality(Unbumped) \in Nat
      /\ mem.counter + Cardinality(Unbumped) <= calls + 1
  <2>1. CallShape /\ mem.counter \in Nat /\ calls \in Nat
    BY Copied, FileSystemAssumption DEF CountInv, InMemory, TypeInv
  <2> QED
    BY <2>1, UnbumpedIs DEF LimitInv
<1>1. /\ calls' = calls + 1 /\ call'[c].id = calls + 1 /\ call'[c].pc # "publish"
      /\ \A d \in Callers : d # c => Stays(d)
  BY <1>0, BeginEffect
<1>2. links' = links /\ published' = published /\ mem' = mem
  BY DEF Begin
<1>3. mem'.counter + Cardinality(Unbumped)' <= calls' + 1
  <2> DEFINE left == Unbumped'
             more == Unbumped \union {calls + 1}
  <2>1. \A i \in left : \E d \in Callers : Runs(d)' /\ ~IsBumped(call'[d]) /\ i = call'[d].id
    BY DEF Unbumped, IsBumped
  <2>2. \A d \in Callers : Runs(d) /\ ~IsBumped(call[d]) => call[d].id \in Unbumped
    BY DEF Unbumped
  <2>3. \A d \in Callers : d # c /\ Runs(d)' /\ ~IsBumped(call'[d]) =>
          Runs(d) /\ ~IsBumped(call[d]) /\ call'[d].id = call[d].id
    BY <1>1 DEF Stays, SameRest, IsBumped, Runs
  <2>4. left \subseteq more
    BY <1>1, <2>1, <2>2, <2>3
  <2>5. IsFiniteSet(more) /\ Cardinality(more) \in Nat /\ Cardinality(more) <= Cardinality(Unbumped) + 1
    BY <1>0, FS_AddElement
  <2>6. Cardinality(left) <= Cardinality(more) /\ Cardinality(left) \in Nat
    <3> HIDE DEF left, more
    <3> QED
      BY <2>4, <2>5, FS_Subset, FS_CardinalityType
  <2> QED
    BY <1>0, <1>1, <1>2, <2>5, <2>6
<1>4. \A v \in Copies("counter")' : v <= mem'.counter
  BY <1>2, BeginCopies DEF LimitInv
<1>5. \A d \in Callers : call'[d].pc = "publish" => AtMost(call'[d].snap.counter, mem'.counter)
  BY <1>1, <1>2 DEF LimitInv, Stays, SameSnap
<1> QED
  BY <1>2, <1>3, <1>4, <1>5 DEF LimitInv, AtMost

LEMMA ReloadLimit ==
  ASSUME TypeInv, ShapeInv, CountInv, LimitInv, Reload
  PROVE  LimitInv'
<1>0. /\ calls' = calls /\ calls \in Nat /\ mem.counter \in Nat /\ Cardinality(Unbumped) \in Nat
      /\ mem.counter + Cardinality(Unbumped) <= calls + 1
  <2>1. mem.counter \in Nat
    <3>1. InMemory("counter") \in Copies("counter")
      BY DEF Copies
    <3> QED
      BY <3>1 DEF CountInv, InMemory
  <2>2. calls \in Nat
    BY FileSystemAssumption DEF TypeInv
  <2> QED
    BY <2>1, <2>2, UnbumpedIs DEF LimitInv, Reload
<1>1. /\ links' = published /\ published' = published /\ \A d \in Callers : call'[d].pc = "rest"
      /\ mem'.counter = IF published.counter = None THEN 1 ELSE published.counter
  BY DEF Reload, Loaded, Rest
<1>2. Cardinality(Unbumped)' = 0
  <2>1. Unbumped' = {}
    BY <1>1 DEF Unbumped, Runs
  <2> QED
    BY <2>1, FS_EmptySet
<1>3. IsCount(published.counter) /\ AtMost(published.counter, mem.counter)
  BY DEF CountInv, LimitInv
<1>4. mem'.counter \in Nat /\ mem'.counter <= calls + 1 /\ AtMost(published.counter, mem'.counter)
  BY <1>0, <1>1, <1>3 DEF IsCount, AtMost
<1>5. \A v \in Copies("counter")' : v <= mem'.counter
  BY <1>1, <1>4, ReloadCopies DEF LinkNames
<1> QED
  BY <1>0, <1>1, <1>2, <1>4, <1>5 DEF LimitInv, AtMost

LEMMA InitLimit ==
  ASSUME Init
  PROVE  LimitInv
<1>1. \A v \in Copies("counter") : v = 1
  BY InitCopies DEF LinkNames
<1>2. /\ links.counter = None /\ published.counter = None /\ mem.counter = 1 /\ calls = 0
      /\ \A d \in Callers : call[d].pc = "rest"
  BY DEF Init, EmptyLinks, Loaded, Rest
<1>3. Cardinality(Unbumped) = 0
  <2>1. Unbumped = {}
    BY <1>2 DEF Unbumped, Runs
  <2> QED
    BY <2>1, FS_EmptySet
<1> QED
  BY <1>1, <1>2, <1>3 DEF LimitInv, AtMost

-----------------------------------------------------------------------------
(* THE THEOREMS *)

Inv == TypeInv /\ ShapeInv /\ ClashInv /\ ProofInv /\ LogInv /\ CountInv /\ MarkInv /\ DoneInv /\ LimitInv

LEMMA ReloadRests ==
  ASSUME TypeInv, ClashInv, DoneInv, Reload
  PROVE  ClashInv' /\ ProofInv'
<1>1. /\ \A d \in Callers : call'[d] = Rest
      /\ done' = {Left(s) : s \in {t \in done : "root" \in t.parts}} /\ calls' = calls
  BY DEF Reload
<1>2. \A r \in done' : r.id \in 1..calls'
  <2> SUFFICES ASSUME NEW r \in done' PROVE r.id \in 1..calls'
    OBVIOUS
  <2>1. PICK s \in done : r = Left(s)
    BY <1>1
  <2>2. r.id = s.id
    BY <2>1, LeftIs DEF DoneInv, HasLinks
  <2> QED
    BY <1>1, <2>2 DEF ClashInv
<1> QED
  BY <1>1, <1>2 DEF ClashInv, ProofInv, Runs, Rest

LEMMA InitRests ==
  ASSUME Init
  PROVE  ClashInv /\ ProofInv
<1>1. (\A d \in Callers : call[d] = Rest) /\ done = {}
  BY DEF Init
<1> QED
  BY <1>1 DEF ClashInv, ProofInv, Runs, Rest

LEMMA SameInv ==
  ASSUME Inv, UNCHANGED vars
  PROVE  Inv'
<1>0. /\ wasm' = wasm /\ held' = held /\ mem' = mem /\ promise' = promise /\ links' = links
      /\ proofs' = proofs /\ published' = published /\ call' = call /\ calls' = calls
      /\ reloads' = reloads /\ done' = done
  BY DEF vars
<1>1. \A p : Copies(p)' = Copies(p)
  BY <1>0 DEF Copies, InMemory, Holds, Awaited, Counted
<1>2. \A d \in Callers : /\ Mark(d)' = Mark(d) /\ Kept(Mark(d))' = Kept(Mark(d))
                         /\ \A p : (Reached(d, p)' <=> Reached(d, p)) /\ (Assigned(d, p)' <=> Assigned(d, p))
  BY <1>0, MarkOfOthers
<1>3. \A v, r, p : Marks(v, r, p)' <=> Marks(v, r, p)
  BY DEF Marks
<1>a. TypeInv'
  BY <1>0 DEF Inv, TypeInv, MemShape, CallShape, PromiseShape
<1>b. ShapeInv'
  <2>1. \A d \in Callers : Shape(call[d])' <=> Shape(call[d])
    BY <1>0 DEF Shape, Body, Owned, Due, Parts, Marked, Unmarked
  <2> QED
    BY <1>0, <2>1 DEF Inv, ShapeInv, Runs
<1>c. ClashInv'
  BY <1>0 DEF Inv, ClashInv, Runs, Parts
<1>d. ProofInv'
  BY <1>0 DEF Inv, ProofInv, Runs
<1>4. LogInv' /\ CountInv'
  BY <1>0, <1>1 DEF Inv, LogInv, GoodLog, GoodChunk, Sized, CountInv, Runs
<1>5. MarkInv'
  <2> SUFFICES ASSUME NEW d \in Callers, Runs(d), NEW p \in Kept(Mark(d))
               PROVE  /\ Reached(d, p)' => Remembered(Mark(d), p)'
                      /\ Assigned(d, p)' => Marks(links[p], Mark(d), p)'
                      /\ p \in DOMAIN call[d].snap => Marks(call[d].snap[p], Mark(d), p)'
    BY <1>0, <1>2 DEF MarkInv, Runs
  <2>1. /\ Reached(d, p) => Remembered(Mark(d), p)
        /\ Assigned(d, p) => Marks(links[p], Mark(d), p)
        /\ p \in DOMAIN call[d].snap => Marks(call[d].snap[p], Mark(d), p)
    BY DEF Inv, MarkInv
  <2>2. Remembered(Mark(d), p)' <=> Remembered(Mark(d), p)
    BY <1>1, <1>2 DEF Remembered, Marks
  <2>4. Reached(d, p)' => Remembered(Mark(d), p)'
    BY <1>2, <2>1, <2>2
  <2>5. Assigned(d, p)' => Marks(links[p], Mark(d), p)'
    BY <1>0, <1>2, <2>1 DEF Marks
  <2>6. p \in DOMAIN call[d].snap => Marks(call[d].snap[p], Mark(d), p)'
    BY <1>0, <1>2, <2>1 DEF Marks
  <2> QED
    BY <2>4, <2>5, <2>6
<1>6. DoneInv'
  <2>1. \A r, p : Remembered(r, p)' <=> Remembered(r, p)
    BY <1>1, <1>3 DEF Remembered
  <2>2. \A r, p : Safe(r, p)' <=> Safe(r, p)
    BY <1>0, <1>3, <2>1 DEF Safe
  <2> QED
    BY <1>0, <2>2 DEF Inv, DoneInv, HasLinks, Kept
<1>7. LimitInv'
  <2>1. Unbumped' = Unbumped
    BY <1>0 DEF Unbumped, Runs
  <2> QED
    BY <1>0, <1>1, <2>1 DEF Inv, LimitInv
<1> QED
  BY <1>a, <1>b, <1>c, <1>d, <1>4, <1>5, <1>6, <1>7 DEF Inv

(* The inductive invariant: calls are at a stage of the code's sequence, a  *)
(* call that is alone in a part has its mark on all copies of it from the  *)
(* moment it has changed it, but on private parts that were put while       *)
(* another call was adding, and what returned keeps its mark.              *)
THEOREM Invariance == Spec => []Inv
<1>1. Init => Inv
  BY InitShape, InitRests, InitLog, InitCount, InitMark, InitDone, InitLimit DEF Inv
<1>2. ASSUME Inv, NEW c \in Callers, Step(c)
      PROVE  Inv'
  BY <1>2, TypeStep, ShapeStep, ClashStep, ProofStep, LogStep, CountStep, MarkStep, DoneInvStep, LimitStep
  DEF Inv
<1>3. ASSUME Inv, NEW c \in Callers, NEW op \in Ops, Begin(c, op)
      PROVE  Inv'
  BY <1>3, BeginShape, BeginClash, BeginProof, BeginLog, BeginCount, BeginMark, BeginDone, BeginLimit
  DEF Inv
<1>4. ASSUME Inv, Reload
      PROVE  Inv'
  BY <1>4, ReloadShape, ReloadRests, ReloadLog, ReloadCount, ReloadMark, ReloadDone, ReloadLimit
  DEF Inv
<1>5. Inv /\ [Next]_vars => Inv'
  BY <1>2, <1>3, <1>4, SameInv DEF Next
<1> QED
  BY <1>1, <1>5, PTL DEF Spec

(* The mark of a call is what its return promised. *)
LEMMA MarkIsHas ==
  ASSUME NEW l, NEW r, NEW part, part # "counter", Marks(l[part], r, part)
  PROVE  Torn(l, part) \/ Has(l, r, part)
<1>1. CASE part = "log"
  <2>1. PICK i \in 1..Len(l.log) : ChunksOf(l.log, r.id) = {i}
    BY <1>1 DEF Marks
  <2>2. Cardinality(ChunksOf(l.log, r.id)) = 1
    BY <2>1, FS_Singleton
  <2> QED
    BY <1>1, <2>2 DEF Has, ChunksOf
<1>2. CASE part = "shared"
  BY <1>2 DEF Marks, Has
<1>3. CASE part = "private"
  BY <1>3 DEF Marks, Has, Torn
<1>4. CASE part \notin {"log", "shared", "private"}
  BY <1>4 DEF Marks, Has
<1> QED
  BY <1>1, <1>2, <1>3, <1>4

(* Every variable has its type: the shared counter counts at most the       *)
(* calls, a chunk of the log was not full before its last entry, and calls  *)
(* await promises that there are (FileSystem, RootTree.addPrivateLogEntry,  *)
(* PublicRootWasm).                                                        *)
THEOREM Types == Spec => []TypeOK
<1>1. Inv => TypeOK
  <2> SUFFICES ASSUME Inv PROVE TypeOK
    OBVIOUS
  <2>1. DOMAIN links = DOMAIN EmptyLinks /\ DOMAIN published = DOMAIN EmptyLinks
    BY DEF Inv, TypeInv, IsLinks, LinkNames, EmptyLinks
  <2>2. mem.counter \in 1..(MaxCalls + 1)
    <3>1. mem.counter \in Nat \ {0}
      <4>1. InMemory("counter") \in Copies("counter")
        BY DEF Copies
      <4> QED
        BY <4>1 DEF Inv, CountInv, InMemory
    <3>2. calls \in 0..MaxCalls /\ MaxCalls \in Nat /\ ShapeInv /\ calls \in Nat
      BY FileSystemAssumption DEF Inv, TypeInv
    <3>3. Cardinality(Unbumped) \in Nat
      BY <3>2, UnbumpedIs
    <3>4. mem.counter + Cardinality(Unbumped) <= calls + 1
      BY DEF Inv, LimitInv
    <3> QED
      BY <3>1, <3>2, <3>3, <3>4
  <2>3. \A chunk \in Range(mem.log) : Len(chunk) >= 1 /\ HashSize * (Len(chunk) - 1) < ChunkSize
    <3>1. GoodLog(mem.log)
      <4>1. InMemory("log") \in Copies("log")
        BY DEF Copies
      <4> QED
        BY <4>1 DEF Inv, LogInv, InMemory
    <3>2. DOMAIN mem.log = 1..Len(mem.log)
      BY <3>1 DEF GoodLog, Logs
    <3>3. \A k \in 1..Len(mem.log) : Sized(mem.log[k])
      BY <3>1 DEF GoodLog, GoodChunk
    <3>4. \A chunk \in Range(mem.log) : Sized(chunk)
      BY <3>2, <3>3 DEF Range
    <3> QED
      BY <3>4 DEF Sized
  <2>4. \A i \in 1..Len(promise) : promise[i].state \in {"pending", "ok", "failed"}
    BY DEF Inv, TypeInv, PromiseShape, IsPromise
  <2>5. \A c \in Callers : call[c].w # "off" => call[c].pin \in 1..Len(promise)
    BY DEF Inv, ShapeInv, Shape, Rest
  <2> QED
    BY <2>1, <2>2, <2>3, <2>4, <2>5 DEF Inv, TypeInv, TypeOK
<1> QED
  BY <1>1, Invariance, PTL

(* What a call changed alone is saved when it returns and stays saved, for  *)
(* any calls, callers and reloads; the private part but for as long as the  *)
(* last put of it is one that ran into another call's add                  *)
(* (FileSystem.runMutationOnNode, RootTree.updatePuttable,                  *)
(* addPrivateLogEntry, PublicRootWasm.atomically).                         *)
THEOREM SavedAlways == Spec => []ReturnedIsSaved
<1>1. Inv => ReturnedIsSaved
  <2> SUFFICES ASSUME Inv, NEW r \in done, NEW part \in Alone(r) \ {"shared"}
               PROVE  Torn(links, part) \/ Has(links, r, part)
    BY DEF ReturnedIsSaved
  <2>1. part \in Kept(r)
    BY DEF Alone, Kept
  <2>2. Marks(links[part], r, part)
    BY <2>1 DEF Inv, DoneInv, Safe
  <2>3. part # "counter"
    BY DEF Inv, DoneInv, HasLinks, Alone
  <2> QED
    BY <2>2, <2>3, MarkIsHas
<1> QED
  BY <1>1, Invariance, PTL

(* A recipient finds each share that was made alone under its own id, which *)
(* no later share takes (FileSystem.sharePrivate, loadShare,                *)
(* RootTree.bumpSharedCounter).                                            *)
THEOREM SharesFound == Spec => []ShareIsFound
<1>1. Inv => ShareIsFound
  <2> SUFFICES ASSUME Inv, NEW r \in done, "shared" \in r.parts
               PROVE  /\ Has(links, r, "shared")
                      /\ "root" \in r.parts => Has(published, r, "shared")
    BY DEF ShareIsFound
  <2>1. "shared" \in Kept(r)
    BY DEF Kept
  <2>2. /\ Marks(links["shared"], r, "shared")
        /\ "root" \in r.parts => Marks(published["shared"], r, "shared")
    BY <2>1 DEF Inv, DoneInv, Safe
  <2>3. \A l : ~Torn(l, "shared")
    BY DEF Torn
  <2> QED
    BY <2>2, <2>3, MarkIsHas
<1> QED
  BY <1>1, Invariance, PTL

(* What a call published alone stays published, whatever is published next  *)
(* and after every reload; its private node but for as long as the private  *)
(* part that is published is one whose put ran into another call's add      *)
(* (FileSystem.publish).                                                   *)
THEOREM KeptPublished == Spec => []PublishedIsKept
<1>1. Inv => PublishedIsKept
  <2> SUFFICES ASSUME Inv, NEW r \in done, "root" \in r.parts, NEW part \in Alone(r)
               PROVE  Torn(published, part) \/ Has(published, r, part)
    BY DEF PublishedIsKept
  <2>1. part \in Kept(r)
    BY DEF Alone, Kept
  <2>2. Marks(published[part], r, part)
    BY <2>1 DEF Inv, DoneInv, Safe
  <2>3. part # "counter"
    BY DEF Inv, DoneInv, HasLinks, Alone
  <2> QED
    BY <2>2, <2>3, MarkIsHas
<1> QED
  BY <1>1, Invariance, PTL

=============================================================================
