----------------------- MODULE PeerConnections_proofs -----------------------
(***************************************************************************)
(* Proofs about PeerConnections: the peer is watched by some task, and by   *)
(* not too many of them, for any plan, interval and behaviour of the peer. *)
(*                                                                         *)
(* The race that latestPeerTimeoutIds names can always still reconnect; if *)
(* it names none, some task tries to connect or waits.  So an answer to a  *)
(* race that is not the latest may end it.  A step replaces the task that  *)
(* takes it by one other, but for a late answer.                           *)
(***************************************************************************)
EXTENDS PeerConnections, FiniteSetTheorems, TLAPS

LiveTask(t) ==
  \/ t.kind = "try" \/ t.kind = "wait"
  \/ t.kind = "race" /\ (t.timer \/ t.step # None)

LiveSlots == {i \in Slots : Live(i)}

TypeInv ==
  /\ plan \in Plans /\ cached \in {"none", "empty", "full"}
  /\ callers \in [package : Nat, peers : Nat, create : Nat]
  /\ nodes \in Nat /\ addresses \in Nat /\ late \in Nat
  /\ tasks \in [1..plan.tasks -> Tasks]
  /\ latest \in Slots \union {None} /\ up \subseteq 1..addresses
  /\ IF nodes = 0 THEN instance = None ELSE instance \in 1..nodes

(* A reconnect begins when the timer fires. *)
RaceInv == \A i \in Slots : Is(i, "race") /\ tasks[i].step # None => ~tasks[i].timer

(* The latest race goes on; without one there is a task before its race. *)
LatestInv == latest # None => Is(latest, "race") /\ Live(latest)
BeforeRace(i) == Is(i, "try") \/ Is(i, "wait")
WaitInv == nodes > 0 /\ latest = None => \E i \in Slots : BeforeRace(i)

CountInv == Cardinality(LiveSlots) <= addresses + late

Inv == TypeInv /\ RaceInv /\ LatestInv /\ WaitInv /\ CountInv

-----------------------------------------------------------------------------
(* TASKS *)
LEMMA NoneIs ==
  /\ None \notin Nat /\ None # "try" /\ None # "wait" /\ None # "race"
  /\ None # "disconnect" /\ None # "connect"
  /\ NoTask.kind = None /\ ~LiveTask(NoTask)
  /\ \A t : t.kind \in {"try", "wait", "race"} => t # NoTask
BY PeerConnectionsAssumption DEF NoTask, LiveTask

LEMMA TasksAre ==
  ASSUME NEW t \in Tasks
  PROVE  \/ t = NoTask
         \/ /\ t.kind = "try" /\ t.node \in 1..nodes /\ t.address \in 1..addresses
            /\ t.step \in {"ping", "connect"}
            /\ t = [kind |-> t.kind, node |-> t.node, address |-> t.address, step |-> t.step]
         \/ /\ t.kind = "wait" /\ t.node \in 1..nodes /\ t.address \in 1..addresses
            /\ t = [kind |-> t.kind, node |-> t.node, address |-> t.address]
         \/ /\ t.kind = "race" /\ t.node \in 1..nodes /\ t.address \in 1..addresses
            /\ t.backoff \in [last : 0..KeepTrying, current : 0..(2 * KeepTrying)]
            /\ t.ping \in BOOLEAN /\ t.timer \in BOOLEAN /\ t.step \in {None, "disconnect", "connect"}
            /\ t = [kind |-> t.kind, node |-> t.node, address |-> t.address, backoff |-> t.backoff,
                    ping |-> t.ping, timer |-> t.timer, step |-> t.step]
BY DEF Tasks

LEMMA TaskOf ==
  ASSUME NEW node \in 1..nodes, NEW address \in 1..addresses
  PROVE  /\ Try(node, address) \in Tasks /\ Wait(node, address) \in Tasks /\ NoTask \in Tasks
         /\ \A step \in {"ping", "connect"} :
              [kind |-> "try", node |-> node, address |-> address, step |-> step] \in Tasks
         /\ \A backoff \in [last : 0..KeepTrying, current : 0..(2 * KeepTrying)] :
              /\ Race(node, address, backoff) \in Tasks
              /\ \A ping, timer \in BOOLEAN, step \in {None, "disconnect", "connect"} :
                   [kind |-> "race", node |-> node, address |-> address, backoff |-> backoff,
                    ping |-> ping, timer |-> timer, step |-> step] \in Tasks
BY DEF Tasks, Try, Wait, Race

LEMMA LiveIs ==
  ASSUME NEW i \in Slots
  PROVE  Live(i) <=> LiveTask(tasks[i])
BY DEF Live, LiveTask, Is

(* The backoff stays below twice the interval. *)
LEMMA BackoffsAre ==
  LET Backoffs == [last : 0..KeepTrying, current : 0..(2 * KeepTrying)]
  IN BackoffInit \in Backoffs /\ \A b \in Backoffs : NextBackoff(b) \in Backoffs
<1>1. KeepTrying \in Nat /\ KeepTrying > 0
  BY PeerConnectionsAssumption
<1>2. 0 \in 0..KeepTrying /\ 1 \in 0..(2 * KeepTrying)
  BY <1>1
<1>3. ASSUME NEW b \in [last : 0..KeepTrying, current : 0..(2 * KeepTrying)]
      PROVE  NextBackoff(b) \in [last : 0..KeepTrying, current : 0..(2 * KeepTrying)]
  <2>1. CASE b.current < KeepTrying
    <3>1. b.current \in 0..KeepTrying /\ b.last + b.current \in 0..(2 * KeepTrying)
      BY <1>1, <2>1
    <3> QED
      BY <2>1, <3>1 DEF NextBackoff
  <2>2. CASE ~(b.current < KeepTrying)
    BY <2>2 DEF NextBackoff
  <2> QED
    BY <2>1, <2>2
<1> QED
  BY <1>2, <1>3 DEF BackoffInit

(* The fields of a race. *)
IsRace(t) ==
  t = [kind |-> "race", node |-> t.node, address |-> t.address, backoff |-> t.backoff,
       ping |-> t.ping, timer |-> t.timer, step |-> t.step]
SameRace(q, t) == q.node = t.node /\ q.address = t.address /\ q.backoff = t.backoff

LEMMA RaceStep ==
  ASSUME NEW t, IsRace(t), NEW x, NEW q, q = [t EXCEPT !.step = x]
  PROVE  IsRace(q) /\ SameRace(q, t) /\ q.step = x /\ q.ping = t.ping /\ q.timer = t.timer
BY DEF IsRace, SameRace

Fired(t, no, x) == [t EXCEPT !.timer = no, !.step = x]

LEMMA RaceFired ==
  ASSUME NEW t, IsRace(t), NEW no, NEW x, NEW q, q = Fired(t, no, x)
  PROVE  IsRace(q) /\ SameRace(q, t) /\ q.step = x /\ q.ping = t.ping /\ q.timer = no
<1>1. q = [kind |-> "race", node |-> t.node, address |-> t.address, backoff |-> t.backoff,
           ping |-> t.ping, timer |-> no, step |-> x]
  <2> DEFINE kind == "race"
             node == t.node
             address == t.address
             backoff == t.backoff
             ping == t.ping
             timer == t.timer
             step == t.step
  <2>1. t = [kind |-> kind, node |-> node, address |-> address, backoff |-> backoff,
             ping |-> ping, timer |-> timer, step |-> step]
    BY DEF IsRace
  <2> SUFFICES q = [kind |-> kind, node |-> node, address |-> address, backoff |-> backoff,
                    ping |-> ping, timer |-> no, step |-> x]
    OBVIOUS
  <2>2. q = [t EXCEPT !.timer = no, !.step = x]
    BY DEF Fired
  <2> HIDE DEF kind, node, address, backoff, ping, timer, step
  <2> QED
    BY <2>1, <2>2
<1> QED
  BY <1>1 DEF IsRace, SameRace

LEMMA RacePinged ==
  ASSUME NEW t, IsRace(t), NEW no, NEW q, q = [t EXCEPT !.ping = no]
  PROVE  IsRace(q) /\ SameRace(q, t) /\ q.step = t.step /\ q.ping = no /\ q.timer = t.timer
BY DEF IsRace, SameRace

Answered(t, no) == [t EXCEPT !.ping = no, !.timer = no]

LEMMA RaceAnswered ==
  ASSUME NEW t, IsRace(t), NEW no, NEW q, q = Answered(t, no)
  PROVE  IsRace(q) /\ SameRace(q, t) /\ q.step = t.step /\ q.ping = no /\ q.timer = no
<1>1. q = [kind |-> "race", node |-> t.node, address |-> t.address, backoff |-> t.backoff,
           ping |-> no, timer |-> no, step |-> t.step]
  <2> DEFINE kind == "race"
             node == t.node
             address == t.address
             backoff == t.backoff
             ping == t.ping
             timer == t.timer
             step == t.step
  <2>1. t = [kind |-> kind, node |-> node, address |-> address, backoff |-> backoff,
             ping |-> ping, timer |-> timer, step |-> step]
    BY DEF IsRace
  <2> SUFFICES q = [kind |-> kind, node |-> node, address |-> address, backoff |-> backoff,
                    ping |-> no, timer |-> no, step |-> step]
    OBVIOUS
  <2>2. q = [t EXCEPT !.ping = no, !.timer = no]
    BY DEF Answered
  <2> HIDE DEF kind, node, address, backoff, ping, timer, step
  <2> QED
    BY <2>1, <2>2
<1> QED
  BY <1>1 DEF IsRace, SameRace

LEMMA FreeIs ==
  ASSUME Free # {}
  PROVE  FreeSlot \in Slots /\ tasks[FreeSlot] = NoTask
BY DEF Free, FreeSlot

LEMMA RaceIsTask ==
  ASSUME NEW t \in Tasks, t.kind = "race", NEW q, IsRace(q), SameRace(q, t),
         q.ping \in BOOLEAN, q.timer \in BOOLEAN, q.step \in {None, "disconnect", "connect"}
  PROVE  q \in Tasks /\ q.kind = "race"
<1>1. /\ t.node \in 1..nodes /\ t.address \in 1..addresses
      /\ t.backoff \in [last : 0..KeepTrying, current : 0..(2 * KeepTrying)]
  BY TasksAre, NoneIs
<1>a. q.node = t.node /\ q.address = t.address /\ q.backoff = t.backoff
  BY DEF SameRace
<1>b. \A ping, timer \in BOOLEAN, step \in {None, "disconnect", "connect"} :
        [kind |-> "race", node |-> t.node, address |-> t.address, backoff |-> t.backoff,
         ping |-> ping, timer |-> timer, step |-> step] \in Tasks
  BY <1>1, TaskOf
<1>2. [kind |-> "race", node |-> q.node, address |-> q.address, backoff |-> q.backoff,
       ping |-> q.ping, timer |-> q.timer, step |-> q.step] \in Tasks
  BY <1>a, <1>b, Zenon
<1>3. q.kind = "race"
  BY DEF IsRace
<1> QED
  BY <1>2, <1>3 DEF IsRace

-----------------------------------------------------------------------------
(* SLOTS *)

LEMMA OnePut ==
  ASSUME NEW n, tasks \in [1..n -> Tasks], NEW i \in Slots, NEW x, tasks' = [tasks EXCEPT ![i] = x]
  PROVE  /\ Slots' = Slots /\ tasks'[i] = x /\ \A j \in Slots : j # i => tasks'[j] = tasks[j]
         /\ tasks' = [j \in 1..n |-> tasks'[j]]
BY DEF Slots

LEMMA TwoPut ==
  ASSUME NEW n, tasks \in [1..n -> Tasks], NEW i \in Slots, NEW f \in Slots, i # f, NEW x, NEW y,
         tasks' = [tasks EXCEPT ![i] = x, ![f] = y]
  PROVE  /\ Slots' = Slots /\ tasks'[i] = x /\ tasks'[f] = y
         /\ \A j \in Slots : j # i /\ j # f => tasks'[j] = tasks[j]
         /\ tasks' = [j \in 1..n |-> tasks'[j]]
BY DEF Slots

LEMMA SlotsAre ==
  ASSUME TypeInv
  PROVE  /\ Slots = 1..plan.tasks /\ IsFiniteSet(Slots) /\ IsFiniteSet(LiveSlots)
         /\ Cardinality(LiveSlots) \in Nat /\ addresses \in Nat /\ late \in Nat
         /\ \A i \in Slots : tasks[i] \in Tasks /\ i \in Nat /\ i # None
<1>1. Slots = 1..plan.tasks /\ plan.tasks \in Nat /\ \A i \in Slots : tasks[i] \in Tasks /\ i \in Nat
  <2>1. Slots = 1..plan.tasks /\ plan.tasks \in Nat
    BY PeerConnectionsAssumption DEF TypeInv, Slots
  <2> QED
    BY <2>1 DEF TypeInv
<1>2. IsFiniteSet(Slots)
  BY <1>1, FS_Interval
<1>3. IsFiniteSet(LiveSlots) /\ Cardinality(LiveSlots) \in Nat
  BY <1>2, FS_Subset, FS_CardinalityType DEF LiveSlots
<1> QED
  BY <1>1, <1>2, <1>3, NoneIs DEF TypeInv

LEMMA CountKept ==
  ASSUME TypeInv, CountInv, LiveSlots' \subseteq LiveSlots,
         addresses' \in Nat, late' \in Nat, addresses' + late' >= addresses + late
  PROVE  CountInv'
<1> DEFINE now == LiveSlots'
<1>1. now \subseteq LiveSlots
  OBVIOUS
<1> HIDE DEF now
<1>2. Cardinality(now) <= Cardinality(LiveSlots) /\ Cardinality(now) \in Nat
  BY <1>1, SlotsAre, FS_Subset, FS_CardinalityType
<1>3. Cardinality(now) <= addresses' + late'
  BY <1>2, SlotsAre DEF CountInv
<1> QED
  BY <1>3 DEF CountInv, now

LEMMA CountMore ==
  ASSUME TypeInv, CountInv, NEW f, LiveSlots' \subseteq LiveSlots \union {f},
         addresses' \in Nat, late' \in Nat, addresses' + late' = addresses + late + 1
  PROVE  CountInv'
<1> DEFINE now == LiveSlots'
           all == LiveSlots \union {f}
<1>1. now \subseteq all
  OBVIOUS
<1>2. IsFiniteSet(all) /\ Cardinality(all) <= Cardinality(LiveSlots) + 1 /\ Cardinality(all) \in Nat
  <2>1. IsFiniteSet(LiveSlots) /\ Cardinality(LiveSlots) \in Nat
    BY SlotsAre
  <2>2. IsFiniteSet(all) /\ Cardinality(all) \in {Cardinality(LiveSlots), Cardinality(LiveSlots) + 1}
    BY <2>1, FS_AddElement
  <2> QED
    BY <2>1, <2>2
<1> HIDE DEF now, all
<1>3. Cardinality(now) <= Cardinality(all) /\ Cardinality(now) \in Nat
  BY <1>1, <1>2, FS_Subset, FS_CardinalityType
<1>4. Cardinality(now) <= addresses' + late'
  BY <1>2, <1>3, SlotsAre DEF CountInv
<1> QED
  BY <1>4 DEF CountInv, now

LEMMA CountMoved ==
  ASSUME TypeInv, CountInv, NEW i \in LiveSlots, NEW f, LiveSlots' \subseteq (LiveSlots \ {i}) \union {f},
         addresses' = addresses, late' = late
  PROVE  CountInv'
<1> DEFINE now == LiveSlots'
           rest == LiveSlots \ {i}
           all == rest \union {f}
<1>1. now \subseteq all
  OBVIOUS
<1>2. IsFiniteSet(rest) /\ Cardinality(rest) = Cardinality(LiveSlots) - 1
  BY SlotsAre, FS_RemoveElement
<1> HIDE DEF rest
<1>3. IsFiniteSet(all) /\ Cardinality(all) \in Nat /\ Cardinality(all) <= Cardinality(LiveSlots)
  <2>1. Cardinality(rest) \in Nat /\ Cardinality(LiveSlots) \in Nat
    BY <1>2, SlotsAre, FS_CardinalityType
  <2>2. IsFiniteSet(all) /\ Cardinality(all) \in {Cardinality(rest), Cardinality(rest) + 1}
    BY <1>2, FS_AddElement
  <2> QED
    BY <1>2, <2>1, <2>2
<1> HIDE DEF now, all
<1>4. Cardinality(now) <= Cardinality(all) /\ Cardinality(now) \in Nat
  BY <1>1, <1>3, FS_Subset, FS_CardinalityType
<1>5. Cardinality(now) <= addresses' + late'
  BY <1>3, <1>4, SlotsAre DEF CountInv
<1> QED
  BY <1>5 DEF CountInv, now

(* keepAlive in place of a task that is live leaves one race that is live,  *)
(* and that is the latest.                                                 *)
LEMMA KeepAliveEffect ==
  ASSUME TypeInv, RaceInv, NEW i \in Slots, tasks[i].kind \in {"try", "wait", "race"},
         tasks[i].kind = "race" => tasks[i].step # None,
         NEW backoff \in [last : 0..KeepTrying, current : 0..(2 * KeepTrying)], KeepAlive(i, backoff),
         nodes' = nodes, addresses' = addresses, plan' = plan
  PROVE  /\ tasks' \in [1..plan.tasks -> Tasks'] /\ RaceInv'
         /\ latest' \in Slots' /\ LatestInv'
         /\ i \in LiveSlots /\ \E f : LiveSlots' \subseteq (LiveSlots \ {i}) \union {f}
<1> DEFINE t == tasks[i]
           old == IF t.kind = "race" THEN Settled([t EXCEPT !.step = None]) ELSE NoTask
           new == Race(t.node, t.address, backoff)
<1>0. /\ \A j \in Slots : tasks[j] \in Tasks /\ j # None
      /\ tasks \in [1..plan.tasks -> Tasks] /\ Tasks' = Tasks /\ t \in Tasks
  BY SlotsAre DEF TypeInv, Tasks, NoTask
<1>1. t.node \in 1..nodes /\ t.address \in 1..addresses
  BY <1>0, TasksAre, NoneIs
<1>2. new \in Tasks /\ new.kind = "race" /\ new.timer = TRUE /\ new.step = None /\ LiveTask(new)
  BY <1>1, TaskOf DEF Race, LiveTask
<1>3. i \in LiveSlots
  BY LiveIs DEF LiveSlots, LiveTask
<1>4. /\ old \in Tasks /\ ~LiveTask(old)
      /\ old # NoTask => old.kind = "race" /\ old.step = None
      /\ old # NoTask => t.kind = "race"
  <2>1. CASE t.kind # "race"
    BY <1>1, <2>1, TaskOf, NoneIs
  <2>2. CASE t.kind = "race"
    <3> DEFINE q == [t EXCEPT !.step = None]
    <3>1. ~t.timer /\ t.timer \in BOOLEAN
      BY <1>0, <2>2, TasksAre, NoneIs DEF RaceInv, Is
    <3>2. IsRace(t) /\ t \in Tasks
      BY <1>0, <2>2, TasksAre, NoneIs DEF IsRace
    <3>3. IsRace(q) /\ SameRace(q, t) /\ q.step = None /\ q.ping = t.ping /\ q.timer = t.timer
      BY <3>2, RaceStep
    <3>4. q \in Tasks /\ q.kind = "race" /\ q.step = None /\ ~q.timer
      BY <2>2, <3>1, <3>2, <3>3, RaceIsTask, TasksAre, NoneIs
    <3> HIDE DEF q
    <3>5. Settled(q) \in {NoTask, q}
      BY DEF Settled
    <3>6. old = Settled(q)
      BY <2>2 DEF q
    <3>7. old \in {NoTask, q}
      BY <3>5, <3>6
    <3>8. old \in Tasks
      BY <1>1, <3>4, <3>7, TaskOf
    <3>9. ~LiveTask(old)
      BY <3>4, <3>7, NoneIs DEF LiveTask
    <3> QED
      BY <2>2, <3>4, <3>7, <3>8, <3>9
  <2> QED
    BY <2>1, <2>2
<1>5. IF old = NoTask THEN tasks' = [tasks EXCEPT ![i] = new] /\ latest' = i
      ELSE /\ Free # {} /\ latest' = FreeSlot
           /\ tasks' = [tasks EXCEPT ![i] = old, ![FreeSlot] = new]
  BY DEF KeepAlive
<1> HIDE DEF old, new
<1>6. PICK f \in Slots :
        /\ Slots' = Slots /\ latest' = f /\ tasks'[f] = new
        /\ f # i => tasks'[i] = old /\ tasks[f] = NoTask /\ old.kind = "race" /\ old.step = None
        /\ \A j \in Slots : j # i /\ j # f => tasks'[j] = tasks[j]
        /\ tasks' = [j \in 1..plan.tasks |-> tasks'[j]]
  <2>1. CASE old = NoTask
    <3>1. tasks' = [tasks EXCEPT ![i] = new] /\ latest' = i
      BY <1>5, <2>1
    <3>2. /\ Slots' = Slots /\ tasks'[i] = new /\ \A j \in Slots : j # i => tasks'[j] = tasks[j]
          /\ tasks' = [j \in 1..plan.tasks |-> tasks'[j]]
      BY <1>0, <3>1, OnePut
    <3> QED
      BY <3>1, <3>2
  <2>2. CASE old # NoTask
    <3>1. /\ Free # {} /\ latest' = FreeSlot /\ tasks' = [tasks EXCEPT ![i] = old, ![FreeSlot] = new]
      BY <1>5, <2>2
    <3>2. FreeSlot \in Slots /\ tasks[FreeSlot] = NoTask /\ FreeSlot # i
      BY <3>1, FreeIs, NoneIs
    <3>3. /\ Slots' = Slots /\ tasks'[i] = old /\ tasks'[FreeSlot] = new
          /\ \A j \in Slots : j # i /\ j # FreeSlot => tasks'[j] = tasks[j]
          /\ tasks' = [j \in 1..plan.tasks |-> tasks'[j]]
      BY <1>0, <3>1, <3>2, TwoPut
    <3> QED
      BY <1>4, <2>2, <3>1, <3>2, <3>3
  <2> QED
    BY <2>1, <2>2
<1>7. tasks' \in [1..plan.tasks -> Tasks']
  <2>1. \A j \in 1..plan.tasks : tasks'[j] \in Tasks
    BY <1>0, <1>2, <1>4, <1>6, SlotsAre
  <2> QED
    BY <1>0, <1>6, <2>1
<1>8. RaceInv'
  <2> SUFFICES ASSUME NEW j \in Slots, tasks'[j].kind = "race", tasks'[j].step # None
               PROVE  ~tasks'[j].timer
    BY <1>6 DEF RaceInv, Is
  <2>1. j # f /\ j # i
    BY <1>2, <1>6
  <2> QED
    BY <1>6, <2>1 DEF RaceInv, Is
<1>9. LatestInv'
  BY <1>2, <1>6 DEF LatestInv, Is, Live
<1>10. LiveSlots' \subseteq (LiveSlots \ {i}) \union {f}
  <2>1. \A j \in LiveSlots' : j \in Slots /\ LiveTask(tasks'[j])
    BY <1>6 DEF LiveSlots, Live, LiveTask, Is
  <2>2. \A j \in Slots : LiveTask(tasks[j]) => j \in LiveSlots
    BY LiveIs DEF LiveSlots
  <2>3. f # i => ~LiveTask(tasks'[i])
    BY <1>4, <1>6
  <2> QED
    BY <1>6, <2>1, <2>2, <2>3
<1> QED
  BY <1>3, <1>6, <1>7, <1>8, <1>9, <1>10

-----------------------------------------------------------------------------
(* STEPS *)

(* A task that takes a step in its slot. *)
LEMMA InPlace ==
  ASSUME Inv, NEW i \in Slots, NEW x \in Tasks, tasks' = [tasks EXCEPT ![i] = x],
         LiveTask(x) => LiveTask(tasks[i]), x.kind = "race" /\ x.step # None => ~x.timer,
         \/ /\ latest' = latest
            /\ latest = i => x.kind = "race" /\ LiveTask(x)
            /\ BeforeRace(i) => x.kind \in {"try", "wait"}
         \/ latest' = None /\ x.kind \in {"try", "wait"},
         plan' = plan, nodes' = nodes, addresses' = addresses, late' \in Nat, late' >= late
  PROVE  /\ tasks' \in [1..plan.tasks -> Tasks'] /\ latest' \in Slots' \union {None}
         /\ RaceInv' /\ LatestInv' /\ WaitInv' /\ CountInv'
<1>0. TypeInv /\ Tasks' = Tasks /\ tasks \in [1..plan.tasks -> Tasks] /\ latest \in Slots \union {None}
  BY DEF Inv, TypeInv, Tasks, NoTask
<1>1. /\ Slots' = Slots /\ tasks'[i] = x /\ \A j \in Slots : j # i => tasks'[j] = tasks[j]
      /\ tasks' = [j \in 1..plan.tasks |-> tasks'[j]]
  BY <1>0, OnePut
<1>2. tasks' \in [1..plan.tasks -> Tasks']
  <2>1. \A j \in 1..plan.tasks : tasks'[j] \in Tasks
    BY <1>0, <1>1, SlotsAre
  <2> QED
    BY <1>0, <1>1, <2>1
<1>3. RaceInv'
  BY <1>1 DEF Inv, RaceInv, Is
<1>4. LatestInv'
  BY <1>1 DEF Inv, LatestInv, Is, Live, LiveTask
<1>5. WaitInv'
  <2> SUFFICES ASSUME nodes > 0, latest' = None PROVE \E j \in Slots : BeforeRace(j)'
    BY <1>1 DEF WaitInv
  <2>1. CASE x.kind \in {"try", "wait"}
    BY <1>1, <2>1 DEF BeforeRace, Is
  <2>2. CASE x.kind \notin {"try", "wait"}
    <3>1. PICK j \in Slots : BeforeRace(j)
      BY <2>2 DEF Inv, WaitInv
    <3>2. j # i
      BY <2>2, <3>1
    <3> QED
      BY <1>1, <3>1, <3>2 DEF BeforeRace, Is
  <2> QED
    BY <2>1, <2>2
<1>6. LiveSlots' \subseteq LiveSlots
  <2>1. \A j \in LiveSlots' : j \in Slots /\ LiveTask(tasks'[j])
    BY <1>1 DEF LiveSlots, Live, LiveTask, Is
  <2>2. \A j \in Slots : LiveTask(tasks[j]) => j \in LiveSlots
    BY LiveIs DEF LiveSlots
  <2> QED
    BY <1>1, <2>1, <2>2
<1>7. CountInv'
  BY <1>0, <1>6, CountKept, SlotsAre DEF Inv
<1> QED
  BY <1>0, <1>1, <1>2, <1>3, <1>4, <1>5, <1>7

(* A task more in a slot that was free; another slot may hold less than it did. *)
Stays(j) ==
  /\ tasks'[j] \in Tasks'
  /\ LiveTask(tasks'[j]) => LiveTask(tasks[j])
  /\ tasks'[j].kind = "race" /\ tasks'[j].step # None => ~tasks'[j].timer
  /\ latest' = j => tasks'[j].kind = "race" /\ LiveTask(tasks'[j])

LEMMA OneMore ==
  ASSUME Inv, Free # {}, NEW x, x \in Tasks', x.kind \in {"try", "wait"},
         tasks'[FreeSlot] = x, Slots' = Slots, tasks' = [j \in 1..plan.tasks |-> tasks'[j]],
         \A j \in Slots : j # FreeSlot => tasks'[j] = tasks[j] \/ Stays(j),
         latest' \in {latest, None},
         plan' = plan, nodes' \in Nat, nodes' >= nodes, addresses' \in Nat, addresses' >= addresses,
         late' \in Nat, addresses' + late' = addresses + late + 1
  PROVE  /\ tasks' \in [1..plan.tasks -> Tasks'] /\ latest' \in Slots' \union {None}
         /\ RaceInv' /\ LatestInv' /\ WaitInv' /\ CountInv'
<1>0. /\ TypeInv /\ Slots = 1..plan.tasks /\ nodes \in Nat /\ addresses \in Nat
      /\ FreeSlot \in Slots /\ tasks[FreeSlot] = NoTask /\ latest \in Slots \union {None}
      /\ \A j \in Slots : tasks[j] \in Tasks /\ j # None
  BY FreeIs, SlotsAre DEF Inv, TypeInv
<1>1. Tasks \subseteq Tasks'
  <2>1. 1..nodes \subseteq 1..nodes' /\ 1..addresses \subseteq 1..addresses'
    BY <1>0
  <2> QED
    BY <2>1 DEF Tasks, NoTask
<1>2. tasks' \in [1..plan.tasks -> Tasks']
  <2>1. \A j \in 1..plan.tasks : tasks'[j] \in Tasks'
    BY <1>0, <1>1 DEF Stays
  <2> QED
    BY <2>1
<1>3. RaceInv'
  <2> SUFFICES ASSUME NEW j \in Slots, tasks'[j].kind = "race", tasks'[j].step # None
               PROVE  ~tasks'[j].timer
    BY DEF RaceInv, Is
  <2>1. j # FreeSlot
    OBVIOUS
  <2>2. CASE tasks'[j] = tasks[j]
    BY <2>2 DEF Inv, RaceInv, Is
  <2>3. CASE Stays(j)
    BY <2>3 DEF Stays
  <2> QED
    BY <2>1, <2>2, <2>3
<1>4. LatestInv'
  <2> SUFFICES ASSUME latest' = latest, latest # None
               PROVE  latest \in Slots /\ tasks'[latest].kind = "race" /\ LiveTask(tasks'[latest])
    BY DEF LatestInv, Is, Live, LiveTask
  <2>1. latest \in Slots /\ tasks[latest].kind = "race" /\ LiveTask(tasks[latest])
    BY <1>0, LiveIs DEF Inv, LatestInv, Is
  <2>2. latest # FreeSlot
    BY <1>0, <2>1, NoneIs
  <2> QED
    BY <2>1, <2>2 DEF Stays
<1>5. WaitInv'
  BY <1>0 DEF WaitInv, BeforeRace, Is
<1>6. LiveSlots' \subseteq LiveSlots \union {FreeSlot}
  <2>1. \A j \in LiveSlots' : j \in Slots /\ LiveTask(tasks'[j])
    BY DEF LiveSlots, Live, LiveTask, Is
  <2>2. \A j \in Slots : LiveTask(tasks[j]) => j \in LiveSlots
    BY LiveIs DEF LiveSlots
  <2> QED
    BY <2>1, <2>2 DEF Stays
<1>7. CountInv'
  BY <1>0, <1>6, CountMore DEF Inv
<1> QED
  BY <1>0, <1>2, <1>3, <1>4, <1>5, <1>7

(* Nothing happens to the tasks. *)
LEMMA NoTaskSteps ==
  ASSUME Inv, tasks' = tasks, latest' = latest, nodes' = nodes, addresses' = addresses, late' = late, plan' = plan
  PROVE  /\ tasks' \in [1..plan.tasks -> Tasks'] /\ latest' \in Slots' \union {None}
         /\ RaceInv' /\ LatestInv' /\ WaitInv' /\ CountInv'
<1>1. Slots' = Slots /\ Tasks' = Tasks
  BY DEF Slots, Tasks, NoTask
<1>2. RaceInv' /\ LatestInv' /\ WaitInv'
  BY <1>1 DEF Inv, RaceInv, LatestInv, WaitInv, BeforeRace, Is, Live
<1>3. LiveSlots' = LiveSlots
  BY <1>1 DEF LiveSlots, Live, Is
<1> QED
  BY <1>1, <1>2, <1>3 DEF Inv, TypeInv, CountInv

-----------------------------------------------------------------------------
(* ACTIONS *)
Kept ==
  /\ tasks' \in [1..plan.tasks -> Tasks'] /\ latest' \in Slots' \union {None}
  /\ RaceInv' /\ LatestInv' /\ WaitInv' /\ CountInv'

(* A node, or an "online" event, brings one task more. *)
LEMMA TryStep ==
  ASSUME Inv, CreateAndConnect \/ Online
  PROVE  Kept
<1>0. TypeInv /\ nodes \in Nat /\ addresses \in Nat /\ late \in Nat /\ tasks \in [1..plan.tasks -> Tasks]
  BY DEF Inv, TypeInv
<1>1. /\ Free # {} /\ plan' = plan /\ addresses' = addresses + 1 /\ late' = late
      /\ nodes' \in {nodes, nodes + 1} /\ latest' \in {latest, None}
      /\ \E node \in 1..nodes' : tasks' = [tasks EXCEPT ![FreeSlot] = Try(node, addresses')]
  BY <1>0 DEF CreateAndConnect, Online
<1>2. PICK node \in 1..nodes' : tasks' = [tasks EXCEPT ![FreeSlot] = Try(node, addresses')]
  BY <1>1
<1>3. Try(node, addresses') \in Tasks' /\ Try(node, addresses').kind = "try"
  <2>1. addresses' \in 1..addresses'
    BY <1>0, <1>1
  <2> QED
    BY <2>1 DEF Tasks, Try
<1>4. FreeSlot \in Slots
  BY <1>1, FreeIs
<1> DEFINE x == Try(node, addresses')
<1>5. x \in Tasks' /\ x.kind \in {"try", "wait"} /\ tasks' = [tasks EXCEPT ![FreeSlot] = x]
  BY <1>2, <1>3
<1> HIDE DEF x
<1>6. /\ Slots' = Slots /\ tasks'[FreeSlot] = x /\ \A j \in Slots : j # FreeSlot => tasks'[j] = tasks[j]
      /\ tasks' = [j \in 1..plan.tasks |-> tasks'[j]]
  BY <1>0, <1>4, <1>5, OnePut
<1>7. /\ nodes' \in Nat /\ nodes' >= nodes /\ addresses' \in Nat /\ addresses' >= addresses
      /\ late' \in Nat /\ addresses' + late' = addresses + late + 1
  BY <1>0, <1>1
<1> QED
  BY <1>1, <1>5, <1>6, <1>7, OneMore DEF Kept

(* What a race, or an attempt, comes to in its slot. *)
LEMMA SlotIs ==
  ASSUME Inv, NEW i \in Slots
  PROVE  /\ TypeInv /\ tasks \in [1..plan.tasks -> Tasks] /\ tasks[i] \in Tasks /\ late \in Nat
         /\ tasks[i].kind \in {"try", "wait"} =>
              tasks[i].node \in 1..nodes /\ tasks[i].address \in 1..addresses /\ latest # i
         /\ tasks[i].kind = "race" =>
              /\ IsRace(tasks[i]) /\ tasks[i].node \in 1..nodes /\ tasks[i].address \in 1..addresses
              /\ tasks[i].backoff \in [last : 0..KeepTrying, current : 0..(2 * KeepTrying)]
              /\ tasks[i].ping \in BOOLEAN /\ tasks[i].timer \in BOOLEAN
              /\ tasks[i].step \in {None, "disconnect", "connect"}
              /\ tasks[i].step # None => ~tasks[i].timer
              /\ latest = i => LiveTask(tasks[i])
<1>1. TypeInv /\ tasks \in [1..plan.tasks -> Tasks] /\ tasks[i] \in Tasks /\ i # None /\ late \in Nat
  BY SlotsAre DEF Inv, TypeInv
<1>2. latest = i => tasks[i].kind = "race" /\ LiveTask(tasks[i])
  BY <1>1, LiveIs DEF Inv, LatestInv, Is
<1> QED
  BY <1>1, <1>2, TasksAre, NoneIs DEF Inv, RaceInv, Is, IsRace

LEMMA TryPingedStep ==
  ASSUME Inv, NEW i \in Slots, TryPinged(i)
  PROVE  Kept
<1>1. tasks[i].kind = "try" /\ latest # i /\ tasks[i].node \in 1..nodes /\ tasks[i].address \in 1..addresses
  BY SlotIs DEF TryPinged, Is
<1>2. tasks[i] = [kind |-> "try", node |-> tasks[i].node, address |-> tasks[i].address, step |-> tasks[i].step]
  BY <1>1, SlotIs, TasksAre, NoneIs
<1> DEFINE x == [tasks[i] EXCEPT !.step = "connect"]
<1>3. x = [kind |-> "try", node |-> tasks[i].node, address |-> tasks[i].address, step |-> "connect"]
  BY <1>2
<1>4. [kind |-> "try", node |-> tasks[i].node, address |-> tasks[i].address, step |-> "connect"] \in Tasks
  BY <1>1, TaskOf
<1>a. x \in Tasks /\ x.kind = "try"
  BY <1>3, <1>4, Zenon
<1>5. tasks' = [tasks EXCEPT ![i] = x]
  BY DEF TryPinged
<1> HIDE DEF x
<1>6. latest' = latest /\ plan' = plan /\ nodes' = nodes /\ addresses' = addresses /\ late' = late
  BY DEF TryPinged, Node, Still
<1>7. LiveTask(tasks[i]) /\ late' \in Nat /\ late' >= late
  BY <1>1, <1>6, SlotIs DEF LiveTask
<1> QED
  BY <1>1, <1>a, <1>5, <1>6, <1>7, InPlace DEF Kept

LEMMA TryConnectedStep ==
  ASSUME Inv, NEW i \in Slots, TryConnected(i)
  PROVE  Kept
<1>1. tasks[i].kind = "try" /\ latest # i /\ tasks[i].node \in 1..nodes /\ tasks[i].address \in 1..addresses
  BY SlotIs DEF TryConnected, Is
<1> DEFINE x == Wait(tasks[i].node, tasks[i].address)
<1>2. x \in Tasks /\ x.kind = "wait"
  BY <1>1, TaskOf DEF Wait
<1>3. tasks' = [tasks EXCEPT ![i] = x]
  BY DEF TryConnected
<1> HIDE DEF x
<1>4. latest' = latest /\ plan' = plan /\ nodes' = nodes /\ addresses' = addresses /\ late' = late
  BY DEF TryConnected, Node, Still
<1>5. LiveTask(tasks[i]) /\ late' \in Nat /\ late' >= late
  BY <1>1, <1>4, SlotIs DEF LiveTask
<1> QED
  BY <1>1, <1>2, <1>3, <1>4, <1>5, InPlace DEF Kept

(* A race that goes on, or whose reconnect does. *)
LEMMA RaceGoesOn ==
  ASSUME Inv, NEW i \in Slots, Is(i, "race"), NEW x, IsRace(x), SameRace(x, tasks[i]),
         x.ping \in BOOLEAN, x.timer \in BOOLEAN, x.step \in {None, "disconnect", "connect"},
         x.step # None => ~x.timer, LiveTask(x) <=> LiveTask(tasks[i]),
         tasks' = [tasks EXCEPT ![i] = x] \/ tasks' = [tasks EXCEPT ![i] = Settled(x)],
         Node, latest' = latest
  PROVE  Kept
<1>1. x \in Tasks /\ x.kind = "race"
  BY SlotIs, RaceIsTask DEF Is
<1>2. /\ plan' = plan /\ nodes' = nodes /\ addresses' = addresses /\ late' \in Nat /\ late' >= late
  BY SlotIs DEF Node, Still
<1>3. latest = i => LiveTask(x)
  BY SlotIs DEF Is
<1>4. ~BeforeRace(i)
  BY DEF BeforeRace, Is
<1>5. PICK y \in {x, Settled(x)} : tasks' = [tasks EXCEPT ![i] = y]
  OBVIOUS
<1>6. y = x \/ (y = NoTask /\ ~LiveTask(x))
  <2>1. CASE ~x.ping /\ ~x.timer /\ x.step = None
    BY <1>1, <1>5, <2>1 DEF Settled, LiveTask
  <2>2. CASE ~(~x.ping /\ ~x.timer /\ x.step = None)
    BY <1>5, <2>2 DEF Settled
  <2> QED
    BY <2>1, <2>2
<1>7. NoTask \in Tasks /\ ~LiveTask(NoTask) /\ NoTask.kind # "race"
  BY NoneIs DEF Tasks
<1>8. /\ y \in Tasks /\ (LiveTask(y) => LiveTask(tasks[i]))
      /\ y.kind = "race" /\ y.step # None => ~y.timer
      /\ latest = i => y.kind = "race" /\ LiveTask(y)
  <2>1. CASE y = x
    BY <1>1, <1>3, <2>1
  <2>2. CASE y = NoTask /\ ~LiveTask(x)
    BY <1>3, <1>7, <2>2
  <2> QED
    BY <1>6, <2>1, <2>2
<1> QED
  BY <1>2, <1>4, <1>5, <1>8, InPlace DEF Kept

LEMMA RaceSteps ==
  ASSUME Inv, NEW i \in Slots, TimerFires(i) \/ Disconnected(i) \/ PingFails(i)
  PROVE  Kept
<1> DEFINE t == tasks[i]
           no == FALSE
<1>1. Is(i, "race") /\ t.kind = "race" /\ Node /\ latest' = latest /\ ~no /\ no \in BOOLEAN
  BY DEF TimerFires, Disconnected, PingFails, Is
<1>2. /\ IsRace(t) /\ t.ping \in BOOLEAN /\ t.timer \in BOOLEAN /\ t.step \in {None, "disconnect", "connect"}
      /\ t.step # None => ~t.timer
  BY <1>1, SlotIs
<1>3. CASE TimerFires(i)
  <2> DEFINE step == "disconnect"
             x == [t EXCEPT !.timer = no, !.step = step]
  <2>1. tasks' = [tasks EXCEPT ![i] = x] /\ t.timer
    BY <1>3 DEF TimerFires
  <2>a. x = Fired(t, no, step)
    BY DEF Fired
  <2>b. step \in {None, "disconnect", "connect"} /\ step # None
    BY NoneIs
  <2> HIDE DEF no, x, step
  <2>2. IsRace(x) /\ SameRace(x, t) /\ x.step = step /\ x.ping = t.ping /\ x.timer = no
    BY <1>2, <2>a, RaceFired
  <2>3. LiveTask(x) /\ LiveTask(t)
    BY <1>1, <2>1, <2>b, <2>2 DEF LiveTask, IsRace
  <2> QED
    BY <1>1, <1>2, <2>1, <2>b, <2>2, <2>3, RaceGoesOn
<1>4. CASE Disconnected(i)
  <2> DEFINE x == [t EXCEPT !.step = "connect"]
  <2>1. tasks' = [tasks EXCEPT ![i] = x] /\ t.step = "disconnect"
    BY <1>4 DEF Disconnected
  <2>2. IsRace(x) /\ SameRace(x, t) /\ x.step = "connect" /\ x.ping = t.ping /\ x.timer = t.timer
    BY <1>2, RaceStep
  <2> HIDE DEF x
  <2>3. LiveTask(x) /\ LiveTask(t) /\ ~x.timer
    BY <1>1, <1>2, <2>1, <2>2, NoneIs DEF LiveTask, IsRace
  <2> QED
    BY <1>1, <1>2, <2>1, <2>2, <2>3, RaceGoesOn
<1>5. CASE PingFails(i)
  <2> DEFINE x == [t EXCEPT !.ping = no]
  <2>1. tasks' = [tasks EXCEPT ![i] = Settled(x)]
    BY <1>5 DEF PingFails
  <2>a. x = [t EXCEPT !.ping = no]
    OBVIOUS
  <2> HIDE DEF no, x
  <2>2. IsRace(x) /\ SameRace(x, t) /\ x.step = t.step /\ x.ping = no /\ x.timer = t.timer
    BY <1>2, <2>a, RacePinged
  <2>3. LiveTask(x) <=> LiveTask(t)
    BY <1>1, <2>2 DEF LiveTask, IsRace
  <2> QED
    BY <1>1, <1>2, <2>1, <2>2, <2>3, RaceGoesOn
<1> QED
  BY <1>3, <1>4, <1>5

(* What begins a race. *)
LEMMA KeepAliveStep ==
  ASSUME Inv, NEW i \in Slots, TryFails(i) \/ WaitEnds(i) \/ ReconnectEnds(i)
  PROVE  Kept
<1>0. TypeInv /\ RaceInv /\ CountInv
  BY DEF Inv
<1>1. /\ tasks[i].kind \in {"try", "wait", "race"} /\ (tasks[i].kind = "race" => tasks[i].step # None)
      /\ Node
  BY DEF TryFails, WaitEnds, ReconnectEnds, Is
<1>2. PICK b \in [last : 0..KeepTrying, current : 0..(2 * KeepTrying)] : KeepAlive(i, b)
  <2>1. CASE TryFails(i) \/ WaitEnds(i)
    BY <2>1, BackoffsAre DEF TryFails, WaitEnds
  <2>2. CASE ReconnectEnds(i)
    <3>1. tasks[i].backoff \in [last : 0..KeepTrying, current : 0..(2 * KeepTrying)]
      BY <2>2, SlotIs DEF ReconnectEnds, Is
    <3> QED
      BY <2>2, <3>1, BackoffsAre DEF ReconnectEnds
  <2> QED
    BY <2>1, <2>2
<1>3. nodes' = nodes /\ addresses' = addresses /\ plan' = plan /\ late' = late
  BY <1>1 DEF Node, Still
<1>4. /\ tasks' \in [1..plan.tasks -> Tasks'] /\ RaceInv' /\ latest' \in Slots' /\ LatestInv'
      /\ i \in LiveSlots /\ \E f : LiveSlots' \subseteq (LiveSlots \ {i}) \union {f}
  BY <1>0, <1>1, <1>2, <1>3, KeepAliveEffect
<1>5. CountInv'
  BY <1>0, <1>3, <1>4, CountMoved
<1>6. latest' # None
  <2>1. Slots' = 1..plan.tasks /\ plan.tasks \in Nat
    BY <1>0, <1>4, SlotsAre, PeerConnectionsAssumption DEF TypeInv, Slots
  <2> QED
    BY <1>4, <2>1, NoneIs
<1> QED
  BY <1>4, <1>5, <1>6 DEF Kept, WaitInv

(* An answer ends its race, unless reconnect has begun; only after the      *)
(* latest race a wait follows, beside the reconnect if the timer had fired. *)
LEMMA PingAnswersStep ==
  ASSUME Inv, NEW i \in Slots, PingAnswers(i)
  PROVE  Kept
<1> DEFINE no == FALSE
           q == Answered(tasks[i], no)
           t == Settled(q)
           next == Wait(tasks[i].node, tasks[i].address)
<1>1. /\ Is(i, "race") /\ tasks[i].kind = "race" /\ Still
      /\ late' = IF IsLate(i) THEN late + 1 ELSE late
      /\ latest' = IF latest = i /\ t = NoTask THEN None ELSE latest
      /\ CASE latest # i -> tasks' = [tasks EXCEPT ![i] = t]
           [] latest = i /\ t = NoTask -> tasks' = [tasks EXCEPT ![i] = next]
           [] OTHER -> Free # {} /\ tasks' = [tasks EXCEPT ![i] = t, ![FreeSlot] = next]
  BY DEF PingAnswers, Answers, Answered, Is
<1>2. plan' = plan /\ nodes' = nodes /\ addresses' = addresses
  BY <1>1 DEF Still
<1>3. no \in BOOLEAN /\ ~no
  OBVIOUS
<1>4. /\ IsRace(tasks[i]) /\ tasks[i].node \in 1..nodes /\ tasks[i].address \in 1..addresses
      /\ tasks[i].step \in {None, "disconnect", "connect"}
      /\ tasks[i].timer \in BOOLEAN
      /\ tasks[i].step # None => ~tasks[i].timer
      /\ latest = i => LiveTask(tasks[i])
      /\ late \in Nat /\ tasks[i] \in Tasks /\ TypeInv /\ tasks \in [1..plan.tasks -> Tasks]
  BY <1>1, SlotIs
<1> HIDE DEF no, q
<1>5. /\ IsRace(q) /\ SameRace(q, tasks[i]) /\ q.step = tasks[i].step
      /\ q.ping = no /\ q.timer = no
  BY <1>4, RaceAnswered DEF q
<1>6. q \in Tasks /\ q.kind = "race" /\ ~q.ping /\ ~q.timer
  BY <1>1, <1>3, <1>4, <1>5, RaceIsTask
<1>7. t = IF tasks[i].step = None THEN NoTask ELSE q
  BY <1>5, <1>6 DEF Settled
<1>8. next \in Tasks /\ next.kind = "wait" /\ LiveTask(next)
  BY <1>4, TaskOf DEF Wait, LiveTask
<1> HIDE DEF t, next
<1>9. NoTask \in Tasks /\ ~LiveTask(NoTask) /\ NoTask.kind = None /\ None # "race" /\ NoTask # q
  BY <1>6, NoneIs DEF Tasks
<1>10. /\ t \in Tasks /\ (LiveTask(t) => LiveTask(tasks[i]))
       /\ t.kind = "race" /\ t.step # None => ~t.timer
       /\ t # NoTask => t.kind = "race" /\ LiveTask(t) /\ tasks[i].step # None
  BY <1>1, <1>5, <1>6, <1>7, <1>9 DEF LiveTask
<1>11. late' \in Nat /\ late' >= late
  BY <1>1, <1>4
<1>12. CASE latest # i
  <2>1. tasks' = [tasks EXCEPT ![i] = t] /\ latest' = latest
    BY <1>1, <1>12
  <2>2. ~BeforeRace(i)
    BY <1>1 DEF BeforeRace, Is
  <2> QED
    BY <1>2, <1>10, <1>11, <1>12, <2>1, <2>2, InPlace DEF Kept
<1>13. CASE latest = i /\ t = NoTask
  <2>1. tasks' = [tasks EXCEPT ![i] = next] /\ latest' = None
    BY <1>1, <1>13
  <2>2. LiveTask(tasks[i])
    BY <1>4, <1>13
  <2> QED
    BY <1>2, <1>8, <1>11, <2>1, <2>2, InPlace DEF Kept
<1>14. CASE latest = i /\ t # NoTask
  <2>1. /\ Free # {} /\ tasks' = [tasks EXCEPT ![i] = t, ![FreeSlot] = next] /\ latest' = latest
    BY <1>1, <1>14
  <2>2. late' = late + 1
    BY <1>1, <1>4, <1>10, <1>14 DEF IsLate
  <2>3. FreeSlot \in Slots /\ i # FreeSlot
    BY <1>1, <1>9, <2>1, FreeIs
  <2>4. /\ Slots' = Slots /\ tasks'[i] = t /\ tasks'[FreeSlot] = next
        /\ \A j \in Slots : j # i /\ j # FreeSlot => tasks'[j] = tasks[j]
        /\ tasks' = [j \in 1..plan.tasks |-> tasks'[j]]
    BY <1>4, <2>1, <2>3, TwoPut
  <2>5. Tasks' = Tasks
    BY <1>2 DEF Tasks, NoTask
  <2>6. Stays(i)
    BY <1>10, <1>14, <2>4, <2>5 DEF Stays
  <2>7. /\ nodes' \in Nat /\ nodes' >= nodes /\ addresses' \in Nat /\ addresses' >= addresses
        /\ addresses' + late' = addresses + late + 1
    BY <1>2, <1>4, <2>2 DEF TypeInv
  <2>8. next \in Tasks' /\ next.kind \in {"try", "wait"} /\ latest' \in {latest, None}
    BY <1>8, <2>1, <2>5
  <2>9. \A j \in Slots : j # FreeSlot => tasks'[j] = tasks[j] \/ Stays(j)
    BY <2>4, <2>6
  <2> QED
    BY <1>2, <1>11, <2>1, <2>4, <2>7, <2>8, <2>9, OneMore DEF Kept
<1> QED
  BY <1>12, <1>13, <1>14

(* Which addresses are reported, and the callers of getIpfs. *)
LEMMA ReportIs ==
  ASSUME TypeInv, NEW address \in 1..addresses, NEW connected, Report(address, connected)
  PROVE  up' \subseteq 1..addresses
BY DEF TypeInv, Report

LEMMA TasksKeepInv ==
  ASSUME Inv, NEW i \in Slots, TaskSteps(i)
  PROVE  Inv'
<1>1. Kept
  BY TryPingedStep, TryConnectedStep, RaceSteps, KeepAliveStep, PingAnswersStep DEF TaskSteps
<1>2. Still /\ late' \in Nat
  <2>1. late \in Nat
    BY SlotIs
  <2>2. CASE PingAnswers(i)
    BY <2>1, <2>2 DEF PingAnswers, Answers
  <2>3. CASE ~PingAnswers(i)
    <3>1. Node
      BY <2>3 DEF TaskSteps, TryPinged, TryConnected, TryFails, WaitEnds, TimerFires, Disconnected,
                  ReconnectEnds, PingFails
    <3> QED
      BY <2>1, <3>1 DEF Node
  <2> QED
    BY <2>2, <2>3
<1>3. up' \subseteq 1..addresses
  <2>1. CASE up' = up
    BY <2>1 DEF Inv, TypeInv
  <2>2. CASE up' # up
    <3>1. \E connected : Report(tasks[i].address, connected)
      BY <2>2
      DEF TaskSteps, TryPinged, TryConnected, TryFails, WaitEnds, TimerFires, Disconnected,
          ReconnectEnds, PingAnswers, Answers, PingFails
    <3>2. tasks[i].kind \in {"try", "wait", "race"}
      BY DEF TaskSteps, TryPinged, TryConnected, TryFails, WaitEnds, TimerFires, Disconnected,
             ReconnectEnds, PingAnswers, Answers, PingFails, Is
    <3> QED
      BY <3>1, <3>2, SlotIs, ReportIs
  <2> QED
    BY <2>1, <2>2
<1>4. TypeInv'
  BY <1>1, <1>2, <1>3 DEF Inv, TypeInv, Still, Kept
<1> QED
  BY <1>1, <1>4 DEF Inv, Kept

LEMMA CallersAre ==
  ASSUME TypeInv, NEW from \in {"package", "peers", "create"}, NEW to \in {"package", "peers", "create"},
         callers[from] > 0, from # to
  PROVE  /\ Moved(from, to) \in [package : Nat, peers : Nat, create : Nat]
         /\ Ended(from) \in [package : Nat, peers : Nat, create : Nat]
BY DEF TypeInv, Moved, Ended

LEMMA NodesKeepInv ==
  ASSUME Inv, GetIpfs \/ PackageLoads \/ ListPeers \/ CreateAndConnect \/ Online \/ Flip
  PROVE  Inv'
<1>0. TypeInv /\ nodes \in Nat /\ addresses \in Nat /\ late \in Nat
  BY DEF Inv, TypeInv
<1>1. Kept
  <2>1. CASE GetIpfs \/ PackageLoads \/ ListPeers \/ Flip
    BY <2>1, NoTaskSteps DEF GetIpfs, PackageLoads, ListPeers, Flip, Watching, Kept
  <2>2. CASE CreateAndConnect \/ Online
    BY <2>2, TryStep
  <2> QED
    BY <2>1, <2>2
<1>2. callers' \in [package : Nat, peers : Nat, create : Nat]
  <2>1. CASE GetIpfs
    <3>1. callers' = [callers EXCEPT !.package = callers.package + 1]
      BY <2>1 DEF GetIpfs
    <3>2. callers \in [package : Nat, peers : Nat, create : Nat]
      BY <1>0 DEF TypeInv
    <3> QED
      BY <3>1, <3>2
  <2>2. CASE PackageLoads
    BY <1>0, <2>2, CallersAre DEF PackageLoads
  <2>3. CASE ListPeers
    BY <1>0, <2>3, CallersAre DEF ListPeers
  <2>4. CASE CreateAndConnect
    BY <1>0, <2>4, CallersAre DEF CreateAndConnect
  <2>5. CASE Online \/ Flip
    BY <1>0, <2>5 DEF Online, Flip, TypeInv
  <2> QED
    BY <2>1, <2>2, <2>3, <2>4, <2>5
<1>3. cached' \in {"none", "empty", "full"} /\ plan' \in Plans
  BY <1>0 DEF GetIpfs, PackageLoads, ListPeers, CreateAndConnect, Online, Flip, TypeInv, Fetched
<1>4. /\ nodes' \in Nat /\ addresses' \in Nat /\ late' \in Nat /\ up' \subseteq 1..addresses'
      /\ IF nodes' = 0 THEN instance' = None ELSE instance' \in 1..nodes'
  <2>1. CASE GetIpfs \/ PackageLoads \/ ListPeers \/ Flip
    BY <1>0, <2>1 DEF GetIpfs, PackageLoads, ListPeers, Flip, Watching, TypeInv
  <2>2. CASE CreateAndConnect
    BY <1>0, <2>2 DEF CreateAndConnect, TypeInv
  <2>3. CASE Online
    BY <1>0, <2>3 DEF Online, TypeInv
  <2> QED
    BY <2>1, <2>2, <2>3
<1>5. plan' = plan
  BY DEF GetIpfs, PackageLoads, ListPeers, CreateAndConnect, Online, Flip
<1>6. TypeInv'
  BY <1>1, <1>2, <1>3, <1>4, <1>5 DEF TypeInv, Kept
<1> QED
  BY <1>1, <1>6 DEF Inv, Kept

-----------------------------------------------------------------------------
(* THEOREMS *)

(* The inductive invariant: the latest race can still reconnect, or a task  *)
(* is before its race; a reconnect begins when the timer has fired; tasks   *)
(* are as many as were brought in, at most (keepAlive, reconnect,           *)
(* tryConnecting, CreateAndConnect in node.ts).                            *)
THEOREM Invariance == Spec => []Inv
<1>1. Init => Inv
  <2> SUFFICES ASSUME Init PROVE Inv
    OBVIOUS
  <2>1. /\ plan \in Plans /\ plan.tasks \in Nat /\ Slots = 1..plan.tasks
        /\ \A i \in Slots : tasks[i] = NoTask
    BY PeerConnectionsAssumption DEF Init, Slots
  <2>2. NoTask \in Tasks /\ NoTask.kind = None /\ ~LiveTask(NoTask)
    BY NoneIs DEF Tasks
  <2>3. TypeInv
    BY <2>1, <2>2 DEF Init, TypeInv
  <2>4. RaceInv /\ LatestInv /\ WaitInv
    BY <2>1, <2>2, NoneIs DEF Init, RaceInv, LatestInv, WaitInv, Is
  <2>5. CountInv
    <3>1. LiveSlots = {}
      BY <2>1, <2>2, LiveIs DEF LiveSlots
    <3>2. Cardinality(LiveSlots) = 0
      BY <3>1, FS_EmptySet
    <3> QED
      BY <3>2 DEF Init, CountInv
  <2> QED
    BY <2>3, <2>4, <2>5 DEF Inv
<1>2. Inv /\ [Next]_vars => Inv'
  <2> SUFFICES ASSUME Inv, [Next]_vars PROVE Inv'
    OBVIOUS
  <2>1. CASE UNCHANGED vars
    <3>1. Kept
      BY <2>1, NoTaskSteps DEF vars, Kept
    <3> QED
      BY <2>1, <3>1 DEF vars, Inv, TypeInv, Kept
  <2>2. CASE \E i \in Slots : TaskSteps(i)
    BY <2>2, TasksKeepInv
  <2>3. CASE GetIpfs \/ PackageLoads \/ ListPeers \/ CreateAndConnect \/ Online \/ Flip
    BY <2>3, NodesKeepInv
  <2> QED
    BY <2>1, <2>2, <2>3 DEF Next
<1> QED
  BY <1>1, <1>2, PTL DEF Spec

(* Tasks, reports and counters have their values, and a backoff is at most  *)
(* twice KEEP_TRYING_INTERVAL, for every interval (reconnect).              *)
THEOREM Types == Spec => []TypeOK
<1>1. Inv => TypeOK
  BY DEF Inv, TypeInv, TypeOK, Slots
<1> QED
  BY <1>1, Invariance, PTL

(* The peer is never given up, and is watched by no more tasks than nodes,  *)
(* "online" events and late answers have brought (keepAlive, reconnect).    *)
THEOREM Watched == Spec => []PeerIsWatched
<1>1. Inv => PeerIsWatched
  <2> SUFFICES ASSUME Inv, nodes > 0
               PROVE  Cardinality(LiveSlots) \in 1..(addresses + late)
    BY DEF PeerIsWatched, LiveSlots
  <2>1. /\ IsFiniteSet(LiveSlots) /\ Cardinality(LiveSlots) \in Nat
        /\ addresses \in Nat /\ late \in Nat
    BY SlotsAre DEF Inv
  <2>2. LiveSlots # {}
    <3>1. CASE latest = None
      <4>1. PICK i \in Slots : BeforeRace(i)
        BY <3>1 DEF Inv, WaitInv
      <4>2. i \in LiveSlots
        BY <4>1 DEF BeforeRace, LiveSlots, Live
      <4> QED
        BY <4>2
    <3>2. CASE latest # None
      BY <3>2 DEF Inv, LatestInv, LiveSlots, Is
    <3> QED
      BY <3>1, <3>2
  <2>3. Cardinality(LiveSlots) # 0
    BY <2>1, <2>2, FS_EmptySet
  <2> QED
    BY <2>1, <2>3 DEF Inv, CountInv
<1> QED
  BY <1>1, Invariance, PTL

=============================================================================
