-------------------------- MODULE PeerConnections --------------------------
(***************************************************************************)
(* The IPFS node of a page and the connection it keeps alive with a peer   *)
(* (src/src/components/depot/implementation/ipfs/node.ts, ipfs-default-    *)
(* pkg.ts): creating the node on the first use, connecting, and the races  *)
(* of a ping with a timer that reconnects.                                 *)
(*                                                                         *)
(* One peer of the list; peers share nothing but the report.  A task is    *)
(* one attempt to connect, one wait for the next race, or one race with    *)
(* the reconnect it may lead to.  The slot of a race stands for the id of  *)
(* its timer; latest is None when the race it held is over, as no other is *)
(* ever compared with it.  Nodes and multiaddresses are numbered in the    *)
(* order of their making.                                                  *)
(*                                                                         *)
(* Left out: times and latencies in the report; peers on localhost, which  *)
(* the "online" listener passes over; the monitors, which only log.        *)
(***************************************************************************)
EXTENDS Naturals, FiniteSets

CONSTANTS
  Plans,       \* bounds: calls of getIpfs at once, "online" events, late answers, tasks at a time
  KeepTrying,  \* KEEP_TRYING_INTERVAL, in units of the first backoff
  MaxFlips,    \* bound: how often the peer comes and goes
  None

ASSUME PeerConnectionsAssumption ==
  /\ KeepTrying \in Nat \ {0} /\ MaxFlips \in Nat
  /\ \A p \in Plans : p.callers \in Nat /\ p.online \in Nat /\ p.late \in Nat /\ p.tasks \in Nat
  /\ None \notin Nat \union {"try", "wait", "race", "disconnect", "connect"}

VARIABLES
  plan,       \* what this behaviour may do
  cached,     \* storage: the peer list, "none", "empty" or "full"
  callers,    \* how many calls of getIpfs are loading the package, listing peers, creating
  instance,   \* the node that later calls are given, or None
  nodes,      \* number of nodes
  addresses,  \* number of multiaddress objects
  tasks,      \* the tasks, by slot
  latest,     \* latestPeerTimeoutIds of the peer
  up,         \* peerConnections: addresses reported as connected
  late,       \* history: answers to a ping whose timer had fired
  reachable, flips

vars == <<plan, cached, callers, instance, nodes, addresses, tasks, latest, up, late, reachable, flips>>

Slots == DOMAIN tasks
BackoffInit == [last |-> 0, current |-> 1]

NoTask == [kind |-> None]
Free == {i \in Slots : tasks[i] = NoTask}
FreeSlot == CHOOSE i \in Free : TRUE
Is(i, kind) == i \in Slots /\ tasks[i].kind = kind

Try(node, address) == [kind |-> "try", node |-> node, address |-> address, step |-> "ping"]
Wait(node, address) == [kind |-> "wait", node |-> node, address |-> address]
Race(node, address, backoff) ==
  [kind |-> "race", node |-> node, address |-> address, backoff |-> backoff,
   ping |-> TRUE, timer |-> TRUE, step |-> None]

(* A race is over when nothing of it can still happen. *)
Settled(task) == IF ~task.ping /\ ~task.timer /\ task.step = None THEN NoTask ELSE task

(* Mutant: the entry from before is found no more. *)
ReportMore(address, connected) == up' = IF connected THEN up \union {address} ELSE up

Report(address, connected) == up' = IF connected THEN up \union {address} ELSE up \ {address}

Init ==
  /\ plan \in Plans /\ cached \in {"none", "empty", "full"}
  /\ callers = [package |-> 0, peers |-> 0, create |-> 0]
  /\ instance = None /\ nodes = 0 /\ addresses = 0
  /\ tasks = [i \in 1..plan.tasks |-> NoTask] /\ latest = None /\ up = {} /\ late = 0
  /\ reachable \in BOOLEAN /\ flips = 0

-----------------------------------------------------------------------------
(* Creating the node.  A call that finds no instance makes a node of its own. *)
Watching == <<tasks, latest, up, late>>
Moved(from, to) == [callers EXCEPT ![from] = @ - 1, ![to] = @ + 1]
Ended(from) == [callers EXCEPT ![from] = @ - 1]

GetIpfs ==
  /\ instance = None /\ nodes + callers.package + callers.peers + callers.create < plan.callers
  /\ callers' = [callers EXCEPT !.package = @ + 1]
  /\ UNCHANGED <<plan, cached, instance, nodes, addresses, Watching, reachable, flips>>

PackageLoads ==
  /\ callers.package > 0 /\ callers' = Moved("package", "peers")
  /\ UNCHANGED <<plan, cached, instance, nodes, addresses, Watching, reachable, flips>>

(* listPeers: the list in storage is used and fetched anew behind its back. *)
Fetched == {"empty", "full"}

ListPeers ==
  /\ callers.peers > 0
  /\ \/ /\ cached # "none" /\ cached' \in {cached} \union Fetched
        /\ callers' = IF cached = "empty" THEN Ended("peers") ELSE Moved("peers", "create")
     \/ /\ cached = "none" /\ cached' \in Fetched
        /\ callers' = IF cached' = "empty" THEN Ended("peers") ELSE Moved("peers", "create")
     \/ cached = "none" /\ callers' = Ended("peers") /\ UNCHANGED cached
  /\ UNCHANGED <<plan, instance, nodes, addresses, Watching, reachable, flips>>

(* The last node to be ready becomes the instance. *)
CreateAndConnect ==
  /\ callers.create > 0 /\ Free # {}
  /\ callers' = Ended("create")
  /\ nodes' = nodes + 1 /\ addresses' = addresses + 1 /\ instance' = nodes'
  /\ tasks' = [tasks EXCEPT ![FreeSlot] = Try(nodes', addresses')]
  /\ latest' = None
  /\ UNCHANGED <<plan, cached, up, late, reachable, flips>>

(* The listener of each node makes addresses of its own. *)
Online ==
  /\ nodes > 0 /\ addresses < nodes + plan.online /\ Free # {}
  /\ \E node \in 1..nodes :
       /\ addresses' = addresses + 1
       /\ tasks' = [tasks EXCEPT ![FreeSlot] = Try(node, addresses')]
  /\ UNCHANGED <<plan, cached, callers, instance, nodes, latest, up, late, reachable, flips>>

-----------------------------------------------------------------------------
Still == UNCHANGED <<plan, cached, callers, instance, nodes, addresses, reachable, flips>>
Node == Still /\ UNCHANGED late

(* keepAlive, in place of the task in slot i, whose race may still have a ping out. *)
KeepAlive(i, backoff) ==
  LET t == tasks[i]
      old == IF t.kind = "race" THEN Settled([t EXCEPT !.step = None]) ELSE NoTask
      new == Race(t.node, t.address, backoff)
  IN IF old = NoTask THEN tasks' = [tasks EXCEPT ![i] = new] /\ latest' = i
     ELSE /\ Free # {} /\ latest' = FreeSlot
          /\ tasks' = [tasks EXCEPT ![i] = old, ![FreeSlot] = new]

(* tryConnecting *)
TryPinged(i) ==
  /\ Is(i, "try") /\ tasks[i].step = "ping" /\ reachable /\ Node
  /\ tasks' = [tasks EXCEPT ![i].step = "connect"] /\ UNCHANGED <<latest, up>>

TryConnected(i) ==
  /\ Is(i, "try") /\ tasks[i].step = "connect" /\ reachable /\ Node
  /\ Report(tasks[i].address, TRUE)
  /\ tasks' = [tasks EXCEPT ![i] = Wait(@.node, @.address)] /\ UNCHANGED latest

TryFails(i) ==
  /\ Is(i, "try") /\ Node
  /\ Report(tasks[i].address, FALSE) /\ KeepAlive(i, BackoffInit)

WaitEnds(i) == Is(i, "wait") /\ Node /\ KeepAlive(i, BackoffInit) /\ UNCHANGED up

(* The timer fires: reconnect begins. *)
TimerFires(i) ==
  /\ Is(i, "race") /\ tasks[i].timer /\ Node
  /\ Report(tasks[i].address, FALSE)
  /\ tasks' = [tasks EXCEPT ![i].timer = FALSE, ![i].step = "disconnect"] /\ UNCHANGED latest

Disconnected(i) ==
  /\ Is(i, "race") /\ tasks[i].step = "disconnect" /\ Node
  /\ tasks' = [tasks EXCEPT ![i].step = "connect"] /\ UNCHANGED <<latest, up>>

(* Mutant: the backoff grows for ever. *)
NextBackoffUnbounded(b) == [last |-> b.current, current |-> b.last + b.current]

NextBackoff(b) ==
  IF b.current < KeepTrying THEN [last |-> b.current, current |-> b.last + b.current] ELSE b

(* Mutant: once the backoff is long enough, it is not tried again. *)
ReconnectGivesUp(i) ==
  /\ Is(i, "race") /\ tasks[i].step # None /\ Node
  /\ IF tasks[i].backoff.current < KeepTrying THEN KeepAlive(i, NextBackoff(tasks[i].backoff))
     ELSE tasks' = [tasks EXCEPT ![i] = Settled([@ EXCEPT !.step = None])] /\ UNCHANGED latest
  /\ UNCHANGED up

(* Connected, or either call failed: there is another race in any case. *)
ReconnectEnds(i) ==
  /\ Is(i, "race") /\ tasks[i].step # None /\ Node
  /\ KeepAlive(i, NextBackoff(tasks[i].backoff)) /\ UNCHANGED up

(* The latest race, when its ping is answered, is followed by a wait; when  *)
(* its timer has fired, that is so although reconnect goes on as well.     *)
IsLate(i) == latest = i /\ ~tasks[i].timer
Answers(i, after) ==
  LET t == Settled([tasks[i] EXCEPT !.ping = FALSE, !.timer = FALSE])
      next == Wait(tasks[i].node, tasks[i].address)
  IN /\ Is(i, "race") /\ tasks[i].ping /\ reachable /\ Still
     /\ Report(tasks[i].address, TRUE)
     /\ IsLate(i) => late < plan.late
     /\ late' = IF IsLate(i) THEN late + 1 ELSE late
     /\ latest' = IF latest = i /\ t = NoTask THEN None ELSE latest
     /\ CASE ~after -> tasks' = [tasks EXCEPT ![i] = t]
          [] after /\ t = NoTask -> tasks' = [tasks EXCEPT ![i] = next]
          [] OTHER -> Free # {} /\ tasks' = [tasks EXCEPT ![i] = t, ![FreeSlot] = next]

(* Mutant: only a race that is not the latest goes on. *)
PingAnswersOthers(i) == Answers(i, latest # i)

PingAnswers(i) == Answers(i, latest = i)

PingFails(i) ==
  /\ Is(i, "race") /\ tasks[i].ping /\ Node
  /\ tasks' = [tasks EXCEPT ![i] = Settled([@ EXCEPT !.ping = FALSE])] /\ UNCHANGED <<latest, up>>

-----------------------------------------------------------------------------
(* External: the peer, or the network, comes and goes. *)
Flip ==
  /\ flips < MaxFlips /\ flips' = flips + 1 /\ reachable' = ~reachable
  /\ UNCHANGED <<plan, cached, callers, instance, nodes, addresses, Watching>>

TaskSteps(i) ==
  \/ TryPinged(i) \/ TryConnected(i) \/ TryFails(i) \/ WaitEnds(i)
  \/ TimerFires(i) \/ Disconnected(i) \/ ReconnectEnds(i)
  \/ PingAnswers(i) \/ PingFails(i)

Next ==
  \/ GetIpfs \/ PackageLoads \/ ListPeers \/ CreateAndConnect \/ Online
  \/ \E i \in Slots : TaskSteps(i)
  \/ Flip

MostTasks == CHOOSE n \in {p.tasks : p \in Plans} : \A p \in Plans : p.tasks <= n

(* Timers fire, calls of libp2p and pings come to an end, and of the pings *)
(* to a peer that can be reached again and again some is answered.         *)
Fairness ==
  /\ \A i \in 1..MostTasks :
       /\ WF_vars(TryConnected(i) \/ TryFails(i)) /\ WF_vars(WaitEnds(i))
       /\ WF_vars(TimerFires(i)) /\ WF_vars(ReconnectEnds(i))
       /\ WF_vars(PingAnswers(i) \/ PingFails(i))
  /\ SF_vars(\E i \in Slots : PingAnswers(i))

Spec == Init /\ [][Next]_vars /\ Fairness

-----------------------------------------------------------------------------
Tasks ==
  LET Nodes == 1..nodes Addresses == 1..addresses
      Backoffs == [last : 0..KeepTrying, current : 0..(2 * KeepTrying)]
  IN {NoTask}
       \union [kind : {"try"}, node : Nodes, address : Addresses, step : {"ping", "connect"}]
       \union [kind : {"wait"}, node : Nodes, address : Addresses]
       \union [kind : {"race"}, node : Nodes, address : Addresses, backoff : Backoffs,
               ping : BOOLEAN, timer : BOOLEAN, step : {None, "disconnect", "connect"}]

(* Tasks, reports and counters have the values that the code gives them; a *)
(* backoff never exceeds twice the interval for trying; and the instance,  *)
(* once there is one, is a node that was made.                             *)
TypeOK ==
  /\ cached \in {"none", "empty", "full"} /\ \A s \in DOMAIN callers : callers[s] \in Nat
  /\ \A i \in Slots : tasks[i] \in Tasks
  /\ latest \in Slots \union {None} /\ up \subseteq 1..addresses
  /\ IF nodes = 0 THEN instance = None ELSE instance \in 1..nodes

Live(i) ==
  \/ Is(i, "try") \/ Is(i, "wait")
  \/ Is(i, "race") /\ (tasks[i].timer \/ tasks[i].step # None)

(* The peer is never given up: whatever the order of answers, timers and   *)
(* reconnects, some task will try it again.  Nor do tasks multiply by      *)
(* themselves, other than by one for each node, each "online" event and    *)
(* each late answer (node.ts:230 takes that race for the latest one).      *)
PeerIsWatched ==
  nodes > 0 => Cardinality({i \in Slots : Live(i)}) \in 1..(addresses + late)

(* A peer that can be reached from some time on is reported as connected   *)
(* again and again, however long it was away before.                       *)
ComesBack == <>[]reachable => []<>(nodes > 0 => up # {})

(* One that cannot is reported as not connected in the end, as long as all *)
(* tasks are for the same multiaddress object: report does not know the    *)
(* entries of others again (node.ts:309).                                  *)
GoesOffline == <>[]~reachable => <>[](addresses = 1 => up = {})
=============================================================================
