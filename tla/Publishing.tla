----------------------------- MODULE Publishing -----------------------------
(***************************************************************************)
(* How a version of the file system gets from an app to the user's data    *)
(* root (src/src/fs/filesystem.ts), and which version is loaded when the   *)
(* page is opened again (src/src/filesystem.ts).                           *)
(*                                                                         *)
(*   write --> root.put --> CID log ---------------------> reload          *)
(*                    \--> debounce --> data root update --> server        *)
(*                              \--> queue, while offline                  *)
(*                                                                         *)
(* Each writer is one call of a mutation with { publish: true }.  A        *)
(* version of the file system is a number, 0 for the empty one; the CID of *)
(* a publish call is named by the call, since the code compares the CIDs   *)
(* it holds as objects.  One proof stands for all that a call needs.       *)
(***************************************************************************)
EXTENDS Naturals, Sequences, SequencesExt

CONSTANTS
  Writers,     \* calls of write(..., { publish: true })
  MaxOutages,  \* bound: times the browser goes offline
  MaxFaults,   \* bound: updates that fail, are late, or come from elsewhere
  MaxReloads,  \* bound: times the page is closed and opened again
  None         \* no call

ASSUME PublishingAssumption ==
  /\ MaxOutages \in Nat /\ MaxFaults \in Nat /\ MaxReloads \in Nat
  /\ None \notin Writers

VARIABLES
  content,     \* version of the file system in memory
  made,        \* versions made so far
  own,         \* ghost: those that were made or loaded here
  unlogged,    \* ghost: those that were loaded here and are not in the log
  proofs,      \* this.proofs is not empty
  pc,          \* where each call stands
  had,         \* publish: the call found proofs
  root,        \* version that each call has put
  log,         \* CID log in memory
  saved,       \* how much of it is in storage
  timer,       \* call whose CID the debounced function will be given
  queue,       \* this._publishWhenOnline
  publishing,  \* this._publishing
  sent,        \* updates on their way to the server
  answers,     \* answers on their way back
  server,      \* the data root
  events,      \* ghost: "fileSystem:publish" events, with what became of it
  online,      \* navigator.onLine
  calm,        \* ghost: no overlap, outage, fault or reload so far
  outages, faults, reloads

tree == <<content, made, own, proofs>>
calls == <<pc, had, root>>
ledger == <<log, saved, unlogged>>
link == <<sent, answers, server, events>>
bounds == <<calm, outages, faults, reloads>>
vars == <<tree, calls, ledger, timer, queue, publishing, link, online, bounds>>

Pipeline == {"writing", "written", "putting"}
Active(w) == pc[w] \in Pipeline

Init ==
  /\ content = 0 /\ made = 0 /\ own = {} /\ unlogged = {} /\ proofs = FALSE
  /\ pc = [w \in Writers |-> "idle"]
  /\ had = [w \in Writers |-> FALSE]
  /\ root = [w \in Writers |-> 0]
  /\ log = << >> /\ saved = 0
  /\ timer = None /\ queue = << >> /\ publishing = None
  /\ sent = << >> /\ answers = {} /\ server = 0 /\ events = {}
  /\ online = TRUE /\ calm = TRUE
  /\ outages = 0 /\ faults = 0 /\ reloads = 0

Fault == faults < MaxFaults /\ faults' = faults + 1 /\ calm' = FALSE

-----------------------------------------------------------------------------
(* WRITE AND PUBLISH *)

(* checkMutationPermissionAndAddProof. *)
StartWrite(w) ==
  /\ pc[w] = "idle"
  /\ proofs' = TRUE
  /\ pc' = [pc EXCEPT ![w] = "writing"]
  /\ calm' = (calm /\ \A u \in Writers : ~Active(u))
  /\ UNCHANGED <<content, made, own, had, root, ledger, timer, queue, publishing,
                 link, online, outages, faults, reloads>>

(* The mutation is in the root tree. *)
EndWrite(w) ==
  /\ pc[w] = "writing"
  /\ made' = made + 1
  /\ content' = made + 1
  /\ own' = own \union {made + 1}
  /\ pc' = [pc EXCEPT ![w] = "written"]
  /\ UNCHANGED <<proofs, had, root, ledger, timer, queue, publishing, link,
                 online, bounds>>

(* publish(): take the proofs away, put the root tree as it is now. *)
BeginPublish(w) ==
  /\ pc[w] = "written"
  /\ had' = [had EXCEPT ![w] = proofs]
  /\ proofs' = FALSE
  /\ root' = [root EXCEPT ![w] = content]
  /\ pc' = [pc EXCEPT ![w] = "putting"]
  /\ UNCHANGED <<content, made, own, ledger, timer, queue, publishing, link,
                 online, bounds>>

(* Mutants: nothing is logged; the debounce keeps its first arguments.     *)
PublishHooksUnlogged(cids) ==
  /\ UNCHANGED log
  /\ timer' = IF cids = << >> THEN timer ELSE Last(cids)
PublishHooksFirst(cids) ==
  /\ log' = log \o [i \in 1..Len(cids) |-> root[cids[i]]]
  /\ timer' = IF timer # None \/ cids = << >> THEN timer ELSE cids[1]

(* The hooks, for one CID after the other: log it, and set off the         *)
(* debounced update anew with it.                                          *)
PublishHooks(cids) ==
  /\ log' = log \o [i \in 1..Len(cids) |-> root[cids[i]]]
  /\ timer' = IF cids = << >> THEN timer ELSE Last(cids)

(* The root is put; the hooks run once for each proof that was there.      *)
EndPublish(w) ==
  /\ pc[w] = "putting"
  /\ PublishHooks(IF had[w] THEN <<w>> ELSE << >>)
  /\ pc' = [pc EXCEPT ![w] = "done"]
  /\ UNCHANGED <<tree, had, root, saved, unlogged, queue, publishing, link, online, bounds>>

(* Storage has taken the next entry of the log. *)
SaveLog ==
  /\ saved < Len(log)
  /\ saved' = saved + 1
  /\ UNCHANGED <<tree, calls, log, unlogged, timer, queue, publishing, link, online, bounds>>

-----------------------------------------------------------------------------
(* UPDATE OF THE DATA ROOT *)

(* Three seconds without a publish have passed.  The log hook is not       *)
(* awaited: that storage has taken the log by then is assumed.             *)
TimerFires ==
  /\ timer # None /\ saved = Len(log)
  /\ timer' = None
  /\ IF online
     THEN publishing' = timer /\ sent' = Append(sent, timer) /\ UNCHANGED queue
     ELSE queue' = Append(queue, timer) /\ UNCHANGED <<publishing, sent>>
  /\ UNCHANGED <<tree, calls, ledger, answers, server, events, online, bounds>>

(* The server takes an update; not the one sent first when it has answered *)
(* that one with a 5xx, which is retried after five seconds.               *)
ServerAccepts(i) ==
  /\ server' = root[sent[i]]
  /\ answers' = answers \union {[by |-> sent[i], success |-> TRUE]}
  /\ sent' = RemoveAt(sent, i)
  /\ IF i = 1 THEN UNCHANGED <<faults, calm>> ELSE Fault
  /\ UNCHANGED <<tree, calls, ledger, timer, queue, publishing, events, online,
                 outages, reloads>>

(* A status of 300 and more, too many retries, or no connection.           *)
UpdateFails(i) ==
  /\ Fault
  /\ answers' = answers \union {[by |-> sent[i], success |-> FALSE]}
  /\ sent' = RemoveAt(sent, i)
  /\ UNCHANGED <<tree, calls, ledger, timer, queue, publishing, server, events,
                 online, outages, reloads>>

(* Mutant: whose answer it is is not looked at. *)
IsPublishingAny(a) == publishing # None

IsPublishing(a) == publishing = a.by

(* dataRoot.update returns, and never throws: whatever became of it, the   *)
(* event is emitted if no later update was begun.                          *)
AnswerArrives(a) ==
  /\ answers' = answers \ {a}
  /\ IF IsPublishing(a)
     THEN publishing' = None /\ events' = events \union {a}
     ELSE UNCHANGED <<publishing, events>>
  /\ UNCHANGED <<tree, calls, ledger, timer, queue, sent, server, online, bounds>>

GoOffline ==
  /\ online /\ outages < MaxOutages
  /\ online' = FALSE
  /\ outages' = outages + 1 /\ calm' = FALSE
  /\ UNCHANGED <<tree, calls, ledger, timer, queue, publishing, link, faults, reloads>>

(* _whenOnline: all hooks again, for everything that was queued. *)
GoOnline ==
  /\ ~online
  /\ online' = TRUE
  /\ queue' = << >>
  /\ PublishHooks(queue)
  /\ UNCHANGED <<tree, calls, saved, unlogged, publishing, link, bounds>>

(* The user's other device publishes. *)
OtherDevice ==
  /\ Fault
  /\ made' = made + 1
  /\ server' = made + 1
  /\ UNCHANGED <<content, own, proofs, calls, ledger, timer, queue, publishing,
                 sent, answers, events, online, outages, reloads>>

-----------------------------------------------------------------------------
(* Mutants: the server has something, always; its version is the newest.   *)
LoadedUnchecked(stored) ==
  IF stored # << >> /\ \A i \in 1..Len(stored) : stored[i] # server
  THEN Append(stored, server)
  ELSE stored
LoadedAnyway(stored) ==
  IF server # 0 /\ stored # << >> THEN Append(stored, server) ELSE stored

(* loadFileSystem, on what the log in storage and the server say: the      *)
(* newest entry of the log when the server has nothing or is behind, the   *)
(* server's version, logged, when the log does not have it.  With an empty *)
(* log the index of what it does not have, -1, is that of its last entry:  *)
(* the server's version counts as up to date, and is not logged.           *)
Loaded(stored) ==
  IF server # 0 /\ stored # << >> /\ \A i \in 1..Len(stored) : stored[i] # server
  THEN Append(stored, server)
  ELSE stored

(* The page is closed, and opened while online.  Updates that were sent    *)
(* may still arrive.                                                       *)
Reload ==
  /\ reloads < MaxReloads
  /\ log' = Loaded(SubSeq(log, 1, saved))
  /\ saved' = Len(log')
  /\ content' = IF log' = << >> THEN server ELSE Last(log')
  /\ own' = own \union ({content'} \ {0})
  /\ unlogged' = (unlogged \union {content'}) \ ({0} \union Range(log'))
  /\ pc' = [w \in Writers |-> IF Active(w) THEN "done" ELSE pc[w]]
  /\ proofs' = FALSE /\ timer' = None /\ queue' = << >> /\ publishing' = None
  /\ answers' = {}
  /\ online' = TRUE
  /\ reloads' = reloads + 1 /\ calm' = FALSE
  /\ UNCHANGED <<made, had, root, sent, server, events, outages, faults>>

-----------------------------------------------------------------------------
System ==
  \/ \E w \in Writers : EndWrite(w) \/ BeginPublish(w) \/ EndPublish(w)
  \/ SaveLog \/ TimerFires
  \/ \E i \in 1..Len(sent) : ServerAccepts(i)
  \/ \E a \in answers : AnswerArrives(a)

Next ==
  \/ System
  \/ \E w \in Writers : StartWrite(w)
  \/ \E i \in 1..Len(sent) : UpdateFails(i)
  \/ GoOffline \/ GoOnline \/ OtherDevice \/ Reload

Spec == Init /\ [][Next]_vars

(* Calls go on, timers fire, storage and server answer.  Nobody has to     *)
(* write, and a connection that is lost need not come back.                *)
FairSpec == Spec /\ WF_vars(System)

-----------------------------------------------------------------------------
(* PROPERTIES *)

(* The types; all versions were made before, and only they are logged.     *)
TypeOK ==
  /\ made \in Nat /\ content \in 0..made /\ server \in 0..made
  /\ own \subseteq 1..made /\ unlogged \subseteq own /\ proofs \in BOOLEAN
  /\ pc \in [Writers -> Pipeline \union {"idle", "done"}]
  /\ had \in [Writers -> BOOLEAN] /\ root \in [Writers -> 0..made]
  /\ log \in Seq(1..made) /\ saved \in 0..Len(log)
  /\ timer \in Writers \union {None} /\ publishing \in Writers \union {None}
  /\ queue \in Seq(Writers) /\ sent \in Seq(Writers)
  /\ answers \subseteq [by : Writers, success : BOOLEAN]
  /\ events \subseteq [by : Writers, success : BOOLEAN]
  /\ online \in BOOLEAN /\ calm \in BOOLEAN
  /\ outages \in Nat /\ faults \in Nat /\ reloads \in Nat

(* What this device has made, or has loaded and logged. *)
Known == own \ unlogged

(* A version that this device knows and the server has is in the log in    *)
(* storage: when loaded again, it is never mistaken for a newer one of     *)
(* another device, which would put it before the versions made here since. *)
OwnRootIsKnown ==
  server \in Known => \E i \in 1..saved : log[i] = server

Underway(w) ==
  \/ \E i \in 1..Len(sent) : sent[i] = w
  \/ \E a \in answers : a.by = w

(* this._publishing, on which the alert of _beforeLeaving depends, never   *)
(* sticks to an update that is over; and as long as updates are answered   *)
(* in order it is set whenever one has not reached the server.             *)
AlertCoversUpdate ==
  /\ publishing # None => Underway(publishing)
  /\ faults = 0 /\ reloads = 0 /\ sent # << >> => publishing = Last(sent)

(* Unless the server has a version that this device does not know, opening *)
(* the page again loads the last version that was logged and stored, also  *)
(* when the update with it was late, lost or never sent.                   *)
LocalVersionIsKept ==
  [][reloads' # reloads /\ server \in Known \union {0} =>
       content' = IF saved = 0 THEN 0 ELSE log[saved]]_vars

(* The version in memory gets to the server and stays there, if mutations  *)
(* do not overlap, the page stays open and online, and no update fails.    *)
CalmIsPublished == <>[](calm => server = content)

(* What publish says of itself (filesystem.ts:538): it updates the data    *)
(* root with the latest version.  Refuted by two calls that overlap: the   *)
(* put of the older version ends last, or the first call takes the proofs  *)
(* of both and the second one runs no hook.                                *)
LatestIsPublished == <>[](server = content)
=============================================================================
