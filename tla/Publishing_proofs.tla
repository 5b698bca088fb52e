-------------------------- MODULE Publishing_proofs --------------------------
(***************************************************************************)
(* Theorems about Publishing, for every set of mutations and every bound,  *)
(* with their proofs.                                                      *)
(***************************************************************************)
EXTENDS Publishing, SequenceTheorems, TLAPS

-----------------------------------------------------------------------------
(* SEQUENCES *)

(* What is left of a sequence when its i-th element is taken out. *)
LEMMA RemoveAtProperties ==
  ASSUME NEW S, NEW s \in Seq(S), NEW i \in 1..Len(s)
  PROVE  /\ RemoveAt(s, i) \in Seq(S)
         /\ Len(RemoveAt(s, i)) = Len(s) - 1
         /\ \A j \in 1..(Len(s) - 1) :
              RemoveAt(s, i)[j] = IF j < i THEN s[j] ELSE s[j + 1]
<1> DEFINE a == SubSeq(s, 1, i - 1)
           b == SubSeq(s, i + 1, Len(s))
<1>1. /\ a \in Seq(S) /\ Len(a) = i - 1
      /\ \A j \in 1..(i - 1) : a[j] = s[j]
  BY SubSeqProperties
<1>2. /\ b \in Seq(S) /\ Len(b) = Len(s) - i
      /\ \A j \in 1..(Len(s) - i) : b[j] = s[i + j]
  BY SubSeqProperties
<1>3. RemoveAt(s, i) = a \o b
  BY DEF RemoveAt
<1> HIDE DEF a, b
<1>4. /\ a \o b \in Seq(S) /\ Len(a \o b) = Len(s) - 1
      /\ \A j \in 1..(Len(s) - 1) :
           (a \o b)[j] = IF j < i THEN a[j] ELSE b[j - i + 1]
  BY <1>1, <1>2, ConcatProperties
<1> QED
  BY <1>1, <1>2, <1>3, <1>4

(* The hooks add versions that were put to the log, and keep it otherwise. *)
LEMMA HooksProperties ==
  ASSUME NEW cids \in Seq(Writers), PublishHooks(cids),
         log \in Seq(Nat), root \in [Writers -> Nat]
  PROVE  /\ log' \in Seq(Nat)
         /\ Len(log') = Len(log) + Len(cids)
         /\ \A i \in 1..Len(log) : log'[i] = log[i]
         /\ \A i \in 1..Len(cids) : log'[Len(log) + i] = root[cids[i]]
         /\ timer' = IF cids = << >> THEN timer ELSE cids[Len(cids)]
<1> DEFINE put == [i \in 1..Len(cids) |-> root[cids[i]]]
<1>1. put \in Seq(Nat) /\ Len(put) = Len(cids)
  OBVIOUS
<1>2. log' = log \o put
  BY DEF PublishHooks
<1>3. \A i \in 1..Len(cids) : put[i] = root[cids[i]]
  OBVIOUS
<1> HIDE DEF put
<1>4. /\ log \o put \in Seq(Nat) /\ Len(log \o put) = Len(log) + Len(put)
      /\ \A i \in 1..(Len(log) + Len(put)) :
           (log \o put)[i] = IF i <= Len(log) THEN log[i] ELSE put[i - Len(log)]
  BY <1>1, ConcatProperties
<1>5. /\ Len(log) \in Nat /\ Len(put) \in Nat
      /\ \A i \in 1..Len(log) : (log \o put)[i] = log[i]
  BY <1>1, <1>4
<1>6. \A i \in 1..Len(put) : (log \o put)[Len(log) + i] = put[i]
  BY <1>4, <1>5
<1> QED
  BY <1>1, <1>2, <1>3, <1>4, <1>5, <1>6 DEF PublishHooks, Last

(* A sequence of numbers, all of them in S, is a sequence over S. *)
LEMMA SeqOver ==
  ASSUME NEW S, NEW s \in Seq(Nat), \A i \in 1..Len(s) : s[i] \in S
  PROVE  s \in Seq(S)
  OBVIOUS

-----------------------------------------------------------------------------
(* TYPES, AND WHAT IS LOGGED *)

(* Only versions that were made are put. *)
PutInv ==
  \A w \in Writers : /\ pc[w] = "written" => content >= 1
                     /\ pc[w] = "putting" => root[w] >= 1

(* The versions in the log, and those of them that are in storage. *)
Entries == {log[i] : i \in 1..Len(log)}
Stored == {log[i] : i \in 1..saved}

(* A version of a call is logged before the update with it is scheduled,   *)
(* in storage before it is begun or queued, and it stays there.            *)
Ready(w) == pc[w] = "done" /\ root[w] \in Stored
KnownInv ==
  /\ server \in Known => server \in Stored
  /\ \A i \in 1..Len(sent) : Ready(sent[i])
  /\ \A i \in 1..Len(queue) : Ready(queue[i])
  /\ timer # None => pc[timer] = "done" /\ root[timer] \in Entries

PublishInv == TypeOK /\ PutInv /\ KnownInv

(* A log that grows, and a call that goes on, disturb nothing of the calls *)
(* that are done.                                                          *)
LEMMA KnownKept ==
  ASSUME TypeOK, KnownInv, Stored \subseteq Stored',
         UNCHANGED <<sent, queue, server>>,
         server \in Known' => server \in Known,
         \A u \in Writers : pc[u] = "done" => pc'[u] = "done" /\ root'[u] = root[u],
         timer' # None =>
           pc'[timer'] = "done" /\ root'[timer'] \in Entries'
  PROVE  KnownInv'
<1>1. server' \in Known' => server' \in Stored'
  BY DEF KnownInv
<1>2. \A w \in Writers : Ready(w) => Ready(w)'
  BY DEF Ready
<1>3. /\ \A i \in 1..Len(sent) : sent[i] \in Writers
      /\ \A i \in 1..Len(queue) : queue[i] \in Writers
  BY DEF TypeOK
<1>4. \A i \in 1..Len(sent') : Ready(sent[i])'
  BY <1>2, <1>3 DEF KnownInv, Ready
<1>5. \A i \in 1..Len(queue') : Ready(queue[i])'
  BY <1>2, <1>3 DEF KnownInv, Ready
<1> QED
  BY <1>1, <1>4, <1>5 DEF KnownInv

(* So do steps that leave the log and the timer alone. *)
LEMMA KnownSame ==
  ASSUME TypeOK, KnownInv,
         UNCHANGED <<log, saved, sent, queue, timer, server>>,
         server \in Known' => server \in Known,
         \A u \in Writers : pc[u] = "done" => pc'[u] = "done" /\ root'[u] = root[u]
  PROVE  KnownInv'
<1>1. Stored \subseteq Stored' /\ Entries' = Entries
  BY DEF Stored, Entries
<1>2. timer # None => timer \in Writers
  BY DEF TypeOK
<1> QED
  BY <1>1, <1>2, KnownKept DEF KnownInv

(* The log is one of numbers, none of them above the next version. *)
LEMMA LogOver ==
  ASSUME TypeOK
  PROVE  log \in Seq(Nat) /\ \A i \in 1..Len(log) : log[i] \in 1..(made + 1)
<1>1. log \in Seq(1..made) /\ made \in Nat
  BY DEF TypeOK
<1> QED
  BY <1>1

LEMMA StartWriteStep ==
  ASSUME PublishInv, NEW w \in Writers, StartWrite(w) PROVE PublishInv'
<1> USE DEF PublishInv, StartWrite, tree, calls, ledger, link, bounds, Pipeline
<1>1. calm' \in BOOLEAN
  BY DEF TypeOK
<1>2. TypeOK'
  BY <1>1 DEF TypeOK
<1>3. PutInv'
  BY DEF TypeOK, PutInv
<1>4. KnownInv'
  BY KnownSame DEF Known, TypeOK
<1> QED
  BY <1>2, <1>3, <1>4

LEMMA EndWriteStep ==
  ASSUME PublishInv, NEW w \in Writers, EndWrite(w) PROVE PublishInv'
<1> USE DEF PublishInv, EndWrite, tree, calls, ledger, link, bounds, Pipeline
<1>1. made + 1 \in Nat /\ 0..made \subseteq 0..(made + 1)
  BY DEF TypeOK
<1>2. log' \in Seq(1..made')
  <2>1. log \in Seq(Nat) /\ \A i \in 1..Len(log) : log[i] \in 1..(made + 1)
    BY LogOver
  <2> QED
    BY <2>1, SeqOver
<1>3. TypeOK'
  BY <1>1, <1>2 DEF TypeOK
<1>4. PutInv'
  BY DEF TypeOK, PutInv
<1>5. KnownInv'
  BY KnownSame DEF Known, TypeOK
<1> QED
  BY <1>3, <1>4, <1>5

LEMMA BeginPublishStep ==
  ASSUME PublishInv, NEW w \in Writers, BeginPublish(w) PROVE PublishInv'
<1> USE DEF PublishInv, BeginPublish, tree, calls, ledger, link, bounds, Pipeline
<1>1. TypeOK'
  BY DEF TypeOK
<1>2. PutInv'
  BY DEF TypeOK, PutInv
<1>3. KnownInv'
  BY KnownSame DEF Known, TypeOK
<1> QED
  BY <1>1, <1>2, <1>3

(* The hooks keep what was logged, and what they log was put. *)
LEMMA HooksKept ==
  ASSUME PublishInv, NEW cids \in Seq(Writers), PublishHooks(cids),
         \A i \in 1..Len(cids) : root[cids[i]] \in 1..made
  PROVE  /\ log' \in Seq(1..made) /\ Len(log) <= Len(log')
         /\ timer' \in Writers \union {None}
         /\ \A i \in 1..Len(log) : log'[i] = log[i]
         /\ timer' # None =>
              \/ timer' = timer
              \/ /\ \E i \in 1..Len(cids) : timer' = cids[i]
                 /\ \E i \in 1..Len(log') : log'[i] = root[timer']
<1>1. /\ log \in Seq(Nat) /\ root \in [Writers -> Nat]
      /\ \A i \in 1..Len(log) : log[i] \in 1..made
      /\ Len(log) \in Nat /\ Len(cids) \in Nat
      /\ timer \in Writers \union {None}
  BY DEF PublishInv, TypeOK
<1>2. /\ log' \in Seq(Nat)
      /\ Len(log') = Len(log) + Len(cids)
      /\ \A i \in 1..Len(log) : log'[i] = log[i]
      /\ \A i \in 1..Len(cids) : log'[Len(log) + i] = root[cids[i]]
      /\ timer' = IF cids = << >> THEN timer ELSE cids[Len(cids)]
  BY <1>1, HooksProperties
<1>3. \A i \in 1..Len(log') : log'[i] \in 1..made
  <2> SUFFICES ASSUME NEW i \in 1..Len(log') PROVE log'[i] \in 1..made
    OBVIOUS
  <2>1. CASE i <= Len(log)
    <3>1. i \in 1..Len(log)
      BY <1>1, <1>2, <2>1
    <3> QED
      BY <1>1, <1>2, <3>1
  <2>2. CASE i > Len(log)
    <3>1. i - Len(log) \in 1..Len(cids) /\ Len(log) + (i - Len(log)) = i
      BY <1>1, <1>2, <2>2
    <3> QED
      BY <1>2, <3>1
  <2> QED
    BY <1>1, <1>2, <2>1, <2>2
<1>4. log' \in Seq(1..made) /\ Len(log) <= Len(log')
  <2>1. Len(log) <= Len(log')
    BY <1>1, <1>2
  <2>2. log' \in Seq(Nat)
    BY <1>2
  <2> QED
    BY <1>3, <2>1, <2>2, SeqOver
<1>5. CASE cids = << >>
  BY <1>1, <1>2, <1>4, <1>5
<1>6. CASE cids # << >>
  <2>1. Len(cids) \in 1..Len(cids) /\ cids[Len(cids)] \in Writers
    BY <1>6
  <2>2. log'[Len(log) + Len(cids)] = root[cids[Len(cids)]]
    BY <1>2, <2>1
  <2>3. Len(log) + Len(cids) \in 1..Len(log')
    BY <1>1, <1>2, <2>1
  <2>4. timer' = cids[Len(cids)]
    BY <1>2, <1>6
  <2> QED
    BY <1>2, <1>4, <2>1, <2>2, <2>3, <2>4
<1> QED
  BY <1>5, <1>6

LEMMA EndPublishStep ==
  ASSUME PublishInv, NEW w \in Writers, EndPublish(w) PROVE PublishInv'
<1> DEFINE cids == IF had[w] THEN <<w>> ELSE << >>
<1>1. /\ cids \in Seq(Writers) /\ PublishHooks(cids)
      /\ \A i \in 1..Len(cids) : cids[i] = w
      /\ root[w] \in 1..made
  BY DEF EndPublish, PublishInv, TypeOK, PutInv, Pipeline
<1> HIDE DEF cids
<1>2. /\ log' \in Seq(1..made) /\ Len(log) <= Len(log')
      /\ timer' \in Writers \union {None}
      /\ \A i \in 1..Len(log) : log'[i] = log[i]
      /\ timer' # None =>
           \/ timer' = timer
           \/ timer' = w /\ \E i \in 1..Len(log') : log'[i] = root[timer']
  BY <1>1, HooksKept
<1> USE DEF PublishInv, EndPublish, tree, link, bounds, Pipeline
<1>3. TypeOK'
  BY <1>2 DEF TypeOK
<1>4. PutInv'
  BY DEF TypeOK, PutInv
<1>5. Stored \subseteq Stored' /\ Entries \subseteq Entries'
  <2>1. saved \in 0..Len(log) /\ Len(log) \in Nat /\ Len(log') \in Nat
    BY <1>2 DEF TypeOK
  <2>2. \A i \in 1..Len(log) : i \in 1..Len(log')
    BY <1>2, <2>1
  <2>3. \A i \in 1..saved : i \in 1..Len(log)
    BY <2>1
  <2>4. saved' = saved
    OBVIOUS
  <2> HIDE DEF PublishInv, EndPublish
  <2>5. Entries \subseteq Entries'
    BY <1>2, <2>2 DEF Entries
  <2>6. Stored \subseteq Stored'
    BY <1>2, <2>3, <2>4 DEF Stored
  <2> QED
    BY <2>5, <2>6
<1>6. KnownInv'
  <2>1. timer' # None => pc'[timer'] = "done" /\ root'[timer'] \in Entries'
    BY <1>2, <1>5 DEF KnownInv, TypeOK, Entries
  <2> QED
    BY <1>5, <2>1, KnownKept DEF Known, TypeOK
<1> QED
  BY <1>3, <1>4, <1>6

LEMMA SaveLogStep == ASSUME PublishInv, SaveLog PROVE PublishInv'
<1> USE DEF PublishInv, SaveLog, tree, calls, link, bounds
<1>1. TypeOK'
  BY DEF TypeOK
<1>2. PutInv'
  BY DEF PutInv
<1>3. KnownInv'
  <2>1. Stored \subseteq Stored' /\ Entries' = Entries
    BY DEF Stored, Entries, TypeOK
  <2> QED
    BY <2>1, KnownKept DEF Known, KnownInv, TypeOK
<1> QED
  BY <1>1, <1>2, <1>3

LEMMA TimerFiresStep == ASSUME PublishInv, TimerFires PROVE PublishInv'
<1> USE DEF PublishInv, TimerFires, tree, calls, ledger, bounds
<1>1. timer \in Writers /\ Append(sent, timer) \in Seq(Writers)
      /\ Append(queue, timer) \in Seq(Writers)
  BY DEF TypeOK
<1>2. TypeOK'
  BY <1>1 DEF TypeOK
<1>3. PutInv'
  BY DEF PutInv
<1>4. Ready(timer) /\ \A w \in Writers : Ready(w) => Ready(w)'
  BY <1>1 DEF Known, KnownInv, Ready, Stored, Entries
<1>5. ASSUME NEW q \in Seq(Writers), \A i \in 1..Len(q) : Ready(q[i])
      PROVE  \A i \in 1..Len(Append(q, timer)) :
               Append(q, timer)[i] \in Writers /\ Ready(Append(q, timer)[i])
  <2> SUFFICES ASSUME NEW i \in 1..Len(Append(q, timer))
               PROVE  \/ Append(q, timer)[i] = timer
                      \/ i \in 1..Len(q) /\ Append(q, timer)[i] = q[i]
    BY <1>1, <1>4, <1>5
  <2> QED
    BY <1>1
<1>6. /\ \A i \in 1..Len(sent') : sent'[i] \in Writers /\ Ready(sent'[i])
      /\ \A i \in 1..Len(queue') : queue'[i] \in Writers /\ Ready(queue'[i])
  <2>1. /\ sent \in Seq(Writers) /\ \A i \in 1..Len(sent) : Ready(sent[i])
        /\ queue \in Seq(Writers) /\ \A i \in 1..Len(queue) : Ready(queue[i])
    BY DEF TypeOK, KnownInv
  <2>2. /\ \A i \in 1..Len(sent) : sent[i] \in Writers
        /\ \A i \in 1..Len(queue) : queue[i] \in Writers
    BY <2>1
  <2>3. CASE online
    BY <1>5, <2>1, <2>2, <2>3
  <2>4. CASE ~online
    BY <1>5, <2>1, <2>2, <2>4
  <2> QED
    BY <2>3, <2>4
<1>7. KnownInv'
  BY <1>4, <1>6 DEF Known, KnownInv, Ready, Stored
<1> QED
  BY <1>2, <1>3, <1>7

(* An update that is taken off keeps the other ones. *)
LEMMA SentKept ==
  ASSUME PublishInv, NEW i \in 1..Len(sent), sent' = RemoveAt(sent, i)
  PROVE  /\ sent' \in Seq(Writers) /\ sent[i] \in Writers
         /\ \A j \in 1..Len(sent') : \E k \in 1..Len(sent) :
              sent'[j] = sent[k] /\ k # i
<1>1. sent \in Seq(Writers)
  BY DEF PublishInv, TypeOK
<1>2. /\ sent' \in Seq(Writers)
      /\ Len(sent') = Len(sent) - 1
      /\ \A j \in 1..(Len(sent) - 1) :
           sent'[j] = IF j < i THEN sent[j] ELSE sent[j + 1]
  BY <1>1, RemoveAtProperties
<1>3. ASSUME NEW j \in 1..Len(sent')
      PROVE  \E k \in 1..Len(sent) : sent'[j] = sent[k] /\ k # i
  <2>1. CASE j < i
    BY <1>1, <1>2, <1>3, <2>1
  <2>2. CASE ~(j < i)
    <3>1. j + 1 \in 1..Len(sent) /\ sent'[j] = sent[j + 1] /\ j + 1 # i
      BY <1>1, <1>2, <1>3, <2>2
    <3> QED
      BY <3>1
  <2> QED
    BY <2>1, <2>2
<1> QED
  BY <1>1, <1>2, <1>3

LEMMA AnsweredStep ==
  ASSUME PublishInv, NEW i \in 1..Len(sent), ServerAccepts(i) \/ UpdateFails(i)
  PROVE  PublishInv'
<1> USE DEF PublishInv, tree, calls, ledger
<1>1. /\ sent' \in Seq(Writers) /\ sent[i] \in Writers
      /\ \A j \in 1..Len(sent') : \E k \in 1..Len(sent) : sent'[j] = sent[k]
  <2>1. sent' = RemoveAt(sent, i)
    BY DEF ServerAccepts, UpdateFails
  <2> QED
    BY <2>1, SentKept
<1>2. faults' \in Nat /\ calm' \in BOOLEAN
  <2>1. faults \in Nat /\ faults + 1 \in Nat /\ calm \in BOOLEAN
    BY DEF TypeOK
  <2>2. Fault \/ UNCHANGED <<faults, calm>>
    BY DEF ServerAccepts, UpdateFails
  <2> QED
    BY <2>1, <2>2 DEF Fault
<1>3. Ready(sent[i])
  BY DEF KnownInv
<1>4. server' \in 0..made
  <2>1. server \in 0..made /\ root[sent[i]] \in 0..made
    BY <1>1 DEF TypeOK
  <2> QED
    BY <2>1 DEF ServerAccepts, UpdateFails
<1>5. answers' \subseteq [by : Writers, success : BOOLEAN]
  <2>1. PICK b \in BOOLEAN :
          answers' = answers \union {[by |-> sent[i], success |-> b]}
    BY DEF ServerAccepts, UpdateFails
  <2>2. [by |-> sent[i], success |-> b] \in [by : Writers, success : BOOLEAN]
    BY <1>1
  <2> QED
    BY <2>1, <2>2 DEF TypeOK
<1>6. TypeOK'
  BY <1>1, <1>2, <1>4, <1>5 DEF TypeOK, ServerAccepts, UpdateFails
<1>7. PutInv'
  BY DEF PutInv, ServerAccepts, UpdateFails
<1>8. UNCHANGED <<log, saved, pc, root, queue, timer, own, unlogged>>
  BY DEF ServerAccepts, UpdateFails
<1>9. server' \in Known' => server' \in Stored'
  BY <1>3, <1>8 DEF Known, KnownInv, Ready, Stored, ServerAccepts, UpdateFails
<1>10. \A j \in 1..Len(sent') : Ready(sent[j])'
  <2> SUFFICES ASSUME NEW j \in 1..Len(sent') PROVE Ready(sent[j])'
    OBVIOUS
  <2>1. PICK k \in 1..Len(sent) : sent'[j] = sent[k]
    BY <1>1
  <2>2. pc[sent[k]] = "done" /\ root[sent[k]] \in Stored
    BY DEF KnownInv, Ready
  <2>3. Stored' = Stored
    BY <1>8 DEF Stored
  <2> QED
    BY <1>8, <2>1, <2>2, <2>3 DEF Ready
<1>11. KnownInv'
  BY <1>8, <1>9, <1>10 DEF Known, KnownInv, Ready, Stored, Entries
<1> QED
  BY <1>6, <1>7, <1>11

LEMMA AnswerArrivesStep ==
  ASSUME PublishInv, NEW a \in answers, AnswerArrives(a) PROVE PublishInv'
<1> USE DEF PublishInv, AnswerArrives, tree, calls, ledger, bounds
<1>1. TypeOK'
  BY DEF TypeOK
<1>2. PutInv'
  BY DEF PutInv
<1>3. KnownInv'
  BY KnownSame DEF Known, TypeOK
<1> QED
  BY <1>1, <1>2, <1>3

LEMMA GoOfflineStep == ASSUME PublishInv, GoOffline PROVE PublishInv'
<1> USE DEF PublishInv, GoOffline, tree, calls, ledger, link
<1>1. TypeOK'
  <2>1. outages \in Nat /\ outages + 1 \in Nat
    BY DEF TypeOK
  <2> QED
    BY <2>1 DEF TypeOK
<1>2. PutInv'
  BY DEF PutInv
<1>3. KnownInv'
  BY KnownSame DEF Known, TypeOK
<1> QED
  BY <1>1, <1>2, <1>3

LEMMA GoOnlineStep == ASSUME PublishInv, GoOnline PROVE PublishInv'
<1>1. \A i \in 1..Len(queue) :
        /\ queue[i] \in Writers /\ pc[queue[i]] = "done"
        /\ root[queue[i]] \in 1..made
  <2>1. \A i \in 1..Len(queue) : queue[i] \in Writers /\ Ready(queue[i])
    BY DEF PublishInv, TypeOK, KnownInv
  <2>2. /\ \A i \in 1..Len(log) : log[i] \in 1..made
        /\ \A i \in 1..saved : i \in 1..Len(log)
    BY DEF PublishInv, TypeOK
  <2>3. Stored \subseteq 1..made
    BY <2>2 DEF Stored
  <2> QED
    BY <2>1, <2>3 DEF Ready
<1>2. queue \in Seq(Writers) /\ PublishHooks(queue)
  BY DEF PublishInv, TypeOK, GoOnline
<1>3. /\ log' \in Seq(1..made) /\ Len(log) <= Len(log')
      /\ timer' \in Writers \union {None}
      /\ \A i \in 1..Len(log) : log'[i] = log[i]
      /\ timer' # None =>
           \/ timer' = timer
           \/ pc[timer'] = "done" /\ \E i \in 1..Len(log') : log'[i] = root[timer']
  BY <1>1, <1>2, HooksKept
<1>4. queue' = << >> /\ UNCHANGED <<pc, root, sent, server, own, unlogged, saved, made>>
  BY DEF GoOnline, calls, link, tree
<1>5. TypeOK'
  BY <1>3, <1>4 DEF PublishInv, TypeOK, GoOnline, tree, calls, link, bounds
<1>6. PutInv'
  BY DEF PublishInv, PutInv, GoOnline, tree, calls
<1>7. Stored \subseteq Stored' /\ Entries \subseteq Entries'
  <2>1. saved \in 0..Len(log) /\ Len(log) \in Nat /\ Len(log') \in Nat
    BY <1>3 DEF PublishInv, TypeOK
  <2>2. \A i \in 1..Len(log) : i \in 1..Len(log')
    BY <1>3, <2>1
  <2>3. \A i \in 1..saved : i \in 1..Len(log)
    BY <2>1
  <2> QED
    BY <1>3, <1>4, <2>2, <2>3 DEF Entries, Stored
<1>8. timer' # None => pc'[timer'] = "done" /\ root'[timer'] \in Entries'
  BY <1>3, <1>4, <1>7 DEF PublishInv, KnownInv, Entries
<1>9. \A i \in 1..Len(sent') : Ready(sent[i])'
  BY <1>4, <1>7 DEF PublishInv, KnownInv, Ready
<1>10. KnownInv'
  BY <1>4, <1>7, <1>8, <1>9 DEF PublishInv, Known, KnownInv
<1> QED
  BY <1>5, <1>6, <1>10 DEF PublishInv

LEMMA OtherDeviceStep == ASSUME PublishInv, OtherDevice PROVE PublishInv'
<1> USE DEF PublishInv, OtherDevice, Fault, calls, ledger
<1>1. /\ made + 1 \in Nat /\ 0..made \subseteq 0..(made + 1)
      /\ made + 1 \notin own /\ faults + 1 \in Nat
  BY DEF TypeOK
<1>2. log' \in Seq(1..made')
  <2>1. log \in Seq(Nat) /\ \A i \in 1..Len(log) : log[i] \in 1..(made + 1)
    BY LogOver
  <2> QED
    BY <2>1, SeqOver
<1>3. TypeOK'
  <2>1. /\ made' \in Nat /\ content' \in 0..made'
        /\ faults' \in Nat /\ calm' \in BOOLEAN
    BY <1>1 DEF TypeOK
  <2>3. server' \in 0..made'
    BY <1>1
  <2>4. own' \subseteq 1..made'
    <3>1. own \subseteq 1..made /\ 1..made \subseteq 1..(made + 1)
      BY DEF TypeOK
    <3> QED
      BY <3>1
  <2>2. root' \in [Writers -> 0..made']
    BY <1>1 DEF TypeOK
  <2> QED
    BY <1>2, <2>1, <2>2, <2>3, <2>4 DEF TypeOK
<1>4. PutInv'
  BY DEF PutInv
<1>5. KnownInv'
  BY <1>1 DEF Known, KnownInv, Ready, Stored, Entries
<1> QED
  BY <1>3, <1>4, <1>5

(* What is loaded begins with the log in storage. *)
LEMMA ReloadLog ==
  ASSUME PublishInv, Reload
  PROVE  /\ log' \in Seq(1..made) /\ saved <= Len(log') /\ saved \in Nat
         /\ \A i \in 1..saved : log'[i] = log[i]
         /\ server \in Known \union {0} => Len(log') = saved
<1> DEFINE stored == SubSeq(log, 1, saved)
<1>1. /\ stored \in Seq(1..made) /\ Len(stored) = saved
      /\ \A i \in 1..saved : stored[i] = log[i]
  <2>1. /\ log \in Seq(1..made) /\ saved \in Nat /\ Len(log) \in Nat
        /\ saved <= Len(log)
    BY DEF PublishInv, TypeOK
  <2>2. 1 \in Int /\ saved \in Int /\ \A i \in 1..saved : log[i] \in 1..made
    <3>1. \A i \in 1..saved : i \in 1..Len(log)
      BY <2>1
    <3>2. \A i \in 1..Len(log) : log[i] \in 1..made
      BY DEF PublishInv, TypeOK
    <3> QED
      BY <2>1, <3>1, <3>2
  <2>3. /\ stored \in Seq(1..made)
        /\ Len(stored) = IF 1 <= saved THEN saved - 1 + 1 ELSE 0
        /\ \A i \in 1..(saved - 1 + 1) : stored[i] = log[1 + i - 1]
    BY <2>1, <2>2, SubSeqProperties
  <2> HIDE DEF stored
  <2>4. Len(stored) = saved
    BY <2>1, <2>3
  <2>5. ASSUME NEW i \in 1..saved PROVE stored[i] = log[i]
    <3>1. i \in 1..(saved - 1 + 1) /\ 1 + i - 1 = i
      BY <2>1
    <3> QED
      BY <2>3, <3>1
  <2> QED
    BY <2>3, <2>4, <2>5
<1>2. saved \in Nat /\ log' = Loaded(stored)
  BY DEF Reload, PublishInv, TypeOK
<1>3. server \in Known => \E i \in 1..Len(stored) : stored[i] = server
  BY <1>1 DEF PublishInv, KnownInv, Stored
<1> HIDE DEF stored
<1>4. CASE log' = stored
  BY <1>1, <1>2, <1>4
<1>5. CASE log' # stored
  <2>1. log' = Append(stored, server) /\ server \notin Known \union {0}
    BY <1>2, <1>3, <1>5 DEF Loaded
  <2>2. server \in 1..made
    BY <2>1 DEF PublishInv, TypeOK
  <2> QED
    BY <1>1, <1>2, <2>1, <2>2
<1> QED
  BY <1>4, <1>5

LEMMA ReloadStep == ASSUME PublishInv, Reload PROVE PublishInv'
<1>1. /\ log' \in Seq(1..made) /\ saved <= Len(log') /\ saved \in Nat
      /\ \A i \in 1..saved : log'[i] = log[i]
  BY ReloadLog
<1>2. saved' = Len(log') /\ Len(log') \in Nat
  BY <1>1 DEF Reload
<1>3. content' \in 0..made
  <2>1. made \in Nat
    BY DEF PublishInv, TypeOK
  <2>2. CASE log' = << >>
    BY <2>1, <2>2 DEF Reload, PublishInv, TypeOK
  <2>3. CASE log' # << >>
    BY <1>1, <2>1, <2>3 DEF Reload, Last
  <2> QED
    BY <2>2, <2>3
<1>4. pc' \in [Writers -> Pipeline \union {"idle", "done"}]
  BY DEF PublishInv, TypeOK, Reload
<1>5. reloads' \in Nat /\ outages' \in Nat /\ faults' \in Nat
  BY DEF PublishInv, TypeOK, Reload
<1>6. TypeOK'
  <2>1. /\ made' \in Nat /\ content' \in 0..made' /\ server' \in 0..made'
        /\ own' \subseteq 1..made' /\ unlogged' \subseteq own' /\ proofs' \in BOOLEAN
        /\ had' \in [Writers -> BOOLEAN] /\ root' \in [Writers -> 0..made']
    <3>1. own \subseteq 1..made /\ unlogged \subseteq own /\ made' = made
      BY DEF PublishInv, TypeOK, Reload
    <3>2. own' = own \union ({content'} \ {0}) /\ unlogged' \subseteq (unlogged \union {content'}) \ {0}
      BY DEF Reload
    <3>3. own' \subseteq 1..made' /\ unlogged' \subseteq own'
      BY <1>3, <3>1, <3>2
    <3> QED
      BY <1>3, <3>3 DEF PublishInv, TypeOK, Reload
  <2>2. /\ log' \in Seq(1..made') /\ saved' \in 0..Len(log')
        /\ timer' \in Writers \union {None}
        /\ publishing' \in Writers \union {None}
        /\ queue' \in Seq(Writers) /\ sent' \in Seq(Writers)
    BY <1>1, <1>2 DEF PublishInv, TypeOK, Reload
  <2>3. /\ answers' \subseteq [by : Writers, success : BOOLEAN]
        /\ events' \subseteq [by : Writers, success : BOOLEAN]
        /\ online' \in BOOLEAN /\ calm' \in BOOLEAN
    BY DEF PublishInv, TypeOK, Reload
  <2> QED
    BY <1>4, <1>5, <2>1, <2>2, <2>3 DEF TypeOK
<1>7. PutInv'
  BY DEF PublishInv, TypeOK, PutInv, Reload, Active, Pipeline
<1>8. Stored \subseteq Stored'
  BY <1>1, <1>2 DEF Stored
<1>9. \A w \in Writers : Ready(w) => Ready(w)'
  BY <1>8 DEF Ready, Reload, Active, Pipeline, PublishInv, TypeOK
<1>10. KnownInv'
  <2>1. Range(log') = Stored'
    BY <1>1, <1>2 DEF Range, Stored
  <2>2. \A v \in Known' : v \in Known \/ v \in Stored'
    BY <2>1 DEF Known, Reload, PublishInv, TypeOK
  <2>3. server' \in Known' => server' \in Stored'
    BY <1>8, <2>2 DEF KnownInv, PublishInv, Reload
  <2>4. \A i \in 1..Len(sent) : sent[i] \in Writers /\ Ready(sent[i])
    BY DEF PublishInv, TypeOK, KnownInv
  <2>5. \A i \in 1..Len(sent') : Ready(sent[i])'
    BY <1>9, <2>4 DEF Reload, Ready
  <2> QED
    BY <2>5, <2>3 DEF KnownInv, PublishInv, Reload
<1> QED
  BY <1>6, <1>7, <1>10 DEF PublishInv

LEMMA PublishStep == ASSUME PublishInv, [Next]_vars PROVE PublishInv'
<1>1. CASE UNCHANGED vars
  <2> USE <1>1 DEF vars, tree, calls, ledger, link, bounds, PublishInv
  <2>1. TypeOK'
    BY DEF TypeOK
  <2>2. PutInv'
    BY DEF PutInv
  <2>3. KnownInv'
    BY DEF Known, KnownInv, Ready, Stored, Entries
  <2> QED
    BY <2>1, <2>2, <2>3
<1> QED
  BY <1>1, StartWriteStep, EndWriteStep, BeginPublishStep, EndPublishStep,
     SaveLogStep, TimerFiresStep, AnsweredStep, AnswerArrivesStep,
     GoOfflineStep, GoOnlineStep, OtherDeviceStep, ReloadStep
  DEF Next, System

LEMMA PublishInvariant == Spec => []PublishInv
<1>1. Init => PublishInv
  <2> SUFFICES ASSUME Init PROVE PublishInv
    OBVIOUS
  <2> USE DEF Init
  <2>1. TypeOK
    <3>1. /\ pc \in [Writers -> Pipeline \union {"idle", "done"}]
          /\ had \in [Writers -> BOOLEAN] /\ root \in [Writers -> 0..made]
      OBVIOUS
    <3>2. log \in Seq(1..made) /\ saved \in 0..Len(log)
      OBVIOUS
    <3>3. proofs \in BOOLEAN /\ online \in BOOLEAN /\ calm \in BOOLEAN
      OBVIOUS
    <3> QED
      BY <3>1, <3>2, <3>3 DEF TypeOK
  <2>2. PutInv
    BY DEF PutInv
  <2>3. KnownInv
    BY DEF Known, KnownInv
  <2> QED
    BY <2>1, <2>2, <2>3 DEF PublishInv
<1> QED
  BY <1>1, PublishStep, PTL DEF Spec

(* Every variable has its type in every reachable state; only versions     *)
(* that were made are logged.                                              *)
THEOREM TypeCorrect == Spec => []TypeOK
<1>1. PublishInv => TypeOK
  BY DEF PublishInv
<1> QED
  BY <1>1, PublishInvariant, PTL

(* A data root that this device has made, or has loaded and logged, is in  *)
(* the log that storage has, whatever fails, overlaps, is late, or is      *)
(* opened again.                                                           *)
THEOREM OwnVersionsAreKnown == Spec => []OwnRootIsKnown
<1>1. PublishInv => OwnRootIsKnown
  BY DEF PublishInv, KnownInv, Stored, OwnRootIsKnown
<1> QED
  BY <1>1, PublishInvariant, PTL

(* Opening the page again loads the last version that was stored in the    *)
(* log, unless the data root is one that this device has not made, and not *)
(* logged when it loaded it (loadFileSystem, filesystem.ts:47-80).         *)
THEOREM LocalVersionsAreKept == Spec => LocalVersionIsKept
<1>1. ASSUME PublishInv, [Next]_vars
      PROVE  [reloads' # reloads /\ server \in Known \union {0} =>
                content' = IF saved = 0 THEN 0 ELSE log[saved]]_vars
  <2> SUFFICES ASSUME Next, reloads' # reloads, server \in Known \union {0}
               PROVE  content' = IF saved = 0 THEN 0 ELSE log[saved]
    BY <1>1
  <2>1. Reload
    BY DEF Next, System, StartWrite, EndWrite, BeginPublish, EndPublish, SaveLog,
           TimerFires, ServerAccepts, UpdateFails, AnswerArrives, GoOffline,
           GoOnline, OtherDevice, bounds
  <2>2. /\ log' \in Seq(1..made) /\ saved \in Nat /\ Len(log') = saved
        /\ \A i \in 1..saved : log'[i] = log[i]
    BY <1>1, <2>1, ReloadLog
  <2>3. CASE saved = 0
    <3>1. log' = << >> /\ Stored = {}
      BY <2>2, <2>3 DEF Stored
    <3>2. server = 0
      BY <1>1, <3>1 DEF PublishInv, KnownInv
    <3> QED
      BY <2>1, <2>3, <3>1, <3>2 DEF Reload
  <2>4. CASE saved # 0
    BY <2>1, <2>2, <2>4 DEF Reload, Last
  <2> QED
    BY <2>3, <2>4
<1> QED
  BY <1>1, PublishInvariant, PTL DEF Spec, LocalVersionIsKept

-----------------------------------------------------------------------------
(* THE ALERT *)

InSent == {sent[i] : i \in 1..Len(sent)}
InQueue == {queue[i] : i \in 1..Len(queue)}
Answered == {a.by : a \in answers}

(* The CID of a call is in one place at most: it waits for the debounce,   *)
(* or to be online, or is on its way, or is answered.  So an update is     *)
(* never begun twice, and an answer is never taken for that of another.    *)
TokenInv ==
  /\ \A i, j \in 1..Len(sent) : sent[i] = sent[j] => i = j
  /\ \A a \in answers : pc[a.by] = "done"
  /\ timer \notin InSent \union InQueue \union Answered
  /\ InQueue \intersect (InSent \union Answered) = {}
  /\ InSent \intersect Answered = {}

AlertInv == TokenInv /\ AlertCoversUpdate

(* Steps that do not touch the pipeline. *)
LEMMA AlertSame ==
  ASSUME PublishInv, AlertInv,
         UNCHANGED <<sent, queue, timer, answers, publishing, reloads>>,
         faults' = 0 => faults = 0,
         \A u \in Writers : pc[u] = "done" => pc'[u] = "done"
  PROVE  AlertInv'
<1>1. \A a \in answers : a.by \in Writers
  BY DEF PublishInv, TypeOK
<1>2. InSent' = InSent /\ InQueue' = InQueue /\ Answered' = Answered
  BY DEF InSent, InQueue, Answered
<1>3. TokenInv'
  BY <1>1, <1>2 DEF AlertInv, TokenInv
<1>4. AlertCoversUpdate'
  BY DEF AlertInv, AlertCoversUpdate, Underway
<1> QED
  BY <1>3, <1>4 DEF AlertInv

(* Only calls that are done are in the pipeline. *)
LEMMA PipelineDone ==
  ASSUME PublishInv, TokenInv
  PROVE  \A w \in InSent \union InQueue \union Answered :
           w \in Writers /\ w # None /\ pc[w] = "done"
<1>1. /\ \A i \in 1..Len(sent) : sent[i] \in Writers /\ Ready(sent[i])
      /\ \A i \in 1..Len(queue) : queue[i] \in Writers /\ Ready(queue[i])
  BY DEF PublishInv, TypeOK, KnownInv
<1>2. \A a \in answers : a.by \in Writers /\ pc[a.by] = "done"
  BY DEF PublishInv, TypeOK, TokenInv
<1> QED
  BY <1>1, <1>2, PublishingAssumption DEF Ready, InSent, InQueue, Answered

LEMMA AlertEndPublish ==
  ASSUME PublishInv, AlertInv, NEW w \in Writers, EndPublish(w) PROVE AlertInv'
<1>1. /\ UNCHANGED <<sent, queue, answers, publishing, faults, reloads>>
      /\ pc[w] = "putting"
      /\ \A u \in Writers : pc[u] = "done" => pc'[u] = "done"
  BY DEF EndPublish, link, bounds, PublishInv, TypeOK
<1>2. timer' = timer \/ timer' = w
  BY DEF EndPublish, PublishHooks, Last
<1>3. InSent' = InSent /\ InQueue' = InQueue /\ Answered' = Answered
  BY <1>1 DEF InSent, InQueue, Answered
<1>4. w \notin InSent \union InQueue \union Answered
  BY <1>1, PipelineDone DEF AlertInv
<1>5. \A a \in answers : a.by \in Writers
  BY DEF PublishInv, TypeOK
<1>6. TokenInv'
  BY <1>1, <1>2, <1>3, <1>4, <1>5 DEF AlertInv, TokenInv
<1>7. AlertCoversUpdate'
  BY <1>1 DEF AlertInv, AlertCoversUpdate, Underway
<1> QED
  BY <1>6, <1>7 DEF AlertInv

LEMMA AlertTimerFires ==
  ASSUME PublishInv, AlertInv, TimerFires PROVE AlertInv'
<1>1. /\ sent \in Seq(Writers) /\ queue \in Seq(Writers) /\ timer \in Writers
      /\ timer' = None /\ UNCHANGED <<answers, pc, faults, reloads>>
  BY DEF TimerFires, PublishInv, TypeOK, calls, bounds
<1>2. Answered' = Answered /\ None \notin Answered
  BY <1>1, PublishingAssumption DEF Answered, PublishInv, TypeOK
<1>3. CASE online
  <2>1. /\ sent' = Append(sent, timer) /\ publishing' = timer /\ queue' = queue
    BY <1>3 DEF TimerFires
  <2>2. /\ Len(sent') = Len(sent) + 1 /\ sent'[Len(sent')] = timer
        /\ \A i \in 1..Len(sent) : sent'[i] = sent[i]
        /\ Len(sent) \in Nat /\ sent' # << >>
    BY <1>1, <2>1
  <2>3. InSent' = InSent \union {timer} /\ InQueue' = InQueue
    BY <2>1, <2>2 DEF InSent, InQueue
  <2>4. None \notin InSent' \union InQueue'
    BY <1>1, <2>3, PublishingAssumption, PipelineDone DEF AlertInv
  <2>5. \A i, j \in 1..Len(sent') : sent'[i] = sent'[j] => i = j
    BY <2>2 DEF AlertInv, TokenInv, InSent
  <2>6. TokenInv'
    BY <1>1, <1>2, <2>3, <2>4, <2>5 DEF AlertInv, TokenInv
  <2>7. AlertCoversUpdate'
    BY <2>1, <2>2 DEF AlertCoversUpdate, Underway, Last
  <2> QED
    BY <2>6, <2>7 DEF AlertInv
<1>4. CASE ~online
  <2>1. queue' = Append(queue, timer) /\ UNCHANGED <<publishing, sent>>
    BY <1>4 DEF TimerFires
  <2>2. /\ Len(queue') = Len(queue) + 1 /\ queue'[Len(queue')] = timer
        /\ \A i \in 1..Len(queue) : queue'[i] = queue[i]
        /\ Len(queue) \in Nat
    BY <1>1, <2>1
  <2>3. InQueue' = InQueue \union {timer} /\ InSent' = InSent
    BY <2>1, <2>2 DEF InSent, InQueue
  <2>4. None \notin InSent' \union InQueue'
    BY <1>1, <2>3, PublishingAssumption, PipelineDone DEF AlertInv
  <2>5. TokenInv'
    BY <1>1, <1>2, <2>1, <2>3, <2>4 DEF AlertInv, TokenInv
  <2>6. AlertCoversUpdate'
    BY <1>1, <2>1 DEF AlertInv, AlertCoversUpdate, Underway
  <2> QED
    BY <2>5, <2>6 DEF AlertInv
<1> QED
  BY <1>3, <1>4

LEMMA AlertAnswered ==
  ASSUME PublishInv, AlertInv, NEW i \in 1..Len(sent),
         ServerAccepts(i) \/ UpdateFails(i)
  PROVE  AlertInv'
<1>1. /\ sent' = RemoveAt(sent, i) /\ UNCHANGED <<pc, timer, queue, publishing, reloads>>
      /\ \E b \in BOOLEAN : answers' = answers \union {[by |-> sent[i], success |-> b]}
  BY DEF ServerAccepts, UpdateFails, calls
<1>2. /\ sent \in Seq(Writers) /\ Len(sent) \in Nat /\ faults \in Nat
  BY DEF PublishInv, TypeOK
<1>3. /\ sent' \in Seq(Writers)
      /\ Len(sent') = Len(sent) - 1
      /\ \A j \in 1..(Len(sent) - 1) :
           sent'[j] = IF j < i THEN sent[j] ELSE sent[j + 1]
  BY <1>1, <1>2, RemoveAtProperties
<1>4. \A j, k \in 1..Len(sent) : sent[j] = sent[k] => j = k
  BY DEF AlertInv, TokenInv
<1>5. Answered' = Answered \union {sent[i]} /\ InQueue' = InQueue
  <2>1. PICK b \in BOOLEAN :
          answers' = answers \union {[by |-> sent[i], success |-> b]}
    BY <1>1
  <2>2. [by |-> sent[i], success |-> b].by = sent[i]
    OBVIOUS
  <2>3. Answered' = Answered \union {sent[i]}
    BY <2>1, <2>2 DEF Answered
  <2> QED
    BY <1>1, <2>3 DEF InQueue
<1>6. InSent' = InSent \ {sent[i]} /\ sent[i] \in InSent
  <2>1. InSent' \subseteq InSent \ {sent[i]}
    <3> SUFFICES ASSUME NEW j \in 1..Len(sent')
                 PROVE  \E k \in 1..Len(sent) : sent'[j] = sent[k] /\ k # i
      BY <1>4 DEF InSent
    <3> QED
      BY <1>1, SentKept
  <2>2. InSent \ {sent[i]} \subseteq InSent'
    <3> SUFFICES ASSUME NEW k \in 1..Len(sent), k # i
                 PROVE  \E j \in 1..Len(sent') : sent'[j] = sent[k]
      BY DEF InSent
    <3>1. CASE k < i
      BY <1>2, <1>3, <3>1
    <3>2. CASE k > i
      <4>1. k - 1 \in 1..Len(sent') /\ sent'[k - 1] = sent[k]
        BY <1>2, <1>3, <3>2
      <4> QED
        BY <4>1
    <3> QED
      BY <3>1, <3>2
  <2> QED
    BY <2>1, <2>2 DEF InSent
<1>7. \A j, k \in 1..Len(sent') : sent'[j] = sent'[k] => j = k
  BY <1>2, <1>3, <1>4
<1>8. \A a \in answers' : pc'[a.by] = "done"
  BY <1>1 DEF AlertInv, TokenInv, PublishInv, KnownInv, Ready
<1>9. TokenInv'
  BY <1>1, <1>5, <1>6, <1>7, <1>8 DEF AlertInv, TokenInv
<1>10. publishing' # None => Underway(publishing)'
  <2>1. publishing # None => publishing \in InSent \union Answered
    BY DEF AlertInv, AlertCoversUpdate, Underway, InSent, Answered
  <2>2. publishing # None => publishing' \in InSent' \union Answered'
    BY <1>1, <1>5, <1>6, <2>1
  <2> QED
    BY <1>1, <2>2 DEF Underway, InSent, Answered
<1>11. ASSUME faults' = 0, reloads' = 0, sent' # << >>
       PROVE  publishing' = Last(sent')
  <2>1. faults = 0 /\ i = 1
    BY <1>2, <1>11 DEF ServerAccepts, UpdateFails, Fault
  <2>2. Len(sent') \in 1..(Len(sent) - 1) /\ sent # << >>
    BY <1>2, <1>3, <1>11
  <2>3. sent'[Len(sent')] = sent[Len(sent)]
    BY <1>2, <1>3, <2>1, <2>2
  <2> QED
    BY <1>1, <1>11, <2>1, <2>2, <2>3 DEF AlertInv, AlertCoversUpdate, Last
<1> QED
  BY <1>9, <1>10, <1>11 DEF AlertInv, AlertCoversUpdate

LEMMA AlertAnswerArrives ==
  ASSUME PublishInv, AlertInv, NEW a \in answers, AnswerArrives(a)
  PROVE  AlertInv'
<1>1. /\ answers' = answers \ {a}
      /\ UNCHANGED <<sent, queue, timer, pc, faults, reloads>>
  BY DEF AnswerArrives, calls, bounds
<1>2. InSent' = InSent /\ InQueue' = InQueue /\ Answered' \subseteq Answered
  BY <1>1 DEF InSent, InQueue, Answered
<1>3. TokenInv'
  BY <1>1, <1>2 DEF AlertInv, TokenInv
<1>4. CASE publishing = a.by
  <2>1. publishing' = None
    BY <1>4 DEF AnswerArrives, IsPublishing
  <2>2. a.by \notin InSent
    BY DEF AlertInv, TokenInv, Answered
  <2>3. sent # << >> => Last(sent) \in InSent
    BY DEF Last, InSent, PublishInv, TypeOK
  <2>4. AlertCoversUpdate'
    BY <1>1, <1>4, <2>1, <2>2, <2>3 DEF AlertInv, AlertCoversUpdate
  <2> QED
    BY <1>3, <2>4 DEF AlertInv
<1>5. CASE publishing # a.by
  <2>1. publishing' = publishing
    BY <1>5 DEF AnswerArrives, IsPublishing
  <2>2. Underway(publishing) => Underway(publishing)'
    BY <1>1, <1>5, <2>1 DEF Underway
  <2>3. AlertCoversUpdate'
    BY <1>1, <2>1, <2>2 DEF AlertInv, AlertCoversUpdate
  <2> QED
    BY <1>3, <2>3 DEF AlertInv
<1> QED
  BY <1>4, <1>5

LEMMA AlertGoOnline ==
  ASSUME PublishInv, AlertInv, GoOnline PROVE AlertInv'
<1>1. /\ queue' = << >> /\ PublishHooks(queue)
      /\ UNCHANGED <<sent, answers, publishing, pc, faults, reloads>>
  BY DEF GoOnline, calls, link, bounds
<1>2. InSent' = InSent /\ InQueue' = {} /\ Answered' = Answered
  BY <1>1 DEF InSent, InQueue, Answered
<1>3. timer' = timer \/ timer' \in InQueue
  <2>1. queue # << >> => Len(queue) \in 1..Len(queue)
    BY DEF PublishInv, TypeOK
  <2> QED
    BY <1>1, <2>1 DEF PublishHooks, Last, InQueue
<1>4. TokenInv'
  BY <1>1, <1>2, <1>3 DEF AlertInv, TokenInv
<1>5. AlertCoversUpdate'
  BY <1>1 DEF AlertInv, AlertCoversUpdate, Underway
<1> QED
  BY <1>4, <1>5 DEF AlertInv

LEMMA AlertReload ==
  ASSUME PublishInv, AlertInv, Reload PROVE AlertInv'
<1>1. /\ timer' = None /\ queue' = << >> /\ publishing' = None /\ answers' = {}
      /\ sent' = sent /\ reloads' = reloads + 1 /\ reloads \in Nat
  BY DEF Reload, PublishInv, TypeOK
<1>2. InSent' = InSent /\ InQueue' = {} /\ Answered' = {}
  BY <1>1 DEF InSent, InQueue, Answered
<1>3. None \notin InSent
  BY PipelineDone DEF AlertInv
<1>4. TokenInv'
  BY <1>1, <1>2, <1>3 DEF AlertInv, TokenInv
<1>5. reloads' # 0
  BY <1>1
<1>6. AlertCoversUpdate'
  BY <1>1, <1>5 DEF AlertCoversUpdate
<1> QED
  BY <1>4, <1>6 DEF AlertInv

LEMMA AlertStep == ASSUME PublishInv, AlertInv, [Next]_vars PROVE AlertInv'
<1>1. ASSUME NEW w \in Writers, StartWrite(w) \/ EndWrite(w) \/ BeginPublish(w)
      PROVE  AlertInv'
  BY <1>1, AlertSame DEF StartWrite, EndWrite, BeginPublish, link, bounds,
                         PublishInv, TypeOK
<1>2. CASE SaveLog
  BY <1>2, AlertSame DEF SaveLog, calls, link, bounds
<1>3. CASE GoOffline
  BY <1>3, AlertSame DEF GoOffline, calls, link
<1>4. CASE OtherDevice
  BY <1>4, AlertSame DEF OtherDevice, Fault, calls, PublishInv, TypeOK
<1>5. CASE UNCHANGED vars
  BY <1>5, AlertSame DEF vars, calls, link, bounds
<1> QED
  BY <1>1, <1>2, <1>3, <1>4, <1>5, AlertEndPublish, AlertTimerFires,
     AlertAnswered, AlertAnswerArrives, AlertGoOnline, AlertReload
  DEF Next, System

(* While the page is open, this._publishing never sticks to an update that *)
(* is over, and as long as updates are answered in order it is the last    *)
(* one on its way to the server: leaving the page then asks the user.      *)
THEOREM AlertIsAccurate == Spec => []AlertCoversUpdate
<1>1. Init => AlertInv
  <2> SUFFICES ASSUME Init PROVE AlertInv
    OBVIOUS
  <2>1. TokenInv
    BY DEF Init, TokenInv, InSent, InQueue, Answered
  <2>2. AlertCoversUpdate
    BY DEF Init, AlertCoversUpdate
  <2> QED
    BY <2>1, <2>2 DEF AlertInv
<1>2. AlertInv => AlertCoversUpdate
  BY DEF AlertInv
<1> QED
  BY <1>1, <1>2, AlertStep, PublishInvariant, PTL DEF Spec
=============================================================================
