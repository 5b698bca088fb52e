------------------------- MODULE Extension_proofs -------------------------
(***************************************************************************)
(* Proofs about Extension: events are forwarded once and only while the    *)
(* extension is connected, and messages show the program as it was when    *)
(* the event came, for any number of extensions, users, calls and events.  *)
(***************************************************************************)
EXTENDS Extension, TLAPS

-----------------------------------------------------------------------------
(* TYPES *)

User == Users \union {None}
Id == Extensions \union {None}
Events == {"create", "destroy", "local-change", "publish"}
Stages == {"state", "post"}

CallRecord ==
  [type : Calls, id : Extensions, n : Nat, user : User, root : Nat \union {None}, stage : Stages]

ForwardRecord ==
  [type : Events, id : Id, n : Nat, user : User, root : Nat \union {None}, stage : Stages,
   handler : Nat, was : User, since : Nat, connected : BOOLEAN, missed : BOOLEAN]

TypeOK ==
  /\ session \in User /\ first \in User /\ known \in User
  /\ connection \in [id : Id, connected : BOOLEAN] /\ bound \in Id
  /\ listeners \in Nat \union {None} /\ handlers \subseteq Nat
  /\ running \subseteq CallRecord \union ForwardRecord /\ posted \subseteq ForwardRecord
  /\ root \in Nat /\ calls \in Nat /\ events \in Nat /\ missed \in BOOLEAN

(* What a state that was gathered adds to a call or a handler. *)
WithRoot(c, r) == [c EXCEPT !.stage = "post", !.root = r]

LEMMA WithRootType ==
  ASSUME NEW c \in CallRecord \union ForwardRecord, NEW r \in Nat \union {None}
  PROVE  /\ c \in CallRecord => WithRoot(c, r) \in CallRecord
         /\ c \in ForwardRecord =>
              /\ WithRoot(c, r) \in ForwardRecord
              /\ WithRoot(c, r).was = c.was /\ WithRoot(c, r).since = c.since
              /\ WithRoot(c, r).connected = c.connected /\ WithRoot(c, r).missed = c.missed
         /\ WithRoot(c, r).type = c.type /\ WithRoot(c, r).n = c.n
         /\ WithRoot(c, r).user = c.user /\ WithRoot(c, r).root = r
         /\ WithRoot(c, r).stage = "post"
<1>1. CASE c \in CallRecord
  BY <1>1 DEF CallRecord, ForwardRecord, WithRoot, Stages, Calls, Events
<1>2. CASE c \in ForwardRecord
  BY <1>2 DEF CallRecord, ForwardRecord, WithRoot, Stages, Calls, Events
<1> QED
  BY <1>1, <1>2

LEMMA GatheredRoot ==
  ASSUME TypeOK, NEW c \in running, Gathered(c)
  PROVE  \E r \in Nat \union {None} :
           /\ running' = (running \ {c}) \union {WithRoot(c, r)}
           /\ r = None \/ (c.user # None /\ r = root)
BY DEF TypeOK, Gathered, LookedUp, WithRoot

(* Emit adds a record for every handler, all of the event's number. *)
LEMMA EmitAdds ==
  ASSUME TypeOK, TypeOK', NEW type \in Events, NEW user, Emit(type, user)
  PROVE  LET f(h) == Forwarding(h, type, events', known')
         IN /\ running' = running \union {f(h) : h \in handlers}
            /\ \A h \in handlers :
                 /\ f(h) \in ForwardRecord /\ f(h).type \notin Calls
                 /\ f(h).n = events + 1 /\ f(h).stage = "state"
                 /\ f(h).connected = connection.connected /\ f(h).missed = missed'
                 /\ f(h).user = known' /\ f(h).was = session' /\ f(h).since = root
BY DEF TypeOK, Emit, Forwarding, ForwardRecord, Calls, Events, Stages

LEMMA TypeStep == ASSUME TypeOK, [Next]_vars PROVE TypeOK'
<1> USE DEF TypeOK
<1>1. ASSUME NEW type \in Events, NEW user \in User, Emit(type, user),
             session' \in User, missed' \in BOOLEAN
      PROVE  TypeOK'
  <2>1. known' \in User
    BY <1>1 DEF Emit, Heard, User
  <2>2. ASSUME NEW h \in handlers PROVE Forwarding(h, type, events', known') \in ForwardRecord
    <3>1. events' \in Nat /\ h \in Nat /\ connection.connected \in BOOLEAN
      BY <1>1 DEF Emit
    <3> QED
      BY <1>1, <2>1, <3>1, Zenon DEF Forwarding, ForwardRecord, Stages
  <2> QED
    BY <1>1, <2>1, <2>2 DEF Emit
<1>2. CASE UpdateRoot
  BY <1>2 DEF UpdateRoot, config
<1>3. ASSUME NEW type \in Calls, NEW id \in Extensions, Call(type, id) PROVE TypeOK'
  BY <1>3 DEF Call, Gathering, CallRecord, Stages, config
<1>4. ASSUME NEW c \in running, Gathered(c) PROVE TypeOK'
  <2>1. PICK r \in Nat \union {None} : running' = (running \ {c}) \union {WithRoot(c, r)}
    BY <1>4, GatheredRoot
  <2>2. WithRoot(c, r) \in CallRecord \union ForwardRecord
    BY WithRootType
  <2> QED
    BY <1>4, <2>1, <2>2 DEF Gathered, config
<1>5. ASSUME NEW c \in running, GatheringFails(c) PROVE TypeOK'
  BY <1>5 DEF GatheringFails, config
<1>6. ASSUME NEW c \in running, Post(c) PROVE TypeOK'
  BY <1>6 DEF Post, config, CallRecord, ForwardRecord
<1>7. ASSUME NEW c \in running, Connected(c) PROVE TypeOK'
  <2>1. c \in CallRecord
    BY <1>7 DEF Connected, ForwardRecord, Events
  <2> QED
    BY <1>7, <2>1 DEF Connected, Listen, AddListener, CallRecord, Id
<1>8. ASSUME NEW c \in running, Disconnected(c) PROVE TypeOK'
  <2>1. c \in CallRecord
    BY <1>8 DEF Disconnected, ForwardRecord, Events
  <2> QED
    BY <1>8, <2>1 DEF Disconnected, RemoveListener, CallRecord, Id, config
<1>9. CASE UNCHANGED vars
  BY <1>9 DEF vars, config
<1> HIDE DEF TypeOK
<1>10. ASSUME NEW user \in Users, Create(user) PROVE TypeOK'
  BY <1>10, <1>1 DEF Create, User, Events
<1>11. CASE Destroy
  BY <1>11, <1>1 DEF Destroy, User, Events, TypeOK
<1>12. ASSUME NEW type \in {"local-change", "publish"}, FileSystem(type) PROVE TypeOK'
  BY <1>12, <1>1 DEF FileSystem, User, Events, TypeOK
<1> QED
  BY <1>2, <1>3, <1>4, <1>5, <1>6, <1>7, <1>8, <1>9, <1>10, <1>11, <1>12 DEF Next

(* Every variable has its type (extension/index.ts). *)
THEOREM TypeCorrect == Spec => []TypeOK
<1>1. Init => TypeOK
  <2> SUFFICES ASSUME Init PROVE TypeOK
    OBVIOUS
  <2>1. missed \in BOOLEAN /\ connection \in [id : Id, connected : BOOLEAN]
    BY Zenon DEF Init, Id
  <2> QED
    BY <2>1 DEF Init, TypeOK, User, Id
<1> QED
  BY <1>1, TypeStep, PTL DEF Spec

-----------------------------------------------------------------------------
(* ONCE *)

(* Handlers are made once: there is one at most, that which create          *)
(* remembers, and it is registered only while the extension is connected.   *)
Listening ==
  /\ handlers \subseteq {listeners} /\ (listeners = None => handlers = {})
  /\ handlers # {} => connection.connected

(* No event has come that is newer than the last, and a handler that runs   *)
(* has not posted its message yet.                                          *)
Pending ==
  /\ \A c \in Forwards : c.n <= events
  /\ running \cap posted = {}
  /\ \A c \in posted : c.type \notin Calls

OnceInv == Listening /\ Pending /\ ForwardedOnce

LEMMA OnceStep == ASSUME TypeOK, TypeOK', OnceInv, [Next]_vars PROVE OnceInv'
<1> USE DEF OnceInv, Listening, Pending, ForwardedOnce, Forwards
<1>1. ASSUME NEW type \in Events, NEW user, Emit(type, user) PROVE OnceInv'
  <2> DEFINE f(h) == Forwarding(h, type, events', known')
  <2>1. /\ running' = running \union {f(h) : h \in handlers}
        /\ \A h \in handlers : /\ f(h).type \notin Calls /\ f(h).n = events + 1
                               /\ f(h).connected = connection.connected
    BY <1>1, EmitAdds
  <2>2. /\ events' = events + 1 /\ events \in Nat
        /\ UNCHANGED <<listeners, handlers, connection, posted>>
    BY <1>1 DEF Emit, TypeOK
  <2> HIDE DEF f
  <2>3. \A c \in Forwards' : c \in Forwards \/ \E h \in handlers : c = f(h)
    BY <2>1, <2>2
  <2>4. \A c \in Forwards : c.n \in Nat /\ c.n <= events
    BY DEF TypeOK, CallRecord, ForwardRecord
  <2>5. \A h \in handlers : f(h).n = events + 1 /\ f(h).connected /\ f(h) \notin Forwards
    BY <2>1, <2>2, <2>4
  <2>6. \A g, h \in handlers : g = h
    OBVIOUS
  <2>7. running' \cap posted' = {}
    BY <2>1, <2>2, <2>5
  <2>8. \A c \in Forwards' : c.n <= events'
    BY <2>2, <2>3, <2>4, <2>5
  <2>9. \A c \in Forwards' : c.connected
    BY <2>3, <2>5
  <2>10. \A c, d \in Forwards' : c.n = d.n => c = d
    <3> SUFFICES ASSUME NEW c \in Forwards', NEW d \in Forwards', c.n = d.n PROVE c = d
      OBVIOUS
    <3>1. CASE c \in Forwards
      <4>1. d \in Forwards
        BY <3>1, <2>2, <2>3, <2>4, <2>5
      <4> QED
        BY <3>1, <4>1
    <3>2. CASE c \notin Forwards
      <4>1. d \notin Forwards
        BY <3>2, <2>2, <2>3, <2>4, <2>5
      <4> QED
        BY <3>2, <4>1, <2>3, <2>6
    <3> QED
      BY <3>1, <3>2
  <2> QED
    BY <2>2, <2>7, <2>8, <2>9, <2>10
<1>2. CASE UpdateRoot
  BY <1>2 DEF UpdateRoot, config
<1>3. ASSUME NEW type \in Calls, NEW id \in Extensions, Call(type, id) PROVE OnceInv'
  BY <1>3 DEF Call, Gathering, config, Calls
<1>4. ASSUME NEW c \in running, Gathered(c) PROVE OnceInv'
  <2>1. PICK r \in Nat \union {None} : running' = (running \ {c}) \union {WithRoot(c, r)}
    BY <1>4, GatheredRoot
  <2> DEFINE w == WithRoot(c, r)
  <2>2. running' = (running \ {c}) \union {w} /\ w.type = c.type /\ w.n = c.n
    BY <2>1, WithRootType DEF TypeOK
  <2>21. c.type \notin Calls => c \in ForwardRecord
    BY DEF TypeOK, CallRecord
  <2>22. c.type \notin Calls => w.connected = c.connected
    BY <2>21, WithRootType, Zenon
  <2>3. UNCHANGED <<listeners, handlers, connection, posted, events>>
    BY <1>4 DEF Gathered
  <2> HIDE DEF w
  <2>4. \A d \in posted : d.n = w.n /\ w.type \notin Calls => FALSE
    BY <2>2
  <2>5. running' \cap posted' = {}
    BY <2>2, <2>3, <2>4
  <2>6. \A d \in Forwards' : d \in Forwards \ {c} \/ (d = w /\ c \in Forwards)
    BY <2>2, <2>3, <2>5
  <2> QED
    BY <2>2, <2>22, <2>3, <2>5, <2>6
<1>5. ASSUME NEW c \in running, GatheringFails(c) PROVE OnceInv'
  BY <1>5 DEF GatheringFails, config
<1>6. ASSUME NEW c \in running, Post(c) PROVE OnceInv'
  BY <1>6 DEF Post, config
<1>7. ASSUME NEW c \in running, Connected(c) PROVE OnceInv'
  <2>1. c.n # None
    BY ExtensionAssumption DEF TypeOK, CallRecord, ForwardRecord
  <2> QED
    BY <1>7, <2>1 DEF Connected, Listen, AddListener, Calls
<1>8. ASSUME NEW c \in running, Disconnected(c) PROVE OnceInv'
  BY <1>8 DEF Disconnected, RemoveListener, config, Calls
<1>9. CASE UNCHANGED vars
  BY <1>9 DEF vars
<1> HIDE DEF OnceInv
<1> QED
  BY <1>1, <1>2, <1>3, <1>4, <1>5, <1>6, <1>7, <1>8, <1>9
  DEF Next, Create, Destroy, FileSystem, Events

(* An event is forwarded once at most, and only while the extension is      *)
(* connected (extension/index.ts:39-49).                                    *)
THEOREM EventsAreForwardedOnce == Spec => []ForwardedOnce
<1>1. Init => OnceInv
  BY DEF Init, OnceInv, Listening, Pending, ForwardedOnce, Forwards
<1>2. OnceInv => ForwardedOnce
  BY DEF OnceInv
<1> QED
  BY <1>1, <1>2, OnceStep, TypeCorrect, PTL DEF Spec

-----------------------------------------------------------------------------
(* TRUTH *)

(* What handlers know of the session is right unless they have missed an    *)
(* event, and so is what those know that are yet to be made.                *)
Informed == ~missed => session = IF listeners = None THEN first ELSE known

(* What a handler has gathered is true of its event already. *)
TruthInv ==
  /\ Informed
  /\ listeners = None => handlers = {}
  /\ \A m \in Forwards :
       /\ ~m.missed => m.user = m.was
       /\ m.since <= root
       /\ m.stage = "post" /\ m.root # None => m.user # None /\ m.root >= m.since
  /\ \A m \in posted : m.stage = "post" /\ m.type \notin Calls

LEMMA TruthStep == ASSUME TypeOK, TypeOK', TruthInv, [Next]_vars PROVE TruthInv'
<1> USE DEF TruthInv, Informed, Forwards
<1>1. ASSUME NEW type \in Events, NEW user \in User, Emit(type, user),
             handlers = {} => Informed',
             handlers # {} => (~missed' => session' = known')
      PROVE  TruthInv'
  <2> DEFINE f(h) == Forwarding(h, type, events', known')
  <2>1. /\ running' = running \union {f(h) : h \in handlers}
        /\ \A h \in handlers :
             /\ f(h).stage = "state" /\ f(h).missed = missed'
             /\ f(h).user = known' /\ f(h).was = session' /\ f(h).since = root
    BY <1>1, EmitAdds
  <2>2. UNCHANGED <<listeners, handlers, posted, root, first>> /\ root \in Nat
    BY <1>1 DEF Emit, TypeOK
  <2> HIDE DEF f
  <2>3. \A c \in Forwards' : c \in Forwards \/ \E h \in handlers : c = f(h)
    BY <2>1, <2>2
  <2>4. Informed'
    BY <1>1, <2>2
  <2>5. \A h \in handlers : ~f(h).missed => f(h).user = f(h).was
    BY <1>1, <2>1
  <2>6. \A h \in handlers : f(h).since <= root /\ f(h).stage # "post"
    BY <2>1, <2>2
  <2> QED
    BY <2>2, <2>3, <2>4, <2>5, <2>6
<1>2. CASE UpdateRoot
  <2>1. /\ UNCHANGED <<session, first, known, listeners, handlers, running, posted, missed>>
        /\ root' = root + 1 /\ root \in Nat
    BY <1>2 DEF UpdateRoot, config, TypeOK
  <2>2. \A m \in Forwards : m.since \in Nat
    BY DEF TypeOK, CallRecord, ForwardRecord, Calls, Events
  <2> QED
    BY <2>1, <2>2
<1>3. ASSUME NEW type \in Calls, NEW id \in Extensions, Call(type, id) PROVE TruthInv'
  BY <1>3 DEF Call, Gathering, config, Calls
<1>4. ASSUME NEW c \in running, Gathered(c) PROVE TruthInv'
  <2>1. PICK r \in Nat \union {None} :
          /\ running' = (running \ {c}) \union {WithRoot(c, r)}
          /\ r = None \/ (c.user # None /\ r = root)
    BY <1>4, GatheredRoot
  <2> DEFINE w == WithRoot(c, r)
  <2>2. /\ running' = (running \ {c}) \union {w}
        /\ w.type = c.type /\ w.user = c.user /\ w.root = r
        /\ c.type \notin Calls =>
             w.missed = c.missed /\ w.was = c.was /\ w.since = c.since /\ c.since \in Nat
    BY <2>1, WithRootType DEF TypeOK, CallRecord, ForwardRecord
  <2>3. UNCHANGED <<session, first, known, missed, listeners, handlers, posted, root>>
        /\ root \in Nat
    BY <1>4 DEF Gathered, config, TypeOK
  <2> HIDE DEF w
  <2>4. \A d \in Forwards' : d \in Forwards \/ (d = w /\ c \in Forwards)
    BY <2>2, <2>3
  <2>5. c \in Forwards =>
          /\ ~w.missed => w.user = w.was
          /\ w.since <= root
          /\ w.root # None => w.user # None /\ w.root >= w.since
    BY <2>1, <2>2, <2>3
  <2> QED
    BY <2>3, <2>4, <2>5
<1>5. ASSUME NEW c \in running, GatheringFails(c) PROVE TruthInv'
  BY <1>5 DEF GatheringFails, config
<1>6. ASSUME NEW c \in running, Post(c) PROVE TruthInv'
  BY <1>6 DEF Post, config
<1>7. ASSUME NEW c \in running, Connected(c) PROVE TruthInv'
  <2>1. c.n # None
    BY ExtensionAssumption DEF TypeOK, CallRecord, ForwardRecord
  <2> QED
    BY <1>7, <2>1 DEF Connected, Listen, AddListener, Calls
<1>8. ASSUME NEW c \in running, Disconnected(c) PROVE TruthInv'
  BY <1>8 DEF Disconnected, RemoveListener, config, Calls
<1>9. CASE UNCHANGED vars
  BY <1>9 DEF vars, config
<1>10. ASSUME NEW user \in Users, Create(user) PROVE TruthInv'
  <2>1. Emit("create", user) /\ missed' = (handlers = {}) /\ session' = user
    BY <1>10 DEF Create
  <2>2. handlers # {} => known' = user
    BY <2>1 DEF Emit, Heard
  <2> QED
    BY <1>1, <2>1, <2>2 DEF User, Events
<1>11. CASE Destroy
  <2>1. Emit("destroy", session) /\ missed' = (handlers = {}) /\ session' = None
    BY <1>11 DEF Destroy
  <2>2. handlers # {} => known' = None
    BY <2>1 DEF Emit, Heard
  <2> QED
    BY <1>1, <2>1, <2>2 DEF User, Events, TypeOK
<1>12. ASSUME NEW type \in {"local-change", "publish"}, FileSystem(type) PROVE TruthInv'
  <2>1. Emit(type, None) /\ session' = session /\ missed' = missed
    BY <1>12 DEF FileSystem
  <2>2. known' = known /\ listeners' = listeners /\ first' = first
    BY <2>1 DEF Emit, Heard
  <2> QED
    BY <1>1, <2>1, <2>2 DEF User, Events
<1> HIDE DEF TruthInv
<1> QED
  BY <1>2, <1>3, <1>4, <1>5, <1>6, <1>7, <1>8, <1>9, <1>10, <1>11, <1>12 DEF Next

(* A message shows the user at the time of its event, unless a session      *)
(* event was missed, and no data root, or one of that user no older than    *)
(* the event (extension/index.ts:103-170, getState; a failed lookup says    *)
(* null, fission/data-root.ts:55-60).                                       *)
THEOREM MessagesAreTruthful == Spec => []MessagesAreTrue
<1>1. Init => TruthInv
  BY DEF Init, TruthInv, Informed, Forwards, config
<1>2. TruthInv => MessagesAreTrue
  BY DEF TruthInv, MessagesAreTrue, Forwards
<1> QED
  BY <1>1, <1>2, TruthStep, TypeCorrect, PTL DEF Spec
=============================================================================
