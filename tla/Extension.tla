----------------------------- MODULE Extension -----------------------------
(***************************************************************************)
(* The bridge to a browser extension (src/src/extension/index.ts, with     *)
(* src/src/common/event-emitter.ts): an extension connects to the program  *)
(* and disconnects, and while it is connected the events of the program    *)
(* are posted to it.                                                       *)
(*                                                                         *)
(* Whatever is posted takes a state along that is gathered in several      *)
(* awaits: the session is looked at first, and the data root of its user   *)
(* is looked up last.  So calls and handlers of events overlap, in any     *)
(* order.  `listen' closes over the connection and the configuration it is *)
(* given, and its handlers replace the session in their own copy only.     *)
(*                                                                         *)
(* A data root is a number that grows.  The agent's and the account's DID, *)
(* the time and the app's name in a message are left out.                  *)
(***************************************************************************)
EXTENDS Naturals

CONSTANTS
  Extensions,  \* ids of extensions
  Users,       \* user names
  MaxCalls,    \* bound: number of calls by extensions
  MaxEvents,   \* bound: number of events
  MaxRoots,    \* bound: number of times that the data root is updated
  None

ASSUME ExtensionAssumption ==
  MaxCalls \in Nat /\ MaxEvents \in Nat /\ MaxRoots \in Nat /\ None \notin Users \union Nat

VARIABLES
  session,     \* user of the latest session, or None when it was destroyed
  first,       \* the session when the program was assembled: config.session
  known,       \* the session in the configuration that the handlers have
  connection,  \* of the closure of create
  bound,       \* id in the connection that the handlers have
  listeners,   \* the handlers that create remembers, or None
  handlers,    \* the handlers that the emitters call
  running,     \* calls and handlers that have not ended
  posted,      \* history: messages about events
  root,        \* data root
  calls, events,
  missed       \* history: a session event has come while nobody listened

config == <<first, known, bound>>
vars == <<session, config, connection, listeners, handlers, running, posted, root,
          calls, events, missed>>

Init ==
  /\ session \in Users \union {None} /\ first = session /\ known = session
  /\ connection = [id |-> None, connected |-> FALSE] /\ bound = None
  /\ listeners = None /\ handlers = {}
  /\ running = {} /\ posted = {} /\ root = 0
  /\ calls = 0 /\ events = 0 /\ missed = FALSE

(* getState is called: what it knows of the session is settled now. *)
Gathering(type, id, n, user) ==
  [type |-> type, id |-> id, n |-> n, user |-> user, root |-> None, stage |-> "state"]

(* The same for a handler, with the history of the event: the session and  *)
(* the data root at its time.                                              *)
Forwarding(h, type, n, user) ==
  [type |-> type, id |-> bound, n |-> n, user |-> user, root |-> None, stage |-> "state",
   handler |-> h, was |-> session', since |-> root, connected |-> connection.connected,
   missed |-> missed']

-----------------------------------------------------------------------------
(* Events. *)

(* Mutant: the handler of session:destroy keeps its session. *)
HeardSession(type, user) == IF type = "create" THEN user ELSE known

(* The session in the handlers' configuration, once they have begun. *)
Heard(type, user) ==
  CASE type = "create" -> user
    [] type = "destroy" -> None
    [] OTHER -> known

(* Each handler that is registered begins to gather the state. *)
Emit(type, user) ==
  /\ events < MaxEvents /\ events' = events + 1
  /\ known' = IF handlers = {} THEN known ELSE Heard(type, user)
  /\ running' = running \union {Forwarding(h, type, events', known') : h \in handlers}
  /\ UNCHANGED <<first, bound, connection, listeners, handlers, posted, root, calls>>

(* new Session: session:create, of auth.session() more than once. *)
Create(user) ==
  /\ session' = user
  /\ missed' = (handlers = {})
  /\ Emit("create", user)

(* Session.destroy: session:destroy. *)
Destroy ==
  /\ session # None /\ session' = None
  /\ missed' = (handlers = {})
  /\ Emit("destroy", session)

(* fileSystem:local-change and fileSystem:publish, with a session or not. *)
FileSystem(type) ==
  /\ UNCHANGED <<session, missed>>
  /\ Emit(type, None)

(* The data root is updated, by this device or another. *)
UpdateRoot ==
  /\ root < MaxRoots /\ root' = root + 1
  /\ UNCHANGED <<session, config, connection, listeners, handlers, running, posted,
                 calls, events, missed>>

-----------------------------------------------------------------------------
(* Calls of the extension, with the configuration of create. *)
Call(type, id) ==
  /\ calls < MaxCalls /\ calls' = calls + 1
  /\ running' = running \union {Gathering(type, id, calls', first)}
  /\ UNCHANGED <<session, config, connection, listeners, handlers, posted, root, events, missed>>

(* dataRoot.lookup: what cannot be fetched or read is null.                *)
LookedUp == {root, None}

(* The state is there: the data root is looked up for a user only. *)
Gathered(c) ==
  /\ c.stage = "state"
  /\ \E r \in IF c.user = None THEN {None} ELSE LookedUp :
       running' = (running \ {c}) \union {[c EXCEPT !.stage = "post", !.root = r]}
  /\ UNCHANGED <<session, config, connection, listeners, handlers, posted, root, calls,
                 events, missed>>

(* A DID cannot be had: the call or the handler is rejected. *)
GatheringFails(c) ==
  /\ c.stage = "state"
  /\ running' = running \ {c}
  /\ UNCHANGED <<session, config, connection, listeners, handlers, posted, root, calls,
                 events, missed>>

(* The message is posted; a handler has ended. *)
Calls == {"connect", "disconnect"}
Post(c) ==
  /\ c.stage = "post" /\ c.type \notin Calls
  /\ running' = running \ {c}
  /\ posted' = posted \union {c}
  /\ UNCHANGED <<session, config, connection, listeners, handlers, root, calls, events, missed>>

(* Registered for all four events; removed, if they are there. *)
AddListener(h) == handlers' = handlers \union {h}
RemoveListener(h) == handlers' = handlers \ {h}

(* New handlers, over the connection and the configuration of create. *)
Listen(c) == listeners' = c.n /\ AddListener(c.n) /\ bound' = c.id /\ known' = first

(* Mutant: every connect adds listeners. *)
ConnectedAgain(c) ==
  /\ c.stage = "post" /\ c.type = "connect"
  /\ running' = running \ {c}
  /\ connection' = [id |-> c.id, connected |-> TRUE]
  /\ Listen(c)
  /\ UNCHANGED <<session, first, posted, root, calls, events, missed>>

(* Handlers are made once for all. *)
Connected(c) ==
  /\ c.stage = "post" /\ c.type = "connect"
  /\ running' = running \ {c}
  /\ connection' = [id |-> c.id, connected |-> TRUE]
  /\ IF listeners = None THEN Listen(c) ELSE UNCHANGED <<listeners, handlers, bound, known>>
  /\ UNCHANGED <<session, first, posted, root, calls, events, missed>>

(* stopListening: create still remembers the handlers. *)
Disconnected(c) ==
  /\ c.stage = "post" /\ c.type = "disconnect"
  /\ running' = running \ {c}
  /\ connection' = [id |-> c.id, connected |-> FALSE]
  /\ RemoveListener(listeners)
  /\ UNCHANGED <<session, config, listeners, posted, root, calls, events, missed>>

Next ==
  \/ \E user \in Users : Create(user)
  \/ Destroy \/ UpdateRoot
  \/ \E type \in {"local-change", "publish"} : FileSystem(type)
  \/ \E id \in Extensions, type \in Calls : Call(type, id)
  \/ \E c \in running :
       Gathered(c) \/ GatheringFails(c) \/ Post(c) \/ Connected(c) \/ Disconnected(c)

Spec == Init /\ [][Next]_vars

-----------------------------------------------------------------------------
Forwards == {c \in running \union posted : c.type \notin Calls}

(* However calls of connect and disconnect overlap, an event is forwarded  *)
(* once at most, and none that comes while the extension is disconnected   *)
(* ("listeners should only be added once", extension/index.ts:43).         *)
ForwardedOnce ==
  /\ \A c, d \in Forwards : c.n = d.n => c = d
  /\ \A c \in Forwards : c.connected

(* A message shows the program as it was when the event came: its user, if *)
(* the handlers have not missed a session event, and no data root or one   *)
(* of that user which is not older than the event, however late it is      *)
(* posted and in whatever order (handleLocalChange, handlePublish,         *)
(* handleSessionCreate, handleSessionDestroy, getState).  A user does not  *)
(* always come with a data root: a lookup that fails says null.            *)
MessagesAreTrue ==
  \A m \in posted :
    /\ ~m.missed => m.user = m.was
    /\ m.root # None => m.user # None /\ m.root >= m.since
=============================================================================
